--------------------------- MODULE PublicationProofs ---------------------------
(***************************************************************************)
(* What the syncs of a commit and the checks of a recovery are worth,      *)
(* proved for any number of copies and any sequence of crashes.            *)
(***************************************************************************)
EXTENDS Publication, TLAPS

Data      == {"torn", "whole"}
Manifests == {"torn", "first", "touched"}

\* What the holder of the lock has done so far.
CallSoFar ==
  /\ \A c \in handled :
       /\ step \in {"manifest", "test", "tree", "rename", "rm tmp"} => tmp[c].seen
       /\ step \in {"touch", "target", "tmp", "rm target"} => target.seen = {c}
       /\ step \in {"manifest", "test", "tree", "rename", "target", "tmp"} =>
            data[c].seen = "whole" /\ manifest[c].seen # "torn"
       /\ step \in {"tree", "rename"} => target.seen = {}
       /\ step \in {"test", "tree", "rename", "target", "tmp"} => "torn" \notin manifest[c].after
       /\ step \in {"rename", "target", "tmp"} => "torn" \notin data[c].after
       /\ step \in {"target", "tmp"} => ~tmp[c].seen
       /\ step = "tmp" => target.after = {{c}}
       /\ step = "touch" => manifest[c].seen = "touched"
  /\ step \in {"tree", "rename", "target", "tmp", "rm target"} => answered = {}
  /\ ~open => step \in {"idle", "rm tmp", "rm target"}

\* Whatever is lost of an entry that is answered for, it stays what it is.
Durable ==
  \A c \in answered :
    /\ target.after = {{c}}
    /\ TRUE \notin tmp[c].after
    /\ "torn" \notin data[c].after
    /\ "torn" \notin manifest[c].after
    /\ touched => manifest[c].after \subseteq {"touched"}

\* A directory is not both staged and published while requests are served.
Apart == open => \A c \in Copies : tmp[c].seen => target.seen # {c}

Inv == TypeOK /\ CallSoFar /\ Durable /\ Apart /\ ServedWhole

-----------------------------------------------------------------------------
(* Places *)

\* What is found after a loss of power is a place, and nothing more of it is to be lost.
LEMMA LostPlaces ==
  ASSUME NEW V, NEW x \in PlaceOf(V), NEW y \in Lost(x)
  PROVE  y \in PlaceOf(V) /\ y.seen \in x.after /\ y.after = {y.seen}
<1>1. PICK v \in x.after : y = On(v)
  BY DEF Lost
<1>2. v \in V
  BY DEF PlaceOf
<1>3. QED
  BY <1>1 DEF PlaceOf, On

\* The same, of the places of all copies.
LEMMA AllLostPlaces ==
  ASSUME NEW V, NEW x \in [Copies -> PlaceOf(V)], NEW y \in AllLost(x)
  PROVE  /\ y \in [Copies -> PlaceOf(V)]
         /\ \A c \in Copies : y[c].seen \in x[c].after /\ y[c].after = {y[c].seen}
<1>1. \A c \in Copies : x[c] \in PlaceOf(V) /\ y[c] \in Lost(x[c])
  BY DEF AllLost
<1>2. \A c \in Copies : y[c] \in PlaceOf(V) /\ y[c].seen \in x[c].after /\ y[c].after = {y[c].seen}
  BY <1>1, LostPlaces
<1>3. QED
  BY <1>2 DEF AllLost

-----------------------------------------------------------------------------
\* The invariant holds at the start, of an empty cache.
LEMMA InvInit == Init => Inv
<1> SUFFICES ASSUME Init PROVE Inv
  OBVIOUS
<1>1. TypeOK
  BY DEF Init, TypeOK, PlaceOf, Names, On
<1>2. QED
  BY <1>1 DEF Init, Inv, CallSoFar, Durable, Apart, ServedWhole

\* What the invariant says of the places, in a form that the steps below use.
LEMMA Shapes ==
  ASSUME Inv
  PROVE  /\ tmp \in [Copies -> PlaceOf(BOOLEAN)] /\ target \in PlaceOf(Names)
         /\ data \in [Copies -> PlaceOf(Data)] /\ manifest \in [Copies -> PlaceOf(Manifests)]
         /\ answered \subseteq Copies /\ handled \subseteq Copies
         /\ \A c \in answered :
              /\ target.seen = {c} /\ tmp[c].seen = FALSE
              /\ data[c].seen = "whole" /\ manifest[c].seen # "torn"
              /\ touched => manifest[c].seen = "touched"
<1>1. /\ tmp \in [Copies -> PlaceOf(BOOLEAN)] /\ target \in PlaceOf(Names)
      /\ data \in [Copies -> PlaceOf(Data)] /\ manifest \in [Copies -> PlaceOf(Manifests)]
      /\ answered \in Names /\ handled \in Names
  BY DEF Inv, TypeOK, Data, Manifests
<1>2. answered \subseteq Copies /\ handled \subseteq Copies
  BY <1>1 DEF Names
<1>3. target.seen \in target.after
  BY <1>1 DEF PlaceOf
<1>4. ASSUME NEW c \in answered
      PROVE  /\ target.seen = {c} /\ tmp[c].seen = FALSE
             /\ data[c].seen = "whole" /\ manifest[c].seen # "torn"
             /\ touched => manifest[c].seen = "touched"
  <2>1. /\ tmp[c].seen \in tmp[c].after /\ tmp[c].seen \in BOOLEAN
        /\ data[c].seen \in data[c].after /\ data[c].seen \in Data
        /\ manifest[c].seen \in manifest[c].after
    BY <1>1, <1>2 DEF PlaceOf
  <2>2. /\ target.after = {{c}} /\ TRUE \notin tmp[c].after
        /\ "torn" \notin data[c].after /\ "torn" \notin manifest[c].after
        /\ touched => manifest[c].after \subseteq {"touched"}
    BY DEF Inv, Durable
  <2>3. QED
    BY <1>3, <2>1, <2>2 DEF Data
<1>5. QED
  BY <1>1, <1>2, <1>4

-----------------------------------------------------------------------------
(* Steps *)

\* A staging directory is made of a copy that no name can bring back.
LEMMA NewStagingKeeps ==
  ASSUME Inv, NEW k \in Copies, NewStaging(k)
  PROVE  Inv'
<1>1. /\ TypeOK /\ CallSoFar /\ Durable /\ Apart /\ ServedWhole
      /\ handled \in Names
  BY DEF Inv, TypeOK
<1>2. /\ tmp' \in [Copies -> PlaceOf(BOOLEAN)]
      /\ tmp'[k].seen = TRUE /\ tmp'[k].after = tmp[k].after \cup {TRUE}
      /\ \A d \in Copies : d # k => tmp'[d] = tmp[d]
  BY Shapes DEF NewStaging, PlaceOf, Put
<1>3. /\ data' \in [Copies -> PlaceOf(Data)]
      /\ data'[k].seen = "torn" /\ data'[k].after = {"torn"}
      /\ \A d \in Copies : d # k => data'[d] = data[d]
  BY Shapes DEF NewStaging, PlaceOf, On, Data
<1>4. /\ manifest' \in [Copies -> PlaceOf(Manifests)]
      /\ manifest'[k].seen = "torn" /\ manifest'[k].after = {"torn"}
      /\ \A d \in Copies : d # k => manifest'[d] = manifest[d]
  BY Shapes DEF NewStaging, PlaceOf, On, Manifests
<1>5. k \notin handled /\ target.seen # {k}
  BY <1>1 DEF NewStaging, TypeOK, PlaceOf
<1>6. k \notin answered
  BY <1>5, Shapes
<1>7. TypeOK'
  BY <1>1, <1>2, <1>3, <1>4 DEF NewStaging, Answers, call, TypeOK, Data, Manifests
<1>8. CallSoFar'
  BY DEF NewStaging, call, CallSoFar
<1>9. Durable'
  <2>0. answered' = answered /\ answered \subseteq Copies
    BY Shapes DEF NewStaging, Answers
  <2>1. \A c \in answered' : target'.after = {{c}}
    BY <1>1, <2>0 DEF NewStaging, Durable
  <2>2. \A c \in answered' : TRUE \notin tmp'[c].after
    BY <1>1, <1>6, Shapes DEF NewStaging, Answers, CallAt, Returns, places, call, Durable,
       Names
  <2>3. \A c \in answered' : "torn" \notin data'[c].after
    BY <1>1, <1>2, <1>6, <2>0, Shapes DEF NewStaging, Answers, CallSoFar, Durable
  <2>4. \A c \in answered' : "torn" \notin manifest'[c].after
    BY <1>1, <1>2, <1>6, <2>0, Shapes DEF NewStaging, Answers, CallSoFar, Durable
  <2>5. \A c \in answered' : touched' => manifest'[c].after \subseteq {"touched"}
    <3>1. touched' = touched /\ \A c \in answered : c # k /\ manifest'[c] = manifest[c]
      BY <1>6 DEF NewStaging, Answers
    <3>2. QED
      BY <1>1, <2>0, <3>1 DEF Durable
  <2>6. QED
    BY <2>1, <2>2, <2>3, <2>4, <2>5 DEF Durable
<1>10. Apart'
  BY <1>1, <1>5, Shapes DEF NewStaging, Apart
<1>11. ServedWhole'
  BY <1>1, <1>5 DEF NewStaging, call, ServedWhole, Intact
<1>12. QED
  BY <1>7, <1>8, <1>9, <1>10, <1>11 DEF Inv

\* Data are written only to a staging directory that no call is about, and so to no entry
\* that was answered for.
LEMMA DataWrittenKeeps ==
  ASSUME Inv, NEW k \in Copies, DataWritten(k)
  PROVE  Inv'
<1>1. /\ TypeOK /\ CallSoFar /\ Durable /\ Apart /\ ServedWhole
      /\ handled \in Names
  BY DEF Inv, TypeOK
<1>2. /\ data' \in [Copies -> PlaceOf(Data)]
      /\ data'[k].seen = "whole" /\ data'[k].after = data[k].after \cup {"whole"}
      /\ \A d \in Copies : d # k => data'[d] = data[d]
  BY Shapes DEF DataWritten, PlaceOf, Put, Data
<1>3. k \notin answered /\ k \notin handled
  BY Shapes DEF DataWritten
<1>4. TypeOK'
  BY <1>1, <1>2 DEF DataWritten, Answers, call, TypeOK, Data
<1>5. CallSoFar'
  BY <1>1, Shapes DEF DataWritten, Answers, call, CallSoFar
<1>6. Durable'
  <2>0. answered' = answered /\ answered \subseteq Copies
    BY Shapes DEF DataWritten, Answers
  <2>1. \A c \in answered' : target'.after = {{c}}
    BY <1>1, <2>0 DEF DataWritten, Durable
  <2>2. \A c \in answered' : TRUE \notin tmp'[c].after
    BY <1>1, <2>0 DEF DataWritten, Durable
  <2>3. \A c \in answered' : "torn" \notin data'[c].after
    BY <1>1, <1>2, <1>3, <2>0 DEF Durable
  <2>4. \A c \in answered' : "torn" \notin manifest'[c].after
    BY <1>1, <2>0 DEF DataWritten, Durable
  <2>5. \A c \in answered' : touched' => manifest'[c].after \subseteq {"touched"}
    BY <1>1 DEF DataWritten, Answers, Durable
  <2>6. QED
    BY <2>1, <2>2, <2>3, <2>4, <2>5 DEF Durable
<1>7. Apart'
  BY <1>1 DEF DataWritten, Answers, Apart
<1>8. ServedWhole'
  BY <1>1, Shapes DEF DataWritten, Answers, call, ServedWhole, Intact
<1>9. QED
  BY <1>4, <1>5, <1>6, <1>7, <1>8 DEF Inv

\* A commit writes the manifest of a staging directory.
LEMMA CommitBeginsKeeps ==
  ASSUME Inv, NEW k \in Copies, CommitBegins(k)
  PROVE  Inv'
<1>1. /\ TypeOK /\ CallSoFar /\ Durable /\ Apart /\ ServedWhole
      /\ handled \in Names
  BY DEF Inv, TypeOK
<1>2. /\ manifest' \in [Copies -> PlaceOf(Manifests)]
      /\ manifest'[k].seen = "first" /\ manifest'[k].after = manifest[k].after \cup {"first"}
      /\ \A d \in Copies : d # k => manifest'[d] = manifest[d]
  BY Shapes DEF CommitBegins, PlaceOf, Put, Manifests
<1>3. k \notin answered
  BY Shapes DEF CommitBegins
<1>4. TypeOK'
  BY <1>1, <1>2 DEF CommitBegins, Answers, CallAt, TypeOK, Names, Manifests
<1>5. CallSoFar'
  BY <1>2 DEF CommitBegins, Answers, CallAt, CallSoFar
<1>6. Durable'
  <2>0. answered' = answered /\ answered \subseteq Copies
    BY Shapes DEF CommitBegins, Answers
  <2>1. \A c \in answered' : target'.after = {{c}}
    BY <1>1, <2>0 DEF CommitBegins, Durable
  <2>2. \A c \in answered' : TRUE \notin tmp'[c].after
    BY <1>1, <2>0 DEF CommitBegins, Durable
  <2>3. \A c \in answered' : "torn" \notin data'[c].after
    BY <1>1, <2>0 DEF CommitBegins, Durable
  <2>4. \A c \in answered' : "torn" \notin manifest'[c].after
    BY <1>1, <1>2, <1>3, <2>0 DEF CallSoFar, Durable
  <2>5. \A c \in answered' : touched' => manifest'[c].after \subseteq {"touched"}
    BY <1>1, Shapes DEF CommitBegins, Answers, Durable
  <2>6. QED
    BY <2>1, <2>2, <2>3, <2>4, <2>5 DEF Durable
<1>7. Apart'
  BY <1>1 DEF CommitBegins, Apart
<1>8. ServedWhole'
  BY <1>1, <1>2 DEF CommitBegins, ServedWhole, Intact
<1>9. QED
  BY <1>4, <1>5, <1>6, <1>7, <1>8 DEF Inv

\* The sync of a manifest: a touch of the entry that is answered for can no longer be lost.
LEMMA SyncManifestKeeps ==
  ASSUME Inv, NEW k \in handled, SyncManifest(k)
  PROVE  Inv'
<1>1. /\ TypeOK /\ CallSoFar /\ Durable /\ Apart /\ ServedWhole
      /\ handled \in Names
  BY DEF Inv, TypeOK
<1>2. k \in Copies /\ handled = {k}
  BY <1>1 DEF Names
<1>3. /\ manifest' \in [Copies -> PlaceOf(Manifests)]
      /\ manifest'[k].seen = manifest[k].seen /\ manifest'[k].after = {manifest[k].seen}
      /\ \A d \in Copies : d # k => manifest'[d] = manifest[d]
  BY Shapes DEF SyncManifest, PlaceOf, Synced, On
<1>4. step = "touch" => \A c \in answered : c = k
  BY <1>1, <1>2, Shapes DEF CallSoFar
<1>5. TypeOK'
  BY <1>1, <1>3, Shapes DEF SyncManifest, CallAt, Returns, TypeOK, Names, Manifests
<1>6. CallSoFar'
  BY <1>1, <1>2, <1>3 DEF SyncManifest, CallAt, Returns, CallSoFar
<1>7. Durable'
  <2>0. answered' = answered /\ answered \subseteq Copies
    BY Shapes DEF SyncManifest
  <2>1. \A c \in answered' : target'.after = {{c}}
    BY <1>1 DEF SyncManifest, Durable
  <2>2. \A c \in answered' : TRUE \notin tmp'[c].after
    BY <1>1 DEF SyncManifest, Durable
  <2>3. \A c \in answered' : "torn" \notin data'[c].after
    BY <1>1 DEF SyncManifest, Durable
  <2>4. \A c \in answered' : "torn" \notin manifest'[c].after
    BY <1>1, <1>3, Shapes DEF SyncManifest, CallSoFar, Durable
  <2>5. \A c \in answered' : touched' => manifest'[c].after \subseteq {"touched"}
    BY <1>1, <1>3, <1>4, <2>0, Shapes DEF SyncManifest, Answers, CallAt, Returns, places,
       call, CallSoFar, Durable, Names
  <2>6. QED
    BY <2>1, <2>2, <2>3, <2>4, <2>5 DEF Durable
<1>8. Apart'
  BY <1>1 DEF SyncManifest, Apart
<1>9. ServedWhole'
  BY <1>1, <1>3 DEF SyncManifest, ServedWhole, Intact
<1>10. QED
  BY <1>5, <1>6, <1>7, <1>8, <1>9 DEF Inv

\* The test of the target changes nothing on the volume.
LEMMA CommitTestKeeps ==
  ASSUME Inv, NEW k \in handled, CommitTest(k)
  PROVE  Inv'
<1>1. /\ TypeOK /\ CallSoFar /\ Durable /\ Apart /\ ServedWhole
      /\ handled \in Names
  BY DEF Inv, TypeOK
<1>2. k \in Copies /\ handled = {k}
  BY <1>1 DEF Names
<1>3. TypeOK'
  BY <1>1, <1>2 DEF CommitTest, Answers, CallAt, places, TypeOK
<1>4. CallSoFar'
  BY <1>1, Shapes DEF CommitTest, Answers, CallAt, places, CallSoFar
<1>5. Durable'
  BY <1>1 DEF CommitTest, Answers, places, Durable
<1>6. Apart'
  BY <1>1 DEF CommitTest, places, CallSoFar, Apart
<1>7. ServedWhole'
  BY <1>1 DEF CommitTest, places, CallSoFar, ServedWhole, Intact
<1>8. QED
  BY <1>3, <1>4, <1>5, <1>6, <1>7 DEF Inv

\* From here on no loss of power leaves the copy incomplete.
LEMMA SyncTreeKeeps ==
  ASSUME Inv, NEW k \in handled, SyncTree(k)
  PROVE  Inv'
<1>1. /\ TypeOK /\ CallSoFar /\ Durable /\ Apart /\ ServedWhole
      /\ handled \in Names
  BY DEF Inv, TypeOK
<1>2. k \in Copies /\ handled = {k}
  BY <1>1 DEF Names
<1>3. /\ data' \in [Copies -> PlaceOf(Data)]
      /\ data'[k].seen = data[k].seen /\ data'[k].after = {data[k].seen}
      /\ \A d \in Copies : d # k => data'[d] = data[d]
  BY Shapes DEF SyncTree, PlaceOf, Synced, On
<1>4. /\ manifest' \in [Copies -> PlaceOf(Manifests)]
      /\ manifest'[k].seen = manifest[k].seen /\ manifest'[k].after = {manifest[k].seen}
      /\ \A d \in Copies : d # k => manifest'[d] = manifest[d]
  BY Shapes DEF SyncTree, PlaceOf, Synced, On
<1>5. TypeOK'
  BY <1>1, <1>2, <1>3, <1>4 DEF SyncTree, Answers, CallAt, TypeOK, Data, Manifests
<1>6. CallSoFar'
  BY <1>1, <1>3, <1>4 DEF SyncTree, Answers, CallAt, CallSoFar
<1>7. Durable'
  BY <1>1 DEF SyncTree, Answers, CallSoFar, Durable
<1>8. Apart'
  BY <1>1 DEF SyncTree, CallSoFar, Apart
<1>9. ServedWhole'
  BY <1>1 DEF SyncTree, CallSoFar, ServedWhole
<1>10. QED
  BY <1>5, <1>6, <1>7, <1>8, <1>9 DEF Inv

\* The copy is published; nothing was answered for, as the name was free.
LEMMA RenameKeeps ==
  ASSUME Inv, NEW k \in handled, Rename(k)
  PROVE  Inv'
<1>1. /\ TypeOK /\ CallSoFar /\ Durable /\ Apart /\ ServedWhole
      /\ handled \in Names
  BY DEF Inv, TypeOK
<1>2. k \in Copies /\ handled = {k}
  BY <1>1 DEF Names
<1>3. /\ tmp' \in [Copies -> PlaceOf(BOOLEAN)]
      /\ tmp'[k].seen = FALSE /\ tmp'[k].after = tmp[k].after \cup {FALSE}
      /\ \A d \in Copies : d # k => tmp'[d] = tmp[d]
  BY Shapes DEF Rename, PlaceOf, Put
<1>4. /\ target' \in PlaceOf(Names) /\ target'.seen = {k}
      /\ target'.after = target.after \cup {{k}}
  BY <1>1, <1>2, Shapes DEF Rename, PlaceOf, Put
<1>5. answered = {}
  BY <1>1 DEF Rename, CallSoFar
<1>6. TypeOK'
  BY <1>1, <1>2, <1>3, <1>4 DEF Rename, Answers, CallAt, TypeOK
<1>7. CallSoFar'
  BY <1>1, <1>3, <1>4 DEF Rename, Answers, CallAt, CallSoFar
<1>8. Durable'
  BY <1>5 DEF Rename, Answers, Durable
<1>9. Apart'
  BY <1>3, <1>4 DEF Apart
<1>10. ServedWhole'
  BY <1>1, <1>3, <1>4, Shapes DEF Rename, CallSoFar, ServedWhole, Intact
<1>11. QED
  BY <1>6, <1>7, <1>8, <1>9, <1>10 DEF Inv

\* From here on no loss of power takes the name back.
LEMMA SyncTargetKeeps ==
  ASSUME Inv, NEW k \in handled, SyncTarget(k)
  PROVE  Inv'
<1>1. /\ TypeOK /\ CallSoFar /\ Durable /\ Apart /\ ServedWhole
      /\ handled \in Names
  BY DEF Inv, TypeOK
<1>2. k \in Copies /\ handled = {k}
  BY <1>1 DEF Names
<1>3. target' \in PlaceOf(Names) /\ target'.seen = target.seen /\ target'.after = {target.seen}
  BY Shapes DEF SyncTarget, PlaceOf, Synced, On
<1>4. TypeOK'
  BY <1>1, <1>2, <1>3 DEF SyncTarget, Answers, CallAt, TypeOK
<1>5. CallSoFar'
  BY <1>1, <1>3 DEF SyncTarget, Answers, CallAt, CallSoFar
<1>6. Durable'
  BY <1>1, <1>3, Shapes DEF SyncTarget, Answers, Durable
<1>7. Apart'
  BY <1>1, <1>3 DEF SyncTarget, CallSoFar, Apart
<1>8. ServedWhole'
  BY <1>1, <1>2, <1>3 DEF SyncTarget, CallSoFar, ServedWhole, Intact
<1>9. QED
  BY <1>4, <1>5, <1>6, <1>7, <1>8 DEF Inv

\* The commit is answered: all that Durable asks for was synced, by this step or before it.
LEMMA SyncTmpKeeps ==
  ASSUME Inv, NEW k \in handled, SyncTmp(k)
  PROVE  Inv'
<1>1. /\ TypeOK /\ CallSoFar /\ Durable /\ Apart /\ ServedWhole
      /\ handled \in Names
  BY DEF Inv, TypeOK
<1>2. k \in Copies /\ handled = {k}
  BY <1>1 DEF Names
<1>3. /\ tmp' \in [Copies -> PlaceOf(BOOLEAN)]
      /\ \A d \in Copies : tmp'[d].seen = tmp[d].seen /\ tmp'[d].after = {tmp[d].seen}
  BY Shapes DEF SyncTmp, PlaceOf, Synced, On
<1>4. tmp[k].seen = FALSE
  BY <1>1 DEF SyncTmp, CallSoFar
<1>5. TypeOK'
  BY <1>1, <1>3 DEF SyncTmp, Returns, TypeOK, Names
<1>6. CallSoFar'
  BY DEF SyncTmp, Returns, CallSoFar
<1>7. Durable'
  <2>0. answered' = {k} /\ answered' \subseteq Copies
    BY <1>2 DEF SyncTmp
  <2>1. \A c \in answered' : target'.after = {{c}}
    BY <1>1 DEF SyncTmp, CallSoFar
  <2>2. \A c \in answered' : TRUE \notin tmp'[c].after
    <3>1. \A c \in answered' : tmp'[c].after = {FALSE}
      BY <1>2, <1>3, <1>4, <2>0
    <3>2. QED
      BY <3>1
  <2>3. \A c \in answered' : "torn" \notin data'[c].after
    BY <1>1 DEF SyncTmp, CallSoFar
  <2>4. \A c \in answered' : "torn" \notin manifest'[c].after
    BY <1>1 DEF SyncTmp, CallSoFar
  <2>5. \A c \in answered' : touched' => manifest'[c].after \subseteq {"touched"}
    BY DEF SyncTmp
  <2>6. QED
    BY <2>1, <2>2, <2>3, <2>4, <2>5 DEF Durable
<1>8. Apart'
  BY <1>1, <1>3 DEF SyncTmp, Apart
<1>9. ServedWhole'
  BY <1>1 DEF SyncTmp, ServedWhole, Intact
<1>10. QED
  BY <1>5, <1>6, <1>7, <1>8, <1>9 DEF Inv

\* The manifest that a touch writes is whole, whichever of the two is found.
LEMMA TouchKeeps ==
  ASSUME Inv, NEW k \in Copies, Touch(k)
  PROVE  Inv'
<1>1. /\ TypeOK /\ CallSoFar /\ Durable /\ Apart /\ ServedWhole
      /\ handled \in Names
  BY DEF Inv, TypeOK
<1>2. /\ manifest' \in [Copies -> PlaceOf(Manifests)]
      /\ manifest'[k].seen = "touched" /\ manifest'[k].after = manifest[k].after \cup {"touched"}
      /\ \A d \in Copies : d # k => manifest'[d] = manifest[d]
  BY Shapes DEF Touch, PlaceOf, Put, Manifests
<1>3. \A c \in answered : c = k
  BY Shapes DEF Touch
<1>4. TypeOK'
  BY <1>1, <1>2 DEF Touch, Answers, CallAt, TypeOK, Names, Manifests
<1>5. CallSoFar'
  BY <1>2 DEF Touch, Answers, CallAt, CallSoFar
<1>6. Durable'
  <2>0. answered' = answered /\ answered \subseteq Copies
    BY Shapes DEF Touch, Answers
  <2>1. \A c \in answered' : target'.after = {{c}}
    BY <1>1, <2>0 DEF Touch, Durable
  <2>2. \A c \in answered' : TRUE \notin tmp'[c].after
    BY <1>1, <2>0 DEF Touch, Durable
  <2>3. \A c \in answered' : "torn" \notin data'[c].after
    BY <1>1, <2>0 DEF Touch, Durable
  <2>4. \A c \in answered' : "torn" \notin manifest'[c].after
    BY <1>1, <1>2, <2>0 DEF Touch, Answers, Durable
  <2>5. \A c \in answered' : touched' => manifest'[c].after \subseteq {"touched"}
    BY <1>1, <1>2, Shapes DEF Touch, Answers, Durable
  <2>6. QED
    BY <2>1, <2>2, <2>3, <2>4, <2>5 DEF Durable
<1>7. Apart'
  BY <1>1 DEF Touch, Apart
<1>8. ServedWhole'
  BY <1>1, <1>2 DEF Touch, ServedWhole, Intact
<1>9. QED
  BY <1>4, <1>5, <1>6, <1>7, <1>8 DEF Inv

\* An entry is given up before it is removed.
LEMMA RemoveKeeps ==
  ASSUME Inv, NEW k \in Copies, Remove(k)
  PROVE  Inv'
<1>1. /\ TypeOK /\ CallSoFar /\ Durable /\ Apart /\ ServedWhole
      /\ handled \in Names
  BY DEF Inv, TypeOK
<1>2. TypeOK'
  BY <1>1 DEF Remove, CallAt, places, TypeOK, Names
<1>3. CallSoFar'
  BY DEF Remove, CallAt, places, CallSoFar
<1>4. Durable'
  BY DEF Remove, Durable
<1>5. Apart'
  BY <1>1 DEF Remove, places, Apart
<1>6. ServedWhole'
  BY <1>1 DEF Remove, places, ServedWhole, Intact
<1>7. QED
  BY <1>2, <1>3, <1>4, <1>5, <1>6 DEF Inv

\* A directory that is discarded is staged, and so not answered for.
LEMMA DiscardKeeps ==
  ASSUME Inv, NEW k \in Copies, Discard(k)
  PROVE  Inv'
<1>1. /\ TypeOK /\ CallSoFar /\ Durable /\ Apart /\ ServedWhole
      /\ handled \in Names
  BY DEF Inv, TypeOK
<1>2. TypeOK'
  BY <1>1 DEF Discard, Answers, CallAt, places, TypeOK, Names
<1>3. CallSoFar'
  BY DEF Discard, CallAt, places, CallSoFar
<1>4. Durable'
  BY <1>1 DEF Discard, Answers, places, Durable
<1>5. Apart'
  BY <1>1 DEF Discard, places, Apart
<1>6. ServedWhole'
  BY <1>1 DEF Discard, places, ServedWhole, Intact
<1>7. QED
  BY <1>2, <1>3, <1>4, <1>5, <1>6 DEF Inv

\* A crash of the process loses nothing of the volume.
LEMMA CrashKeeps ==
  ASSUME Inv, Crash
  PROVE  Inv'
<1>1. /\ TypeOK /\ CallSoFar /\ Durable /\ Apart /\ ServedWhole
      /\ handled \in Names
  BY DEF Inv, TypeOK
<1>2. TypeOK'
  BY <1>1 DEF Crash, Returns, places, TypeOK, Names
<1>3. CallSoFar'
  BY DEF Crash, Returns, CallSoFar
<1>4. Durable'
  BY <1>1 DEF Crash, places, Durable
<1>5. Apart'
  BY DEF Crash, Apart
<1>6. ServedWhole'
  BY DEF Crash, ServedWhole
<1>7. QED
  BY <1>2, <1>3, <1>4, <1>5, <1>6 DEF Inv

\* What the kernel writes back stays what it was.
LEMMA WriteBackKeeps ==
  ASSUME Inv, WriteBack
  PROVE  Inv'
<1>1. /\ TypeOK /\ CallSoFar /\ Durable /\ Apart /\ ServedWhole
      /\ handled \in Names
  BY DEF Inv, TypeOK
<1>2. /\ tmp' \in [Copies -> PlaceOf(BOOLEAN)]
      /\ \A d \in Copies : tmp'[d].seen = tmp[d].seen /\ tmp'[d].after = {tmp[d].seen}
  BY Shapes DEF WriteBack, PlaceOf, Synced, On
<1>3. target' \in PlaceOf(Names) /\ target'.seen = target.seen /\ target'.after = {target.seen}
  BY Shapes DEF WriteBack, PlaceOf, Synced, On
<1>4. TypeOK'
  BY <1>1, <1>2, <1>3 DEF WriteBack, Answers, call, TypeOK
<1>5. CallSoFar'
  BY <1>1, <1>2, <1>3, Shapes DEF WriteBack, Answers, call, CallSoFar
<1>6. Durable'
  <2>0. answered' = answered /\ answered \subseteq Copies
    BY Shapes DEF WriteBack, Answers
  <2>1. \A c \in answered' : target'.after = {{c}}
    BY <1>3, <2>0, Shapes
  <2>2. \A c \in answered' : TRUE \notin tmp'[c].after
    <3>1. \A c \in answered' : tmp'[c].after = {FALSE}
      BY <1>2, <1>3, <2>0, Shapes
    <3>2. QED
      BY <3>1
  <2>3. \A c \in answered' : "torn" \notin data'[c].after
    BY <1>1, <2>0 DEF WriteBack, Durable
  <2>4. \A c \in answered' : "torn" \notin manifest'[c].after
    BY <1>1, <2>0 DEF WriteBack, Durable
  <2>5. \A c \in answered' : touched' => manifest'[c].after \subseteq {"touched"}
    BY <1>1 DEF WriteBack, Answers, Durable
  <2>6. QED
    BY <2>1, <2>2, <2>3, <2>4, <2>5 DEF Durable
<1>7. Apart'
  BY <1>1, <1>2, <1>3 DEF WriteBack, Answers, CallAt, Returns, places, call, Apart
<1>8. ServedWhole'
  BY <1>1, <1>3 DEF WriteBack, Answers, call, ServedWhole, Intact
<1>9. QED
  BY <1>4, <1>5, <1>6, <1>7, <1>8 DEF Inv

\* A recovery sweeps staging directories, of which none is answered for.
LEMMA SweepKeeps ==
  ASSUME Inv, NEW k \in Copies, Sweep(k)
  PROVE  Inv'
<1>1. /\ TypeOK /\ CallSoFar /\ Durable /\ Apart /\ ServedWhole
      /\ handled \in Names
  BY DEF Inv, TypeOK
<1>2. TypeOK'
  BY <1>1 DEF Sweep, Answers, CallAt, places, TypeOK, Names
<1>3. CallSoFar'
  BY DEF Sweep, CallAt, places, CallSoFar
<1>4. Durable'
  BY <1>1 DEF Sweep, Answers, places, Durable
<1>5. Apart'
  BY DEF Sweep, Answers, Apart
<1>6. ServedWhole'
  BY DEF Sweep, Answers, ServedWhole
<1>7. QED
  BY <1>2, <1>3, <1>4, <1>5, <1>6 DEF Inv

\* An entry that is not intact is not one that was answered for.
LEMMA RejectKeeps ==
  ASSUME Inv, NEW k \in Copies, Reject(k)
  PROVE  Inv'
<1>1. /\ TypeOK /\ CallSoFar /\ Durable /\ Apart /\ ServedWhole
      /\ handled \in Names
  BY DEF Inv, TypeOK
<1>2. k \notin answered
  BY Shapes DEF Reject, Verified
<1>3. \A c \in answered : c = k
  BY Shapes DEF Reject
<1>4. answered = {}
  BY <1>2, <1>3
<1>5. TypeOK'
  BY <1>1 DEF Reject, Answers, CallAt, places, TypeOK, Names
<1>6. CallSoFar'
  BY <1>4 DEF Reject, Answers, CallAt, places, CallSoFar
<1>7. Durable'
  BY <1>4 DEF Reject, Answers, Durable
<1>8. Apart'
  BY DEF Reject, Answers, Apart
<1>9. ServedWhole'
  BY DEF Reject, CallAt, places, ServedWhole
<1>10. QED
  BY <1>5, <1>6, <1>7, <1>8, <1>9 DEF Inv

\* Once the staging directories are swept and the entry is verified, requests are served.
LEMMA OpenKeeps ==
  ASSUME Inv, Open
  PROVE  Inv'
<1>1. /\ TypeOK /\ CallSoFar /\ Durable /\ Apart /\ ServedWhole
      /\ handled \in Names
  BY DEF Inv, TypeOK
<1>2. TypeOK'
  BY <1>1 DEF Open, places, call, TypeOK
<1>3. CallSoFar'
  BY DEF Open, call, CallSoFar
<1>4. Durable'
  BY <1>1 DEF Open, places, Durable
<1>5. Apart'
  BY DEF Open, places, Swept, Apart
<1>6. ServedWhole'
  BY DEF Open, places, Verified, ServedWhole, Intact
<1>7. QED
  BY <1>2, <1>3, <1>4, <1>5, <1>6 DEF Inv

\* A directory whose files are removed is not answered for, and not served unless its
\* removal holds the lock.
LEMMA RemoveFileKeeps ==
  ASSUME Inv, NEW k \in handled, RemoveFile(k)
  PROVE  Inv'
<1>1. /\ TypeOK /\ CallSoFar /\ Durable /\ Apart /\ ServedWhole
      /\ handled \in Names
  BY DEF Inv, TypeOK
<1>2. k \in Copies /\ handled = {k}
  BY <1>1 DEF Names
<1>3. /\ data' \in [Copies -> PlaceOf(Data)] /\ manifest' \in [Copies -> PlaceOf(Manifests)]
      /\ \A d \in Copies : d # k => data'[d] = data[d] /\ manifest'[d] = manifest[d]
  <2>1. CASE data' = [data EXCEPT ![k] = Put(@, "torn")] /\ manifest' = manifest
    BY <2>1, Shapes DEF PlaceOf, Put, Data
  <2>2. CASE manifest' = [manifest EXCEPT ![k] = Put(@, "torn")] /\ data' = data
    BY <2>2, Shapes DEF PlaceOf, Put, Manifests
  <2>3. QED
    BY <2>1, <2>2 DEF RemoveFile
<1>4. k \notin answered
  <2>1. step = "rm tmp" => tmp[k].seen
    BY <1>1 DEF CallSoFar
  <2>2. step = "rm target" => answered = {}
    BY <1>1 DEF CallSoFar
  <2>3. QED
    BY <2>1, <2>2, Shapes DEF RemoveFile
<1>5. TypeOK'
  BY <1>1, <1>3 DEF RemoveFile, Answers, call, TypeOK, Data, Manifests
<1>6. CallSoFar'
  BY <1>1 DEF RemoveFile, Answers, call, CallSoFar
<1>7. Durable'
  BY <1>1, <1>3, <1>4, Shapes DEF RemoveFile, Answers, Durable
<1>8. Apart'
  BY <1>1 DEF RemoveFile, Answers, Apart
<1>9. ServedWhole'
  <2>1. ASSUME open, NEW c \in Copies, target.seen = {c}
        PROVE  Intact(c)' \/ (step = "rm target" /\ c \in handled)
    <3>1. CASE c = k
      BY <1>1, <2>1, <3>1 DEF RemoveFile, CallSoFar, Apart
    <3>2. CASE c # k
      BY <1>1, <1>3, <2>1, <3>2 DEF ServedWhole, Intact
    <3>3. QED
      BY <3>1, <3>2
  <2>2. QED
    BY <2>1 DEF RemoveFile, Answers, call, ServedWhole
<1>10. QED
  BY <1>5, <1>6, <1>7, <1>8, <1>9 DEF Inv

\* The end of a removal.
LEMMA RemoveDirectoryKeeps ==
  ASSUME Inv, NEW k \in handled, RemoveDirectory(k)
  PROVE  Inv'
<1>1. /\ TypeOK /\ CallSoFar /\ Durable /\ Apart /\ ServedWhole
      /\ handled \in Names
  BY DEF Inv, TypeOK
<1>2. k \in Copies /\ handled = {k}
  BY <1>1 DEF Names
<1>3. CASE step = "rm tmp"
  <2>0. tmp' = [tmp EXCEPT ![k] = Put(@, FALSE)] /\ target' = target
    BY <1>3 DEF RemoveDirectory
  <2>1. /\ tmp' \in [Copies -> PlaceOf(BOOLEAN)] /\ target' = target
        /\ tmp'[k].seen = FALSE /\ tmp'[k].after = tmp[k].after \cup {FALSE}
        /\ \A d \in Copies : d # k => tmp'[d] = tmp[d]
    BY <2>0, Shapes DEF PlaceOf, Put
  <2>2. tmp[k].seen /\ k \notin answered
    BY <1>1, <1>3, Shapes DEF CallSoFar
  <2>3. TypeOK'
    BY <1>1, <2>1 DEF RemoveDirectory, Returns, Answers, TypeOK, Names
  <2>4. CallSoFar'
    BY DEF RemoveDirectory, Returns, CallSoFar
  <2>5. Durable'
    BY <1>1, <2>1, Shapes DEF RemoveDirectory, Answers, Durable
  <2>6. Apart'
    BY <1>1, <2>1 DEF RemoveDirectory, Answers, Apart
  <2>7. ServedWhole'
    BY <1>1, <2>1, <2>2 DEF RemoveDirectory, Answers, ServedWhole, Intact
  <2>8. QED
    BY <2>3, <2>4, <2>5, <2>6, <2>7 DEF Inv
<1>4. CASE step = "rm target"
  <2>0. target' = Put(target, {}) /\ tmp' = tmp
    BY <1>4 DEF RemoveDirectory
  <2>1. target' \in PlaceOf(Names) /\ target'.seen = {} /\ tmp' = tmp /\ answered = {}
    <3>1. target' \in PlaceOf(Names) /\ target'.seen = {}
      BY <2>0, Shapes DEF PlaceOf, Put, Names
    <3>2. QED
      BY <1>1, <1>4, <2>0, <3>1 DEF CallSoFar
  <2>2. TypeOK'
    BY <1>1, <2>1 DEF RemoveDirectory, Returns, Answers, TypeOK
  <2>3. CallSoFar' /\ Durable' /\ Apart' /\ ServedWhole'
    BY <2>1 DEF RemoveDirectory, Returns, Answers, CallSoFar, Durable, Apart, ServedWhole
  <2>4. QED
    BY <2>2, <2>3 DEF Inv
<1>5. QED
  BY <1>3, <1>4 DEF RemoveDirectory

\* Damage is to an entry that is then no longer answered for.
LEMMA DamageKeeps ==
  ASSUME Inv, NEW k \in Copies, Damage(k)
  PROVE  Inv'
<1>1. TypeOK /\ CallSoFar
  BY DEF Inv
<1>2. data' \in [Copies -> PlaceOf(Data)] /\ manifest' \in [Copies -> PlaceOf(Manifests)]
  <2>1. CASE data' = [data EXCEPT ![k] = On("torn")] /\ manifest' = manifest
    BY <2>1, Shapes DEF PlaceOf, On, Data
  <2>2. CASE manifest' = [manifest EXCEPT ![k] = On("torn")] /\ data' = data
    BY <2>2, Shapes DEF PlaceOf, On, Manifests
  <2>3. QED
    BY <2>1, <2>2 DEF Damage
<1>3. handled = {} /\ ~open' /\ answered' = {} /\ touched' = FALSE
      /\ UNCHANGED <<tmp, target, step, handled, open>>
  BY <1>1 DEF Damage, TypeOK, call
<1>4. TypeOK'
  BY <1>1, <1>2, <1>3 DEF TypeOK, Data, Manifests
<1>5. CallSoFar' /\ Durable' /\ Apart' /\ ServedWhole'
  BY <1>1, <1>3 DEF CallSoFar, Durable, Apart, ServedWhole
<1>6. QED
  BY <1>4, <1>5 DEF Inv

\* After a loss of power each place is one of those that could be found.
LEMMA PowerLossKeeps ==
  ASSUME Inv, PowerLoss
  PROVE  Inv'
<1>1. TypeOK /\ CallSoFar /\ Durable
  BY DEF Inv
<1>2. /\ tmp' \in [Copies -> PlaceOf(BOOLEAN)]
      /\ \A c \in Copies : tmp'[c].seen \in tmp[c].after /\ tmp'[c].after = {tmp'[c].seen}
  BY Shapes, AllLostPlaces DEF PowerLoss
<1>3. target' \in PlaceOf(Names) /\ target'.seen \in target.after /\ target'.after = {target'.seen}
  BY Shapes, LostPlaces DEF PowerLoss
<1>4. /\ data' \in [Copies -> PlaceOf(Data)]
      /\ \A c \in Copies : data'[c].seen \in data[c].after /\ data'[c].after = {data'[c].seen}
  BY Shapes, AllLostPlaces DEF PowerLoss
<1>5. /\ manifest' \in [Copies -> PlaceOf(Manifests)]
      /\ \A c \in Copies : manifest'[c].seen \in manifest[c].after
                             /\ manifest'[c].after = {manifest'[c].seen}
  BY Shapes, AllLostPlaces DEF PowerLoss
<1>6. step' = "idle" /\ handled' = {} /\ open' = FALSE /\ UNCHANGED <<answered, touched>>
  BY DEF PowerLoss, Returns
<1>7. TypeOK'
  BY <1>1, <1>2, <1>3, <1>4, <1>5, <1>6 DEF TypeOK, Names, Data, Manifests
<1>8. Durable'
  <2>1. ASSUME NEW c \in answered
        PROVE  /\ target'.after = {{c}}
               /\ TRUE \notin tmp'[c].after
               /\ "torn" \notin data'[c].after
               /\ "torn" \notin manifest'[c].after
               /\ touched => manifest'[c].after \subseteq {"touched"}
    <3>1. /\ target.after = {{c}} /\ TRUE \notin tmp[c].after
          /\ "torn" \notin data[c].after /\ "torn" \notin manifest[c].after
          /\ touched => manifest[c].after \subseteq {"touched"}
      BY <1>1 DEF Durable
    <3>2. /\ tmp'[c].after \subseteq tmp[c].after /\ data'[c].after \subseteq data[c].after
          /\ manifest'[c].after \subseteq manifest[c].after
      BY <1>2, <1>4, <1>5, Shapes
    <3>3. target'.after = {{c}}
      BY <1>3, <3>1
    <3>4. QED
      BY <3>1, <3>2, <3>3
  <2>2. QED
    BY <1>6, <2>1 DEF Durable
<1>9. CallSoFar' /\ Apart' /\ ServedWhole'
  BY <1>6 DEF CallSoFar, Apart, ServedWhole
<1>10. QED
  BY <1>7, <1>8, <1>9 DEF Inv

-----------------------------------------------------------------------------
(* The theorems *)

\* Each step keeps the invariant.
LEMMA StepKeeps == Inv /\ [Next]_vars => Inv'
<1> SUFFICES ASSUME Inv, [Next]_vars PROVE Inv'
  OBVIOUS
<1>1. handled \subseteq Copies
  BY Shapes
<1>2. CASE CallStep
  BY <1>2, SyncManifestKeeps, CommitTestKeeps, SyncTreeKeeps, RenameKeeps, SyncTargetKeeps,
     SyncTmpKeeps, RemoveFileKeeps, RemoveDirectoryKeeps DEF CallStep
<1>3. CASE Recovery
  BY <1>3, SweepKeeps, RejectKeeps, OpenKeeps DEF Recovery
<1>4. CASE \E c \in Copies : Request(c) \/ Damage(c) \/ DataWritten(c)
  BY <1>4, NewStagingKeeps, CommitBeginsKeeps, TouchKeeps, RemoveKeeps, DiscardKeeps,
     DamageKeeps, DataWrittenKeeps DEF Request
<1>5. CASE Crash \/ PowerLoss \/ WriteBack
  BY <1>5, CrashKeeps, PowerLossKeeps, WriteBackKeeps
<1>6. CASE UNCHANGED vars
  BY <1>6 DEF vars, places, call, Inv, TypeOK, CallSoFar, Durable, Apart, ServedWhole, Intact
<1>7. QED
  BY <1>2, <1>3, <1>4, <1>5, <1>6 DEF Next

\* The invariant holds of every run.
THEOREM PublicationInvariance == Spec => []Inv
BY InvInit, StepKeeps, PTL DEF Spec

\* What is durable is there.
LEMMA InvAnswers == Inv => AnsweredSurvives
BY Shapes DEF AnsweredSurvives, Intact

\* A place is one of those that may be found after a loss of power, whatever is done.
THEOREM PublicationTypeCorrect == Spec => []TypeOK
<1>1. Inv => TypeOK
  BY DEF Inv
<1>2. QED
  BY <1>1, PublicationInvariance, PTL

\* A commit that was answered, and a touch of it, outlive any sequence of crashes and losses
\* of power (commit_*, sync_tree, _write_json_atomic, recover).
THEOREM AnsweredNeverLost == Spec => []AnsweredSurvives
BY InvAnswers, PublicationInvariance, PTL

\* No request finds an entry that a crash, a loss of power or a damage has left incomplete
\* (recover).
THEOREM OnlyWholeServed == Spec => []ServedWhole
<1>1. Inv => ServedWhole
  BY DEF Inv
<1>2. QED
  BY <1>1, PublicationInvariance, PTL
-----------------------------------------------------------------------------
(* The entry *)

\* A staging directory is of a copy that the name of the entry cannot lead to, while
\* requests are served.
Once == open => \A c \in Copies : tmp[c].seen => {c} \notin target.after

LEMMA OnceStep ==
  ASSUME Inv, Once, [Next]_vars
  PROVE  Once'
<1> SUFFICES ASSUME open', NEW d \in Copies, tmp'[d].seen
             PROVE  {d} \notin target'.after
  BY DEF Once
<1>1. /\ target.seen \in target.after
      /\ DOMAIN tmp = Copies /\ handled \subseteq Copies
  BY Shapes DEF PlaceOf
<1>2. CASE tmp' = tmp /\ target' = target /\ open' = open
  BY <1>2 DEF Once
<1>3. ASSUME NEW c \in Copies, NewStaging(c)
      PROVE  {d} \notin target'.after
  BY <1>1, <1>3 DEF NewStaging, Put, Answers, Once
<1>4. ASSUME NEW c \in handled, CallStep
      PROVE  {d} \notin target'.after
  <2> USE <1>1 DEF Once, Answers, Put, Synced, On
  <2>1. PICK k \in handled :
          \/ SyncManifest(k) \/ CommitTest(k) \/ SyncTree(k) \/ Rename(k) \/ SyncTarget(k)
          \/ SyncTmp(k) \/ RemoveFile(k) \/ RemoveDirectory(k)
    BY <1>4 DEF CallStep
  <2>2. CASE SyncManifest(k) \/ CommitTest(k) \/ SyncTree(k) \/ RemoveFile(k)
    BY <1>2, <2>2 DEF SyncManifest, CommitTest, SyncTree, RemoveFile, places
  <2>3. CASE Rename(k)
    <3>1. d # k /\ tmp[d].seen /\ target'.after = target.after \cup {{k}} /\ open
      BY <2>3 DEF Rename
    <3> QED
      BY <3>1
  <2>4. CASE SyncTarget(k)
    BY <2>4 DEF SyncTarget
  <2>5. CASE SyncTmp(k)
    BY <2>5 DEF SyncTmp
  <2>6. CASE RemoveDirectory(k)
    <3>1. open' = open
      BY <2>6 DEF RemoveDirectory
    <3>2. CASE tmp' = [tmp EXCEPT ![k] = Put(@, FALSE)] /\ target' = target
      BY <3>1, <3>2
    <3>3. CASE target' = Put(target, {}) /\ tmp' = tmp
      BY <3>1, <3>3
    <3> QED
      BY <2>6, <3>2, <3>3 DEF RemoveDirectory
  <2> QED
    BY <2>1, <2>2, <2>3, <2>4, <2>5, <2>6
<1>5. CASE Recovery
  <2>1. CASE \E c \in Copies : Sweep(c) \/ Reject(c)
    BY <2>1 DEF Sweep, Reject, Answers
  <2>2. CASE Open
    BY <2>2 DEF Open, Swept, places
  <2> QED
    BY <1>5, <2>1, <2>2 DEF Recovery
<1>6. ASSUME NEW c \in Copies, Request(c) \/ Damage(c) \/ DataWritten(c)
      PROVE  {d} \notin target'.after
  BY <1>2, <1>3, <1>6
     DEF Request, CommitBegins, Touch, Remove, Discard, Damage, DataWritten, Answers, places
<1>7. CASE Crash \/ PowerLoss
  BY <1>7 DEF Crash, PowerLoss
<1>8. CASE WriteBack
  BY <1>1, <1>8 DEF WriteBack, Synced, On, Answers, Once
<1>9. CASE UNCHANGED vars
  BY <1>2, <1>9 DEF vars, places
<1> QED
  BY <1>4, <1>5, <1>6, <1>7, <1>8, <1>9 DEF Next, CallStep

\* The name of the entry leads to one copy, or to none.
LEMMA OneName ==
  ASSUME Inv, NEW c \in target.seen
  PROVE  c \in Copies /\ target.seen = {c}
BY Shapes DEF PlaceOf, Names

\* What the steps below that are none of the entry have in common.
LEMMA SameEntry ==
  ASSUME Inv, target' = target, \A c \in target.seen : Intact(c)' <=> Intact(c)
  PROVE  Entry' = Entry /\ Reach' = Reach
BY DEF Entry, Reach

\* The steps of the call that holds the lock are those of the entry, or leave it alone.
LEMMA CallEntry ==
  ASSUME Inv, Once, NEW c \in handled,
         \/ SyncManifest(c) \/ CommitTest(c) \/ SyncTree(c) \/ Rename(c) \/ SyncTarget(c)
         \/ SyncTmp(c) \/ RemoveFile(c) \/ RemoveDirectory(c)
  PROVE  [E!Next]_(E!vars)
<1>1. /\ c \in Copies /\ CallSoFar
      /\ DOMAIN data = Copies /\ DOMAIN manifest = Copies /\ DOMAIN tmp = Copies
      /\ target.seen \in target.after
  BY Shapes DEF Inv, PlaceOf
<1>2. ASSUME target' = target, \A d \in target.seen : Intact(d)' <=> Intact(d),
             answered' = answered, open' = open
      PROVE  [E!Next]_(E!vars)
  BY <1>2, SameEntry DEF E!vars
<1>3. CASE SyncManifest(c) \/ CommitTest(c) \/ SyncTree(c)
  <2>1. \A d \in target.seen : d \in Copies
    BY OneName
  <2>2. \A d \in Copies : data'[d].seen = data[d].seen /\ manifest'[d].seen = manifest[d].seen
    <3>1. CASE SyncManifest(c)
      BY <1>1, <3>1 DEF SyncManifest, Synced, On
    <3>2. CASE CommitTest(c)
      BY <3>2 DEF CommitTest, places
    <3>3. CASE SyncTree(c)
      BY <1>1, <3>3 DEF SyncTree, Synced, On
    <3> QED
      BY <1>3, <3>1, <3>2, <3>3
  <2> QED
    BY <1>2, <1>3, <2>1, <2>2 DEF SyncManifest, CommitTest, SyncTree, Answers, places, Intact
<1>4. CASE Rename(c)
  <2>1. /\ step = "rename" /\ target' = Put(target, {c}) /\ tmp[c].seen
        /\ UNCHANGED <<data, manifest, open, answered, touched>>
    BY <1>1, <1>4 DEF Rename, Answers, CallSoFar
  <2>2. target.seen = {} /\ answered = {} /\ open /\ Intact(c)
    BY <1>1, <2>1 DEF CallSoFar, Intact
  <2>3. Entry = {} /\ Entry' = {c}
    BY <2>1, <2>2 DEF Entry, Intact, Put
  <2>4. c \notin Reach /\ Reach' = Reach \cup {c}
    BY <1>1, <2>1, <2>2 DEF Reach, Put, Once
  <2>5. E!Publish(c)
    BY <2>1, <2>2, <2>3, <2>4 DEF E!Publish
  <2> QED
    BY <1>1, <2>5 DEF E!Next
<1>5. CASE SyncTarget(c)
  <2>1. /\ target' = [seen |-> target.seen, after |-> {target.seen}]
        /\ UNCHANGED <<data, manifest, open, answered, touched>>
    BY <1>5 DEF SyncTarget, Answers, Synced, On
  <2>2. Entry' = Entry
    BY <2>1 DEF Entry, Intact
  <2>3. Reach' \in SUBSET Reach /\ Entry \subseteq Reach'
    BY <1>1, <2>1, OneName DEF Reach, Entry
  <2>4. E!Settle
    BY <2>1, <2>2, <2>3 DEF E!Settle
  <2> QED
    BY <2>4 DEF E!Next
<1>6. CASE SyncTmp(c)
  <2>1. /\ step = "tmp" /\ answered' = {c}
        /\ UNCHANGED <<target, data, manifest, open>>
    BY <1>6 DEF SyncTmp
  <2>2. target.seen = {c} /\ target.after = {{c}} /\ Intact(c) /\ open
    BY <1>1, <2>1 DEF CallSoFar, Intact
  <2>3. Entry = {c} /\ Reach = {c} /\ Entry' = Entry /\ Reach' = Reach
    BY <1>1, <2>1, <2>2 DEF Entry, Reach, Intact
  <2>4. E!Answer
    BY <2>1, <2>2, <2>3 DEF E!Answer
  <2> QED
    BY <2>4 DEF E!Next
<1>7. CASE RemoveFile(c)
  <2>1. /\ target' = target /\ answered' = answered /\ open' = open
        /\ \A d \in Copies \ {c} : data'[d] = data[d] /\ manifest'[d] = manifest[d]
        /\ ~Intact(c)'
    <3>1. target' = target /\ answered' = answered /\ open' = open
      BY <1>7 DEF RemoveFile, Answers
    <3>2. CASE data' = [data EXCEPT ![c] = Put(@, "torn")] /\ manifest' = manifest
      BY <1>1, <3>1, <3>2 DEF Put, Intact
    <3>3. CASE manifest' = [manifest EXCEPT ![c] = Put(@, "torn")] /\ data' = data
      BY <1>1, <3>1, <3>3 DEF Put, Intact
    <3> QED
      BY <1>7, <3>2, <3>3 DEF RemoveFile
  <2>2. CASE c \notin target.seen
    <3>1. \A d \in target.seen : d \in Copies \ {c}
      BY <2>2, OneName
    <3>2. \A d \in target.seen : Intact(d)' <=> Intact(d)
      BY <2>1, <3>1 DEF Intact
    <3> QED
      BY <1>2, <2>1, <3>2
  <2>3. CASE c \in target.seen
    <3>1. target.seen = {c}
      BY <2>3, OneName
    <3>2. answered = {}
      <4>1. step = "rm target" \/ (step = "rm tmp" /\ tmp[c].seen)
        BY <1>1, <1>7 DEF RemoveFile, CallSoFar
      <4>2. CASE step = "rm target"
        BY <1>1, <4>2 DEF CallSoFar
      <4>3. CASE tmp[c].seen
        BY <3>1, <4>3, Shapes
      <4> QED
        BY <4>1, <4>2, <4>3
    <3>3. Entry' = {} /\ Reach' = Reach
      BY <2>1, <3>1 DEF Entry, Reach
    <3>4. E!Drop
      BY <2>1, <3>2, <3>3 DEF E!Drop
    <3> QED
      BY <3>4 DEF E!Next
  <2> QED
    BY <2>2, <2>3
<1>8. CASE RemoveDirectory(c)
  <2>1. UNCHANGED <<data, manifest, answered, open>> /\ data[c].seen = "torn"
    BY <1>8 DEF RemoveDirectory, Answers
  <2>2. CASE target' = target
    <3>1. \A d \in target.seen : Intact(d)' <=> Intact(d)
      BY <2>1 DEF Intact
    <3> QED
      BY <1>2, <2>1, <2>2, <3>1
  <2>3. CASE step = "rm target" /\ target' = Put(target, {})
    <3>1. target.seen = {c}
      BY <1>1, <2>3 DEF CallSoFar
    <3>2. Entry = {} /\ Entry' = {}
      BY <2>1, <2>3, <3>1 DEF Entry, Intact, Put
    <3>3. Reach' = Reach
      BY <2>3 DEF Reach, Put
    <3> QED
      BY <2>1, <3>2, <3>3 DEF E!vars
  <2> QED
    BY <1>8, <2>2, <2>3 DEF RemoveDirectory
<1> QED
  BY <1>3, <1>4, <1>5, <1>6, <1>7, <1>8

\* So are those of requests, and of the damages and writes around them.
LEMMA RequestEntry ==
  ASSUME Inv, NEW c \in Copies, Request(c) \/ Damage(c) \/ DataWritten(c)
  PROVE  [E!Next]_(E!vars)
<1>1. /\ DOMAIN data = Copies /\ DOMAIN manifest = Copies
      /\ target.seen \in target.after
  BY Shapes DEF PlaceOf
<1>2. ASSUME target' = target, \A d \in target.seen : Intact(d)' <=> Intact(d),
             answered' = answered, open' = open
      PROVE  [E!Next]_(E!vars)
  BY <1>2, SameEntry DEF E!vars
<1>3. ASSUME target' = target, c \notin target.seen,
             \A d \in Copies \ {c} : data'[d] = data[d] /\ manifest'[d] = manifest[d],
             answered' = answered, open' = open
      PROVE  [E!Next]_(E!vars)
  <2>1. \A d \in target.seen : d \in Copies \ {c}
    BY <1>3, OneName
  <2>2. \A d \in target.seen : Intact(d)' <=> Intact(d)
    BY <1>3, <2>1 DEF Intact
  <2> QED
    BY <1>2, <1>3, <2>2
<1>4. CASE NewStaging(c)
  <2>1. c \notin target.seen
    BY <1>1, <1>4, OneName DEF NewStaging
  <2> QED
    BY <1>1, <1>3, <1>4, <2>1 DEF NewStaging, Answers
<1>5. CASE CommitBegins(c)
  <2>1. c \notin target.seen
    BY <1>5, OneName DEF CommitBegins, Inv, Apart
  <2> QED
    BY <1>1, <1>3, <1>5, <2>1 DEF CommitBegins, Answers
<1>6. CASE Touch(c)
  <2>1. \A d \in Copies : Intact(d)' <=> Intact(d)
    BY <1>1, <1>6 DEF Touch, Put, Intact
  <2>2. \A d \in target.seen : d \in Copies
    BY OneName
  <2> QED
    BY <1>2, <1>6, <2>1, <2>2 DEF Touch, Answers
<1>7. CASE Remove(c)
  <2>1. open /\ answered' = {} /\ UNCHANGED <<target, data, manifest, open>>
    BY <1>7 DEF Remove, places
  <2>2. Entry' = Entry /\ Reach' = Reach
    BY <2>1 DEF Entry, Reach, Intact
  <2>3. E!Forget
    BY <2>1, <2>2 DEF E!Forget
  <2> QED
    BY <2>3 DEF E!Next
<1>8. CASE Discard(c)
  <2>1. UNCHANGED <<target, data, manifest, answered, open>>
    BY <1>8 DEF Discard, places, Answers
  <2> QED
    BY <1>2, <2>1 DEF Intact
<1>9. CASE Damage(c)
  <2>1. ~open /\ answered' = {} /\ UNCHANGED <<target, open>> /\ target.seen = {c}
    BY <1>9 DEF Damage
  <2>2. ~Intact(c)'
    BY <1>1, <1>9 DEF Damage, Intact, On
  <2>3. Entry' = {} /\ Reach' = Reach
    BY <2>1, <2>2 DEF Entry, Reach
  <2>4. E!Damage
    BY <2>1, <2>3 DEF E!Damage
  <2> QED
    BY <2>4 DEF E!Next
<1>10. CASE DataWritten(c)
  <2>1. c \notin target.seen
    BY <1>10, OneName DEF DataWritten
  <2> QED
    BY <1>1, <1>3, <1>10, <2>1 DEF DataWritten, Answers
<1> QED
  BY <1>4, <1>5, <1>6, <1>7, <1>8, <1>9, <1>10 DEF Request

\* And so are crashes, losses of power and recoveries.
LEMMA RestartEntry ==
  ASSUME Inv, Inv', Recovery \/ Crash \/ PowerLoss \/ WriteBack
  PROVE  [E!Next]_(E!vars)
<1>1. target.seen \in target.after /\ target.after \subseteq Names
  BY Shapes DEF PlaceOf
<1>2. ASSUME UNCHANGED <<target, data, manifest>>
      PROVE  Entry' = Entry /\ Reach' = Reach
  BY <1>2 DEF Entry, Reach, Intact
<1>3. CASE Recovery
  <2>1. CASE Open
    <3>1. E!Recover
      BY <1>2, <2>1 DEF Open, places, E!Recover
    <3> QED
      BY <3>1 DEF E!Next
  <2>2. CASE \E c \in Copies : Sweep(c) \/ Reject(c)
    BY <1>2, <2>2 DEF Sweep, Reject, places, Answers, E!vars
  <2> QED
    BY <1>3, <2>1, <2>2 DEF Recovery
<1>4. CASE Crash
  <2>1. E!Crash
    BY <1>2, <1>4 DEF Crash, places, E!Crash
  <2> QED
    BY <2>1 DEF E!Next
<1>5. CASE PowerLoss
  <2>1. PICK v \in target.after : target' = [seen |-> v, after |-> {v}]
    BY <1>5 DEF PowerLoss, Lost, On
  <2>2. v \in {{}} \cup {{c} : c \in Reach}
    BY <1>1, <2>1 DEF Names, Reach
  <2>3. Reach' = v
    BY <1>1, <2>1 DEF Names, Reach
  <2>4. Entry' \in {{}, v}
    BY <1>1, <2>1 DEF Names, Entry
  <2>5. answered \subseteq Entry'
    <3>1. answered' = answered
      BY <1>5 DEF PowerLoss
    <3>2. AnsweredSurvives'
      BY InvAnswers, PTL
    <3>3. \A c \in answered' : target'.seen = {c} /\ Intact(c)'
      BY <3>2 DEF AnsweredSurvives
    <3> QED
      BY <3>1, <3>3 DEF Entry
  <2>6. E!PowerLoss
    BY <1>5, <2>2, <2>3, <2>4, <2>5 DEF PowerLoss, E!PowerLoss
  <2> QED
    BY <2>6 DEF E!Next
<1>6. CASE WriteBack
  <2>1. /\ target' = [seen |-> target.seen, after |-> {target.seen}]
        /\ UNCHANGED <<data, manifest, open, answered>>
    BY <1>6 DEF WriteBack, Answers, Synced, On
  <2>2. Entry' = Entry
    BY <2>1 DEF Entry, Intact
  <2>3. Reach' \in SUBSET Reach /\ Entry \subseteq Reach'
    BY <1>1, <2>1, OneName DEF Reach, Entry
  <2>4. E!Settle
    BY <2>1, <2>2, <2>3 DEF E!Settle
  <2> QED
    BY <2>4 DEF E!Next
<1> QED
  BY <1>3, <1>4, <1>5, <1>6

\* The order of the syncs, the sweep and the checks of a recovery make of files and
\* directories an entry that is published, and goes, in one step each, and that no crash
\* and no loss of power takes away once its commit was answered (commit_*,
\* _remove_directory, recover).
THEOREM EntryIsAtomic == Spec => ImplementsEntry
<1>1. Init => E!Init
  BY DEF Init, On, E!Init, Entry, Reach
<1>2. Init => Once
  BY DEF Init, Once
<1>3. Inv /\ Inv' /\ Once /\ [Next]_vars => [E!Next]_(E!vars)
  <2> SUFFICES ASSUME Inv, Inv', Once, [Next]_vars PROVE [E!Next]_(E!vars)
    OBVIOUS
  <2>1. CASE CallStep
    BY <2>1, CallEntry DEF CallStep
  <2>2. CASE \E c \in Copies : Request(c) \/ Damage(c) \/ DataWritten(c)
    BY <2>2, RequestEntry
  <2>3. CASE Recovery \/ Crash \/ PowerLoss \/ WriteBack
    BY <2>3, RestartEntry
  <2>4. CASE UNCHANGED vars
    BY <2>4 DEF vars, places, E!vars, Entry, Reach, Intact
  <2> QED
    BY <2>1, <2>2, <2>3, <2>4 DEF Next
<1> QED
  BY <1>1, <1>2, <1>3, OnceStep, PublicationInvariance, PTL DEF Spec, ImplementsEntry, E!Spec
=============================================================================
