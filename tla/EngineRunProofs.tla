---------------------------- MODULE EngineRunProofs ----------------------------
(***************************************************************************)
(* The invariants of EngineRun, proved for any limits, any results and any *)
(* way in which an engine process works, dies and is stopped.              *)
(***************************************************************************)
EXTENDS EngineRun, TLAPS

\* How far the writing is: nothing yet, or the whole rows so far, or why it ended.
PreviewOf(n) == IF n < PreviewRows THEN n ELSE PreviewRows
AllWritten ==
  rows <= MaxRows /\ file = result.bytes[rows] /\ file <= MaxBytes /\ preview = PreviewOf(rows)

WriterInv ==
  /\ rows <= result.rows
  /\ verdict = "header" => rows = 0 /\ file = 0 /\ preview = 0
  /\ verdict = "rows" => AllWritten
  /\ verdict = "written" => rows = result.rows /\ AllWritten
  /\ verdict = "limit" => ~Within(result)
  /\ verdict = "interrupted" => format = "sqlite"
  /\ W!FileIsPrefix

\* What the step of the process says of its work and of the pipe.
EngineInv ==
  /\ engine \in {"none", "spawned"} => verdict = "header" /\ spill = 0 /\ pipe = "empty"
  /\ engine = "work" => pipe = "empty"
  /\ engine \in {"send", "sending", "sent"} \/ pipe # "empty" => verdict \in W!Ended /\ spill = 0
  /\ engine = "send" => pipe = "empty"
  /\ pipe = "partial" => engine \in {"sending", "gone"}
  /\ pipe = "whole" => engine \in {"sent", "gone"}

\* What the step of the request thread says of what it has seen.
ThreadInv ==
  /\ pc = "start" => engine = "none" /\ ~received
  /\ received => pipe = "whole"
  /\ pc = "observe" /\ received => ~listed
  /\ outcome # "none" => PipeClosed
  /\ PipeClosed /\ outcome = "none" => received /\ reserved = file
  /\ pc = "done" => outcome # "none"
  /\ outcome = "ok" => engine = "gone" /\ received /\ reserved = file /\ verdict = "written"

Inv ==
  /\ TypeOK /\ (kind = "query" => WriterInv) /\ EngineInv /\ ThreadInv
  /\ OutcomeTrue /\ ReceivedNotLost

-----------------------------------------------------------------------------
(* The writer *)

\* Before the first step nothing is written.
LEMMA InvInit == Init => Inv
<1> SUFFICES ASSUME Init PROVE Inv
  OBVIOUS
<1>1. IsTable(result) /\ result \in Tables
  <2>1. result \in Tables
    BY DEF Init, W!Init
  <2>2. QED
    BY <2>1, LimitsAssumption
<1>2. result.rows \in Nat /\ MaxBytes \in Nat
  BY <1>1, LimitsAssumption DEF IsTable
<1>3. TypeOK
  BY <1>1 DEF Init, W!Init, TypeOK, W!TypeOK, W!Writing, Outcomes
<1>4. WriterInv
  BY <1>2 DEF Init, W!Init, WriterInv, W!FileIsPrefix
<1>5. EngineInv /\ ThreadInv
  BY DEF Init, W!Init, EngineInv, ThreadInv, PipeClosed
<1>6. QED
  BY <1>3, <1>4, <1>5 DEF Inv, Init, OutcomeTrue, ReceivedNotLost

\* A step of the writer keeps what is known of its work: the tests of the limits
\* come before the writes.
LEMMA WriterKeeps ==
  ASSUME W!TypeOK, WriterInv, kind = "query", W!Next
  PROVE  W!TypeOK' /\ WriterInv'
<1>1. /\ result \in Tables /\ rows \in Nat /\ file \in Nat /\ preview \in Nat
      /\ verdict \in W!Writing \cup W!Ended
      /\ format \in {"sqlite", "duckdb"} /\ expired \in BOOLEAN
  BY DEF W!TypeOK
<1>2. /\ result.rows \in Nat /\ result.bytes \in [0 .. result.rows -> Nat \ {0}]
      /\ \A j, k \in 0 .. result.rows : j < k => result.bytes[j] < result.bytes[k]
      /\ MaxRows \in Nat \ {0} /\ MaxBytes \in Nat /\ PreviewRows \in Nat
  BY <1>1, LimitsAssumption DEF IsTable
<1>3. rows <= result.rows
  BY DEF WriterInv
<1>4. CASE W!WriteHeader
  <2>1. rows = 0 /\ file = 0 /\ preview = 0 /\ UNCHANGED <<format, expired, result, rows, preview>>
    BY <1>4 DEF W!WriteHeader, WriterInv
  <2>2. result.bytes[0] \in Nat \ {0}
    BY <1>2
  <2>3. CASE W!Refuses(result.bytes[0]) /\ verdict' = "limit" /\ UNCHANGED file
    <3>1. result.bytes[0] <= result.bytes[result.rows] /\ result.bytes[result.rows] \in Nat
      BY <1>2
    <3>2. ~Within(result)
      BY <1>2, <2>2, <2>3, <3>1 DEF W!Refuses, Within
    <3>3. QED
      BY <1>1, <1>2, <1>3, <2>1, <2>3, <3>2
      DEF WriterInv, W!FileIsPrefix, W!TypeOK, W!Writing, W!Ended
  <2>4. CASE ~W!Refuses(result.bytes[0]) /\ verdict' = "rows" /\ file' = result.bytes[0]
    <3>1. AllWritten'
      BY <1>2, <2>1, <2>2, <2>4 DEF AllWritten, PreviewOf, W!Refuses
    <3>2. W!FileIsPrefix'
      BY <1>2, <1>3, <2>1, <2>2, <2>4 DEF W!FileIsPrefix, W!Refuses
    <3>3. QED
      BY <1>1, <1>3, <2>1, <2>2, <2>4, <3>1, <3>2 DEF WriterInv, W!TypeOK, W!Writing, W!Ended
  <2>5. QED
    BY <1>4, <2>3, <2>4 DEF W!WriteHeader
<1>5. CASE W!RefuseRow
  <2>1. /\ rows < result.rows /\ rows + 1 > MaxRows /\ rows' = rows + 1 /\ verdict' = "limit"
        /\ UNCHANGED <<format, expired, result, file, preview>>
    BY <1>5 DEF W!RefuseRow
  <2>2. ~Within(result)
    BY <1>1, <1>2, <2>1 DEF Within
  <2>3. W!FileIsPrefix'
    BY <1>1, <1>2, <2>1 DEF WriterInv, W!FileIsPrefix
  <2>4. QED
    BY <1>1, <1>2, <2>1, <2>2, <2>3 DEF WriterInv, W!TypeOK, W!Writing, W!Ended
<1>6. CASE W!WriteRow
  <2>1. /\ verdict = "rows" /\ rows < result.rows /\ rows + 1 <= MaxRows /\ rows' = rows + 1
        /\ preview' = IF preview < PreviewRows THEN preview + 1 ELSE preview
        /\ UNCHANGED <<format, expired, result>>
    BY <1>6 DEF W!WriteRow
  <2>2. rows + 1 \in 0 .. result.rows /\ result.bytes[rows + 1] \in Nat
    BY <1>1, <1>2, <2>1
  <2>3. preview' = PreviewOf(rows + 1) /\ preview' \in Nat
    BY <1>1, <1>2, <2>1 DEF WriterInv, AllWritten, PreviewOf
  <2>4. CASE W!Refuses(result.bytes[rows + 1]) /\ verdict' = "limit" /\ UNCHANGED file
    <3>1. result.bytes[rows + 1] <= result.bytes[result.rows] /\ result.bytes[result.rows] \in Nat
      BY <1>2, <2>2
    <3>2. ~Within(result)
      BY <1>2, <2>2, <2>4, <3>1 DEF W!Refuses, Within
    <3>3. W!FileIsPrefix'
      BY <1>1, <1>2, <2>1, <2>4 DEF WriterInv, W!FileIsPrefix
    <3>4. QED
      BY <1>1, <1>2, <2>1, <2>3, <2>4, <3>2, <3>3 DEF WriterInv, W!TypeOK, W!Writing, W!Ended
  <2>5. CASE ~W!Refuses(result.bytes[rows + 1]) /\ file' = result.bytes[rows + 1]
             /\ UNCHANGED verdict
    <3>1. AllWritten'
      BY <1>2, <2>1, <2>2, <2>3, <2>5 DEF AllWritten, PreviewOf, W!Refuses
    <3>2. W!FileIsPrefix'
      BY <1>1, <1>2, <2>1, <2>2, <2>5 DEF W!FileIsPrefix, W!Refuses
    <3>3. QED
      BY <1>1, <1>2, <2>1, <2>2, <2>3, <2>5, <3>1, <3>2 DEF WriterInv, W!TypeOK
  <2>6. QED
    BY <1>6, <2>4, <2>5 DEF W!WriteRow
<1>7. CASE W!Finish
  BY <1>1, <1>3, <1>7
  DEF W!Finish, WriterInv, AllWritten, PreviewOf, W!FileIsPrefix, W!TypeOK, W!Writing, W!Ended
<1>8. CASE W!Interrupt \/ W!Reject \/ W!RejectAsInterrupted \/ W!Expire
  BY <1>1, <1>3, <1>8
  DEF W!Interrupt, W!Reject, W!RejectAsInterrupted, W!Stops, W!Expire, WriterInv, AllWritten,
      PreviewOf, W!FileIsPrefix, W!TypeOK, W!Writing, W!Ended
<1>9. QED
  BY <1>4, <1>5, <1>6, <1>7, <1>8 DEF W!Next
-----------------------------------------------------------------------------
(* Steps *)

\* What is known of the writer's work is about its variables only.
LEMMA WriterStays ==
  ASSUME WriterInv, UNCHANGED writerVars
  PROVE  WriterInv'
BY DEF WriterInv, writerVars, AllWritten, PreviewOf, W!FileIsPrefix

\* The answers of the engine that the request thread makes of verdicts.
LEMMA Answers ==
  ASSUME verdict \in W!Ended
  PROVE  /\ Answer \in {"ok", "limit", "timeout", "rejected"}
         /\ Answer = "ok" => verdict = "written"
         /\ Answer = "limit" => kind = "query" /\ verdict = "limit"
         /\ Answer = "timeout" => kind = "query" /\ verdict = "interrupted"
BY DEF Answer, W!Ended

\* A step of the query's work.
LEMMA WriteResultKeeps == Inv /\ WriteResult => Inv'
<1> SUFFICES ASSUME Inv, WriteResult PROVE Inv'
  OBVIOUS
<1>1. /\ TypeOK /\ WriterInv /\ EngineInv /\ ThreadInv /\ OutcomeTrue /\ ReceivedNotLost
      /\ kind = "query" /\ engine = "work" /\ W!Next /\ pipe = "empty"
      /\ UNCHANGED <<kind, spill, engine, pipe, threadVars, due, cancelled>>
  BY DEF Inv, WriteResult, EngineInv
<1>2. W!TypeOK' /\ WriterInv'
  BY <1>1, WriterKeeps DEF TypeOK
<1>3. verdict \in W!Writing /\ UNCHANGED <<format, result>>
  BY <1>1
  DEF W!Next, W!WriteHeader, W!RefuseRow, W!WriteRow, W!Finish, W!Interrupt, W!Reject,
      W!RejectAsInterrupted, W!Stops, W!Expire, W!Writing
<1>4. TypeOK'
  BY <1>1, <1>2 DEF TypeOK, threadVars
<1>5. EngineInv'
  BY <1>1 DEF EngineInv
<1>6. ThreadInv'
  BY <1>1 DEF ThreadInv, EngineInv, threadVars, PipeClosed
<1>7. OutcomeTrue' /\ ReceivedNotLost'
  BY <1>1, <1>3 DEF OutcomeTrue, ReceivedNotLost, threadVars, Within, W!Writing
<1>8. QED
  BY <1>2, <1>4, <1>5, <1>6, <1>7 DEF Inv

\* A process that is set up begins to work, or answers that it could not be.
LEMMA SetupKeeps == Inv /\ Setup => Inv'
<1> SUFFICES ASSUME Inv, Setup PROVE Inv'
  OBVIOUS
<1>1. /\ TypeOK /\ (kind = "query" => WriterInv) /\ EngineInv /\ ThreadInv
      /\ OutcomeTrue /\ ReceivedNotLost
  BY DEF Inv
<1>2. TypeOK'
  BY <1>1 DEF Setup, Unseen, threadVars, engineVars, writerVars, TypeOK, W!TypeOK, W!Writing,
     W!Ended, Outcomes
<1>3. kind' = "query" => WriterInv'
  BY <1>1 DEF Setup, WriterInv, EngineInv, W!FileIsPrefix
<1>4. EngineInv'
  BY <1>1 DEF Setup, Unseen, threadVars, engineVars, writerVars, EngineInv, PipeClosed,
     ThreadInv, TypeOK, Alive, W!Ended
<1>5. ThreadInv'
  BY <1>1 DEF Setup, Unseen, threadVars, engineVars, writerVars, ThreadInv, EngineInv, TypeOK,
     PipeClosed, Alive
<1>6. OutcomeTrue' /\ ReceivedNotLost'
  BY <1>1 DEF Setup, Unseen, threadVars, engineVars, writerVars, OutcomeTrue, ReceivedNotLost,
     ThreadInv, EngineInv, Within, Alive, PipeClosed, W!Ended
<1>7. QED
  BY <1>2, <1>3, <1>4, <1>5, <1>6 DEF Inv

\* An ingestion has no result that could be cut.
LEMMA ConvertKeeps == Inv /\ Convert => Inv'
<1> SUFFICES ASSUME Inv, Convert PROVE Inv'
  OBVIOUS
<1>1. /\ TypeOK /\ (kind = "query" => WriterInv) /\ EngineInv /\ ThreadInv
      /\ OutcomeTrue /\ ReceivedNotLost
  BY DEF Inv
<1>2. TypeOK'
  BY <1>1 DEF Convert, Unseen, threadVars, engineVars, writerVars, TypeOK, W!TypeOK,
     W!Writing, W!Ended, Outcomes
<1>3. kind' # "query"
  BY DEF Convert
<1>4. EngineInv'
  BY <1>1 DEF Convert, Unseen, threadVars, engineVars, writerVars, EngineInv, PipeClosed,
     ThreadInv, TypeOK, Alive, W!Writing, W!Ended
<1>5. ThreadInv'
  BY <1>1 DEF Convert, Unseen, threadVars, engineVars, writerVars, ThreadInv, EngineInv,
     TypeOK, PipeClosed, Alive
<1>6. OutcomeTrue' /\ ReceivedNotLost'
  BY <1>1 DEF Convert, Unseen, threadVars, engineVars, writerVars, OutcomeTrue,
     ReceivedNotLost, ThreadInv, EngineInv, Within, Alive, PipeClosed, W!Writing, W!Ended
<1>7. QED
  BY <1>2, <1>3, <1>4, <1>5, <1>6 DEF Inv

\* The database spills only while there is no answer.
LEMMA SpillKeeps == Inv /\ Spill => Inv'
<1> SUFFICES ASSUME Inv, Spill PROVE Inv'
  OBVIOUS
<1>1. /\ TypeOK /\ (kind = "query" => WriterInv) /\ EngineInv /\ ThreadInv
      /\ OutcomeTrue /\ ReceivedNotLost
  BY DEF Inv
<1>2. TypeOK'
  BY <1>1 DEF Spill, Unseen, threadVars, engineVars, writerVars, TypeOK, W!TypeOK, W!Writing,
     W!Ended, Outcomes
<1>3. kind' = "query" => WriterInv'
  BY <1>1, WriterStays DEF Spill, Unseen, threadVars, engineVars, writerVars
<1>4. EngineInv'
  BY <1>1 DEF Spill, Unseen, threadVars, engineVars, writerVars, EngineInv, PipeClosed,
     ThreadInv, TypeOK, Alive
<1>5. ThreadInv'
  BY <1>1 DEF Spill, Unseen, threadVars, engineVars, writerVars, ThreadInv, EngineInv, TypeOK,
     PipeClosed, Alive
<1>6. OutcomeTrue' /\ ReceivedNotLost'
  BY <1>1 DEF Spill, Unseen, threadVars, engineVars, writerVars, OutcomeTrue, ReceivedNotLost,
     ThreadInv, EngineInv, Within, Alive, PipeClosed
<1>7. QED
  BY <1>2, <1>3, <1>4, <1>5, <1>6 DEF Inv

\* The answer is made once the spill files are gone.
LEMMA CloseConnectionKeeps == Inv /\ CloseConnection => Inv'
<1> SUFFICES ASSUME Inv, CloseConnection PROVE Inv'
  OBVIOUS
<1>1. /\ TypeOK /\ (kind = "query" => WriterInv) /\ EngineInv /\ ThreadInv
      /\ OutcomeTrue /\ ReceivedNotLost
  BY DEF Inv
<1>2. TypeOK'
  BY <1>1 DEF CloseConnection, Unseen, threadVars, engineVars, writerVars, TypeOK, W!TypeOK,
     W!Writing, W!Ended, Outcomes
<1>3. kind' = "query" => WriterInv'
  BY <1>1, WriterStays DEF CloseConnection, Unseen, threadVars, engineVars, writerVars
<1>4. EngineInv'
  BY <1>1 DEF CloseConnection, Unseen, threadVars, engineVars, writerVars, EngineInv,
     PipeClosed, ThreadInv, TypeOK, Alive, W!Ended
<1>5. ThreadInv'
  BY <1>1 DEF CloseConnection, Unseen, threadVars, engineVars, writerVars, ThreadInv,
     EngineInv, TypeOK, PipeClosed, Alive
<1>6. OutcomeTrue' /\ ReceivedNotLost'
  BY <1>1 DEF CloseConnection, Unseen, threadVars, engineVars, writerVars, OutcomeTrue,
     ReceivedNotLost, ThreadInv, EngineInv, Within, Alive, PipeClosed, W!Ended
<1>7. QED
  BY <1>2, <1>3, <1>4, <1>5, <1>6 DEF Inv

\* The answer that is sent is final.
LEMMA SendBeginsKeeps == Inv /\ SendBegins => Inv'
<1> SUFFICES ASSUME Inv, SendBegins PROVE Inv'
  OBVIOUS
<1>1. /\ TypeOK /\ (kind = "query" => WriterInv) /\ EngineInv /\ ThreadInv
      /\ OutcomeTrue /\ ReceivedNotLost
  BY DEF Inv
<1>2. TypeOK'
  BY <1>1 DEF SendBegins, Unseen, threadVars, engineVars, writerVars, TypeOK, W!TypeOK,
     W!Writing, W!Ended, Outcomes
<1>3. kind' = "query" => WriterInv'
  BY <1>1, WriterStays DEF SendBegins, Unseen, threadVars, engineVars, writerVars
<1>4. EngineInv'
  BY <1>1 DEF SendBegins, Unseen, threadVars, engineVars, writerVars, EngineInv, PipeClosed,
     ThreadInv, TypeOK, Alive
<1>5. ThreadInv'
  BY <1>1 DEF SendBegins, Unseen, threadVars, engineVars, writerVars, ThreadInv, EngineInv,
     TypeOK, PipeClosed, Alive
<1>6. OutcomeTrue' /\ ReceivedNotLost'
  BY <1>1 DEF SendBegins, Unseen, threadVars, engineVars, writerVars, OutcomeTrue,
     ReceivedNotLost, ThreadInv, EngineInv, Within, Alive, PipeClosed
<1>7. QED
  BY <1>2, <1>3, <1>4, <1>5, <1>6 DEF Inv

\* The answer is whole once the process has sent it.
LEMMA SendEndsKeeps == Inv /\ SendEnds => Inv'
<1> SUFFICES ASSUME Inv, SendEnds PROVE Inv'
  OBVIOUS
<1>1. /\ TypeOK /\ (kind = "query" => WriterInv) /\ EngineInv /\ ThreadInv
      /\ OutcomeTrue /\ ReceivedNotLost
  BY DEF Inv
<1>2. TypeOK'
  BY <1>1 DEF SendEnds, Unseen, threadVars, engineVars, writerVars, TypeOK, W!TypeOK,
     W!Writing, W!Ended, Outcomes
<1>3. kind' = "query" => WriterInv'
  BY <1>1, WriterStays DEF SendEnds, Unseen, threadVars, engineVars, writerVars
<1>4. EngineInv'
  BY <1>1 DEF SendEnds, Unseen, threadVars, engineVars, writerVars, EngineInv, PipeClosed,
     ThreadInv, TypeOK, Alive
<1>5. ThreadInv'
  BY <1>1 DEF SendEnds, Unseen, threadVars, engineVars, writerVars, ThreadInv, EngineInv,
     TypeOK, PipeClosed, Alive
<1>6. OutcomeTrue' /\ ReceivedNotLost'
  BY <1>1 DEF SendEnds, Unseen, threadVars, engineVars, writerVars, OutcomeTrue,
     ReceivedNotLost, ThreadInv, EngineInv, Within, Alive, PipeClosed
<1>7. QED
  BY <1>2, <1>3, <1>4, <1>5, <1>6 DEF Inv

\* A process that ends leaves the pipe as it is.
LEMMA ExitKeeps == Inv /\ Exit => Inv'
<1> SUFFICES ASSUME Inv, Exit PROVE Inv'
  OBVIOUS
<1>1. /\ TypeOK /\ (kind = "query" => WriterInv) /\ EngineInv /\ ThreadInv
      /\ OutcomeTrue /\ ReceivedNotLost
  BY DEF Inv
<1>2. TypeOK'
  BY <1>1 DEF Exit, Unseen, threadVars, engineVars, writerVars, TypeOK, W!TypeOK, W!Writing,
     W!Ended, Outcomes
<1>3. kind' = "query" => WriterInv'
  BY <1>1, WriterStays DEF Exit, Unseen, threadVars, engineVars, writerVars
<1>4. EngineInv'
  BY <1>1 DEF Exit, Unseen, threadVars, engineVars, writerVars, EngineInv, PipeClosed,
     ThreadInv, TypeOK, Alive
<1>5. ThreadInv'
  BY <1>1 DEF Exit, Unseen, threadVars, engineVars, writerVars, ThreadInv, EngineInv, TypeOK,
     PipeClosed, Alive
<1>6. OutcomeTrue' /\ ReceivedNotLost'
  BY <1>1 DEF Exit, Unseen, threadVars, engineVars, writerVars, OutcomeTrue, ReceivedNotLost,
     ThreadInv, EngineInv, Within, Alive, PipeClosed
<1>7. QED
  BY <1>2, <1>3, <1>4, <1>5, <1>6 DEF Inv

\* The process starts from nothing.
LEMMA StartKeeps == Inv /\ Start => Inv'
<1> SUFFICES ASSUME Inv, Start PROVE Inv'
  OBVIOUS
<1>1. /\ TypeOK /\ (kind = "query" => WriterInv) /\ EngineInv /\ ThreadInv
      /\ OutcomeTrue /\ ReceivedNotLost
  BY DEF Inv
<1>2. TypeOK'
  BY <1>1 DEF Start, Unseen, threadVars, engineVars, writerVars, FailAs, TypeOK, W!TypeOK,
     W!Writing, W!Ended, Outcomes
<1>3. kind' = "query" => WriterInv'
  BY <1>1, WriterStays DEF Start, Unseen, threadVars, engineVars, writerVars, FailAs
<1>4. EngineInv'
  BY <1>1 DEF Start, Unseen, threadVars, engineVars, writerVars, FailAs, EngineInv,
     PipeClosed, ThreadInv, TypeOK, Alive
<1>5. ThreadInv'
  BY <1>1 DEF Start, Unseen, threadVars, engineVars, writerVars, FailAs, ThreadInv, EngineInv,
     TypeOK, PipeClosed, Alive
<1>6. OutcomeTrue' /\ ReceivedNotLost'
  BY <1>1 DEF Start, Unseen, threadVars, engineVars, writerVars, FailAs, OutcomeTrue,
     ReceivedNotLost, ThreadInv, EngineInv, Within, Alive, PipeClosed
<1>7. QED
  BY <1>2, <1>3, <1>4, <1>5, <1>6 DEF Inv

\* Something can be read, or not.
LEMMA PollKeeps == Inv /\ Poll => Inv'
<1> SUFFICES ASSUME Inv, Poll PROVE Inv'
  OBVIOUS
<1>1. /\ TypeOK /\ (kind = "query" => WriterInv) /\ EngineInv /\ ThreadInv
      /\ OutcomeTrue /\ ReceivedNotLost
  BY DEF Inv
<1>2. TypeOK'
  BY <1>1 DEF Poll, Unseen, threadVars, engineVars, writerVars, FailAs, TypeOK, W!TypeOK,
     W!Writing, W!Ended, Outcomes
<1>3. kind' = "query" => WriterInv'
  BY <1>1, WriterStays DEF Poll, Unseen, threadVars, engineVars, writerVars, FailAs
<1>4. EngineInv'
  BY <1>1 DEF Poll, Unseen, threadVars, engineVars, writerVars, FailAs, EngineInv, PipeClosed,
     ThreadInv, TypeOK, Alive
<1>5. ThreadInv'
  BY <1>1 DEF Poll, Unseen, threadVars, engineVars, writerVars, FailAs, ThreadInv, EngineInv,
     TypeOK, PipeClosed, Alive
<1>6. OutcomeTrue' /\ ReceivedNotLost'
  BY <1>1 DEF Poll, Unseen, threadVars, engineVars, writerVars, FailAs, OutcomeTrue,
     ReceivedNotLost, ThreadInv, EngineInv, Within, Alive, PipeClosed
<1>7. QED
  BY <1>2, <1>3, <1>4, <1>5, <1>6 DEF Inv

\* What is received is whole; a process that is taken for dead is, without an answer.
LEMMA RecvKeeps == Inv /\ Recv => Inv'
<1> SUFFICES ASSUME Inv, Recv PROVE Inv'
  OBVIOUS
<1>1. /\ TypeOK /\ (kind = "query" => WriterInv) /\ EngineInv /\ ThreadInv
      /\ OutcomeTrue /\ ReceivedNotLost
  BY DEF Inv
<1>2. TypeOK'
  <2>1. /\ received' \in BOOLEAN /\ pc' \in {"monitor", "join"}
        /\ outcome' \in {outcome, "died", "error"}
    BY <1>1 DEF Recv, FailAs, TypeOK
  <2>2. UNCHANGED <<kind, engineVars, pipe, listed, reserved, due, cancelled>>
    BY DEF Recv, Unseen, engineVars, writerVars
  <2>3. QED
    BY <1>1, <2>1, <2>2 DEF TypeOK, W!TypeOK, engineVars, writerVars, Outcomes
<1>3. kind' = "query" => WriterInv'
  BY <1>1, WriterStays DEF Recv, Unseen, threadVars, engineVars, writerVars, FailAs
<1>4. EngineInv'
  BY <1>1 DEF Recv, Unseen, threadVars, engineVars, writerVars, FailAs, EngineInv, PipeClosed,
     ThreadInv, TypeOK, Alive
<1>5. ThreadInv'
  BY <1>1 DEF Recv, Unseen, threadVars, engineVars, writerVars, FailAs, ThreadInv, EngineInv,
     TypeOK, PipeClosed, Alive
<1>6. OutcomeTrue' /\ ReceivedNotLost'
  BY <1>1 DEF Recv, Unseen, threadVars, engineVars, writerVars, FailAs, OutcomeTrue,
     ReceivedNotLost, ThreadInv, EngineInv, Within, Alive, PipeClosed
<1>7. QED
  BY <1>2, <1>3, <1>4, <1>5, <1>6 DEF Inv

\* The directory that is listed after the answer holds no spill files.
LEMMA MonitorKeeps == Inv /\ Monitor => Inv'
<1> SUFFICES ASSUME Inv, Monitor PROVE Inv'
  OBVIOUS
<1>1. /\ TypeOK /\ (kind = "query" => WriterInv) /\ EngineInv /\ ThreadInv
      /\ OutcomeTrue /\ ReceivedNotLost
  BY DEF Inv
<1>2. TypeOK'
  <2>1. /\ listed' = listed \/ listed' = (spill > 0)
        /\ pc' \in {"join", "observe"} /\ outcome' \in {outcome, "interrupted"}
    BY DEF Monitor, FailAs
  <2>2. listed' \in BOOLEAN
    <3>1. (spill > 0) \in BOOLEAN /\ listed \in BOOLEAN
      BY <1>1 DEF TypeOK
    <3>2. QED
      BY <2>1, <3>1, Zenon
  <2>3. UNCHANGED <<kind, engineVars, pipe, received, reserved, due, cancelled>>
    BY DEF Monitor, Unseen, engineVars, writerVars
  <2>4. QED
    BY <1>1, <2>1, <2>2, <2>3 DEF TypeOK, W!TypeOK, engineVars, writerVars, Outcomes
<1>3. kind' = "query" => WriterInv'
  BY <1>1, WriterStays DEF Monitor, Unseen, threadVars, engineVars, writerVars, FailAs
<1>4. EngineInv'
  BY <1>1 DEF Monitor, Unseen, threadVars, engineVars, writerVars, FailAs, EngineInv,
     PipeClosed, ThreadInv, TypeOK, Alive
<1>5. ThreadInv'
  BY <1>1 DEF Monitor, Unseen, threadVars, engineVars, writerVars, FailAs, ThreadInv,
     EngineInv, TypeOK, PipeClosed, Alive
<1>6. OutcomeTrue' /\ ReceivedNotLost'
  BY <1>1 DEF Monitor, Unseen, threadVars, engineVars, writerVars, FailAs, OutcomeTrue,
     ReceivedNotLost, ThreadInv, EngineInv, Within, Alive, PipeClosed
<1>7. QED
  BY <1>2, <1>3, <1>4, <1>5, <1>6 DEF Inv

\* What is reserved after the answer is all that there is.
LEMMA ObserveKeeps == Inv /\ Observe => Inv'
<1> SUFFICES ASSUME Inv, Observe PROVE Inv'
  OBVIOUS
<1>1. /\ TypeOK /\ (kind = "query" => WriterInv) /\ EngineInv /\ ThreadInv
      /\ OutcomeTrue /\ ReceivedNotLost
  BY DEF Inv
<1>2. TypeOK'
  BY <1>1 DEF Observe, Unseen, threadVars, engineVars, writerVars, FailAs, TypeOK, W!TypeOK,
     W!Writing, W!Ended, Outcomes
<1>3. kind' = "query" => WriterInv'
  BY <1>1, WriterStays DEF Observe, Unseen, threadVars, engineVars, writerVars, FailAs
<1>4. EngineInv'
  BY <1>1 DEF Observe, Unseen, threadVars, engineVars, writerVars, FailAs, EngineInv,
     PipeClosed, ThreadInv, TypeOK, Alive
<1>5. ThreadInv'
  <2>1. /\ pc = "observe" /\ outcome = "none" /\ spill \in {0, 1}
        /\ UNCHANGED <<engine, pipe, received, listed, file, verdict>>
    BY <1>1 DEF Observe, Unseen, writerVars, ThreadInv, PipeClosed, TypeOK
  <2>2. CASE pc' = "join" /\ outcome' # "none"
    BY <1>1, <2>1, <2>2 DEF Observe, FailAs, ThreadInv, PipeClosed
  <2>3. CASE outcome' = "none"
    <3>1. /\ reserved' = file + (IF listed THEN spill ELSE 0)
          /\ pc' = IF received THEN "join" ELSE "deadline"
      BY <2>1, <2>3 DEF Observe, FailAs
    <3>2. received => reserved' = file
      BY <1>1, <2>1, <3>1 DEF ThreadInv, TypeOK, W!TypeOK
    <3>3. QED
      BY <1>1, <2>1, <2>3, <3>1, <3>2 DEF ThreadInv, PipeClosed
  <2>4. QED
    BY <2>1, <2>2, <2>3 DEF Observe, FailAs
<1>6. OutcomeTrue' /\ ReceivedNotLost'
  BY <1>1 DEF Observe, Unseen, threadVars, engineVars, writerVars, FailAs, OutcomeTrue,
     ReceivedNotLost, ThreadInv, EngineInv, Within, Alive, PipeClosed
<1>7. QED
  BY <1>2, <1>3, <1>4, <1>5, <1>6 DEF Inv

\* A timeout is one.
LEMMA DeadlineKeeps == Inv /\ Deadline => Inv'
<1> SUFFICES ASSUME Inv, Deadline PROVE Inv'
  OBVIOUS
<1>1. /\ TypeOK /\ (kind = "query" => WriterInv) /\ EngineInv /\ ThreadInv
      /\ OutcomeTrue /\ ReceivedNotLost
  BY DEF Inv
<1>2. TypeOK'
  BY <1>1 DEF Deadline, Unseen, threadVars, engineVars, writerVars, FailAs, TypeOK, W!TypeOK,
     W!Writing, W!Ended, Outcomes
<1>3. kind' = "query" => WriterInv'
  BY <1>1, WriterStays DEF Deadline, Unseen, threadVars, engineVars, writerVars, FailAs
<1>4. EngineInv'
  BY <1>1 DEF Deadline, Unseen, threadVars, engineVars, writerVars, FailAs, EngineInv,
     PipeClosed, ThreadInv, TypeOK, Alive
<1>5. ThreadInv'
  BY <1>1 DEF Deadline, Unseen, threadVars, engineVars, writerVars, FailAs, ThreadInv,
     EngineInv, TypeOK, PipeClosed, Alive
<1>6. OutcomeTrue' /\ ReceivedNotLost'
  BY <1>1 DEF Deadline, Unseen, threadVars, engineVars, writerVars, FailAs, OutcomeTrue,
     ReceivedNotLost, ThreadInv, EngineInv, Within, Alive, PipeClosed
<1>7. QED
  BY <1>2, <1>3, <1>4, <1>5, <1>6 DEF Inv

\* The answer is made once the process is gone.
LEMMA JoinKeeps == Inv /\ Join => Inv'
<1> SUFFICES ASSUME Inv, Join PROVE Inv'
  OBVIOUS
<1>1. /\ TypeOK /\ (kind = "query" => WriterInv) /\ EngineInv /\ ThreadInv
      /\ OutcomeTrue /\ ReceivedNotLost
  BY DEF Inv
<1>2. UNCHANGED <<kind, engineVars, pipe, received, listed, reserved, due, cancelled>>
  BY DEF Join, Unseen, engineVars, writerVars
<1>3. /\ pc \in {"join", "terminate", "kill"} /\ pc' \in {"terminate", "kill", "done"}
      /\ \/ ~Alive /\ outcome = "none" /\ outcome' = Answer /\ pc' = "done"
         \/ UNCHANGED outcome /\ (pc' = "done" => outcome # "none")
         \/ outcome' = "stuck"
  BY DEF Join
<1>4. outcome = "none" => received /\ reserved = file /\ pipe = "whole" /\ verdict \in W!Ended
  BY <1>1, <1>3 DEF ThreadInv, EngineInv, PipeClosed
<1>5. outcome' = outcome \/ outcome' = "stuck"
        \/ (outcome = "none" /\ outcome' = Answer /\ engine = "gone")
  BY <1>1, <1>3, <1>4 DEF Alive, EngineInv
<1>6. /\ kind = "query" /\ verdict = "limit" => ~Within(result)
      /\ kind = "query" /\ verdict = "interrupted" => format = "sqlite"
  BY <1>1 DEF WriterInv
<1>7. TypeOK'
  BY <1>1, <1>2, <1>3, <1>4, <1>5, Answers DEF TypeOK, W!TypeOK, engineVars, writerVars, Outcomes
<1>8. kind' = "query" => WriterInv'
  BY <1>1, <1>2, WriterStays DEF engineVars
<1>9. EngineInv'
  BY <1>1, <1>2 DEF EngineInv, engineVars, writerVars
<1>10. ThreadInv'
  BY <1>1, <1>2, <1>3, <1>4, <1>5, Answers DEF ThreadInv, PipeClosed, engineVars, writerVars
<1>11. OutcomeTrue'
  BY <1>1, <1>2, <1>4, <1>5, <1>6, Answers DEF OutcomeTrue, engineVars, writerVars, Within
<1>12. ReceivedNotLost'
  BY <1>1, <1>2, <1>4, <1>5, Answers DEF ReceivedNotLost
<1>13. QED
  BY <1>7, <1>8, <1>9, <1>10, <1>11, <1>12 DEF Inv

\* Time passes.
LEMMA DeadlinePassesKeeps == Inv /\ DeadlinePasses => Inv'
<1> SUFFICES ASSUME Inv, DeadlinePasses PROVE Inv'
  OBVIOUS
<1>1. /\ TypeOK /\ (kind = "query" => WriterInv) /\ EngineInv /\ ThreadInv
      /\ OutcomeTrue /\ ReceivedNotLost
  BY DEF Inv
<1>2. TypeOK'
  BY <1>1 DEF DeadlinePasses, Unseen, threadVars, engineVars, writerVars, TypeOK, W!TypeOK,
     W!Writing, W!Ended, Outcomes
<1>3. kind' = "query" => WriterInv'
  BY <1>1, WriterStays DEF DeadlinePasses, Unseen, threadVars, engineVars, writerVars
<1>4. EngineInv'
  BY <1>1 DEF DeadlinePasses, Unseen, threadVars, engineVars, writerVars, EngineInv,
     PipeClosed, ThreadInv, TypeOK, Alive
<1>5. ThreadInv'
  BY <1>1 DEF DeadlinePasses, Unseen, threadVars, engineVars, writerVars, ThreadInv,
     EngineInv, TypeOK, PipeClosed, Alive
<1>6. OutcomeTrue' /\ ReceivedNotLost'
  BY <1>1 DEF DeadlinePasses, Unseen, threadVars, engineVars, writerVars, OutcomeTrue,
     ReceivedNotLost, ThreadInv, EngineInv, Within, Alive, PipeClosed
<1>7. QED
  BY <1>2, <1>3, <1>4, <1>5, <1>6 DEF Inv

\* The client goes.
LEMMA CancelKeeps == Inv /\ Cancel => Inv'
<1> SUFFICES ASSUME Inv, Cancel PROVE Inv'
  OBVIOUS
<1>1. /\ TypeOK /\ (kind = "query" => WriterInv) /\ EngineInv /\ ThreadInv
      /\ OutcomeTrue /\ ReceivedNotLost
  BY DEF Inv
<1>2. TypeOK'
  BY <1>1 DEF Cancel, Unseen, threadVars, engineVars, writerVars, TypeOK, W!TypeOK, W!Writing,
     W!Ended, Outcomes
<1>3. kind' = "query" => WriterInv'
  BY <1>1, WriterStays DEF Cancel, Unseen, threadVars, engineVars, writerVars
<1>4. EngineInv'
  BY <1>1 DEF Cancel, Unseen, threadVars, engineVars, writerVars, EngineInv, PipeClosed,
     ThreadInv, TypeOK, Alive
<1>5. ThreadInv'
  BY <1>1 DEF Cancel, Unseen, threadVars, engineVars, writerVars, ThreadInv, EngineInv,
     TypeOK, PipeClosed, Alive
<1>6. OutcomeTrue' /\ ReceivedNotLost'
  BY <1>1 DEF Cancel, Unseen, threadVars, engineVars, writerVars, OutcomeTrue,
     ReceivedNotLost, ThreadInv, EngineInv, Within, Alive, PipeClosed
<1>7. QED
  BY <1>2, <1>3, <1>4, <1>5, <1>6 DEF Inv

-----------------------------------------------------------------------------
(* The theorems *)

\* Each step keeps the invariant.
LEMMA StepKeeps == Inv /\ [Next]_vars => Inv'
<1> SUFFICES ASSUME Inv, [Next]_vars PROVE Inv'
  OBVIOUS
<1>1. CASE Engine
  BY <1>1, SetupKeeps, WriteResultKeeps, ConvertKeeps, SpillKeeps, CloseConnectionKeeps,
     SendBeginsKeeps, SendEndsKeeps, ExitKeeps DEF Engine
<1>2. CASE RequestThread
  BY <1>2, StartKeeps, PollKeeps, RecvKeeps, MonitorKeeps, ObserveKeeps, DeadlineKeeps, JoinKeeps
  DEF RequestThread
<1>3. CASE DeadlinePasses \/ Cancel
  BY <1>3, DeadlinePassesKeeps, CancelKeeps
<1>4. CASE UNCHANGED vars
  <2>1. UNCHANGED <<kind, writerVars, spill, engine, pipe, threadVars, due, cancelled>>
    BY <1>4 DEF vars, engineVars
  <2>2. kind' = "query" => WriterInv'
    BY <2>1, WriterStays DEF Inv
  <2>3. TypeOK' /\ EngineInv' /\ ThreadInv' /\ OutcomeTrue' /\ ReceivedNotLost'
    BY <2>1 DEF Inv, TypeOK, W!TypeOK, EngineInv, ThreadInv, OutcomeTrue, ReceivedNotLost,
       writerVars, threadVars, PipeClosed, Within
  <2>4. QED
    BY <2>2, <2>3 DEF Inv
<1>5. QED
  BY <1>1, <1>2, <1>3, <1>4 DEF Next

\* The invariant holds of every run.
THEOREM RunInvariance == Spec => []Inv
BY InvInit, StepKeeps, PTL DEF Spec

\* A run is in one of the states that its steps name.
THEOREM RunTypeCorrect == Spec => []TypeOK
<1>1. Inv => TypeOK
  BY DEF Inv
<1>2. QED
  BY <1>1, RunInvariance, PTL

\* An answer is made of an engine that is gone, whose result is whole, within the
\* limits and accounted for (execute_in_subprocess, stop_process).
THEOREM AnsweredRunIsFinal == Spec => []AnswerIsFinal
<1>1. Inv => AnswerIsFinal
  <2> SUFFICES ASSUME Inv, outcome = "ok" PROVE AnswerIsFinal
    BY DEF AnswerIsFinal
  <2>1. engine = "gone" /\ pipe = "whole" /\ spill = 0 /\ reserved = file /\ verdict = "written"
    BY DEF Inv, ThreadInv, EngineInv
  <2>2. ASSUME kind = "query" PROVE Within(result) /\ file = result.bytes[result.rows]
    BY <2>1, <2>2 DEF Inv, WriterInv, AllWritten, Within
  <2>3. QED
    BY <2>1, <2>2 DEF AnswerIsFinal
<1>2. QED
  BY <1>1, RunInvariance, PTL

\* A limit, an interruption and an unexpected exit are what happened; and so is a
\* timeout, unless a SQLite query answers with it (execute_in_subprocess and
\* ingest_in_subprocess, their exceptions).
THEOREM OutcomeIsTrue == Spec => []OutcomeTrue
<1>1. Inv => OutcomeTrue
  BY DEF Inv
<1>2. QED
  BY <1>1, RunInvariance, PTL

\* A query is refused for its size exactly when its whole result is over a limit,
\* for all limits and results (_write_result, BoundedCSVOutput).
THEOREM LimitsAreExact == Spec => []LimitsExact
<1>1. Inv => LimitsExact
  <2> SUFFICES ASSUME WriterInv PROVE W!LimitsExact
    BY DEF Inv, LimitsExact
  <2>1. verdict = "written" => Within(result)
    BY DEF WriterInv, AllWritten, Within
  <2>2. QED
    BY <2>1 DEF WriterInv, AllWritten, PreviewOf, W!LimitsExact, Within, W!Within
<1>2. QED
  BY <1>1, RunInvariance, PTL

\* What a query has written is its first rows, and within the limit of bytes, at every
\* moment (BoundedCSVOutput).
THEOREM FileIsWholeRows == Spec => []FileIsPrefix
<1>1. Inv => FileIsPrefix
  BY DEF Inv, FileIsPrefix, WriterInv
<1>2. QED
  BY <1>1, RunInvariance, PTL

\* An answer that was received is not given up for a spill file that is gone, or
\* for an end of the process (observe_staging, recv).
THEOREM ReceivedIsKept == Spec => []ReceivedNotLost
<1>1. Inv => ReceivedNotLost
  BY DEF Inv
<1>2. QED
  BY <1>1, RunInvariance, PTL
=============================================================================
