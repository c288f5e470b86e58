----------------------------- MODULE MCEngineRun -----------------------------
(***************************************************************************)
(* An instance of EngineRun for TLC: every result of up to three rows of   *)
(* one or two bytes under a header of one, so that the row limit and the   *)
(* byte limit are met, just missed and passed, and a header that is over   *)
(* the byte limit by itself.                                               *)
(***************************************************************************)
EXTENDS EngineRun

Narrow ==
  {t \in UNION {[rows: {n}, bytes: [0 .. n -> 1 .. 7]] : n \in 0 .. 3} :
     /\ t.bytes[0] = 1
     /\ \A k \in 1 .. t.rows : t.bytes[k] - t.bytes[k - 1] \in {1, 2}}
Wide == [rows |-> 0, bytes |-> [k \in {0} |-> MaxBytes + 1]]

MCTables == Narrow \cup {Wide}
=============================================================================
