----------------------------- MODULE ResultLimits -----------------------------
(***************************************************************************)
(* The limits of a query's result (config.py) and the results that queries *)
(* have: what the engines produce, row by row, as CSV.                     *)
(***************************************************************************)
EXTENDS Integers

CONSTANTS
  MaxRows,      \* max_result_rows
  MaxBytes,     \* max_result_bytes
  PreviewRows,  \* the rows that the preview holds at most (100 in the code)
  Tables        \* the results that queries have

\* A result of a query: its rows, and bytes[k], what its header and its first k
\* rows take as CSV.  A row takes a byte at least, its line end.
IsTable(t) ==
  /\ t.rows \in Nat
  /\ t.bytes \in [0 .. t.rows -> Nat \ {0}]
  /\ \A j, k \in 0 .. t.rows : j < k => t.bytes[j] < t.bytes[k]

ASSUME LimitsAssumption ==
  /\ MaxRows \in Nat \ {0} /\ MaxBytes \in Nat \ {0} /\ PreviewRows \in Nat
  /\ \A t \in Tables : IsTable(t)

\* A result that is over neither limit.
Within(t) == t.rows <= MaxRows /\ t.bytes[t.rows] <= MaxBytes
=============================================================================
