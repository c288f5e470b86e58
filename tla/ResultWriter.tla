----------------------------- MODULE ResultWriter -----------------------------
(***************************************************************************)
(* The result writer of an engine process (engines.py, _write_result and   *)
(* BoundedCSVOutput): a header, then the rows that the cursor yields, each *)
(* a single write, under a limit of rows and a limit of bytes that are     *)
(* tested before anything is written.  A row is the bytes it takes; the    *)
(* fetches of a thousand rows are left out, and so are the buffer of the   *)
(* file and its flushes: what is on the volume is what the writer has      *)
(* written, or a prefix of it.                                             *)
(***************************************************************************)
EXTENDS ResultLimits

VARIABLES
  format,    \* "sqlite", or "duckdb", which also has the CSV files
  expired,   \* the deadline of execute_sqlite_query has passed
  result,    \* the result of the query that is run
  rows,      \* row_count
  file,      \* size: the bytes written
  preview,   \* the rows in preview
  verdict    \* "header" or "rows" while writing, then how the writing ended

vars == <<format, expired, result, rows, file, preview, verdict>>

Writing == {"header", "rows"}
Ended   == {"written", "limit", "interrupted", "failed"}

\* Mutant: the limit is tested against the size before the write.
RefusesLate(n) == file > MaxBytes

\* BoundedCSVOutput.write of a text that brings the file to n bytes refuses it.
Refuses(n) == n > MaxBytes

\* writerow of the column names.
WriteHeader ==
  /\ verdict = "header"
  /\ \/ Refuses(result.bytes[0]) /\ verdict' = "limit" /\ UNCHANGED file
     \/ ~Refuses(result.bytes[0]) /\ verdict' = "rows" /\ file' = result.bytes[0]
  /\ UNCHANGED <<format, expired, result, rows, preview>>

\* The next row is one too many; it is counted and not written.
RefuseRow ==
  /\ verdict = "rows" /\ rows < result.rows
  /\ rows + 1 > MaxRows
  /\ rows' = rows + 1
  /\ verdict' = "limit"
  /\ UNCHANGED <<format, expired, result, file, preview>>

\* The next row enters the preview while there is room, and the file if it fits.
WriteRow ==
  /\ verdict = "rows" /\ rows < result.rows
  /\ rows + 1 <= MaxRows
  /\ rows' = rows + 1
  /\ preview' = IF preview < PreviewRows THEN preview + 1 ELSE preview
  /\ \/ Refuses(result.bytes[rows + 1]) /\ verdict' = "limit" /\ UNCHANGED file
     \/ /\ ~Refuses(result.bytes[rows + 1])
        /\ file' = result.bytes[rows + 1]
        /\ UNCHANGED verdict
  /\ UNCHANGED <<format, expired, result>>

\* The cursor is exhausted; the file is synced and the answer made.
Finish ==
  /\ verdict = "rows" /\ rows = result.rows
  /\ verdict' = "written"
  /\ UNCHANGED <<format, expired, result, rows, file, preview>>

Stops(v) == verdict' = v /\ UNCHANGED <<format, expired, result, rows, file, preview>>

\* The progress handler of SQLite, before the first row or at a later one, finds the
\* deadline passed.
Interrupt == format = "sqlite" /\ expired /\ verdict \in Writing /\ Stops("interrupted")

\* The query fails, before the first row or at a later one.
Reject == verdict \in Writing /\ Stops("failed")

\* So does a query of SQLite with an error that has the word "interrupted" in its
\* message, as the name of a column that is missing may: it passes for the other.
RejectAsInterrupted == format = "sqlite" /\ verdict \in Writing /\ Stops("interrupted")

\* The deadline of execute_sqlite_query passes.
Expire ==
  /\ format = "sqlite" /\ ~expired /\ verdict \in Writing
  /\ expired' = TRUE
  /\ UNCHANGED <<format, result, rows, file, preview, verdict>>

Init ==
  /\ format \in {"sqlite", "duckdb"} /\ expired = FALSE
  /\ result \in Tables
  /\ rows = 0 /\ file = 0 /\ preview = 0
  /\ verdict = "header"

Next ==
  \/ WriteHeader \/ RefuseRow \/ WriteRow \/ Finish
  \/ Interrupt \/ Reject \/ RejectAsInterrupted \/ Expire

Spec == Init /\ [][Next]_vars

-----------------------------------------------------------------------------
(* Properties *)

TypeOK ==
  /\ format \in {"sqlite", "duckdb"} /\ expired \in BOOLEAN
  /\ result \in Tables
  /\ rows \in Nat /\ file \in Nat /\ preview \in Nat
  /\ verdict \in Writing \cup Ended

\* The limits are exact at their boundaries: a query is refused for its size
\* exactly when its whole result is over one of them, and a result that is
\* answered is whole, with the preview it should have (_write_result).
LimitsExact ==
  /\ verdict = "written" =>
       /\ Within(result)
       /\ rows = result.rows /\ file = result.bytes[result.rows]
       /\ preview = IF rows < PreviewRows THEN rows ELSE PreviewRows
  /\ verdict = "limit" => ~Within(result)

\* What is written to the file is never over the limit, and is the header and the
\* first rows with none missing, however the writing ends (BoundedCSVOutput tests
\* before it writes).
FileIsPrefix ==
  /\ file <= MaxBytes
  /\ file = 0 \/ \E k \in 0 .. result.rows : k <= rows /\ file = result.bytes[k]
=============================================================================
