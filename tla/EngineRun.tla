------------------------------- MODULE EngineRun -------------------------------
(***************************************************************************)
(* One run of a disposable engine process and its supervision: the request *)
(* thread that starts the process, polls the pipe, observes the staging    *)
(* directory between polls, minds the deadline and the interruption of its *)
(* request, receives the answer and stops the process (executor.py,        *)
(* ingestion.py), against the process, which works, closes its database,   *)
(* sends its answer and ends, or dies at any point.  The steps of a query  *)
(* in the process are those of ResultWriter.                               *)
(***************************************************************************)
EXTENDS ResultLimits

VARIABLES
  kind,      \* what is run: a "query" or an "ingestion"
  format, expired, result, rows, file, preview, verdict,   \* the work of the process
  spill,     \* spill files in the staging directory: bytes, 0 for none
  engine,    \* the step that the process is at; "gone" once it is dead
  pipe,      \* what of the answer is in the pipe: "empty", "partial", "whole"
  pc,        \* the step that the request thread is at
  received,  \* the request thread has received the answer
  listed,    \* the spill files were there when rglob listed the directory
  reserved,  \* the bytes last reserved for the staging directory
  outcome,   \* how the run ends, "none" while it may still be answered
  due,       \* the deadline has passed
  cancelled  \* the client is gone or the worker stops

writerVars == <<format, expired, result, rows, file, preview, verdict>>
engineVars == <<writerVars, spill, engine>>
threadVars == <<pc, received, listed, reserved, outcome>>
vars == <<kind, engineVars, pipe, threadVars, due, cancelled>>

W == INSTANCE ResultWriter

-----------------------------------------------------------------------------
(* The engine process *)

Alive == engine \notin {"none", "gone"}

\* The guard, the environment and the limits are set up; a failure is answered.
Setup ==
  /\ engine = "spawned"
  /\ \/ engine' = "work" /\ UNCHANGED verdict
     \/ engine' = "send" /\ verdict' = "failed"
  /\ UNCHANGED <<kind, format, expired, result, rows, file, preview, spill, pipe, threadVars,
                 due, cancelled>>

\* The query writes its result.
WriteResult ==
  /\ engine = "work" /\ kind = "query"
  /\ W!Next
  /\ UNCHANGED <<kind, spill, engine, pipe, threadVars, due, cancelled>>

\* The file of an ingestion is converted, if it is a CSV, and inspected; what a
\* conversion that fails has left is unlinked.
Convert ==
  /\ engine = "work" /\ kind = "ingestion" /\ verdict \in W!Writing
  /\ \/ verdict = "header" /\ verdict' = "rows" /\ file' \in {0, 1}
     \/ verdict = "rows" /\ verdict' = "written" /\ UNCHANGED file
     \/ verdict' = "failed" /\ file' \in {0, file}
  /\ UNCHANGED <<kind, format, expired, result, rows, preview, spill, engine, pipe,
                 threadVars, due, cancelled>>

\* Mutant: what was spilled is kept.
SpillGrows ==
  /\ engine = "work" /\ verdict \in W!Writing
  /\ spill' = 1 + spill
  /\ UNCHANGED <<kind, writerVars, engine, pipe, threadVars, due, cancelled>>

\* The database spills, and drops what it spilled, as it works.
Spill ==
  /\ engine = "work" /\ verdict \in W!Writing
  /\ spill' = 1 - spill
  /\ UNCHANGED <<kind, writerVars, engine, pipe, threadVars, due, cancelled>>

\* Mutant: the connection is closed once the answer is sent.
ClosesAfterSend ==
  /\ \/ engine = "work" /\ verdict \in W!Ended /\ engine' = "send" /\ UNCHANGED spill
     \/ engine = "sent" /\ spill = 1 /\ spill' = 0 /\ UNCHANGED engine
  /\ UNCHANGED <<kind, writerVars, pipe, threadVars, due, cancelled>>

\* The connection is closed, in the finally clause, and its spill files go.
CloseConnection ==
  /\ engine = "work" /\ verdict \in W!Ended
  /\ spill' = 0
  /\ engine' = "send"
  /\ UNCHANGED <<kind, writerVars, pipe, threadVars, due, cancelled>>

\* The request thread has closed its end of the pipe: what is sent from now on
\* is an error in the process, which ends.
PipeClosed == pc \in {"join", "terminate", "kill", "done"}

\* send: the answer is larger than a pipe holds.
SendBegins ==
  /\ engine = "send" /\ ~PipeClosed
  /\ engine' = "sending" /\ pipe' = "partial"
  /\ UNCHANGED <<kind, writerVars, spill, threadVars, due, cancelled>>

SendEnds ==
  /\ engine = "sending" /\ ~PipeClosed
  /\ engine' = "sent" /\ pipe' = "whole"
  /\ UNCHANGED <<kind, writerVars, spill, threadVars, due, cancelled>>

\* The process ends by itself, or dies: of a signal of the request thread, out
\* of memory, by its limit of CPU time or by a fault of the engine.  Its spill
\* files stay.
Exit ==
  /\ Alive
  /\ engine' = "gone"
  /\ UNCHANGED <<kind, writerVars, spill, pipe, threadVars, due, cancelled>>

Engine ==
  \/ Setup \/ WriteResult \/ Convert \/ Spill \/ CloseConnection
  \/ SendBegins \/ SendEnds \/ Exit

-----------------------------------------------------------------------------
(* The request thread *)

Unseen == UNCHANGED <<kind, writerVars, spill, due, cancelled>>

\* The run fails, if it has not failed before, and its finally clause is next.
FailAs(o) == outcome' = o /\ pc' = "join"

\* process.start, or its failure.
Start ==
  /\ pc = "start"
  /\ \/ engine' = "spawned" /\ pc' = "poll" /\ UNCHANGED outcome
     \/ FailAs("error") /\ UNCHANGED engine
  /\ Unseen /\ UNCHANGED <<pipe, received, listed, reserved>>

\* poll: something can be read, or 0.1 s have passed without.
Readable == pipe # "empty" \/ engine \in {"none", "gone"}
Poll ==
  /\ pc = "poll"
  /\ pc' = IF Readable THEN "recv" ELSE "monitor"
  /\ Unseen /\ UNCHANGED <<engine, pipe, received, listed, reserved, outcome>>

\* Mutant: a process that is gone is taken for one that has not answered.
RecvDeadFirst ==
  /\ pc = "recv"
  /\ \/ pipe = "whole" /\ engine # "gone"
        /\ received' = TRUE /\ pc' = "monitor" /\ UNCHANGED outcome
     \/ engine = "gone" /\ FailAs("died") /\ UNCHANGED received
  /\ Unseen /\ UNCHANGED <<engine, pipe, listed, reserved>>

\* recv: the answer; or the end of the file, which is an EOFError before the
\* first byte of a message or of its length, and an OSError, that nothing
\* catches, within.  It waits for the rest of an answer as long as that takes.
Recv ==
  /\ pc = "recv"
  /\ \/ pipe = "whole" /\ received' = TRUE /\ pc' = "monitor" /\ UNCHANGED outcome
     \/ /\ pipe # "whole" /\ engine = "gone"
        /\ FailAs("died") \/ (pipe = "partial" /\ FailAs("error"))
        /\ UNCHANGED received
  /\ Unseen /\ UNCHANGED <<engine, pipe, listed, reserved>>

\* _monitor: the interruption is looked at, and the staging directory listed.
Monitor ==
  /\ pc = "monitor"
  /\ \/ cancelled /\ FailAs("interrupted") /\ UNCHANGED listed
     \/ ~cancelled /\ pc' = "observe" /\ listed' = (spill > 0) /\ UNCHANGED outcome
  /\ Unseen /\ UNCHANGED <<engine, pipe, received, reserved>>

\* observe_staging: each file listed is looked at and asked for its size, which
\* fails when it goes in between; the sum is reserved, or refused.
Observe ==
  /\ pc = "observe"
  /\ \/ listed /\ spill = 0 /\ FailAs("vanished") /\ UNCHANGED reserved
     \/ FailAs("capacity") /\ UNCHANGED reserved
     \/ /\ reserved' = file + (IF listed THEN spill ELSE 0)
        /\ pc' = IF received THEN "join" ELSE "deadline"
        /\ UNCHANGED outcome
  /\ Unseen /\ UNCHANGED <<engine, pipe, received, listed>>

\* Mutant: the deadline is left to the engine.
DeadlineIgnored ==
  /\ pc = "deadline"
  /\ pc' = "poll"
  /\ Unseen /\ UNCHANGED <<engine, pipe, received, listed, reserved, outcome>>

Deadline ==
  /\ pc = "deadline"
  /\ \/ due /\ FailAs("timeout")
     \/ ~due /\ pc' = "poll" /\ UNCHANGED outcome
  /\ Unseen /\ UNCHANGED <<engine, pipe, received, listed, reserved>>

\* What an answer that was received makes of the run.
Answer ==
  CASE verdict = "written" -> "ok"
    [] kind = "query" /\ verdict = "limit" -> "limit"
    [] kind = "query" /\ verdict = "interrupted" -> "timeout"
    [] OTHER -> "rejected"

\* Mutant: the process is not waited for once it was told to stop.
JoinsNothing ==
  /\ pc = "join"
  /\ pc' = "done"
  /\ outcome' = IF outcome = "none" THEN Answer ELSE outcome
  /\ Unseen /\ UNCHANGED <<engine, pipe, received, listed, reserved>>

\* stop_process, with both ends of the pipe closed: the process ends within
\* 0.1 s; or it is terminated, and given 2 s; or it is killed, and given 2 s; or
\* it cannot be killed for now and process.close raises.
Join ==
  /\ pc \in {"join", "terminate", "kill"}
  /\ \/ ~Alive /\ pc' = "done" /\ outcome' = IF outcome = "none" THEN Answer ELSE outcome
     \/ Alive /\ pc = "join" /\ pc' = "terminate" /\ UNCHANGED outcome
     \/ Alive /\ pc = "terminate" /\ pc' = "kill" /\ UNCHANGED outcome
     \/ Alive /\ pc = "kill" /\ pc' = "done" /\ outcome' = "stuck"
  /\ Unseen /\ UNCHANGED <<engine, pipe, received, listed, reserved>>

RequestThread ==
  Start \/ Poll \/ Recv \/ Monitor \/ Observe \/ Deadline \/ Join

-----------------------------------------------------------------------------
DeadlinePasses ==
  /\ ~due /\ pc # "start"
  /\ due' = TRUE
  /\ UNCHANGED <<kind, engineVars, pipe, threadVars, cancelled>>

\* watch_disconnect, or the worker begins to stop.
Cancel ==
  /\ ~cancelled
  /\ cancelled' = TRUE
  /\ UNCHANGED <<kind, engineVars, pipe, threadVars, due>>

\* An ingestion has no result and no deadline of its own; its writing is Convert.
Init ==
  /\ kind \in {"query", "ingestion"}
  /\ W!Init
  /\ kind = "ingestion" => format = "duckdb" /\ result = CHOOSE t \in Tables : TRUE
  /\ spill = 0 /\ engine = "none" /\ pipe = "empty"
  /\ pc = "start" /\ received = FALSE /\ listed = FALSE /\ reserved = 0
  /\ outcome = "none"
  /\ due = FALSE /\ cancelled = FALSE

Next == Engine \/ RequestThread \/ DeadlinePasses \/ Cancel

Spec == Init /\ [][Next]_vars

\* The request thread keeps running; a process that has begun to send, to a
\* reader that waits, goes on or dies.  The work of an engine may take for ever,
\* and neither the deadline nor an interruption need ever come.
FairSpec == Spec /\ WF_vars(RequestThread) /\ WF_vars(SendEnds \/ (engine = "sending" /\ Exit))

-----------------------------------------------------------------------------
(* Properties *)

Outcomes == {"none", "ok", "limit", "timeout", "rejected", "interrupted", "capacity",
             "died", "error", "vanished", "stuck"}

TypeOK ==
  /\ kind \in {"query", "ingestion"} /\ W!TypeOK
  /\ spill \in {0, 1} /\ pipe \in {"empty", "partial", "whole"}
  /\ engine \in {"none", "spawned", "work", "send", "sending", "sent", "gone"}
  /\ pc \in {"start", "poll", "monitor", "observe", "deadline", "recv", "join",
             "terminate", "kill", "done"}
  /\ received \in BOOLEAN /\ listed \in BOOLEAN /\ due \in BOOLEAN /\ cancelled \in BOOLEAN
  /\ reserved \in Nat /\ outcome \in Outcomes

\* What is answered is final: the process is gone, so that nothing writes to the
\* directory that is about to be published, its result is whole and within the
\* limits, its spill files are gone and all its bytes were accounted for
\* (execute_in_subprocess: the monitor after recv, stop_process, process.close).
AnswerIsFinal ==
  pc = "done" /\ outcome = "ok" =>
    /\ engine = "gone" /\ spill = 0 /\ reserved = file
    /\ verdict = "written"
    /\ kind = "query" => (Within(result) /\ file = result.bytes[result.rows])

\* A run that fails says why: a limit is one that the result is over; a timeout of
\* an ingestion or of a DuckDB query is a deadline that passed, whatever the engine
\* answers; an interruption is one of a client that went or a worker that stops; and
\* an unexpected exit is that of a process that did not answer.  Of a timeout of a
\* SQLite query see TimeoutTrue.
OutcomeTrue ==
  /\ outcome = "limit" => ~Within(result)
  /\ outcome = "timeout" => due \/ (kind = "query" /\ format = "sqlite" /\ received)
  /\ outcome = "interrupted" => cancelled
  /\ outcome = "died" => pipe # "whole" /\ engine = "gone"

\* "Query exceeded the ... second timeout" is answered only when one of the two
\* deadlines of a query passed, the supervisor's (executor.py:100) or that of SQLite's
\* progress handler (engines.py:383).  It is not so: see the run false_timeout.
TimeoutTrue == outcome = "timeout" => due \/ expired

\* The limits of a query's result are exact, and what it wrote is never over them, with
\* the process dying and being observed at any point (see ResultWriter).
LimitsExact  == kind = "query" => W!LimitsExact
FileIsPrefix == kind = "query" => W!FileIsPrefix

\* A spill file that goes between the listing and the question for its size
\* (observe_staging against a working engine) fails a run that still works, and
\* never one whose answer has been received.
ReceivedNotLost ==
  received => outcome \in {"none", "ok", "limit", "timeout", "rejected", "interrupted",
                           "capacity", "stuck"}

\* A run whose deadline has passed or that is interrupted ends, whatever its
\* engine does, before a message, in the middle of one, or stuck.
InterruptedRunsEnd == (due \/ cancelled) /\ pc # "start" ~> pc = "done"
=============================================================================
