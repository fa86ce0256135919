----------------------------- MODULE RequestLog -----------------------------
(***************************************************************************)
(* The path of a request log from the handler threads to the table         *)
(* request_logs: handlers put logs on TheDbJob.request_log_queue, one      *)
(* writer thread takes them off and inserts them through its own sqlite    *)
(* connection, and the context manager handle_request_log_queue drains the *)
(* queue when the server stops.                                            *)
(*                                                                         *)
(* A log is the number of its put.  The queue is unbounded in the code;    *)
(* MaxLogs bounds how many logs a behaviour puts.  The process may be      *)
(* killed at any step and started again, MaxRestarts times: only the       *)
(* committed rows survive.                                                 *)
(***************************************************************************)
EXTENDS Integers, Sequences

CONSTANTS
    MaxLogs,      \* bound: logs put in a behaviour
    MaxRestarts   \* bound: times the process is killed and started again

ASSUME MaxLogsAssumption == MaxLogs \in Nat
ASSUME MaxRestartsAssumption == MaxRestarts \in Nat

VARIABLES
    put,         \* logs put so far
    queue,       \* TheDbJob.request_log_queue
    unfinished,  \* queue.Queue.unfinished_tasks: puts without a task_done
    finished,    \* the threading.Event finished
    writer,      \* where the thread request_log_thread is in handle_it
    item,        \* the log the writer holds, 0 when it holds none
    txn,         \* rows inserted and not committed, of the writer's connection
    table,       \* committed rows of request_logs
    failed,      \* logs whose insertion raised and was reported (logger.error)
    exit,        \* where the context manager is: running, or which exit step
    joined,      \* history: logs put when queue.join() returned, else 0
    base,        \* history: the last log put by an earlier process
    restarts     \* how often the process was killed

queued == <<put, queue, unfinished>>
rows == <<txn, table, failed>>
closing == <<finished, exit, joined>>
process == <<base, restarts>>
vars == <<queued, writer, item, rows, closing, process>>

WriterStates == {"opening", "getting", "empty", "inserting", "committing",
                 "finishing", "stopped", "dead"}
ExitStates == {"yield", "join", "set", "thread_join", "closed"}

\* The states of the writer in which it holds a log it took off the queue.
Holding == {"inserting", "committing", "finishing"}

Elements(s) == {s[i] : i \in 1..Len(s)}

-----------------------------------------------------------------------------

Init ==
    /\ put = 0
    /\ queue = <<>>
    /\ unfinished = 0
    /\ finished = FALSE
    /\ writer = "opening"
    /\ item = 0
    /\ txn = <<>>
    /\ table = <<>>
    /\ failed = {}
    /\ exit = "yield"
    /\ joined = 0
    /\ base = 0
    /\ restarts = 0

(***************************************************************************)
(* A handler thread logs a request.  Handler threads are daemons that      *)
(* nobody joins, so a put may come at any time, even while the context     *)
(* manager exits.                                                          *)
(***************************************************************************)
Put ==
    /\ put < MaxLogs
    /\ put' = put + 1
    /\ queue' = Append(queue, put + 1)
    /\ unfinished' = unfinished + 1
    /\ UNCHANGED <<closing, writer, item, rows, process>>

-----------------------------------------------------------------------------
(* The thread request_log_thread *)

WriterOpens ==
    /\ writer = "opening"
    /\ writer' = "getting"
    /\ UNCHANGED <<queued, closing, item, rows, process>>

\* TheDbJob() raises outside the loop: the thread reports it and ends.
WriterOpenFails ==
    /\ writer = "opening"
    /\ writer' = "dead"
    /\ UNCHANGED <<queued, closing, item, rows, process>>

\* Mutant of Get: the newest log first.
GetNewest ==
    /\ writer = "getting"
    /\ queue # <<>>
    /\ item' = queue[Len(queue)]
    /\ queue' = SubSeq(queue, 1, Len(queue) - 1)
    /\ writer' = "inserting"
    /\ UNCHANGED <<put, unfinished, closing, rows, process>>

Get ==
    /\ writer = "getting"
    /\ queue # <<>>
    /\ item' = Head(queue)
    /\ queue' = Tail(queue)
    /\ writer' = "inserting"
    /\ UNCHANGED <<put, unfinished, closing, rows, process>>

\* Mutant of GetTimesOut: task_done() in the finally clause of the outer try.
GetTimesOutAndTaskDone ==
    /\ writer = "getting"
    /\ queue = <<>>
    /\ writer' = "empty"
    /\ unfinished' = unfinished - 1
    /\ UNCHANGED <<put, queue, closing, item, rows, process>>

\* get() raises queue.Empty after 0.1 s.
GetTimesOut ==
    /\ writer = "getting"
    /\ queue = <<>>
    /\ writer' = "empty"
    /\ UNCHANGED <<queued, closing, item, rows, process>>

KeepPolling ==
    /\ writer = "empty"
    /\ ~finished
    /\ writer' = "getting"
    /\ UNCHANGED <<queued, closing, item, rows, process>>

\* The thread ends; its connection goes, and with it what is not committed.
StopPolling ==
    /\ writer = "empty"
    /\ finished
    /\ writer' = "stopped"
    /\ txn' = <<>>
    /\ UNCHANGED <<queued, closing, item, table, failed, process>>

Insert ==
    /\ writer = "inserting"
    /\ txn' = Append(txn, item)
    /\ writer' = "committing"
    /\ UNCHANGED <<queued, closing, item, table, failed, process>>

\* Mutants of InsertFails: task_done() skipped; the log put back for a retry.
InsertFailsWithoutTaskDone ==
    /\ writer \in {"inserting", "committing"}
    /\ failed' = failed \cup {item}
    /\ txn' \in {txn, <<>>}
    /\ item' = 0
    /\ writer' = "getting"
    /\ UNCHANGED <<queued, closing, table, process>>

InsertFailsAndRetries ==
    /\ writer \in {"inserting", "committing"}
    /\ txn' = <<>>
    /\ queue' = Append(queue, item)
    /\ unfinished' = unfinished + 1
    /\ writer' = "finishing"
    /\ UNCHANGED <<put, closing, item, table, failed, process>>

(***************************************************************************)
(* executemany or commit raises, for instance "database is locked".  There *)
(* is no rollback: sqlite keeps the open transaction after SQLITE_BUSY and *)
(* drops it after errors such as a full disk.                              *)
(***************************************************************************)
InsertFails ==
    /\ writer \in {"inserting", "committing"}
    /\ failed' = failed \cup {item}
    /\ txn' \in {txn, <<>>}
    /\ writer' = "finishing"
    /\ UNCHANGED <<queued, closing, item, table, process>>

\* Mutants of Commit: the rows stay in the transaction; commit() is forgotten.
CommitAgain ==
    /\ writer = "committing"
    /\ table' = table \o txn
    /\ writer' = "finishing"
    /\ UNCHANGED <<queued, closing, item, txn, failed, process>>

CommitForgotten ==
    /\ writer = "committing"
    /\ writer' = "finishing"
    /\ UNCHANGED <<queued, closing, item, rows, process>>

Commit ==
    /\ writer = "committing"
    /\ table' = table \o txn
    /\ txn' = <<>>
    /\ writer' = "finishing"
    /\ UNCHANGED <<queued, closing, item, failed, process>>

\* The finally clause: task_done(), whether the insertion succeeded or not.
TaskDone ==
    /\ writer = "finishing"
    /\ unfinished' = unfinished - 1
    /\ item' = 0
    /\ writer' = "getting"
    /\ UNCHANGED <<put, queue, closing, rows, process>>

-----------------------------------------------------------------------------
(* The exit of the context manager *)

StartExit ==
    /\ exit = "yield"
    /\ exit' = "join"
    /\ UNCHANGED <<queued, finished, writer, item, rows, joined, process>>

\* Mutant of JoinReturns: wait for an empty queue and not for its tasks.
JoinReturnsWhenEmpty ==
    /\ exit = "join"
    /\ queue = <<>>
    /\ exit' = "set"
    /\ joined' = put
    /\ UNCHANGED <<queued, finished, writer, item, rows, process>>

JoinReturns ==
    /\ exit = "join"
    /\ unfinished = 0
    /\ exit' = "set"
    /\ joined' = put
    /\ UNCHANGED <<queued, finished, writer, item, rows, process>>

\* Mutant of SetFinished: the event is never set.
SetFinishedForgotten ==
    /\ exit = "set"
    /\ exit' = "thread_join"
    /\ UNCHANGED <<queued, finished, writer, item, rows, joined, process>>

SetFinished ==
    /\ exit = "set"
    /\ finished' = TRUE
    /\ exit' = "thread_join"
    /\ UNCHANGED <<queued, writer, item, rows, joined, process>>

WriterJoined ==
    /\ exit = "thread_join"
    /\ writer \in {"stopped", "dead"}
    /\ exit' = "closed"
    /\ UNCHANGED <<queued, finished, writer, item, rows, joined, process>>

-----------------------------------------------------------------------------

\* The process is killed, or has ended, and a new one starts on the same file.
Restart ==
    /\ restarts < MaxRestarts
    /\ restarts' = restarts + 1
    /\ base' = put
    /\ queue' = <<>>
    /\ unfinished' = 0
    /\ finished' = FALSE
    /\ writer' = "opening"
    /\ item' = 0
    /\ txn' = <<>>
    /\ failed' = {}
    /\ exit' = "yield"
    /\ joined' = 0
    /\ UNCHANGED <<put, table>>

WriterStep ==
    \/ WriterOpens \/ WriterOpenFails
    \/ Get \/ GetTimesOut \/ KeepPolling \/ StopPolling
    \/ Insert \/ InsertFails \/ Commit \/ TaskDone

ExitStep == JoinReturns \/ SetFinished \/ WriterJoined

Next == Put \/ WriterStep \/ StartExit \/ ExitStep \/ Restart

(***************************************************************************)
(* A thread that can run does run: the writer never blocks longer than its *)
(* 0.1 s timeout, and the exiting thread only waits for the queue and for  *)
(* the writer.  Nothing obliges handlers to put or the server to stop.     *)
(***************************************************************************)
Fairness == WF_vars(WriterStep) /\ WF_vars(ExitStep)

Spec == Init /\ [][Next]_vars /\ Fairness

-----------------------------------------------------------------------------
(* Properties *)

Logs == 1..put

\* Every variable keeps to its type; queue, item, transaction, table and
\* reports hold only logs that were put.
TypeOK ==
    /\ put \in 0..MaxLogs
    /\ queue \in Seq(Nat)
    /\ unfinished \in Nat
    /\ finished \in BOOLEAN
    /\ writer \in WriterStates
    /\ item \in 0..put
    /\ txn \in Seq(Nat)
    /\ table \in Seq(Nat)
    /\ failed \in SUBSET Logs
    /\ exit \in ExitStates
    /\ joined \in 0..put
    /\ base \in 0..put
    /\ restarts \in 0..MaxRestarts

\* What queue.join() waits for is exactly the work left: the logs in the queue
\* and the one the writer holds, whichever way its insertion ends
\* (task_done() in a finally clause, dns_server.py:66).
UnfinishedIsOutstanding ==
    unfinished = Len(queue) + (IF writer \in Holding THEN 1 ELSE 0)

Ascending(s) == \A i, j \in 1..Len(s) : i < j => s[i] < s[j]

\* A log is in at most one place and places are in order: rows come before
\* uncommitted rows, these before the log in hand, that before the queue.  So
\* no log is stored twice and none overtakes another, though a transaction
\* left open by a failed commit is stored by a later one.
PipelineInOrder ==
    /\ Ascending(table)
    /\ Ascending(txn)
    /\ Ascending(queue)
    /\ \A r \in Elements(table), t \in Elements(txn) : r < t
    /\ \A r \in Elements(table) \cup Elements(txn), q \in Elements(queue) : r < q
    /\ item # 0 => /\ \A q \in Elements(queue) : item < q
                   /\ writer = "inserting" =>
                        \A r \in Elements(table) \cup Elements(txn) : r < item

\* While its process runs, no log of that process vanishes: it waits in the
\* queue, is in the writer's hand, is a row, or its failure was reported.
NothingLost ==
    \A t \in (base + 1)..put :
        \/ t \in Elements(queue)
        \/ t = item
        \/ t \in Elements(table)
        \/ t \in failed

\* When queue.join() has returned, every log put before is a row or was
\* reported, and this stays so until the process ends (dns_server.py:78).
HandledAtExit ==
    exit \in {"set", "thread_join", "closed"} =>
        \A t \in (base + 1)..joined : t \in Elements(table) \cup failed

\* The table is a faithful log: rows are appended in the order of the puts,
\* each log once, and never change, across restarts too.
Store == INSTANCE LogStore WITH submitted <- put, stored <- table
StoresInOrder == Store!Init /\ [][Store!Next]_<<put, table>>

\* Shutdown ends: once the context manager waits for the queue it closes,
\* unless the writer died at its start (then queue.join() may wait for ever).
ExitCompletes ==
    exit = "join" ~> (exit \in {"closed", "yield"} \/ writer = "dead")

\* Every log is dealt with in the end while the process runs, unless the writer
\* is dead or had stopped before the log was put.
LogsGetHandled ==
    \A t \in 1..MaxLogs :
        t \in Elements(queue) ~>
            \/ t \in Elements(table)
            \/ t \in failed
            \/ t <= base
            \/ writer \in {"dead", "stopped"}

=============================================================================
