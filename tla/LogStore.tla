------------------------------- MODULE LogStore -------------------------------
(***************************************************************************)
(* What the request log promises, whatever threads and queues carry it:    *)
(* logs are submitted one after another, and the table request_logs holds  *)
(* some of them, each at most once, in the order of submission; a row once *)
(* stored is never removed, moved or stored again, not even by a restart.  *)
(* A log is known by the number of its submission.                         *)
(***************************************************************************)
EXTENDS Integers, Sequences

VARIABLES
    submitted,   \* how many logs have been submitted
    stored       \* the rows of request_logs, oldest first

vars == <<submitted, stored>>

Ascending(s) == \A i, j \in 1..Len(s) : i < j => s[i] < s[j]

Init ==
    /\ submitted = 0
    /\ stored = <<>>

Submit ==
    /\ submitted' = submitted + 1
    /\ UNCHANGED stored

\* One or more submitted logs become rows, behind the rows already there.
Store ==
    /\ Len(stored') > Len(stored)
    /\ \A i \in 1..Len(stored) : stored'[i] = stored[i]
    /\ \A i \in 1..Len(stored') : stored'[i] \in 1..submitted
    /\ Ascending(stored')
    /\ UNCHANGED submitted

Next == Submit \/ Store

Spec == Init /\ [][Next]_vars

===============================================================================
