------------------------------ MODULE Timeouts ------------------------------
(***************************************************************************)
(* A browser's setTimeout: pending callbacks in the order they were set,   *)
(* each with the time it has left.  Callbacks run one at a time, earliest  *)
(* deadline first and, of two with one deadline, the one set first.        *)
(***************************************************************************)
EXTENDS Naturals, Sequences, SequencesExt

NoTimeouts == <<>>

SetTimeout(timers, task, delay) == Append(timers, [task |-> task, left |-> delay])

IsDue(timers) == \E k \in DOMAIN timers : timers[k].left = 0

FirstDue(timers) ==
    CHOOSE k \in DOMAIN timers :
        /\ timers[k].left = 0
        /\ \A j \in DOMAIN timers : timers[j].left = 0 => k <= j

DueTask(timers) == timers[FirstDue(timers)].task

WithoutDue(timers) == RemoveAt(timers, FirstDue(timers))

\* Time passes only to the next deadline, or less.
Elapse(timers) == [k \in DOMAIN timers |-> [timers[k] EXCEPT !.left = @ - 1]]
=============================================================================
