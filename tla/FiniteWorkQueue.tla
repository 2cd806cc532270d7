--------------------------- MODULE FiniteWorkQueue ---------------------------
(***************************************************************************)
(* What a finite work queue promises its users: every item is claimed at   *)
(* most once, is retired only after the work on it was done, and nobody    *)
(* announces that the queue is empty before every item has been retired.   *)
(* RedisWQ.tla shows that rediswq.py together with worker.py keeps that    *)
(* promise.                                                                *)
(***************************************************************************)
CONSTANT Items

VARIABLES
    status,     \* how far each item has come
    announced   \* TRUE once some worker has reported the queue as empty

absVars == <<status, announced>>

Stages == {"queued", "claimed", "worked", "retired"}

Init ==
    /\ status = [i \in Items |-> "queued"]
    /\ announced = FALSE

Advance(i, from, to) ==
    /\ status[i] = from
    /\ status' = [status EXCEPT ![i] = to]
    /\ UNCHANGED announced

Claim(i)  == Advance(i, "queued", "claimed")
Work(i)   == Advance(i, "claimed", "worked")
Retire(i) == Advance(i, "worked", "retired")

Announce ==
    /\ \A i \in Items : status[i] = "retired"
    /\ announced' = TRUE
    /\ UNCHANGED status

Next ==
    \/ \E i \in Items : Claim(i) \/ Work(i) \/ Retire(i)
    \/ Announce

Spec == Init /\ [][Next]_absVars
=============================================================================
