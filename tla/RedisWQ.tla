------------------------------- MODULE RedisWQ -------------------------------
(***************************************************************************)
(* The work-queue library rediswq.py, the worker program worker.py that    *)
(* calls it, and the pods of the Job that run the worker.                  *)
(*                                                                         *)
(* A worker talks to Redis one command at a time, and every command is     *)
(* atomic on the server, so each action below is one command (or the work  *)
(* between two commands).  The workers interleave freely, may crash before *)
(* any command and are restarted by the Job with a new session.            *)
(***************************************************************************)
EXTENDS Naturals, Sequences

CONSTANTS
    Items,       \* the values of the work items
    Fill,        \* the order in which the items were pushed before the Job
    Workers,     \* the pods of the Job
    None,        \* "no value", Python's None and a missing Redis key
    MaxCrashes   \* bound: how often each pod may crash

Sessions == Workers \X (0..MaxCrashes)

Elements(s) == {s[k] : k \in 1..Len(s)}

(***************************************************************************)
(* "The items in the work queue are assumed to have unique values", and    *)
(* the queue is full before the first worker starts.                       *)
(***************************************************************************)
ASSUME FillAssumption ==
    /\ Fill \in Seq(Items)
    /\ Elements(Fill) = Items
    /\ \A j, k \in 1..Len(Fill) : Fill[j] = Fill[k] => j = k

ASSUME NoneAssumption == None \notin Items \cup Sessions

ASSUME CrashAssumption == MaxCrashes \in Nat

VARIABLES
    main_q,        \* Redis list "job2", filled by RPUSH
    processing_q,  \* the items of Redis list "job2:processing"
    lease,         \* Redis keys "job2:leased_by_session:<item>"
    pc,            \* the next command of each worker
    item,          \* the local variable "item" of each worker
    session,       \* how many sessions each pod has started before this one
    worked         \* history: items whose work has been carried out

vars == <<main_q, processing_q, lease, pc, item, session, worked>>
redis == <<main_q, processing_q, lease>>

Commands == {"llen_main", "llen_processing", "brpoplpush", "setex", "work",
             "lrem", "del"}
Live == Commands \cup {"exited"}

TypeOK ==
    /\ main_q \in Seq(Items)
    /\ processing_q \subseteq Items
    /\ lease \in [Items -> Sessions \cup {None}]
    /\ pc \in [Workers -> Live \cup {"crashed"}]
    /\ item \in [Workers -> Items \cup {None}]
    /\ session \in [Workers -> 0..MaxCrashes]
    /\ worked \subseteq Items

Init ==
    /\ main_q = Fill
    /\ processing_q = {}
    /\ lease = [i \in Items |-> None]
    /\ pc = [w \in Workers |-> "llen_main"]
    /\ item = [w \in Workers |-> None]
    /\ session = [w \in Workers |-> 0]
    /\ worked = {}

-----------------------------------------------------------------------------
(***************************************************************************)
(* Faulty variants of the actions below: each is a slip this code could    *)
(* have, and each breaks a property stated at the end of the module.       *)
(***************************************************************************)
Goto(w, from, to) ==
    /\ pc[w] = from
    /\ pc' = [pc EXCEPT ![w] = to]

\* empty() asks for the size of the processing queue only.
LLenMainSkipped(w) ==
    /\ Goto(w, "llen_main", "llen_processing")
    /\ UNCHANGED <<redis, item, session, worked>>

\* The item is read with LINDEX and pushed, but stays in the main queue.
BRPopLPushCopies(w) ==
    /\ main_q # <<>>
    /\ Goto(w, "brpoplpush", "setex")
    /\ item' = [item EXCEPT ![w] = main_q[Len(main_q)]]
    /\ processing_q' = processing_q \cup {main_q[Len(main_q)]}
    /\ UNCHANGED <<main_q, lease, session, worked>>

\* A plain BRPOP: the item is in neither queue while it is worked on.
BRPopOnly(w) ==
    /\ main_q # <<>>
    /\ Goto(w, "brpoplpush", "setex")
    /\ item' = [item EXCEPT ![w] = main_q[Len(main_q)]]
    /\ main_q' = SubSeq(main_q, 1, Len(main_q) - 1)
    /\ UNCHANGED <<processing_q, lease, session, worked>>

\* lease() without its "if item:".
TimeoutUnchecked(w) ==
    /\ main_q = <<>>
    /\ Goto(w, "brpoplpush", "setex")
    /\ item' = [item EXCEPT ![w] = None]
    /\ UNCHANGED <<redis, session, worked>>

\* complete() is called before the work is done.
SetExCompletesFirst(w) ==
    /\ Goto(w, "setex", "work")
    /\ lease' = [lease EXCEPT ![item[w]] = <<w, session[w]>>]
    /\ processing_q' = processing_q \ {item[w]}
    /\ UNCHANGED <<main_q, item, session, worked>>

\* LREM with its count and value exchanged: it matches nothing.
LRemNothing(w) ==
    /\ Goto(w, "lrem", "del")
    /\ UNCHANGED <<redis, item, session, worked>>

-----------------------------------------------------------------------------
(***************************************************************************)
(* "while not q.empty()": two LLENs, the second one sent only when the     *)
(* first found the main queue empty.  Any number of commands of the other  *)
(* workers may run in between.                                             *)
(***************************************************************************)
LLenMain(w) ==
    /\ Goto(w, "llen_main",
            IF main_q = <<>> THEN "llen_processing" ELSE "brpoplpush")
    /\ UNCHANGED <<redis, item, session, worked>>

LLenProcessing(w) ==
    /\ Goto(w, "llen_processing",
            IF processing_q = {} THEN "exited" ELSE "brpoplpush")
    /\ UNCHANGED <<redis, item, session, worked>>

(***************************************************************************)
(* lease(): BRPOPLPUSH moves the last item of the main queue to the        *)
(* processing queue, or returns None when the queue stayed empty for the   *)
(* two seconds of its timeout; SETEX then records the lease.               *)
(***************************************************************************)
BRPopLPush(w) ==
    /\ main_q # <<>>
    /\ Goto(w, "brpoplpush", "setex")
    /\ item' = [item EXCEPT ![w] = main_q[Len(main_q)]]
    /\ main_q' = SubSeq(main_q, 1, Len(main_q) - 1)
    /\ processing_q' = processing_q \cup {main_q[Len(main_q)]}
    /\ UNCHANGED <<lease, session, worked>>

BRPopLPushTimeout(w) ==
    /\ main_q = <<>>
    /\ Goto(w, "brpoplpush", "llen_main")
    /\ item' = [item EXCEPT ![w] = None]
    /\ UNCHANGED <<redis, session, worked>>

SetEx(w) ==
    /\ Goto(w, "setex", "work")
    /\ lease' = [lease EXCEPT ![item[w]] = <<w, session[w]>>]
    /\ UNCHANGED <<main_q, processing_q, item, session, worked>>

Work(w) ==
    /\ Goto(w, "work", "lrem")
    /\ worked' = worked \cup {item[w]}
    /\ UNCHANGED <<redis, item, session>>

(***************************************************************************)
(* complete(): LREM with count 0 removes the value from the processing     *)
(* queue; DEL then drops the lease, whoever holds it.                      *)
(***************************************************************************)
LRem(w) ==
    /\ Goto(w, "lrem", "del")
    /\ processing_q' = processing_q \ {item[w]}
    /\ UNCHANGED <<main_q, lease, item, session, worked>>

DeleteLease(w) ==
    /\ Goto(w, "del", "llen_main")
    /\ lease' = [lease EXCEPT ![item[w]] = None]
    /\ UNCHANGED <<main_q, processing_q, item, session, worked>>

-----------------------------------------------------------------------------
(***************************************************************************)
(* The environment: a container dies before any command; restartPolicy     *)
(* OnFailure starts it again, with a new session and nothing else          *)
(* remembered; Redis drops a lease whose time is over, at any moment.      *)
(***************************************************************************)
Crash(w) ==
    /\ pc[w] \in Commands
    /\ session[w] < MaxCrashes
    /\ pc' = [pc EXCEPT ![w] = "crashed"]
    /\ item' = [item EXCEPT ![w] = None]
    /\ UNCHANGED <<redis, session, worked>>

Restart(w) ==
    /\ Goto(w, "crashed", "llen_main")
    /\ session' = [session EXCEPT ![w] = @ + 1]
    /\ UNCHANGED <<redis, item, worked>>

LeaseExpires(i) ==
    /\ lease[i] # None
    /\ lease' = [lease EXCEPT ![i] = None]
    /\ UNCHANGED <<main_q, processing_q, pc, item, session, worked>>

Step(w) ==
    \/ LLenMain(w)
    \/ LLenProcessing(w)
    \/ BRPopLPush(w)
    \/ BRPopLPushTimeout(w)
    \/ SetEx(w)
    \/ Work(w)
    \/ LRem(w)
    \/ DeleteLease(w)

Next ==
    \/ \E w \in Workers : Step(w) \/ Crash(w) \/ Restart(w)
    \/ \E i \in Items : LeaseExpires(i)

Spec == Init /\ [][Next]_vars

(***************************************************************************)
(* A running container executes its program, the kubelet restarts a        *)
(* crashed one, and leases do run out.                                     *)
(***************************************************************************)
Fairness ==
    /\ \A w \in Workers : WF_vars(Step(w)) /\ WF_vars(Restart(w))
    /\ \A i \in Items : WF_vars(LeaseExpires(i))

FairSpec == Spec /\ Fairness

-----------------------------------------------------------------------------
Held(w) == pc[w] \in {"setex", "work", "lrem"}

Orphaned(i) ==
    /\ i \in processing_q
    /\ \A w \in Workers : ~(Held(w) /\ item[w] = i)

(***************************************************************************)
(* A worker exits with success only when every item has been worked on and *)
(* nothing is left in either queue: empty() is right although it reads the *)
(* two queues at two different moments.                                    *)
(***************************************************************************)
ExitMeansDone ==
    (\E w \in Workers : pc[w] = "exited")
        => worked = Items /\ main_q = <<>> /\ processing_q = {}

(***************************************************************************)
(* Two workers never hold the same item, and no worker takes an item whose *)
(* work has already been carried out.                                      *)
(***************************************************************************)
WorkedAtMostOnce ==
    /\ \A v, w \in Workers :
          v # w /\ Held(v) /\ Held(w) => item[v] # item[w]
    /\ \A w \in Workers :
          pc[w] \in {"setex", "work"} => item[w] \notin worked

(***************************************************************************)
(* Whatever crashes, an item that was not worked on is still in one of the *)
(* two queues, where a collector of expired leases could find it.          *)
(***************************************************************************)
NothingLost ==
    \A i \in Items \ worked : i \in Elements(main_q) \cup processing_q

(***************************************************************************)
(* complete() deletes the lease key without looking at its value; the      *)
(* lease it deletes is nevertheless never that of another session.         *)
(***************************************************************************)
DeletesOwnLease ==
    \A w \in Workers :
        pc[w] = "del" => lease[item[w]] \in {None, <<w, session[w]>>}

(***************************************************************************)
(* rediswq.py and worker.py implement the finite work queue.               *)
(***************************************************************************)
Stage(i) ==
    IF i \in Elements(main_q) THEN "queued"
    ELSE IF i \notin processing_q /\ i \in worked THEN "retired"
    ELSE IF i \in worked THEN "worked"
    ELSE "claimed"

Queue == INSTANCE FiniteWorkQueue
            WITH status <- [i \in Items |-> Stage(i)],
                 announced <- \E w \in Workers : pc[w] = "exited"

QueueSpec == Queue!Spec

(***************************************************************************)
(* The Job ends: every worker exits.  The one thing that can keep the      *)
(* workers looping for ever is an item that stays in the processing queue  *)
(* and belongs to no live worker, which takes a crash.                     *)
(***************************************************************************)
DrainsOrOrphans ==
    \/ <>(\A w \in Workers : pc[w] = "exited")
    \/ <>[]((\E i \in Items : Orphaned(i)) /\ (\E w \in Workers : session[w] > 0))

(***************************************************************************)
(* What lease() says of an expired lease: "After that time, other workers  *)
(* may consider this client to have crashed or stalled and pick up the     *)
(* item instead."  An orphaned item without a lease is picked up again.    *)
(***************************************************************************)
ExpiredLeaseIsReclaimed ==
    \A i \in Items : (Orphaned(i) /\ lease[i] = None) ~> ~Orphaned(i)
=============================================================================
