---------------------------- MODULE RedisWQProofs ----------------------------
(***************************************************************************)
(* The safety properties of RedisWQ, and that it implements                *)
(* FiniteWorkQueue, for every set of items and workers and every bound on  *)
(* crashes.                                                                *)
(***************************************************************************)
EXTENDS RedisWQ, SequenceTheorems, TLAPS

(***************************************************************************)
(* The inductive invariant.  An item is in one place at a time; a worker   *)
(* that holds an item holds it alone and it is in the processing queue;    *)
(* what the two LLENs saw stays true; a lease is that of the holder.       *)
(***************************************************************************)
Distinct(s) == \A j, k \in 1..Len(s) : s[j] = s[k] => j = k

Places ==
    /\ Distinct(main_q)
    /\ \A i \in Elements(main_q) : i \notin processing_q /\ i \notin worked

HasItem(w) == pc[w] \in {"setex", "work", "lrem", "del"}

Holders ==
    \A w \in Workers :
        /\ HasItem(w) => item[w] \in Items /\ item[w] \notin Elements(main_q)
        /\ Held(w) => item[w] \in processing_q
        /\ pc[w] \in {"setex", "work"} => item[w] \notin worked
        /\ pc[w] \in {"lrem", "del"} => item[w] \in worked
        /\ pc[w] = "del" => item[w] \notin processing_q

Alone ==
    \A v, w \in Workers :
        v # w /\ Held(v) /\ Held(w) => item[v] # item[w]

Sighted ==
    /\ \A w \in Workers : pc[w] = "llen_processing" => main_q = <<>>
    /\ \A w \in Workers :
          pc[w] = "exited" => main_q = <<>> /\ processing_q = {}

LeaseOfHolder ==
    \A w \in Workers :
        pc[w] \in {"work", "lrem", "del"}
            => lease[item[w]] \in {None, <<w, session[w]>>}

Bounded == \A w \in Workers : pc[w] = "crashed" => session[w] < MaxCrashes

IInv ==
    /\ TypeOK
    /\ Bounded
    /\ Places
    /\ Holders
    /\ Alone
    /\ Sighted
    /\ NothingLost
    /\ LeaseOfHolder

-----------------------------------------------------------------------------
(***************************************************************************)
(* What BRPOPLPUSH leaves of the main queue.                               *)
(***************************************************************************)
LEMMA PopLemma ==
    ASSUME NEW S, NEW s \in Seq(S), s # <<>>, Distinct(s)
    PROVE  LET f == SubSeq(s, 1, Len(s) - 1)
               x == s[Len(s)]
           IN  /\ f \in Seq(S)
               /\ x \in S
               /\ Distinct(f)
               /\ Elements(f) = Elements(s) \ {x}
               /\ x \in Elements(s)
  <1> DEFINE f == SubSeq(s, 1, Len(s) - 1)
             x == s[Len(s)]
  <1>1. Len(s) \in Nat /\ Len(s) >= 1 /\ \A k \in 1..Len(s) : s[k] \in S
    OBVIOUS
  <1>2. /\ f \in Seq(S)
        /\ Len(f) = Len(s) - 1
        /\ \A k \in 1..(Len(s) - 1) : f[k] = s[k]
    <2> DEFINE n == Len(s) - 1
    <2>1. n \in Nat /\ \A k \in 1..n : s[k] \in S
      BY <1>1
    <2> HIDE DEF n
    <2>2. /\ SubSeq(s, 1, n) \in Seq(S)
          /\ Len(SubSeq(s, 1, n)) = IF 1 <= n THEN n - 1 + 1 ELSE 0
          /\ \A k \in 1..(n - 1 + 1) : SubSeq(s, 1, n)[k] = s[1 + k - 1]
      BY <2>1, SubSeqProperties
    <2>3. /\ Len(SubSeq(s, 1, n)) = n
          /\ \A k \in 1..n : SubSeq(s, 1, n)[k] = s[k]
      BY <2>1, <2>2
    <2>4. QED
      BY <2>2, <2>3 DEF n
  <1> HIDE DEF f
  <1>3. \A k \in 1..Len(f) : f[k] = s[k]
    BY <1>1, <1>2
  <1>4. x \in S /\ x \in Elements(s)
    BY <1>1 DEF Elements
  <1>5. Distinct(f)
    BY <1>1, <1>2, <1>3 DEF Distinct
  <1>6. Elements(f) = Elements(s) \ {x}
    <2>1. ASSUME NEW e \in Elements(f)
          PROVE  e \in Elements(s) \ {x}
      <3>1. PICK k \in 1..Len(f) : e = f[k]
        BY <2>1 DEF Elements
      <3>2. k \in 1..Len(s) /\ k # Len(s) /\ e = s[k]
        BY <3>1, <1>1, <1>2, <1>3
      <3>3. QED
        BY <3>2, <1>1 DEF Elements, Distinct
    <2>2. ASSUME NEW e \in Elements(s), e # x
          PROVE  e \in Elements(f)
      <3>1. PICK k \in 1..Len(s) : e = s[k]
        BY <2>2 DEF Elements
      <3>2. k # Len(s)
        BY <3>1, <2>2
      <3>3. k \in 1..Len(f) /\ e = f[k]
        BY <3>1, <3>2, <1>1, <1>2, <1>3
      <3>4. QED
        BY <3>3 DEF Elements
    <2>3. QED
      BY <2>1, <2>2
  <1>7. QED
    BY <1>2, <1>4, <1>5, <1>6 DEF f

-----------------------------------------------------------------------------
\* Before the first command every item is in the main queue.
LEMMA InitIInv == Init => IInv
  <1> SUFFICES ASSUME Init PROVE IInv
    OBVIOUS
  <1> USE FillAssumption, NoneAssumption, CrashAssumption DEF Init
  <1>1. TypeOK /\ Bounded
    BY DEF TypeOK, Bounded, Sessions, Commands, Live
  <1>2. Places
    BY DEF Places, Distinct
  <1>3. Holders /\ Alone /\ Sighted /\ LeaseOfHolder
    BY DEF Holders, Alone, Sighted, LeaseOfHolder, HasItem, Held
  <1>4. NothingLost
    BY DEF NothingLost
  <1>5. QED
    BY <1>1, <1>2, <1>3, <1>4 DEF IInv

\* Every command, crash, restart and expiry preserves the invariant.
LEMMA NextIInv == IInv /\ [Next]_vars => IInv'
  <1> SUFFICES ASSUME IInv, [Next]_vars PROVE IInv'
    OBVIOUS
  <1> USE NoneAssumption, CrashAssumption DEF IInv, redis
  <1>1. CASE UNCHANGED vars
    BY <1>1 DEF vars, TypeOK, Bounded, Places, Holders, Alone, Sighted, NothingLost,
                LeaseOfHolder, HasItem, Held
  <1>2. ASSUME NEW w \in Workers, LLenMain(w)
        PROVE  IInv'
    <2> USE <1>2 DEF LLenMain, Goto
    <2>1. TypeOK' /\ Bounded'
      BY DEF TypeOK, Bounded, Live, Commands
    <2>2. Places' /\ NothingLost'
      BY DEF Places, NothingLost
    <2>3. Holders' /\ Alone'
      BY DEF TypeOK, Holders, Alone, HasItem, Held
    <2>4. Sighted'
      BY DEF TypeOK, Sighted
    <2>5. LeaseOfHolder'
      BY DEF TypeOK, LeaseOfHolder
    <2>6. QED
      BY <2>1, <2>2, <2>3, <2>4, <2>5
  <1>3. ASSUME NEW w \in Workers, LLenProcessing(w)
        PROVE  IInv'
    <2> USE <1>3 DEF LLenProcessing, Goto
    <2>1. TypeOK' /\ Bounded'
      BY DEF TypeOK, Bounded, Live, Commands
    <2>2. Places' /\ NothingLost'
      BY DEF Places, NothingLost
    <2>3. Holders' /\ Alone'
      BY DEF TypeOK, Holders, Alone, HasItem, Held
    <2>4. Sighted'
      BY DEF TypeOK, Sighted
    <2>5. LeaseOfHolder'
      BY DEF TypeOK, LeaseOfHolder
    <2>6. QED
      BY <2>1, <2>2, <2>3, <2>4, <2>5
  <1>4. ASSUME NEW w \in Workers, BRPopLPush(w)
        PROVE  IInv'
    <2> USE <1>4 DEF BRPopLPush, Goto
    <2> DEFINE x == main_q[Len(main_q)]
    <2>0. /\ main_q' \in Seq(Items)
          /\ x \in Items
          /\ Distinct(main_q')
          /\ Elements(main_q') = Elements(main_q) \ {x}
          /\ x \in Elements(main_q)
      BY PopLemma DEF TypeOK, Places
    <2>a. /\ x \notin processing_q
          /\ x \notin worked
          /\ processing_q' = processing_q \cup {x}
          /\ item' = [item EXCEPT ![w] = x]
      BY <2>0 DEF Places
    <2> HIDE DEF x
    <2>1. TypeOK' /\ Bounded'
      BY <2>0, <2>a DEF TypeOK, Bounded, Live, Commands
    <2>2. Places' /\ NothingLost'
      BY <2>0, <2>a DEF Places, NothingLost
    <2>3. Holders'
      BY <2>0, <2>a DEF TypeOK, Holders, HasItem, Held
    <2>4. Alone'
      BY <2>0, <2>a DEF TypeOK, Holders, Alone, HasItem, Held
    <2>5. Sighted'
      BY DEF TypeOK, Sighted
    <2>6. LeaseOfHolder'
      BY <2>a DEF TypeOK, LeaseOfHolder
    <2>7. QED
      BY <2>1, <2>2, <2>3, <2>4, <2>5, <2>6
  <1>5. ASSUME NEW w \in Workers, BRPopLPushTimeout(w)
        PROVE  IInv'
    <2> USE <1>5 DEF BRPopLPushTimeout, Goto
    <2>1. TypeOK' /\ Bounded'
      BY DEF TypeOK, Bounded, Live, Commands
    <2>2. Places' /\ NothingLost'
      BY DEF Places, NothingLost
    <2>3. Holders' /\ Alone'
      BY DEF TypeOK, Holders, Alone, HasItem, Held
    <2>4. Sighted'
      BY DEF TypeOK, Sighted
    <2>5. LeaseOfHolder'
      BY DEF TypeOK, LeaseOfHolder
    <2>6. QED
      BY <2>1, <2>2, <2>3, <2>4, <2>5
  <1>6. ASSUME NEW w \in Workers, SetEx(w)
        PROVE  IInv'
    <2> USE <1>6 DEF SetEx, Goto
    <2>1. TypeOK' /\ Bounded'
      BY DEF TypeOK, Bounded, Live, Commands, Sessions
    <2>2. Places' /\ NothingLost'
      BY DEF Places, NothingLost
    <2>3. Holders' /\ Alone'
      BY DEF TypeOK, Holders, Alone, HasItem, Held
    <2>4. Sighted'
      BY DEF TypeOK, Sighted
    <2>5. LeaseOfHolder'
      BY DEF TypeOK, LeaseOfHolder, Holders, Alone, HasItem, Held
    <2>6. QED
      BY <2>1, <2>2, <2>3, <2>4, <2>5
  <1>7. ASSUME NEW w \in Workers, Work(w)
        PROVE  IInv'
    <2> USE <1>7 DEF Work, Goto
    <2>1. TypeOK' /\ Bounded'
      BY DEF TypeOK, Bounded, Live, Commands, Holders, HasItem
    <2>2. Places' /\ NothingLost'
      BY DEF Places, NothingLost, Holders, HasItem
    <2>3. Holders' /\ Alone'
      BY DEF TypeOK, Holders, Alone, HasItem, Held
    <2>4. Sighted'
      BY DEF TypeOK, Sighted
    <2>5. LeaseOfHolder'
      BY DEF TypeOK, LeaseOfHolder
    <2>6. QED
      BY <2>1, <2>2, <2>3, <2>4, <2>5
  <1>8. ASSUME NEW w \in Workers, LRem(w)
        PROVE  IInv'
    <2> USE <1>8 DEF LRem, Goto
    <2>1. TypeOK' /\ Bounded'
      BY DEF TypeOK, Bounded, Live, Commands
    <2>2. Places' /\ NothingLost'
      BY DEF Places, NothingLost, Holders
    <2>3. Holders' /\ Alone'
      BY DEF TypeOK, Holders, Alone, HasItem, Held
    <2>4. Sighted'
      BY DEF TypeOK, Sighted
    <2>5. LeaseOfHolder'
      BY DEF TypeOK, LeaseOfHolder
    <2>6. QED
      BY <2>1, <2>2, <2>3, <2>4, <2>5
  <1>9. ASSUME NEW w \in Workers, DeleteLease(w)
        PROVE  IInv'
    <2> USE <1>9 DEF DeleteLease, Goto
    <2>1. TypeOK' /\ Bounded'
      BY DEF TypeOK, Bounded, Live, Commands
    <2>2. Places' /\ NothingLost'
      BY DEF Places, NothingLost
    <2>3. Holders' /\ Alone'
      BY DEF TypeOK, Holders, Alone, HasItem, Held
    <2>4. Sighted'
      BY DEF TypeOK, Sighted
    <2>5. LeaseOfHolder'
      BY DEF TypeOK, LeaseOfHolder, Holders, HasItem
    <2>6. QED
      BY <2>1, <2>2, <2>3, <2>4, <2>5
  <1>10. ASSUME NEW w \in Workers, Crash(w)
         PROVE  IInv'
    <2> USE <1>10 DEF Crash
    <2>1. TypeOK' /\ Bounded'
      BY DEF TypeOK, Bounded, Live, Commands
    <2>2. Places' /\ NothingLost'
      BY DEF Places, NothingLost
    <2>3. Holders' /\ Alone'
      BY DEF TypeOK, Holders, Alone, HasItem, Held
    <2>4. Sighted'
      BY DEF TypeOK, Sighted
    <2>5. LeaseOfHolder'
      BY DEF TypeOK, LeaseOfHolder
    <2>6. QED
      BY <2>1, <2>2, <2>3, <2>4, <2>5
  <1>11. ASSUME NEW w \in Workers, Restart(w)
         PROVE  IInv'
    <2> USE <1>11 DEF Restart, Goto
    <2>1. TypeOK' /\ Bounded'
      BY DEF TypeOK, Bounded, Live, Commands
    <2>2. Places' /\ NothingLost'
      BY DEF Places, NothingLost
    <2>3. Holders' /\ Alone'
      BY DEF TypeOK, Holders, Alone, HasItem, Held
    <2>4. Sighted'
      BY DEF TypeOK, Sighted
    <2>5. LeaseOfHolder'
      BY DEF TypeOK, LeaseOfHolder
    <2>6. QED
      BY <2>1, <2>2, <2>3, <2>4, <2>5
  <1>12. ASSUME NEW i \in Items, LeaseExpires(i)
         PROVE  IInv'
    <2> USE <1>12 DEF LeaseExpires
    <2>1. TypeOK' /\ Bounded'
      BY DEF TypeOK, Bounded
    <2>2. Places' /\ NothingLost'
      BY DEF Places, NothingLost
    <2>3. Holders' /\ Alone'
      BY DEF Holders, Alone, HasItem, Held
    <2>4. Sighted'
      BY DEF Sighted
    <2>5. LeaseOfHolder'
      BY DEF TypeOK, LeaseOfHolder, Holders, HasItem
    <2>6. QED
      BY <2>1, <2>2, <2>3, <2>4, <2>5
  <1>13. QED
    BY <1>1, <1>2, <1>3, <1>4, <1>5, <1>6, <1>7, <1>8, <1>9, <1>10, <1>11,
       <1>12 DEF Next, Step

\* The invariant holds in every reachable state.
LEMMA Invariance == Spec => []IInv
  BY InitIInv, NextIInv, PTL DEF Spec

-----------------------------------------------------------------------------
(***************************************************************************)
(* Every variable keeps its type.                                          *)
(***************************************************************************)
THEOREM TypeCorrect == Spec => []TypeOK
  <1>1. IInv => TypeOK
    BY DEF IInv
  <1>2. QED
    BY <1>1, Invariance, PTL

(***************************************************************************)
(* A worker that exits leaves no work behind: worker.py's exit code 0 is   *)
(* the signal the Job relies on.                                           *)
(***************************************************************************)
THEOREM ExitIsTruthful == Spec => []ExitMeansDone
  <1>1. IInv => ExitMeansDone
    <2> SUFFICES ASSUME IInv, NEW w \in Workers, pc[w] = "exited"
                 PROVE  worked = Items /\ main_q = <<>> /\ processing_q = {}
      BY DEF ExitMeansDone
    <2>1. main_q = <<>> /\ processing_q = {}
      BY DEF IInv, Sighted
    <2>2. Elements(main_q) = {}
      BY <2>1 DEF Elements
    <2>3. worked = Items
      BY <2>1, <2>2 DEF IInv, TypeOK, NothingLost
    <2>4. QED
      BY <2>1, <2>3
  <1>2. QED
    BY <1>1, Invariance, PTL

(***************************************************************************)
(* lease() hands an item to one worker, and never one that was worked on.  *)
(***************************************************************************)
THEOREM AtMostOnce == Spec => []WorkedAtMostOnce
  <1>1. IInv => WorkedAtMostOnce
    BY DEF IInv, Alone, Holders, WorkedAtMostOnce
  <1>2. QED
    BY <1>1, Invariance, PTL

(***************************************************************************)
(* No crash of any worker makes an unfinished item disappear from Redis.   *)
(***************************************************************************)
THEOREM CrashSafe == Spec => []NothingLost
  <1>1. IInv => NothingLost
    BY DEF IInv
  <1>2. QED
    BY <1>1, Invariance, PTL

(***************************************************************************)
(* The unconditional DEL of complete() removes nobody else's lease.        *)
(***************************************************************************)
THEOREM OwnLease == Spec => []DeletesOwnLease
  <1>1. IInv => DeletesOwnLease
    BY DEF IInv, LeaseOfHolder, DeletesOwnLease
  <1>2. QED
    BY <1>1, Invariance, PTL

-----------------------------------------------------------------------------
(***************************************************************************)
(* Refinement.  Four actions move an item through its stages or announce   *)
(* that the queue is empty; all the others are invisible to the users of   *)
(* the queue.                                                              *)
(***************************************************************************)
Announced == \E w \in Workers : pc[w] = "exited"

\* The filled queue maps to the initial state of FiniteWorkQueue.
LEMMA InitRefines == Init => Queue!Init
  <1> SUFFICES ASSUME Init PROVE Queue!Init
    OBVIOUS
  <1>1. \A i \in Items : Stage(i) = "queued"
    BY FillAssumption DEF Init, Stage
  <1>2. ~ Announced
    BY DEF Init, Announced
  <1>3. QED
    BY <1>1, <1>2 DEF Queue!Init, Announced

\* A step that moves one item a stage on advances it in the abstract queue.
LEMMA StageStep ==
    ASSUME NEW x \in Items, NEW from, NEW to,
           Stage(x) = from, Stage(x)' = to,
           \A i \in Items \ {x} : Stage(i)' = Stage(i),
           Announced' = Announced
    PROVE  Queue!Advance(x, from, to)
  <1> DEFINE st == [i \in Items |-> Stage(i)]
  <1>1. st[x] = from
    OBVIOUS
  <1>2. st' = [st EXCEPT ![x] = to]
    OBVIOUS
  <1>3. QED
    BY <1>1, <1>2 DEF Queue!Advance, Announced

\* A step that moves no item and lets nobody exit is invisible.
LEMMA Stutters ==
    ASSUME \A i \in Items : Stage(i)' = Stage(i), Announced' = Announced
    PROVE  UNCHANGED Queue!absVars
  BY DEF Queue!absVars, Announced

\* Every step maps to one of FiniteWorkQueue or to a stutter.
LEMMA NextRefines ==
    IInv /\ [Next]_vars => [Queue!Next]_(Queue!absVars)
  <1> SUFFICES ASSUME IInv, [Next]_vars
               PROVE  Queue!Next \/ UNCHANGED Queue!absVars
    OBVIOUS
  <1> USE DEF IInv, TypeOK, redis
  <1>1. CASE UNCHANGED vars
    BY <1>1, Stutters DEF vars, Stage, Announced
  <1>2. ASSUME NEW w \in Workers,
               \/ LLenMain(w)
               \/ BRPopLPushTimeout(w)
               \/ SetEx(w)
               \/ DeleteLease(w)
               \/ Crash(w)
               \/ Restart(w)
        PROVE  UNCHANGED Queue!absVars
    <2>1. UNCHANGED <<main_q, processing_q, worked>>
      BY <1>2 DEF LLenMain, BRPopLPushTimeout, SetEx, DeleteLease, Crash,
                  Restart
    <2>2. \A v \in Workers : pc'[v] = "exited" <=> pc[v] = "exited"
      BY <1>2 DEF LLenMain, BRPopLPushTimeout, SetEx, DeleteLease, Crash,
                  Restart, Goto, Commands
    <2>3. QED
      BY <2>1, <2>2, Stutters DEF Stage, Announced
  <1>3. ASSUME NEW i \in Items, LeaseExpires(i)
        PROVE  UNCHANGED Queue!absVars
    BY <1>3, Stutters DEF LeaseExpires, Stage, Announced
  <1>4. ASSUME NEW w \in Workers, LLenProcessing(w)
        PROVE  Queue!Next \/ UNCHANGED Queue!absVars
    <2>1. \A i \in Items : Stage(i)' = Stage(i)
      BY <1>4 DEF LLenProcessing, Stage
    <2>2. CASE processing_q = {}
      <3>1. main_q = <<>> /\ Elements(main_q) = {}
        BY <1>4 DEF LLenProcessing, Goto, Sighted, Elements
      <3>2. \A i \in Items : i \in worked
        BY <2>2, <3>1 DEF NothingLost
      <3>3. \A i \in Items : Stage(i) = "retired"
        BY <2>2, <3>1, <3>2 DEF Stage
      <3>4. Announced'
        BY <1>4, <2>2 DEF LLenProcessing, Goto, Announced
      <3>5. Queue!Announce
        BY <2>1, <3>3, <3>4 DEF Queue!Announce, Announced
      <3>6. QED
        BY <3>5 DEF Queue!Next
    <2>3. CASE processing_q # {}
      <3>1. Announced' = Announced
        BY <1>4, <2>3 DEF LLenProcessing, Goto, Announced
      <3>2. QED
        BY <2>1, <3>1, Stutters
    <2>4. QED
      BY <2>2, <2>3
  <1>5. ASSUME NEW w \in Workers, BRPopLPush(w)
        PROVE  Queue!Next
    <2>0. PICK x \in Items : x = main_q[Len(main_q)]
      BY <1>5, PopLemma DEF BRPopLPush
    <2>1. /\ Elements(main_q') = Elements(main_q) \ {x}
          /\ x \in Elements(main_q)
      BY <1>5, <2>0, PopLemma DEF BRPopLPush, Places
    <2>2. /\ x \notin worked
          /\ worked' = worked
          /\ processing_q' = processing_q \cup {x}
      BY <1>5, <2>0, <2>1 DEF BRPopLPush, Places
    <2>3. Stage(x) = "queued" /\ Stage(x)' = "claimed"
      BY <2>1, <2>2 DEF Stage
    <2>4. \A i \in Items \ {x} : Stage(i)' = Stage(i)
      BY <2>1, <2>2 DEF Stage
    <2>5. Announced' = Announced
      BY <1>5 DEF BRPopLPush, Goto, Announced
    <2>6. Queue!Claim(x)
      BY <2>1, <2>3, <2>4, <2>5, StageStep DEF Queue!Claim
    <2>7. QED
      BY <2>1, <2>6 DEF Queue!Next
  <1>6. ASSUME NEW w \in Workers, Work(w)
        PROVE  Queue!Next
    <2>0. PICK x \in Items : x = item[w]
      BY <1>6 DEF Work, Goto, Holders, HasItem, Held
    <2>1. /\ x \notin Elements(main_q)
          /\ x \in processing_q
          /\ x \notin worked
          /\ worked' = worked \cup {x}
          /\ UNCHANGED <<main_q, processing_q>>
      BY <1>6, <2>0 DEF Work, Goto, Holders, HasItem, Held
    <2>2. Stage(x) = "claimed" /\ Stage(x)' = "worked"
      BY <2>1 DEF Stage
    <2>3. \A i \in Items \ {x} : Stage(i)' = Stage(i)
      BY <2>1 DEF Stage
    <2>4. Announced' = Announced
      BY <1>6 DEF Work, Goto, Announced
    <2>5. Queue!Work(x)
      BY <2>1, <2>2, <2>3, <2>4, StageStep DEF Queue!Work
    <2>6. QED
      BY <2>1, <2>5 DEF Queue!Next
  <1>7. ASSUME NEW w \in Workers, LRem(w)
        PROVE  Queue!Next
    <2>0. PICK x \in Items : x = item[w]
      BY <1>7 DEF LRem, Goto, Holders, HasItem, Held
    <2>1. /\ x \notin Elements(main_q)
          /\ x \in processing_q
          /\ x \in worked
          /\ processing_q' = processing_q \ {x}
          /\ UNCHANGED <<main_q, worked>>
      BY <1>7, <2>0 DEF LRem, Goto, Holders, HasItem, Held
    <2>2. Stage(x) = "worked" /\ Stage(x)' = "retired"
      BY <2>1 DEF Stage
    <2>3. \A i \in Items \ {x} : Stage(i)' = Stage(i)
      BY <2>1 DEF Stage
    <2>4. Announced' = Announced
      BY <1>7 DEF LRem, Goto, Announced
    <2>5. Queue!Retire(x)
      BY <2>1, <2>2, <2>3, <2>4, StageStep DEF Queue!Retire
    <2>6. QED
      BY <2>1, <2>5 DEF Queue!Next
  <1>8. QED
    BY <1>1, <1>2, <1>3, <1>4, <1>5, <1>6, <1>7 DEF Next, Step

(***************************************************************************)
(* The library and the worker program implement the finite work queue.     *)
(***************************************************************************)
THEOREM Implements == Spec => QueueSpec
  BY InitRefines, NextRefines, Invariance, PTL DEF Spec, QueueSpec, Queue!Spec
=============================================================================
