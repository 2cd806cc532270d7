---------------------------- MODULE SequenceLemmas ----------------------------
(***************************************************************************)
(* What the proofs of several components need to know of numbers and       *)
(* sequences, those of the pending callbacks of Timeouts among them.       *)
(***************************************************************************)
EXTENDS Timeouts, SequenceTheorems, FiniteSetTheorems, WellFoundedInduction, TLAPS

(***************************************************************************)
(* A set of natural numbers has a least element.                           *)
(***************************************************************************)
LEMMA LeastElement ==
    ASSUME NEW T \in SUBSET Nat, T # {}
    PROVE  \E x \in T : \A y \in T : x <= y
<1>1. PICK x \in T : \A y \in T : ~ (<<y, x>> \in OpToRel(<, Nat))
  BY WFMin, NatLessThanWellFounded
<1>2. SUFFICES ASSUME NEW y \in T, y < x PROVE FALSE
  <2>1. \A y \in T : x \in Nat /\ y \in Nat
    OBVIOUS
  <2>. QED  BY <2>1
<1>3. x \in Nat /\ y \in Nat
  OBVIOUS
<1>4. <<y, x>> \in {ss \in Nat \X Nat : ss[1] < ss[2]}
  BY <1>2, <1>3
<1>5. <<y, x>> \in OpToRel(<, Nat)
  BY <1>4, Zenon DEF OpToRel
<1>. QED  BY <1>1, <1>5

(***************************************************************************)
(* The first place that a search finds, 0 if it finds none.                *)
(***************************************************************************)
LEMMA FirstPlaceLemma ==
    ASSUME NEW n \in Nat, NEW I \in SUBSET (1..n),
           NEW first, first = IF I # {} THEN Min(I) ELSE 0
    PROVE  /\ first \in 0..n
           /\ first # 0 => first \in I /\ \A i \in I : first <= i
           /\ first = 0 => I = {}
<1>1. CASE I = {}
  BY <1>1
<1>2. CASE I # {}
  <2>1. \E x \in I : \A y \in I : x <= y
    BY <1>2, LeastElement
  <2>2. Min(I) \in I /\ \A y \in I : Min(I) <= y
    BY <2>1 DEF Min
  <2>3. first = Min(I) /\ Min(I) \in 1..n
    BY <1>2, <2>2
  <2>. QED  BY <1>2, <2>2, <2>3
<1>. QED  BY <1>1, <1>2

(***************************************************************************)
(* A sequence without one of its elements.                                 *)
(***************************************************************************)
LEMMA RemoveAtLemma ==
    ASSUME NEW S, NEW s \in Seq(S), NEW i \in 1..Len(s),
           NEW after, after = RemoveAt(s, i)
    PROVE  /\ after \in Seq(S)
           /\ Len(after) = Len(s) - 1
           /\ \A k \in 1..(Len(s) - 1) :
                 after[k] = IF k < i THEN s[k] ELSE s[k + 1]
<1>. DEFINE n == Len(s)
            before == SubSeq(s, 1, i - 1)
            behind == SubSeq(s, i + 1, n)
<1>1. n \in Nat /\ i \in Nat /\ i >= 1 /\ i <= n /\ \A k \in 1..n : s[k] \in S
  OBVIOUS
<1>. HIDE DEF n, before, behind
<1>2. /\ before \in Seq(S) /\ Len(before) = i - 1
      /\ \A k \in 1..(i - 1) : before[k] = s[k]
  <2>1. 1 \in Int /\ i - 1 \in Int /\ \A k \in 1..(i - 1) : s[k] \in S
    BY <1>1
  <2>2. /\ before \in Seq(S)
        /\ Len(before) = IF 1 <= i - 1 THEN (i - 1) - 1 + 1 ELSE 0
        /\ \A k \in 1..((i - 1) - 1 + 1) : before[k] = s[1 + k - 1]
    BY <2>1, SubSeqProperties DEF before
  <2>3. \A k \in 1..(i - 1) : k \in 1..((i - 1) - 1 + 1) /\ 1 + k - 1 = k
    BY <1>1
  <2>. QED  BY <1>1, <2>2, <2>3
<1>3. /\ behind \in Seq(S) /\ Len(behind) = n - i
      /\ \A k \in 1..(n - i) : behind[k] = s[i + k]
  <2>1. i + 1 \in Int /\ n \in Int /\ \A k \in (i + 1)..n : s[k] \in S
    BY <1>1
  <2>2. /\ behind \in Seq(S)
        /\ Len(behind) = IF i + 1 <= n THEN n - (i + 1) + 1 ELSE 0
        /\ \A k \in 1..(n - (i + 1) + 1) : behind[k] = s[i + 1 + k - 1]
    BY <2>1, SubSeqProperties DEF behind
  <2>3. \A k \in 1..(n - i) : k \in 1..(n - (i + 1) + 1) /\ i + 1 + k - 1 = i + k
    BY <1>1
  <2>. QED  BY <1>1, <2>2, <2>3
<1>4. after = before \o behind
  BY DEF RemoveAt, before, behind, n
<1>5. /\ after \in Seq(S)
      /\ Len(after) = Len(before) + Len(behind)
      /\ \A k \in 1..(Len(before) + Len(behind)) : after[k] =
              IF k <= Len(before) THEN before[k] ELSE behind[k - Len(before)]
  BY <1>2, <1>3, <1>4, ConcatProperties
<1>6. Len(after) = n - 1
  BY <1>1, <1>2, <1>3, <1>5
<1>7. \A k \in 1..(n - 1) : after[k] = IF k < i THEN s[k] ELSE s[k + 1]
  <2>. TAKE k \in 1..(n - 1)
  <2>1. CASE k < i
    <3>1. k <= Len(before) /\ k \in 1..(Len(before) + Len(behind)) /\ k \in 1..(i - 1)
      BY <1>1, <1>2, <1>3, <2>1
    <3>. QED  BY <1>2, <1>5, <2>1, <3>1
  <2>2. CASE ~ (k < i)
    <3>1. /\ ~ (k <= Len(before)) /\ k \in 1..(Len(before) + Len(behind))
          /\ k - Len(before) \in 1..(n - i) /\ i + (k - Len(before)) = k + 1
      BY <1>1, <1>2, <1>3, <2>2
    <3>. QED  BY <1>3, <1>5, <2>2, <3>1
  <2>. QED  BY <2>1, <2>2
<1>. QED  BY <1>5, <1>6, <1>7 DEF n

(***************************************************************************)
(* An element put into a sequence: the others stay.                        *)
(***************************************************************************)
LEMMA InsertAtLemma ==
    ASSUME NEW S, NEW s \in Seq(S), NEW e \in S, NEW i \in 1..(Len(s) + 1),
           NEW after, after = InsertAt(s, i, e)
    PROVE  /\ after \in Seq(S)
           /\ Len(after) = Len(s) + 1
           /\ \A k \in 1..(i - 1) : after[k] = s[k]
           /\ after[i] = e
           /\ \A k \in i..Len(s) : after[k + 1] = s[k]
<1>. DEFINE n == Len(s)
            before == SubSeq(s, 1, i - 1)
            behind == SubSeq(s, i, n)
            front == before \o <<e>>
<1>1. n \in Nat /\ i \in Nat /\ i >= 1 /\ i <= n + 1 /\ \A k \in 1..n : s[k] \in S
  OBVIOUS
<1>. HIDE DEF n, before, behind, front
<1>2. /\ before \in Seq(S) /\ Len(before) = i - 1
      /\ \A k \in 1..(i - 1) : before[k] = s[k]
  <2>1. 1 \in Int /\ i - 1 \in Int /\ \A k \in 1..(i - 1) : s[k] \in S
    BY <1>1
  <2>2. /\ before \in Seq(S)
        /\ Len(before) = IF 1 <= i - 1 THEN (i - 1) - 1 + 1 ELSE 0
        /\ \A k \in 1..((i - 1) - 1 + 1) : before[k] = s[1 + k - 1]
    BY <2>1, SubSeqProperties DEF before
  <2>3. \A k \in 1..(i - 1) : k \in 1..((i - 1) - 1 + 1) /\ 1 + k - 1 = k
    BY <1>1
  <2>. QED  BY <1>1, <2>2, <2>3
<1>3. /\ behind \in Seq(S) /\ Len(behind) = n - i + 1
      /\ \A k \in 1..(n - i + 1) : behind[k] = s[i + k - 1]
  <2>1. i \in Int /\ n \in Int /\ \A k \in i..n : s[k] \in S
    BY <1>1
  <2>2. /\ behind \in Seq(S)
        /\ Len(behind) = IF i <= n THEN n - i + 1 ELSE 0
        /\ \A k \in 1..(n - i + 1) : behind[k] = s[i + k - 1]
    BY <2>1, SubSeqProperties DEF behind
  <2>. QED  BY <1>1, <2>2
<1>4. /\ front \in Seq(S) /\ Len(front) = i
      /\ \A k \in 1..(i - 1) : front[k] = s[k]
      /\ front[i] = e
  <2>1. <<e>> \in Seq(S) /\ Len(<<e>>) = 1 /\ <<e>>[1] = e
    OBVIOUS
  <2>2. /\ front \in Seq(S) /\ Len(front) = Len(before) + 1
        /\ \A k \in 1..(Len(before) + 1) : front[k] =
                IF k <= Len(before) THEN before[k] ELSE <<e>>[k - Len(before)]
    BY <1>2, <2>1, ConcatProperties DEF front
  <2>3. \A k \in 1..i : front[k] = IF k <= i - 1 THEN before[k] ELSE <<e>>[k - (i - 1)]
    BY <1>1, <1>2, <2>2
  <2>4. Len(front) = i
    BY <1>1, <1>2, <2>2
  <2>5. \A k \in 1..(i - 1) : front[k] = s[k]
    BY <1>1, <1>2, <2>3
  <2>6. i \in 1..i /\ ~ (i <= i - 1) /\ i - (i - 1) = 1
    BY <1>1
  <2>7. front[i] = e
    BY <2>1, <2>3, <2>6
  <2>. QED  BY <2>2, <2>4, <2>5, <2>7
<1>5. after = front \o behind
  BY DEF InsertAt, before, behind, front, n
<1>6. /\ after \in Seq(S) /\ Len(after) = Len(front) + Len(behind)
      /\ \A k \in 1..(Len(front) + Len(behind)) : after[k] =
              IF k <= Len(front) THEN front[k] ELSE behind[k - Len(front)]
  <2>1. front \in Seq(S) /\ behind \in Seq(S)
    BY <1>3, <1>4
  <2>. QED  BY <1>5, <2>1, ConcatProperties
<1>7. Len(after) = n + 1
  BY <1>1, <1>3, <1>4, <1>6
<1>8. \A k \in 1..(n + 1) : after[k] =
         IF k < i THEN s[k] ELSE IF k = i THEN e ELSE s[k - 1]
  <2>. TAKE k \in 1..(n + 1)
  <2>1. k \in 1..(Len(front) + Len(behind))
    BY <1>1, <1>3, <1>4
  <2>2. CASE k <= i
    <3>1. after[k] = front[k]
      BY <1>4, <1>6, <2>1, <2>2
    <3>. QED  BY <1>1, <1>4, <2>2, <3>1
  <2>3. CASE k > i
    <3>1. k - i \in 1..(n - i + 1) /\ i + (k - i) - 1 = k - 1
      BY <1>1, <2>3
    <3>2. after[k] = behind[k - i]
      BY <1>1, <1>4, <1>6, <2>1, <2>3
    <3>. QED  BY <1>1, <1>3, <2>3, <3>1, <3>2
  <2>. QED  BY <1>1, <2>2, <2>3
<1>9. \A k \in 1..(i - 1) : after[k] = s[k]
  BY <1>1, <1>8
<1>10. after[i] = e
  BY <1>1, <1>8
<1>11. \A k \in i..n : after[k + 1] = s[k]
  <2>. TAKE k \in i..n
  <2>1. /\ k + 1 \in 1..(n + 1) /\ ~ (k + 1 < i) /\ k + 1 # i
        /\ (k + 1) - 1 = k
    BY <1>1
  <2>. QED  BY <1>8, <2>1
<1>. QED  BY <1>6, <1>7, <1>9, <1>10, <1>11 DEF n

(***************************************************************************)
(* A finite set of numbers can be listed in increasing order.              *)
(***************************************************************************)
Increasing(s) == \A j, k \in DOMAIN s : j < k => s[j] < s[k]

Lists(s, T) == s \in Seq(T) /\ Increasing(s) /\ \A x \in T : \E k \in DOMAIN s : s[k] = x

LEMMA OrderLemma ==
    ASSUME NEW n \in Nat, NEW T \in SUBSET (1..n)
    PROVE  \E s : Lists(s, T)
<1>. DEFINE Bad == {m \in Nat : \E U \in SUBSET (1..m) : ~ \E s : Lists(s, U)}
<1>1. SUFFICES ASSUME Bad # {} PROVE FALSE
  <2>. SUFFICES ASSUME ~ \E s : Lists(s, T) PROVE Bad # {}
    OBVIOUS
  <2>1. n \in Bad
    OBVIOUS
  <2>. QED  BY <2>1
<1>2. PICK m \in Bad : \A k \in Bad : m <= k
  BY <1>1, LeastElement
<1>3. m \in Nat
  OBVIOUS
<1>4. PICK U \in SUBSET (1..m) : ~ \E s : Lists(s, U)
  OBVIOUS
<1>5. U # {}
  <2>. SUFFICES ASSUME U = {} PROVE FALSE
    OBVIOUS
  <2>1. <<>> \in Seq(U) /\ Len(<<>>) = 0
    BY EmptySeq
  <2>2. \A k \in DOMAIN <<>> : FALSE
    BY <2>1
  <2>3. Lists(<<>>, U)
    BY <2>1, <2>2 DEF Lists, Increasing
  <2>. QED  BY <1>4, <2>3
<1>6. m >= 1 /\ m - 1 \in Nat
  <2>1. PICK x \in U : x \in 1..m
    BY <1>5
  <2>. QED  BY <1>3, <2>1
<1>7. \A V \in SUBSET (1..(m - 1)) : \E s : Lists(s, V)
  <2>1. m - 1 \notin Bad
    BY <1>2, <1>3, <1>6
  <2>. QED  BY <1>6, <2>1
<1>8. m \in U
  <2>. SUFFICES ASSUME m \notin U PROVE FALSE
    OBVIOUS
  <2>1. U \in SUBSET (1..(m - 1))
    BY <1>3
  <2>. QED  BY <1>4, <1>7, <2>1
<1>9. U \ {m} \in SUBSET (1..(m - 1))
  BY <1>3
<1>10. PICK s : Lists(s, U \ {m})
  BY <1>7, <1>9
<1>11. /\ s \in Seq(U) /\ Len(s) \in Nat /\ DOMAIN s = 1..Len(s)
       /\ \A k \in 1..Len(s) : s[k] \in U \ {m}
  <2>1. s \in Seq(U \ {m})
    BY <1>10 DEF Lists
  <2>2. /\ Len(s) \in Nat /\ DOMAIN s = 1..Len(s)
        /\ \A k \in 1..Len(s) : s[k] \in U \ {m}
    BY <2>1
  <2>3. s \in Seq(U)
    BY <2>1, <2>2
  <2>. QED  BY <2>2, <2>3
<1>12. PICK t : t = Append(s, m)
  OBVIOUS
<1>13. /\ t \in Seq(U) /\ DOMAIN t = 1..(Len(s) + 1)
       /\ \A k \in 1..Len(s) : t[k] = s[k]
       /\ t[Len(s) + 1] = m
  <2>1. /\ t \in Seq(U) /\ Len(t) = Len(s) + 1
        /\ \A k \in 1..Len(s) : t[k] = s[k]
        /\ t[Len(s) + 1] = m
    BY <1>8, <1>11, <1>12, AppendProperties
  <2>. QED  BY <1>11, <2>1
<1>14. Increasing(t)
  <2>. SUFFICES ASSUME NEW j \in DOMAIN t, NEW k \in DOMAIN t, j < k PROVE t[j] < t[k]
    BY DEF Increasing
  <2>1. j \in 1..Len(s) /\ t[j] = s[j] /\ s[j] \in 1..m /\ s[j] # m
    <3>1. j \in 1..Len(s)
      BY <1>11, <1>13
    <3>2. t[j] = s[j] /\ s[j] \in U \ {m}
      BY <1>11, <1>13, <3>1
    <3>. QED  BY <3>1, <3>2
  <2>2. CASE k \in 1..Len(s)
    <3>1. s[j] < s[k]
      BY <1>10, <1>11, <2>1, <2>2 DEF Lists, Increasing
    <3>. QED  BY <1>13, <2>1, <2>2, <3>1
  <2>3. CASE k = Len(s) + 1
    BY <1>3, <1>13, <2>1, <2>3
  <2>. QED  BY <1>11, <1>13, <2>2, <2>3
<1>15. \A x \in U : \E k \in DOMAIN t : t[k] = x
  <2>. TAKE x \in U
  <2>1. CASE x = m
    BY <1>11, <1>13, <2>1
  <2>2. CASE x # m
    <3>1. PICK k \in DOMAIN s : s[k] = x
      BY <1>10, <2>2 DEF Lists
    <3>2. k \in DOMAIN t /\ t[k] = x
      BY <1>11, <1>13, <3>1
    <3>. QED  BY <3>2
  <2>. QED  BY <2>1, <2>2
<1>. QED  BY <1>4, <1>13, <1>14, <1>15 DEF Lists

(***************************************************************************)
(* Such a list is one of the sequences that SetToSeqs gives, and each of   *)
(* those that is in increasing order is such a list.                       *)
(***************************************************************************)
LEMMA SetToSeqsLemma ==
    ASSUME NEW n \in Nat, NEW T \in SUBSET (1..n)
    PROVE  /\ \A s : Lists(s, T) => s \in SetToSeqs(T)
           /\ \A s \in SetToSeqs(T) : Increasing(s) => Lists(s, T)
<1>1. IsFiniteSet(T)
  <2>1. IsFiniteSet(1..n)
    BY FS_Interval
  <2>. QED  BY <2>1, FS_Subset
<1>2. Cardinality(T) \in Nat
  BY <1>1, FS_CardinalityType
<1>3. \A k \in Nat : IsFiniteSet(1..k) /\ Cardinality(1..k) = k
  <2>. TAKE k \in Nat
  <2>1. 1 \in Int /\ k \in Int
    OBVIOUS
  <2>2. IsFiniteSet(1..k) /\ Cardinality(1..k) = IF 1 > k THEN 0 ELSE k - 1 + 1
    BY <2>1, FS_Interval
  <2>. QED  BY <2>2
<1>4. ASSUME NEW s, Lists(s, T) PROVE s \in SetToSeqs(T)
  <2>1. s \in Seq(T) /\ Len(s) \in Nat /\ s \in [1..Len(s) -> T]
    BY <1>4 DEF Lists
  <2>2. \A j, k \in 1..Len(s) : j # k => s[j] # s[k]
    <3>. SUFFICES ASSUME NEW j \in 1..Len(s), NEW k \in 1..Len(s), j < k
                  PROVE  s[j] # s[k]
      BY <2>1
    <3>1. s[j] < s[k]
      BY <1>4, <2>1 DEF Lists, Increasing
    <3>2. s[j] \in 1..n /\ s[k] \in 1..n
      <4>1. s[j] \in T /\ s[k] \in T
        BY <2>1
      <4>. QED  BY <4>1
    <3>. QED  BY <3>1, <3>2
  <2>3. s \in Injection(1..Len(s), T)
    BY <2>1, <2>2 DEF Injection, IsInjective
  <2>4. s \in Surjection(1..Len(s), T)
    BY <1>4, <2>1 DEF Lists, Surjection
  <2>5. ExistsBijection(1..Len(s), T)
    BY <2>3, <2>4 DEF ExistsBijection, Bijection
  <2>6. Cardinality(T) = Len(s)
    BY <1>3, <2>1, <2>5, FS_Bijection
  <2>. QED  BY <2>1, <2>2, <2>6 DEF SetToSeqs
<1>5. ASSUME NEW s \in SetToSeqs(T), Increasing(s) PROVE Lists(s, T)
  <2>. DEFINE c == Cardinality(T)
  <2>1. s \in [1..c -> T] /\ \A i, j \in 1..c : i # j => s[i] # s[j]
    BY DEF SetToSeqs
  <2>2. s \in Injection(1..c, T)
    BY <2>1 DEF Injection, IsInjective
  <2>3. s \in Surjection(1..c, T)
    BY <1>1, <1>2, <1>3, <2>2, FS_Injection
  <2>4. \A x \in T : \E k \in DOMAIN s : s[k] = x
    BY <2>1, <2>3 DEF Surjection
  <2>5. s \in Seq(T)
    BY <1>2, <2>1
  <2>. QED  BY <1>5, <2>4, <2>5 DEF Lists
<1>. QED  BY <1>4, <1>5

-------------------------------------------------------------------------------
(* What the operators of Timeouts keep of the pending callbacks.           *)

Timers(Tasks) == Seq([task: Tasks, left: Nat])

Waits(timers, task) == \E k \in DOMAIN timers : timers[k].task = task

\* At first no callback is pending.
LEMMA NoTimeoutsLemma ==
    ASSUME NEW T PROVE NoTimeouts \in Timers(T) /\ Len(NoTimeouts) = 0
                       /\ \A t : ~Waits(NoTimeouts, t)
BY DEF Timers, NoTimeouts, Waits

(***************************************************************************)
(* A callback that is set waits, behind all that were set before.          *)
(***************************************************************************)
LEMMA SetTimeoutLemma ==
    ASSUME NEW Tasks, NEW timers \in Timers(Tasks), NEW task \in Tasks,
           NEW delay \in Nat
    PROVE  /\ SetTimeout(timers, task, delay) \in Timers(Tasks)
           /\ Len(SetTimeout(timers, task, delay)) = Len(timers) + 1
           /\ \A t : Waits(SetTimeout(timers, task, delay), t)
                       <=> Waits(timers, t) \/ t = task
<1>0. PICK after : after = SetTimeout(timers, task, delay)
  OBVIOUS
<1>. DEFINE new == [task |-> task, left |-> delay]
            S == [task: Tasks, left: Nat]
<1>1. after = Append(timers, new) /\ new \in S /\ timers \in Seq(S)
  BY <1>0 DEF SetTimeout, Timers
<1>2. new.task = task
  OBVIOUS
<1>. HIDE DEF new, S
<1>3. /\ after \in Seq(S) /\ Len(after) = Len(timers) + 1
      /\ \A k \in 1..Len(timers) : after[k] = timers[k]
      /\ after[Len(timers) + 1] = new
  BY <1>1
<1>4. DOMAIN after = 1..(Len(timers) + 1) /\ DOMAIN timers = 1..Len(timers)
  BY <1>1, <1>3
<1>5. Len(timers) \in Nat
  BY <1>1
<1>6. ASSUME NEW t PROVE Waits(after, t) <=> Waits(timers, t) \/ t = task
  <2>1. ASSUME Waits(after, t), t # task PROVE Waits(timers, t)
    <3>1. PICK k \in DOMAIN after : after[k].task = t
      BY <2>1 DEF Waits
    <3>2. k # Len(timers) + 1
      BY <1>2, <1>3, <2>1, <3>1
    <3>3. k \in 1..Len(timers)
      BY <1>4, <1>5, <3>1, <3>2
    <3>. QED  BY <1>3, <1>4, <3>1, <3>3 DEF Waits
  <2>2. ASSUME Waits(timers, t) PROVE Waits(after, t)
    <3>1. PICK k \in DOMAIN timers : timers[k].task = t
      BY <2>2 DEF Waits
    <3>2. k \in DOMAIN after /\ after[k] = timers[k]
      BY <1>3, <1>4, <1>5, <3>1
    <3>. QED  BY <3>1, <3>2 DEF Waits
  <2>3. Waits(after, task)
    <3>1. Len(timers) + 1 \in DOMAIN after
      BY <1>4, <1>5
    <3>. QED  BY <1>2, <1>3, <3>1 DEF Waits
  <2>. QED  BY <2>1, <2>2, <2>3
<1>8. after \in Timers(Tasks)
  BY <1>3 DEF Timers, S
<1>. QED  BY <1>0, <1>3, <1>6, <1>8

(***************************************************************************)
(* The callback that runs is one of those pending, and the others stay.    *)
(***************************************************************************)
LEMMA WithoutDueLemma ==
    ASSUME NEW Tasks, NEW timers \in Timers(Tasks), IsDue(timers),
           NEW after, after = WithoutDue(timers)
    PROVE  /\ DueTask(timers) \in Tasks
           /\ \E k \in DOMAIN timers : DueTask(timers) = timers[k].task
           /\ after \in Timers(Tasks)
           /\ Len(after) + 1 = Len(timers)
           /\ \A t : Waits(after, t) => Waits(timers, t)
           /\ \A t : Waits(timers, t) /\ t # DueTask(timers) => Waits(after, t)
<1>. DEFINE S == [task: Tasks, left: Nat]
            n == Len(timers)
            i == FirstDue(timers)
<1>1. timers \in Seq(S) /\ DOMAIN timers = 1..n /\ n \in Nat
  BY DEF Timers
<1>2. i \in 1..n
  <2>. DEFINE D == {k \in 1..n : timers[k].left = 0}
  <2>1. D \subseteq Nat /\ D # {}
    BY <1>1 DEF IsDue
  <2>2. \E k \in D : \A j \in D : k <= j
    BY <2>1, LeastElement
  <2>3. \E k \in DOMAIN timers :
           /\ timers[k].left = 0
           /\ \A j \in DOMAIN timers : timers[j].left = 0 => k <= j
    BY <1>1, <2>2
  <2>. QED  BY <1>1, <2>3 DEF FirstDue
<1>3. DueTask(timers) = timers[i].task /\ timers[i] \in S
  <2>1. DueTask(timers) = timers[i].task
    BY DEF DueTask
  <2>. HIDE DEF S, i, n
  <2>2. timers[i] \in S
    BY <1>1, <1>2
  <2>. QED  BY <2>1, <2>2
<1>4. timers[i].task \in Tasks
  BY <1>3
<1>. HIDE DEF i, n, S
<1>5. after = RemoveAt(timers, i)
  BY DEF WithoutDue, i
<1>6. timers \in Seq(S) /\ i \in 1..Len(timers)
  BY <1>1, <1>2 DEF n
<1>7. /\ after \in Seq(S) /\ Len(after) = Len(timers) - 1
      /\ \A k \in 1..(Len(timers) - 1) :
            after[k] = IF k < i THEN timers[k] ELSE timers[k + 1]
  BY <1>5, <1>6, RemoveAtLemma
<1>8. after \in Seq(S) /\ Len(after) = n - 1
  BY <1>7 DEF n
<1>9. i \in Nat /\ i >= 1 /\ i <= n
  BY <1>1, <1>2
<1>10. \A k \in 1..(n - 1) : after[k] = IF k < i THEN timers[k] ELSE timers[k + 1]
  BY <1>7 DEF n
<1>11. DOMAIN after = 1..(n - 1)
  BY <1>8, <1>9
<1>12. ASSUME NEW t, Waits(after, t) PROVE Waits(timers, t)
  <2>1. PICK k \in 1..(n - 1) : after[k].task = t
    BY <1>11, <1>12 DEF Waits
  <2>2. k \in 1..n /\ k + 1 \in 1..n
    BY <1>1
  <2>. QED  BY <1>1, <1>10, <2>1, <2>2 DEF Waits
<1>13. ASSUME NEW t, Waits(timers, t), t # DueTask(timers) PROVE Waits(after, t)
  <2>1. PICK k \in 1..n : timers[k].task = t
    BY <1>1, <1>13 DEF Waits
  <2>2. k # i
    BY <1>3, <1>13, <2>1
  <2>3. CASE k < i
    <3>1. k \in 1..(n - 1)
      BY <1>1, <1>9, <2>3
    <3>. QED  BY <1>10, <1>11, <2>1, <2>3, <3>1 DEF Waits
  <2>4. CASE k > i
    <3>1. k - 1 \in 1..(n - 1) /\ ~ (k - 1 < i) /\ (k - 1) + 1 = k
      BY <1>1, <1>9, <2>4
    <3>. QED  BY <1>10, <1>11, <2>1, <3>1 DEF Waits
  <2>. QED  BY <1>9, <2>2, <2>3, <2>4
<1>14. after \in Timers(Tasks)
  BY <1>8 DEF Timers, S
<1>15. \E k \in DOMAIN timers : DueTask(timers) = timers[k].task
  BY <1>1, <1>2, <1>3
<1>16. Len(after) + 1 = Len(timers)
  BY <1>1, <1>8 DEF n
<1>. QED  BY <1>3, <1>4, <1>12, <1>13, <1>14, <1>15, <1>16

(***************************************************************************)
(* Time that passes changes nothing but the time left.                     *)
(***************************************************************************)
LEMMA ElapseLemma ==
    ASSUME NEW Tasks, NEW timers \in Timers(Tasks), ~IsDue(timers),
           NEW after, after = Elapse(timers)
    PROVE  /\ after \in Timers(Tasks)
           /\ Len(after) = Len(timers)
           /\ \A k \in DOMAIN timers : after[k].task = timers[k].task
           /\ \A t : Waits(after, t) <=> Waits(timers, t)
<1>. DEFINE S == [task: Tasks, left: Nat]
<1>1. timers \in Seq(S) /\ DOMAIN timers = 1..Len(timers) /\ Len(timers) \in Nat
  BY DEF Timers
<1>2. \A k \in 1..Len(timers) : timers[k] \in S
  <2>. HIDE DEF S
  <2>. QED  BY <1>1
<1>3. \A k \in 1..Len(timers) : timers[k].left \in Nat /\ timers[k].left # 0
  BY <1>1, <1>2 DEF IsDue
<1>4. after = [k \in 1..Len(timers) |-> [timers[k] EXCEPT !.left = @ - 1]]
  BY <1>1 DEF Elapse
<1>5. \A k \in 1..Len(timers) : after[k] \in S /\ after[k].task = timers[k].task
  BY <1>2, <1>3, <1>4
<1>. HIDE DEF S
<1>6. after \in [1..Len(timers) -> S]
  BY <1>4, <1>5
<1>7. after \in Seq(S) /\ Len(after) = Len(timers) /\ DOMAIN after = 1..Len(timers)
  BY <1>1, <1>6
<1>8. after \in Timers(Tasks)
  BY <1>7 DEF Timers, S
<1>. QED  BY <1>1, <1>5, <1>7, <1>8 DEF Waits
===============================================================================
