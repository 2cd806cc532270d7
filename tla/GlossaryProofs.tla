---------------------------- MODULE GlossaryProofs ----------------------------
(***************************************************************************)
(* The properties of Glossary, for every finite set of tags, every set of  *)
(* terms and every assignment of tags to terms.                            *)
(***************************************************************************)
EXTENDS Glossary, FiniteSetTheorems, SequenceTheorems, TLAPS

(***************************************************************************)
(* The inductive invariant.  In a document that was loaded with a clean    *)
(* query the object activeTags names the marked tags, and holds the key    *)
(* "none" only when there are none.                                        *)
(***************************************************************************)
Names(keys, T) ==
    /\ keys \subseteq Tags \cup {NoneKey}
    /\ keys \ {NoneKey} = T
    /\ NoneKey \in keys => T = {}

InStep == Clean(opened) => Names(activeTags, marked)

IInv == TypeOK /\ VisibleIffActive /\ InStep

-----------------------------------------------------------------------------
\* A count is a number, and zero when the term has none of the tags.
LEMMA CountType ==
    ASSUME NEW t \in Terms, NEW T \in SUBSET Tags
    PROVE  /\ Count(t, T) \in Nat
           /\ Count(t, T) = 0 <=> TagsOf[t] \cap T = {}
  <1>1. IsFiniteSet(T)
    BY TagsAssumption, FS_Subset
  <1>2. IsFiniteSet(TagsOf[t] \cap T)
    BY <1>1, FS_Intersection
  <1>3. QED
    BY <1>2, FS_CardinalityType, FS_EmptySet DEF Count

\* Counts of disjoint sets of tags add up.
LEMMA CountSplit ==
    ASSUME NEW t \in Terms, NEW T \in SUBSET Tags, NEW U \in SUBSET Tags,
           T \cap U = {}
    PROVE  Count(t, T \cup U) = Count(t, T) + Count(t, U)
  <1> DEFINE A == TagsOf[t] \cap T
             B == TagsOf[t] \cap U
  <1>1. IsFiniteSet(A) /\ IsFiniteSet(B)
    BY TagsAssumption, FS_Subset, FS_Intersection
  <1>2. A \cup B = TagsOf[t] \cap (T \cup U) /\ A \cap B = {}
    OBVIOUS
  <1>3. Cardinality(A \cup B) = Cardinality(A) + Cardinality(B) - Cardinality({})
    BY <1>1, <1>2, FS_Union
  <1>4. Cardinality(A) \in Nat /\ Cardinality(B) \in Nat /\ Cardinality({}) = 0
    BY <1>1, FS_CardinalityType, FS_EmptySet
  <1>5. Cardinality(A \cup B) = Cardinality(A) + Cardinality(B)
    BY <1>2, <1>3, <1>4
  <1>6. QED
    BY <1>2, <1>5 DEF Count

(***************************************************************************)
(* Toggling tags keeps the counts exact and hides what has to be hidden,   *)
(* if only inactive tags are activated and only active ones deactivated.   *)
(***************************************************************************)
LEMMA ActivateKeeps ==
    ASSUME TypeOK, VisibleIffActive, NEW T \in SUBSET (Tags \ marked),
           Activate(T)
    PROVE  /\ VisibleIffActive'
           /\ marked' \in SUBSET Tags
           /\ showCount' \in [Terms -> Nat]
           /\ hidden' \in SUBSET Terms
  <1>1. marked \in SUBSET Tags /\ T \in SUBSET Tags /\ marked \cap T = {}
    BY DEF TypeOK
  <1>2. marked' = marked \cup T /\ marked' \in SUBSET Tags
    BY <1>1 DEF Activate
  <1>3. ASSUME NEW t \in Terms
        PROVE  /\ showCount'[t] \in Nat
               /\ showCount'[t] = Count(t, marked')
               /\ t \in hidden' <=> TagsOf[t] \cap marked' = {}
    <2>1. showCount'[t] = showCount[t] + Count(t, T)
      BY DEF Activate
    <2>2. showCount[t] = Count(t, marked)
      BY DEF VisibleIffActive
    <2>3. Count(t, marked) \in Nat /\ Count(t, T) \in Nat
      BY <1>1, CountType
    <2>4. showCount'[t] = Count(t, marked')
      BY <1>1, <1>2, <2>1, <2>2, CountSplit
    <2>5. /\ Count(t, T) = 0 <=> TagsOf[t] \cap T = {}
          /\ Count(t, marked') = 0 <=> TagsOf[t] \cap marked' = {}
      BY <1>1, <1>2, CountType
    <2>6. t \in hidden' <=> t \in hidden /\ (Count(t, T) = 0 \/ showCount'[t] = 0)
      BY DEF Activate
    <2>7. t \in hidden <=> TagsOf[t] \cap marked = {}
      BY DEF VisibleIffActive
    <2>8. t \in hidden' <=> TagsOf[t] \cap marked' = {}
      BY <1>2, <2>4, <2>5, <2>6, <2>7
    <2>9. QED
      BY <2>1, <2>2, <2>3, <2>4, <2>8
  <1>4. showCount' \in [Terms -> Nat]
    BY <1>3 DEF Activate
  <1>5. QED
    BY <1>2, <1>3, <1>4 DEF VisibleIffActive, Activate, TypeOK

LEMMA DeactivateKeeps ==
    ASSUME TypeOK, VisibleIffActive, NEW T \in SUBSET marked, Deactivate(T)
    PROVE  /\ VisibleIffActive'
           /\ marked' \in SUBSET Tags
           /\ showCount' \in [Terms -> Nat]
           /\ hidden' \in SUBSET Terms
  <1>1. marked \in SUBSET Tags /\ T \in SUBSET Tags
    BY DEF TypeOK
  <1>2. /\ marked' = marked \ T
        /\ marked' \in SUBSET Tags
        /\ marked' \cap T = {}
        /\ marked = marked' \cup T
    BY <1>1 DEF Deactivate
  <1>3. ASSUME NEW t \in Terms
        PROVE  /\ showCount'[t] \in Nat
               /\ showCount'[t] = Count(t, marked')
               /\ t \in hidden' <=> TagsOf[t] \cap marked' = {}
    <2>1. showCount'[t] = showCount[t] - Count(t, T)
      BY DEF Deactivate
    <2>2. showCount[t] = Count(t, marked)
      BY DEF VisibleIffActive
    <2>3. Count(t, marked') \in Nat /\ Count(t, T) \in Nat
      BY <1>1, <1>2, CountType
    <2>4. Count(t, marked) = Count(t, marked') + Count(t, T)
      BY <1>1, <1>2, CountSplit
    <2>5. showCount'[t] = Count(t, marked')
      BY <2>1, <2>2, <2>3, <2>4
    <2>6. /\ Count(t, T) = 0 <=> TagsOf[t] \cap T = {}
          /\ Count(t, marked') = 0 <=> TagsOf[t] \cap marked' = {}
      BY <1>1, <1>2, CountType
    <2>7. t \in hidden' <=> t \in hidden \/ (Count(t, T) > 0 /\ showCount'[t] < 1)
      BY DEF Deactivate
    <2>8. t \in hidden <=> TagsOf[t] \cap marked = {}
      BY DEF VisibleIffActive
    <2>9. t \in hidden' <=> t \in hidden \/ (Count(t, T) # 0 /\ Count(t, marked') = 0)
      BY <2>3, <2>5, <2>7
    <2>10. t \in hidden' <=> TagsOf[t] \cap marked' = {}
      BY <1>2, <2>6, <2>8, <2>9
    <2>11. QED
      BY <2>3, <2>5, <2>10
  <1>4. showCount' \in [Terms -> Nat]
    BY <1>3 DEF Deactivate
  <1>5. QED
    BY <1>2, <1>3, <1>4 DEF VisibleIffActive, Deactivate, TypeOK

(***************************************************************************)
(* What a load makes of a query: the tags it marks, and the keys it leaves *)
(* in activeTags, which a clean query makes agree.                         *)
(***************************************************************************)
LEMMA LoadKeeps ==
    ASSUME NEW q \in SUBSET Keys, NEW loaded \in MarkedAfterLoad(q)
    PROVE  /\ loaded \in SUBSET Tags
           /\ KeysAfterLoad(q, loaded) \in SUBSET Keys
           /\ PushedByLoad(q) \in SUBSET Keys
           /\ Clean(q) => Names(KeysAfterLoad(q, loaded), loaded)
  <1> USE KeyAssumption, TagsAssumption DEF Keys, Clean, Names
  <1>1. CASE All \in q
    BY <1>1 DEF MarkedAfterLoad, KeysAfterLoad, PushedByLoad
  <1>2. CASE All \notin q /\ NoneKey \in q
    BY <1>2 DEF MarkedAfterLoad, KeysAfterLoad, PushedByLoad, Params
  <1>3. CASE All \notin q /\ NoneKey \notin q /\ Unknown \in q
    BY <1>3 DEF MarkedAfterLoad, KeysAfterLoad, PushedByLoad, Params
  <1>4. CASE All \notin q /\ NoneKey \notin q /\ Unknown \notin q
    BY <1>4 DEF MarkedAfterLoad, KeysAfterLoad, PushedByLoad, Params
  <1>5. QED
    BY <1>1, <1>2, <1>3, <1>4

\* The counts of a freshly loaded page.
LEMMA FreshCounts ==
    ASSUME NEW T \in SUBSET Tags, NEW t \in Terms
    PROVE  Count(t, T) \in Nat /\ (Count(t, T) = 0 <=> TagsOf[t] \cap T = {})
  BY CountType

-----------------------------------------------------------------------------
\* Back takes the last entry off the session history.
LEMMA FrontLemma ==
    ASSUME NEW S, NEW s \in Seq(S), s # <<>>
    PROVE  LET f == SubSeq(s, 1, Len(s) - 1)
           IN  /\ f \in Seq(S)
               /\ Len(f) = Len(s) - 1
               /\ \A k \in 1..(Len(s) - 1) : f[k] = s[k]
  <1> DEFINE n == Len(s) - 1
  <1>1. n \in Nat /\ \A k \in 1..n : s[k] \in S
    OBVIOUS
  <1> HIDE DEF n
  <1>2. /\ SubSeq(s, 1, n) \in Seq(S)
        /\ Len(SubSeq(s, 1, n)) = IF 1 <= n THEN n - 1 + 1 ELSE 0
        /\ \A k \in 1..(n - 1 + 1) : SubSeq(s, 1, n)[k] = s[1 + k - 1]
    BY <1>1, SubSeqProperties
  <1>3. /\ Len(SubSeq(s, 1, n)) = n
        /\ \A k \in 1..n : SubSeq(s, 1, n)[k] = s[k]
    BY <1>1, <1>2
  <1>4. QED
    BY <1>2, <1>3 DEF n

\* updateParams makes an address, with the parameters in its query unless the
\* fragment takes them.
LEMMA WithParamsLemma ==
    ASSUME NEW a \in Addresses, NEW q \in SUBSET Keys
    PROVE  /\ WithParams(a, q) \in Addresses
           /\ ~Anchored(a) => WithParams(a, q).query = q
  <1>1. CASE Anchored(a)
    BY <1>1 DEF WithParams
  <1>2. CASE ~Anchored(a)
    <2>1. WithParams(a, q) = [query |-> q, mark |-> TRUE, fragment |-> a.fragment]
      BY <1>2 DEF WithParams, Addresses
    <2>2. QED
      BY <2>1 DEF Addresses
  <1>3. QED
    BY <1>1, <1>2

\* pushState keeps the history one of addresses.
LEMMA PushKeeps ==
    ASSUME TypeOK, NEW q \in SUBSET Keys, Push(q)
    PROVE  /\ address' \in Addresses
           /\ history' \in Seq(Addresses)
           /\ ~Anchored(address) => address'.query = q
  BY WithParamsLemma DEF Push, TypeOK

\* The page that has just been opened satisfies the invariant.
LEMMA InitIInv == Init => IInv
  <1> SUFFICES ASSUME Init PROVE IInv
    OBVIOUS
  <1>1. PICK a \in Addresses : \E loaded \in MarkedAfterLoad(a.query) :
            /\ opened = a.query
            /\ marked = loaded
            /\ activeTags = KeysAfterLoad(a.query, loaded)
            /\ showCount = [t \in Terms |-> Count(t, loaded)]
            /\ hidden = {t \in Terms : Count(t, loaded) = 0}
            /\ IF Pushes(a.query, loaded)
                 THEN address = WithParams(a, PushedByLoad(a.query)) /\ history = <<a>>
                 ELSE address = a /\ history = <<>>
    BY DEF Init
  <1>2. PICK loaded \in MarkedAfterLoad(a.query) :
            /\ opened = a.query
            /\ marked = loaded
            /\ activeTags = KeysAfterLoad(a.query, loaded)
            /\ showCount = [t \in Terms |-> Count(t, loaded)]
            /\ hidden = {t \in Terms : Count(t, loaded) = 0}
            /\ IF Pushes(a.query, loaded)
                 THEN address = WithParams(a, PushedByLoad(a.query)) /\ history = <<a>>
                 ELSE address = a /\ history = <<>>
    BY <1>1
  <1>3. a.query \in SUBSET Keys
    BY DEF Addresses
  <1>4. /\ marked \in SUBSET Tags
        /\ activeTags \in SUBSET Keys
        /\ opened \in SUBSET Keys
        /\ PushedByLoad(a.query) \in SUBSET Keys
        /\ InStep
    <2>1. PICK q : q = a.query
      OBVIOUS
    <2>2. q \in SUBSET Keys /\ loaded \in MarkedAfterLoad(q)
      BY <1>3, <2>1
    <2>3. /\ loaded \in SUBSET Tags
          /\ KeysAfterLoad(q, loaded) \in SUBSET Keys
          /\ PushedByLoad(q) \in SUBSET Keys
          /\ Clean(q) => Names(KeysAfterLoad(q, loaded), loaded)
      BY <2>2, LoadKeeps
    <2>4. opened = q /\ marked = loaded /\ activeTags = KeysAfterLoad(q, loaded)
      BY <1>2, <2>1
    <2>5. InStep
      BY <2>3, <2>4 DEF InStep, Names, Clean
    <2>6. QED
      BY <2>1, <2>2, <2>3, <2>4, <2>5
  <1>5. /\ showCount \in [Terms -> Nat]
        /\ hidden \in SUBSET Terms
        /\ VisibleIffActive
    BY <1>2, <1>4, FreshCounts DEF VisibleIffActive
  <1>6. address \in Addresses /\ history \in Seq(Addresses)
    <2>1. WithParams(a, PushedByLoad(a.query)) \in Addresses
      BY <1>4, WithParamsLemma
    <2>2. <<a>> \in Seq(Addresses) /\ <<>> \in Seq(Addresses)
      OBVIOUS
    <2>3. QED
      BY <1>2, <2>1, <2>2
  <1>7. QED
    BY <1>4, <1>5, <1>6 DEF IInv, TypeOK

\* Every click, reload and step back preserves it.
LEMMA NextIInv == IInv /\ [Next]_vars => IInv'
  <1> SUFFICES ASSUME IInv, [Next]_vars PROVE IInv'
    OBVIOUS
  <1>0. TypeOK /\ VisibleIffActive /\ InStep
    BY DEF IInv
  <1>1. ASSUME NEW tag \in Tags, ClickTag(tag)
        PROVE  IInv'
    <2>1. Push(activeTags') /\ opened' = opened
      BY <1>1 DEF ClickTag
    <2>2. CASE tag \in marked
      <3>1. Deactivate({tag})
        BY <1>1, <2>2 DEF ClickTag
      <3>2. /\ VisibleIffActive'
            /\ marked' \in SUBSET Tags
            /\ showCount' \in [Terms -> Nat]
            /\ hidden' \in SUBSET Terms
        BY <1>0, <2>2, <3>1, DeactivateKeeps
      <3>3. marked' = marked \ {tag} /\ activeTags' = activeTags \ {tag}
        BY <3>1 DEF Deactivate
      <3>4. activeTags' \in SUBSET Keys
        BY <1>0, <3>3 DEF TypeOK
      <3>5. InStep'
        BY <1>0, <2>1, <2>2, <3>3, KeyAssumption DEF InStep, Names, Clean
      <3>6. QED
        BY <1>0, <2>1, <3>2, <3>4, <3>5, PushKeeps DEF IInv, TypeOK
    <2>3. CASE tag \notin marked
      <3>1. Activate({tag})
        BY <1>1, <2>3 DEF ClickTag
      <3>2. {tag} \in SUBSET (Tags \ marked)
        BY <2>3
      <3>3. /\ VisibleIffActive'
            /\ marked' \in SUBSET Tags
            /\ showCount' \in [Terms -> Nat]
            /\ hidden' \in SUBSET Terms
        BY <1>0, <3>1, <3>2, ActivateKeeps
      <3>4. /\ marked' = marked \cup {tag}
            /\ activeTags' = (activeTags \cup {tag}) \ {NoneKey}
        BY <3>1 DEF Activate
      <3>5. activeTags' \in SUBSET Keys
        BY <1>0, <3>4 DEF TypeOK, Keys
      <3>6. InStep'
        BY <1>0, <2>1, <3>4, KeyAssumption DEF InStep, Names, Clean
      <3>7. QED
        BY <1>0, <2>1, <3>3, <3>5, <3>6, PushKeeps DEF IInv, TypeOK
    <2>4. QED
      BY <2>2, <2>3
  <1>2. CASE SelectAll
    <2>1. Activate(Tags \ marked) /\ Push({All}) /\ opened' = opened
      BY <1>2 DEF SelectAll
    <2>2. /\ VisibleIffActive'
          /\ marked' \in SUBSET Tags
          /\ showCount' \in [Terms -> Nat]
          /\ hidden' \in SUBSET Terms
      BY <1>0, <2>1, ActivateKeeps
    <2>3. /\ marked' = marked \cup (Tags \ marked)
          /\ activeTags' = IF Tags \ marked = {} THEN activeTags
                           ELSE (activeTags \cup (Tags \ marked)) \ {NoneKey}
      BY <2>1 DEF Activate
    <2>4. activeTags' \in SUBSET Keys
      BY <1>0, <2>3 DEF TypeOK, Keys
    <2>5. InStep'
      BY <1>0, <2>1, <2>3, KeyAssumption, TagsAssumption DEF InStep, Names, Clean
    <2>6. {All} \in SUBSET Keys
      BY DEF Keys
    <2>7. QED
      BY <1>0, <2>1, <2>2, <2>4, <2>5, <2>6, PushKeeps DEF IInv, TypeOK
  <1>3. CASE DeselectAll
    <2>1. Deactivate(marked) /\ Push({NoneKey}) /\ opened' = opened
      BY <1>3 DEF DeselectAll
    <2>2. /\ VisibleIffActive'
          /\ marked' \in SUBSET Tags
          /\ showCount' \in [Terms -> Nat]
          /\ hidden' \in SUBSET Terms
      BY <1>0, <2>1, DeactivateKeeps
    <2>3. marked' = {} /\ activeTags' = activeTags \ marked
      BY <2>1 DEF Deactivate
    <2>4. activeTags' \in SUBSET Keys
      BY <1>0, <2>3 DEF TypeOK
    <2>5. InStep'
      BY <1>0, <2>1, <2>3, KeyAssumption DEF InStep, Names, Clean
    <2>6. {NoneKey} \in SUBSET Keys
      BY DEF Keys
    <2>7. QED
      BY <1>0, <2>1, <2>2, <2>4, <2>5, <2>6, PushKeeps DEF IInv, TypeOK
  <1>4. CASE FollowPermalink
    <2>1. /\ address' = [address EXCEPT !.fragment = TRUE]
          /\ history' = Append(history, address)
          /\ UNCHANGED <<opened, activeTags, marked, showCount, hidden>>
      BY <1>4 DEF FollowPermalink, page
    <2>2. address \in Addresses /\ history \in Seq(Addresses)
      BY <1>0 DEF TypeOK
    <2>3. address' \in Addresses /\ history' \in Seq(Addresses)
      <3>1. [address EXCEPT !.fragment = TRUE] \in Addresses
        BY <2>2 DEF Addresses
      <3>2. QED
        BY <2>1, <2>2, <3>1
    <2>4. VisibleIffActive' /\ InStep'
      BY <1>0, <2>1 DEF VisibleIffActive, InStep, Names, Clean, Count
    <2>5. QED
      BY <1>0, <2>1, <2>3, <2>4 DEF IInv, TypeOK
  <1>5. CASE Reload
    <2>1. PICK loaded \in MarkedAfterLoad(address.query) :
              /\ opened' = address.query
              /\ marked' = loaded
              /\ activeTags' = KeysAfterLoad(address.query, loaded)
              /\ showCount' = [t \in Terms |-> Count(t, loaded)]
              /\ hidden' = {t \in Terms : Count(t, loaded) = 0}
              /\ IF Pushes(address.query, loaded)
                    THEN Push(PushedByLoad(address.query))
                    ELSE UNCHANGED <<address, history>>
      BY <1>5 DEF Reload
    <2>2. address.query \in SUBSET Keys
      BY <1>0 DEF TypeOK, Addresses
    <2>3. /\ marked' \in SUBSET Tags
          /\ activeTags' \in SUBSET Keys
          /\ opened' \in SUBSET Keys
          /\ PushedByLoad(address.query) \in SUBSET Keys
      BY <2>1, <2>2, LoadKeeps
    <2>4. InStep'
      <3>1. PICK q : q = address.query
        OBVIOUS
      <3>2. q \in SUBSET Keys /\ loaded \in MarkedAfterLoad(q)
        BY <2>2, <3>1
      <3>3. Clean(q) => Names(KeysAfterLoad(q, loaded), loaded)
        BY <3>2, LoadKeeps
      <3>4. opened' = q /\ marked' = loaded /\ activeTags' = KeysAfterLoad(q, loaded)
        BY <2>1, <3>1
      <3>5. QED
        BY <3>3, <3>4 DEF InStep
    <2>5. /\ showCount' \in [Terms -> Nat]
          /\ hidden' \in SUBSET Terms
          /\ VisibleIffActive'
      BY <2>1, <2>3, FreshCounts DEF VisibleIffActive
    <2>6. address' \in Addresses /\ history' \in Seq(Addresses)
      BY <1>0, <2>1, <2>3, PushKeeps DEF TypeOK
    <2>7. QED
      BY <2>3, <2>4, <2>5, <2>6 DEF IInv, TypeOK
  <1>6. CASE Back
    <2>1. /\ history # <<>>
          /\ address' = history[Len(history)]
          /\ history' = SubSeq(history, 1, Len(history) - 1)
          /\ UNCHANGED <<opened, activeTags, marked, showCount, hidden>>
      BY <1>6 DEF Back, page
    <2>2. history \in Seq(Addresses) /\ Len(history) \in 1..Len(history)
      BY <1>0, <2>1 DEF TypeOK
    <2>3. address' \in Addresses
      BY <2>1, <2>2
    <2>4. history' \in Seq(Addresses)
      BY <2>1, <2>2, FrontLemma
    <2>5. VisibleIffActive' /\ InStep'
      BY <1>0, <2>1 DEF VisibleIffActive, InStep, Names, Clean, Count
    <2>6. QED
      BY <1>0, <2>1, <2>3, <2>4, <2>5 DEF IInv, TypeOK
  <1>7. CASE UNCHANGED vars
    BY <1>0, <1>7 DEF vars, page, IInv, TypeOK, VisibleIffActive, InStep, Names, Clean, Count
  <1>8. QED
    BY <1>1, <1>2, <1>3, <1>4, <1>5, <1>6, <1>7 DEF Next

\* The invariant holds in every reachable state.
LEMMA Invariance == Spec => []IInv
  BY InitIInv, NextIInv, PTL DEF Spec

-----------------------------------------------------------------------------
(***************************************************************************)
(* Type correctness of the page and its script (static/js/glossary.js); in *)
(* particular no show-count becomes negative.                              *)
(***************************************************************************)
THEOREM TypeCorrect == Spec => []TypeOK
  BY Invariance, PTL DEF IInv

(***************************************************************************)
(* A term is visible exactly when one of its tags is active, and its       *)
(* data-show-count is the number of its active tags.                       *)
(***************************************************************************)
THEOREM FilterIsExact == Spec => []VisibleIffActive
  BY Invariance, PTL DEF IInv

(***************************************************************************)
(* The address that updateParams leaves shows the marked tags when it is   *)
(* opened, in a document that was loaded with a clean query and where the  *)
(* parameters are not lost in the fragment.                                *)
(***************************************************************************)
LEMMA NextBookmarked ==
    IInv /\ IInv' /\ [Next]_vars =>
        (marked' # marked /\ marked' # {} /\ Clean(opened') /\ ~Anchored(address)
            => MarkedAfterLoad(address'.query) = {marked'})
  <1> SUFFICES ASSUME IInv, IInv', [Next]_vars, marked' # marked, marked' # {},
                      Clean(opened'), ~Anchored(address)
               PROVE  MarkedAfterLoad(address'.query) = {marked'}
    OBVIOUS
  <1>0. /\ activeTags' = marked' /\ NoneKey \notin activeTags'
        /\ marked' \subseteq Tags /\ TypeOK /\ activeTags' \in SUBSET Keys
    BY DEF IInv, InStep, Names, TypeOK
  <1>1. ASSUME NEW q, q = marked'
        PROVE  MarkedAfterLoad(q) = {marked'}
    BY <1>0, <1>1, KeyAssumption DEF MarkedAfterLoad, Params
  <1>2. ASSUME NEW tag \in Tags, ClickTag(tag)
        PROVE  MarkedAfterLoad(address'.query) = {marked'}
    <2>1. address'.query = activeTags'
      BY <1>0, <1>2, PushKeeps DEF ClickTag
    <2>2. QED
      BY <1>0, <1>1, <2>1
  <1>3. CASE SelectAll
    <2>1. Push({All}) /\ marked' = marked \cup (Tags \ marked)
      BY <1>3 DEF SelectAll, Activate
    <2>2. marked' = Tags
      BY <1>0, <2>1 DEF TypeOK
    <2>3. {All} \in SUBSET Keys
      BY DEF Keys
    <2>4. address'.query = {All}
      BY <1>0, <2>1, <2>3, PushKeeps
    <2>5. QED
      BY <2>2, <2>4 DEF MarkedAfterLoad
  <1>4. CASE DeselectAll
    BY <1>4 DEF DeselectAll, Deactivate
  <1>5. CASE FollowPermalink
    BY <1>5 DEF FollowPermalink, page
  <1>6. CASE Reload
    <2>1. PICK loaded \in MarkedAfterLoad(address.query) :
              /\ opened' = address.query
              /\ marked' = loaded
              /\ IF Pushes(address.query, loaded)
                    THEN Push(PushedByLoad(address.query))
                    ELSE UNCHANGED <<address, history>>
      BY <1>6 DEF Reload
    <2>2. Clean(address.query) /\ address.query \in SUBSET Keys /\ loaded # {}
      BY <1>0, <2>1 DEF TypeOK, Addresses
    <2>3. All \notin address.query /\ Unknown \notin address.query
      BY <2>2, KeyAssumption DEF Clean
    <2>4. NoneKey \notin address.query
      BY <2>2, <2>3 DEF MarkedAfterLoad
    <2>5. /\ PushedByLoad(address.query) = Params(address.query)
          /\ marked' = Params(address.query)
      BY <2>1, <2>3, <2>4 DEF MarkedAfterLoad, PushedByLoad
    <2>6. Push(Params(address.query))
      BY <2>1, <2>2, <2>5 DEF Pushes
    <2>7. Params(address.query) \in SUBSET Keys
      BY <2>2, TagsAssumption DEF Params, Keys
    <2>8. address'.query = Params(address.query)
      BY <1>0, <2>6, <2>7, PushKeeps
    <2>9. QED
      BY <1>1, <2>5, <2>8
  <1>7. CASE Back
    BY <1>7 DEF Back, page
  <1>8. CASE UNCHANGED vars
    BY <1>8 DEF vars, page
  <1>9. QED
    BY <1>2, <1>3, <1>4, <1>5, <1>6, <1>7, <1>8 DEF Next

(***************************************************************************)
(* The action property itself: the address shows what the reader sees.     *)
(***************************************************************************)
THEOREM Bookmarks == Spec => ClicksAreBookmarked
  <1>1. IInv /\ IInv' /\ [Next]_vars =>
          [marked' # marked /\ marked' # {} /\ Clean(opened') /\ ~Anchored(address)
             => MarkedAfterLoad(address'.query) = {marked'}]_vars
    BY NextBookmarked
  <1>2. QED
    BY <1>1, Invariance, PTL DEF Spec, ClicksAreBookmarked
=============================================================================
