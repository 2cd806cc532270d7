-------------------------- MODULE UserJourneyProofs --------------------------
(***************************************************************************)
(* What the page of UserJourney shows and what its URL says, for all paths,*)
(* personas and levels and every number of events.                         *)
(***************************************************************************)
EXTENDS UserJourney, SequenceTheorems, TLAPS

(***************************************************************************)
(* The inductive invariant.  The card displayed is that of the path chosen,*)
(* a path without personas hides the sections of the journeys, and no      *)
(* persona is stored without its path: so a click on a persona or a level  *)
(* finds info[path], and with the persona stored the links are its.        *)
(***************************************************************************)
CardOfPath ==
    /\ card = IF params.path \in Journeys THEN params.path ELSE NoValue
    /\ params.path \in SpecialPaths => ~journey

PersonaHasPath == params.persona # NoValue => params.path \in Journeys

IInv ==
    /\ TypeOK
    /\ CardOfPath
    /\ PersonaHasPath
    /\ PageShowsChoice
    /\ FailsOnlyBeforePath

-----------------------------------------------------------------------------
(***************************************************************************)
(* Pushing entries keeps the history a sequence of URLs and shows the last *)
(* of them.                                                                *)
(***************************************************************************)
LEMMA PushLemma ==
    ASSUME history \in Seq(Urls), at \in 1..Len(history),
           NEW urls \in Seq(Urls), urls # <<>>, Push(urls)
    PROVE  /\ history' \in Seq(Urls)
           /\ at' \in 1..Len(history')
           /\ Url' = urls[Len(urls)]
<1>. DEFINE kept == SubSeq(history, 1, at)
<1>1. kept \in Seq(Urls) /\ Len(kept) = at
  BY SubSeqProperties
<1>2. /\ kept \o urls \in Seq(Urls)
      /\ Len(kept \o urls) = at + Len(urls)
      /\ \A k \in 1..(at + Len(urls)) :
            (kept \o urls)[k] = IF k <= at THEN kept[k] ELSE urls[k - at]
  <2>. HIDE DEF kept
  <2>. QED  BY <1>1, ConcatProperties
<1>3. Len(urls) \in Nat \ {0}
  BY EmptySeq, LenProperties
<1>4. history' = kept \o urls /\ at' = at + Len(urls)
  BY DEF Push
<1>5. at + Len(urls) \in 1..(at + Len(urls)) /\ ~ (at + Len(urls) <= at)
      /\ (at + Len(urls)) - at = Len(urls)
  BY <1>3
<1>. HIDE DEF kept
<1>6. Url' = urls[Len(urls)]
  BY <1>2, <1>4, <1>5 DEF Url
<1>. QED  BY <1>2, <1>4, <1>5, <1>6

(***************************************************************************)
(* Calls of set keep the history a sequence of URLs and, unless the anchor *)
(* comes before the query, show the last parameters set.                   *)
(***************************************************************************)
LEMMA PushParamsLemma ==
    ASSUME history \in Seq(Urls), at \in 1..Len(history),
           NEW sets \in Seq(Params), sets # <<>>, PushParams(sets)
    PROVE  /\ history' \in Seq(Urls)
           /\ at' \in 1..Len(history')
           /\ ~AnchorFirst => Url'.query = sets[Len(sets)]
<1>. DEFINE Entry(k) == IF AnchorFirst THEN [Url EXCEPT !.anchors = @ + k]
                                       ELSE [Url EXCEPT !.query = sets[k]]
            urls == [k \in 1..Len(sets) |-> Entry(k)]
<1>1. Len(sets) \in Nat \ {0} /\ DOMAIN sets = 1..Len(sets)
  BY EmptySeq, LenProperties
<1>2. Url \in Urls
  BY ElementOfSeq DEF Url
<1>3. ASSUME NEW k \in 1..Len(sets) PROVE Entry(k) \in Urls
  <2>1. sets[k] \in Params /\ k \in Nat
    BY <1>1, ElementOfSeq
  <2>. QED  BY <1>2, <2>1 DEF Urls
<1>4. urls \in Seq(Urls) /\ Len(urls) = Len(sets) /\ urls # <<>>
  <2>. HIDE DEF Entry
  <2>1. urls \in [1..Len(sets) -> Urls]
    BY <1>3
  <2>. QED  BY <1>1, <2>1, IsASeq, LenProperties
<1>5. Push(urls)
  BY <1>1 DEF PushParams
<1>6. /\ history' \in Seq(Urls)
      /\ at' \in 1..Len(history')
      /\ Url' = urls[Len(urls)]
  <2>. HIDE DEF urls
  <2>. QED  BY <1>4, <1>5, PushLemma
<1>7. ~AnchorFirst => Url'.query = sets[Len(sets)]
  BY <1>1, <1>2, <1>4, <1>6 DEF Urls
<1>. QED  BY <1>6, <1>7

(***************************************************************************)
(* The parameters after the clicks.                                        *)
(***************************************************************************)
LEMMA ParamsLemma ==
    ASSUME NEW p \in Params
    PROVE  /\ \A x \in Paths : [p EXCEPT !.path = x] \in Params
           /\ \A x \in Personas \cup {NoValue} :
                 [p EXCEPT !.persona = x] \in Params
           /\ \A x \in Levels \cup {NoValue} : [p EXCEPT !.level = x] \in Params
BY DEF Params

LEMMA Constants ==
    /\ Journeys \subseteq Paths
    /\ \A j \in Journeys : PersonasOf[j] \subseteq Personas
    /\ NoValue \notin Paths /\ NoValue \notin Personas /\ NoValue \notin Levels
    /\ NoParams \in Params
    /\ Params \cap {Nothing, Prompt} = {}
BY ConstantsAssumption DEF Paths, Personas, Params, NoParams

LEMMA InitLemma == Init => IInv
<1>. SUFFICES ASSUME Init PROVE IInv
  OBVIOUS
<1>1. /\ history \in Seq(Urls) /\ at \in 1..Len(history)
  <2>1. PICK query \in Queries, anchors \in IF Anchored THEN {0, 1} ELSE {0} :
           history = <<[query |-> query, anchors |-> anchors]>>
    BY DEF Init
  <2>2. [query |-> query, anchors |-> anchors] \in Urls
    BY ConstantsAssumption DEF Urls
  <2>. QED  BY <2>1, <2>2 DEF Init
<1>2. TypeOK
  <2>1. journey \in BOOLEAN /\ failed \in BOOLEAN
    BY Zenon DEF Init
  <2>2. params \in Params /\ events \in 0..MaxEvents
    BY Constants, ConstantsAssumption DEF Init
  <2>3. /\ card \in Journeys \cup {NoValue} /\ button \in Buttons \cup {NoButton}
        /\ level \in Levels \cup {NoValue}
        /\ links \in WholeParams \cup {Nothing, Prompt}
    BY DEF Init
  <2>. QED  BY <1>1, <2>1, <2>2, <2>3 DEF TypeOK
<1>3. CardOfPath /\ PersonaHasPath /\ PageShowsChoice /\ FailsOnlyBeforePath
  BY Constants, ConstantsAssumption
  DEF Init, CardOfPath, PersonaHasPath, PageShowsChoice, FailsOnlyBeforePath,
      NoParams, Paths
<1>. QED  BY <1>2, <1>3 DEF IInv

(***************************************************************************)
(* A click on a path clears the persona, and with it every claim about the *)
(* page; the sections of the journeys follow the path.                     *)
(***************************************************************************)
LEMMA ClickPathLemma ==
    ASSUME IInv, NEW path \in Paths, ClickPath(path),
           events' \in 0..MaxEvents
    PROVE  IInv'
<1>. DEFINE chosen == [params EXCEPT !.path = path]
            without == [chosen EXCEPT !.persona = NoValue]
            last == [without EXCEPT !.level = NoValue]
<1>. USE Constants
<1>1. chosen \in Params /\ without \in Params /\ last \in Params
  BY ParamsLemma DEF IInv, TypeOK
<1>2. params' = last /\ PushParams(<<chosen, without, last>>)
  BY DEF ClickPath
<1>3. last.path = path /\ last.persona = NoValue /\ last.level = NoValue
  BY DEF IInv, TypeOK, Params
<1>4. history' \in Seq(Urls) /\ at' \in 1..Len(history')
  <2>. HIDE DEF chosen, without, last
  <2>1. <<chosen, without, last>> \in Seq(Params)
        /\ <<chosen, without, last>> # <<>>
    BY <1>1
  <2>. QED  BY <1>2, <2>1, PushParamsLemma DEF IInv, TypeOK
<1>. HIDE DEF chosen, without, last
<1>5. TypeOK'
  <2>1. journey' \in BOOLEAN /\ failed' \in BOOLEAN
    <3>1. journey' = (path \in Journeys) /\ failed' = FALSE
      BY DEF ClickPath
    <3>2. (path \in Journeys) \in BOOLEAN
      OBVIOUS
    <3>. QED  BY <3>1, <3>2, Zenon
  <2>2. card' \in Journeys \cup {NoValue}
    BY DEF ClickPath
  <2>3. UNCHANGED selection
    BY DEF ClickPath
  <2>. QED  BY <1>1, <1>2, <1>4, <2>1, <2>2, <2>3 DEF IInv, TypeOK, selection
<1>6. CardOfPath'
  BY <1>2, <1>3, ConstantsAssumption DEF CardOfPath, ClickPath
<1>7. (PersonaHasPath /\ PageShowsChoice)'
  BY <1>2, <1>3 DEF PersonaHasPath, PageShowsChoice
<1>8. FailsOnlyBeforePath'
  BY DEF FailsOnlyBeforePath, ClickPath
<1>. QED  BY <1>5, <1>6, <1>7, <1>8 DEF IInv

(***************************************************************************)
(* A persona can be clicked only on the card of the path chosen, so that   *)
(* the links are found and everything displayed is of the new choice.      *)
(***************************************************************************)
LEMMA ClickPersonaLemma ==
    ASSUME IInv, NEW persona \in Personas, ClickPersona(persona),
           events' \in 0..MaxEvents
    PROVE  IInv'
<1>. DEFINE chosen == [params EXCEPT !.persona = persona]
            leveled == [chosen EXCEPT !.level = DefaultLevel]
<1>. USE Constants
<1>1. chosen \in Params /\ leveled \in Params
  BY ParamsLemma, ConstantsAssumption DEF IInv, TypeOK
<1>2. /\ chosen.path = params.path /\ leveled.path = params.path
      /\ chosen.persona = persona /\ leveled.persona = persona
      /\ chosen.level = params.level /\ leveled.level = DefaultLevel
  BY DEF IInv, TypeOK, Params
<1>3. card = params.path /\ params.path \in Journeys /\ journey
      /\ persona \in PersonasOf[params.path]
  BY DEF IInv, CardOfPath, ClickPersona
<1>4. IF params.level = NoValue
      THEN params' = leveled /\ PushParams(<<chosen, leveled, leveled>>)
      ELSE params' = chosen /\ PushParams(<<chosen, chosen>>)
  BY DEF ClickPersona
<1>. HIDE DEF chosen, leveled
<1>5. history' \in Seq(Urls) /\ at' \in 1..Len(history')
  <2>1. /\ <<chosen, leveled, leveled>> \in Seq(Params)
        /\ <<chosen, leveled, leveled>> # <<>>
        /\ <<chosen, chosen>> \in Seq(Params) /\ <<chosen, chosen>> # <<>>
    BY <1>1
  <2>. QED  BY <1>4, <2>1, PushParamsLemma DEF IInv, TypeOK
<1>6. /\ params' \in Params /\ params'.path = params.path
      /\ params'.persona = persona /\ params'.level \in Levels
  BY <1>1, <1>2, <1>4, ConstantsAssumption DEF IInv, TypeOK, Params
<1>7. failed' = FALSE /\ links' = params'
  BY <1>3, <1>6 DEF ClickPersona, SetInfoData
<1>8. /\ button' = <<params.path, persona>> /\ level' = params'.level
      /\ card' = card /\ journey' = journey
  BY <1>3 DEF ClickPersona, display
<1>9. TypeOK'
  <2>1. params' \in WholeParams
    BY <1>3, <1>6 DEF WholeParams
  <2>2. <<params.path, persona>> \in Buttons
    BY <1>3 DEF Buttons
  <2>. QED  BY <1>5, <1>6, <1>7, <1>8, <2>1, <2>2 DEF IInv, TypeOK
<1>10. (CardOfPath /\ PersonaHasPath)'
  BY <1>3, <1>6, <1>8 DEF IInv, CardOfPath, PersonaHasPath
<1>11. PageShowsChoice'
  BY <1>3, <1>6, <1>7, <1>8 DEF PageShowsChoice
<1>12. FailsOnlyBeforePath'
  BY <1>7 DEF FailsOnlyBeforePath
<1>. QED  BY <1>9, <1>10, <1>11, <1>12 DEF IInv

(***************************************************************************)
(* A level can be clicked without a path, which fails, but not with a path *)
(* that has no personas; with a persona stored the links are its.          *)
(***************************************************************************)
LEMMA ClickLevelLemma ==
    ASSUME IInv, NEW l \in Levels, ClickLevel(l), events' \in 0..MaxEvents
    PROVE  IInv'
<1>. DEFINE chosen == [params EXCEPT !.level = l]
<1>. USE Constants
<1>1. chosen \in Params
  BY ParamsLemma DEF IInv, TypeOK
<1>2. /\ chosen.path = params.path /\ chosen.persona = params.persona
      /\ chosen.level = l
  BY DEF IInv, TypeOK, Params
<1>3. params' = chosen /\ PushParams(<<chosen>>)
  BY DEF ClickLevel
<1>. HIDE DEF chosen
<1>4. history' \in Seq(Urls) /\ at' \in 1..Len(history')
  <2>1. <<chosen>> \in Seq(Params) /\ <<chosen>> # <<>>
    BY <1>1
  <2>. QED  BY <1>3, <2>1, PushParamsLemma DEF IInv, TypeOK
<1>5. /\ level' = l /\ button' = button /\ card' = card /\ journey' = journey
      /\ journey
  BY DEF ClickLevel, display
<1>6. params.path \notin Journeys => params.path = NoValue
  BY <1>5 DEF IInv, TypeOK, Params, CardOfPath, Paths
<1>7. params.persona # NoValue => failed' = FALSE /\ links' = params'
  BY <1>2, <1>3
  DEF IInv, PersonaHasPath, PageShowsChoice, ClickLevel, SetInfoData
<1>8. failed' \in BOOLEAN /\ links' \in WholeParams \cup {Nothing, Prompt}
  <2>1. CASE params'.path \notin Journeys
    BY <2>1 DEF IInv, TypeOK, ClickLevel, SetInfoData
  <2>2. CASE /\ params'.path \in Journeys
             /\ params'.persona \in PersonasOf[params'.path]
    <3>1. params' \in WholeParams
      BY <1>1, <1>2, <1>3, <2>2 DEF WholeParams
    <3>. QED  BY <2>2, <3>1 DEF ClickLevel, SetInfoData
  <2>3. CASE /\ params'.path \in Journeys
             /\ params'.persona \notin PersonasOf[params'.path]
    BY <2>3 DEF ClickLevel, SetInfoData
  <2>. QED  BY <2>1, <2>2, <2>3
<1>9. TypeOK'
  BY <1>1, <1>3, <1>4, <1>5, <1>8 DEF IInv, TypeOK
<1>10. (CardOfPath /\ PersonaHasPath)'
  BY <1>2, <1>3, <1>5 DEF IInv, CardOfPath, PersonaHasPath
<1>11. PageShowsChoice'
  BY <1>2, <1>3, <1>5, <1>7 DEF IInv, PageShowsChoice
<1>12. FailsOnlyBeforePath'
  BY <1>2, <1>3, <1>6 DEF FailsOnlyBeforePath, ClickLevel, SetInfoData
<1>. QED  BY <1>9, <1>10, <1>11, <1>12 DEF IInv

(***************************************************************************)
(* The rest changes the URL alone, or starts anew.                         *)
(***************************************************************************)
LEMMA UrlOnlyLemma ==
    ASSUME IInv, history' \in Seq(Urls), at' \in 1..Len(history'),
           UNCHANGED <<params, selection, display, failed>>,
           events' \in 0..MaxEvents
    PROVE  IInv'
BY DEF IInv, TypeOK, CardOfPath, PersonaHasPath, PageShowsChoice,
       FailsOnlyBeforePath, selection, display

LEMMA FollowPromptLemma ==
    ASSUME IInv, FollowPrompt, events' \in 0..MaxEvents PROVE IInv'
<1>. DEFINE url == [Url EXCEPT !.anchors = 1]
<1>1. url \in Urls
  <2>1. Url \in Urls
    BY ElementOfSeq DEF IInv, TypeOK, Url
  <2>. QED  BY <2>1 DEF Urls
<1>2. Push(<<url>>) /\ UNCHANGED <<params, selection, display, failed>>
  BY DEF FollowPrompt
<1>. HIDE DEF url
<1>3. <<url>> \in Seq(Urls) /\ <<url>> # <<>>
  BY <1>1
<1>4. history' \in Seq(Urls) /\ at' \in 1..Len(history')
  BY <1>2, <1>3, PushLemma DEF IInv, TypeOK
<1>. QED  BY <1>2, <1>4, UrlOnlyLemma

LEMMA MoveLemma ==
    ASSUME IInv, Move, events' \in 0..MaxEvents PROVE IInv'
<1>1. history' \in Seq(Urls) /\ at' \in 1..Len(history')
  BY LenProperties DEF IInv, TypeOK, Move
<1>. QED  BY <1>1, UrlOnlyLemma DEF Move

LEMMA ReloadLemma ==
    ASSUME IInv, Reload, events' \in 0..MaxEvents PROVE IInv'
<1>1. TypeOK'
  BY Constants DEF IInv, TypeOK, Reload
<1>2. (CardOfPath /\ PersonaHasPath /\ PageShowsChoice /\ FailsOnlyBeforePath)'
  BY Constants, ConstantsAssumption
  DEF Reload, CardOfPath, PersonaHasPath, PageShowsChoice,
      FailsOnlyBeforePath, NoParams, Paths
<1>. QED  BY <1>1, <1>2 DEF IInv

LEMMA NextLemma == IInv /\ [Next]_vars => IInv'
<1>. SUFFICES ASSUME IInv, [Next]_vars PROVE IInv'
  OBVIOUS
<1>1. CASE Next
  <2>1. events' \in 0..MaxEvents
    BY <1>1, ConstantsAssumption DEF Next, IInv, TypeOK
  <2>2. CASE \E path \in Paths : ClickPath(path)
    BY <2>1, <2>2, ClickPathLemma
  <2>3. CASE \E persona \in Personas : ClickPersona(persona)
    BY <2>1, <2>3, ClickPersonaLemma
  <2>4. CASE \E l \in Levels : ClickLevel(l)
    BY <2>1, <2>4, ClickLevelLemma
  <2>5. CASE FollowPrompt
    BY <2>1, <2>5, FollowPromptLemma
  <2>6. CASE Move
    BY <2>1, <2>6, MoveLemma
  <2>7. CASE Reload
    BY <2>1, <2>7, ReloadLemma
  <2>. QED  BY <1>1, <2>2, <2>3, <2>4, <2>5, <2>6, <2>7 DEF Next
<1>2. CASE UNCHANGED vars
  BY <1>2
  DEF IInv, TypeOK, CardOfPath, PersonaHasPath, PageShowsChoice,
      FailsOnlyBeforePath, vars
<1>. QED  BY <1>1, <1>2

-----------------------------------------------------------------------------
LEMMA Invariance == Spec => []IInv
BY InitLemma, NextLemma, PTL DEF Spec

\* The parameters, the history and the page keep their types.
THEOREM TypeCorrect == Spec => []TypeOK
BY Invariance, PTL DEF IInv

\* While a persona is stored, the page shows the choice that is stored
\* (handlePathClick, handlePersonaClick, handleLevelClick, setInfoData).
THEOREM ShowsChoice == Spec => []PageShowsChoice
BY Invariance, PTL DEF IInv

\* No order of clicks makes setInfoData fail once a path has been chosen.
THEOREM FailsOnlyEarly == Spec => []FailsOnlyBeforePath
BY Invariance, PTL DEF IInv

(***************************************************************************)
(* The last call of set of each handler has the parameters it stores.      *)
(***************************************************************************)
LEMMA PushesParams ==
    ASSUME IInv, Next, params' # params, params' # NoParams, ~AnchorFirst
    PROVE  Url'.query = params'
<1>. USE Constants
<1>1. history \in Seq(Urls) /\ at \in 1..Len(history) /\ params \in Params
  BY DEF IInv, TypeOK
<1>2. ASSUME NEW path \in Paths, ClickPath(path) PROVE Url'.query = params'
  <2>. DEFINE chosen == [params EXCEPT !.path = path]
              without == [chosen EXCEPT !.persona = NoValue]
              last == [without EXCEPT !.level = NoValue]
              sets == <<chosen, without, last>>
  <2>1. chosen \in Params /\ without \in Params /\ last \in Params
    BY <1>1, ParamsLemma
  <2>2. PushParams(sets) /\ params' = last
    BY <1>2 DEF ClickPath
  <2>. HIDE DEF chosen, without, last
  <2>3. sets \in Seq(Params) /\ sets # <<>> /\ sets[Len(sets)] = last
    BY <2>1
  <2>. HIDE DEF sets
  <2>. QED  BY <1>1, <2>2, <2>3, PushParamsLemma
<1>3. ASSUME NEW persona \in Personas, ClickPersona(persona)
      PROVE  Url'.query = params'
  <2>. DEFINE chosen == [params EXCEPT !.persona = persona]
              leveled == [chosen EXCEPT !.level = DefaultLevel]
              three == <<chosen, leveled, leveled>>
              two == <<chosen, chosen>>
  <2>1. chosen \in Params /\ leveled \in Params
    BY <1>1, ParamsLemma, ConstantsAssumption
  <2>2. \/ params' = leveled /\ PushParams(three)
        \/ params' = chosen /\ PushParams(two)
    BY <1>3 DEF ClickPersona
  <2>. HIDE DEF chosen, leveled
  <2>3. /\ three \in Seq(Params) /\ three # <<>> /\ three[Len(three)] = leveled
        /\ two \in Seq(Params) /\ two # <<>> /\ two[Len(two)] = chosen
    BY <2>1
  <2>. HIDE DEF three, two
  <2>4. CASE params' = leveled /\ PushParams(three)
    BY <1>1, <2>3, <2>4, PushParamsLemma
  <2>5. CASE params' = chosen /\ PushParams(two)
    BY <1>1, <2>3, <2>5, PushParamsLemma
  <2>. QED  BY <2>2, <2>4, <2>5
<1>4. ASSUME NEW l \in Levels, ClickLevel(l) PROVE Url'.query = params'
  <2>1. params' \in Params /\ PushParams(<<params'>>)
    BY <1>1, <1>4, ParamsLemma DEF ClickLevel
  <2>2. <<params'>> \in Seq(Params) /\ <<params'>> # <<>>
        /\ <<params'>>[Len(<<params'>>)] = params'
    BY <2>1
  <2>. QED  BY <1>1, <2>1, <2>2, PushParamsLemma
<1>5. ~FollowPrompt /\ ~Move /\ ~Reload
  BY DEF FollowPrompt, Move, Reload
<1>. QED  BY <1>2, <1>3, <1>4, <1>5 DEF Next

\* Every click of a page without an anchor before the query leaves the URL at
\* the parameters it has stored (urlParamHash.set).
THEOREM UrlFollows == Spec => ClickPushesParams
<1>1. IInv /\ [Next]_vars =>
        [params' # params /\ params' # NoParams /\ ~AnchorFirst
            => Url'.query = params']_vars
  <2>. SUFFICES ASSUME IInv, Next, params' # params, params' # NoParams,
                       ~AnchorFirst
                PROVE  Url'.query = params'
    OBVIOUS
  <2>. QED  BY PushesParams
<1>. QED  BY Invariance, <1>1, PTL DEF Spec, ClickPushesParams
=============================================================================
