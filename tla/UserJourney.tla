---------------------------- MODULE UserJourney ----------------------------
(***************************************************************************)
(* The user journeys of the docs portal (home.js and its layout): the      *)
(* reader chooses a path, a persona of that path and a level, and is shown *)
(* the links of the three.  The choices are kept in a hash of parameters   *)
(* and pushed to the browser's history one by one.                         *)
(***************************************************************************)
EXTENDS Naturals, Sequences

CONSTANTS
    Journeys,       \* paths with personas: users, contributors
    SpecialPaths,   \* specialJourneyPaths: browse
    PersonasOf,     \* the personas on the card of each path
    Levels,
    DefaultLevel,   \* defaults.level
    Queries,        \* queries a page may be loaded with
    Anchored,       \* may the page be loaded with an anchor, as in #browsedocs
    NoValue,
    Nothing, Prompt,  \* what #infobarLinks shows besides the links of a choice
    MaxEvents       \* bound: what the reader does

Paths == Journeys \cup SpecialPaths
Personas == UNION {PersonasOf[j] : j \in Journeys}

\* What paramHash and the query of a URL hold; a deleted key is NoValue.
Params == [path: Paths \cup {NoValue}, persona: Personas \cup {NoValue},
           level: Levels \cup {NoValue}]
NoParams == [path |-> NoValue, persona |-> NoValue, level |-> NoValue]

ASSUME ConstantsAssumption ==
    /\ Journeys \cap SpecialPaths = {}
    /\ DOMAIN PersonasOf = Journeys
    /\ DefaultLevel \in Levels
    /\ NoValue \notin Paths \cup Personas \cup Levels
    /\ Queries \subseteq Params
    /\ Nothing # Prompt /\ {Nothing, Prompt} \cap Params = {}
    /\ Anchored \in BOOLEAN
    /\ MaxEvents \in Nat

VARIABLES
    params,     \* paramHash
    history,    \* the browser's entries for the page, the URL of each
    at,         \* the entry shown
    card,       \* the card displayed, NoValue if none
    journey,    \* are the sections of the journeys displayed
    button,     \* the persona button selected, a path and a persona
    level,      \* the level selected
    links,      \* what #infobarLinks shows
    failed,     \* the last handler ended in a TypeError
    events

vars == <<params, history, at, card, journey, button, level, links, failed,
          events>>
selection == <<button, level, links>>
display == <<card, journey>>

Buttons == {b \in Journeys \X Personas : b[2] \in PersonasOf[b[1]]}
NoButton == <<NoValue, NoValue>>
WholeParams ==
    {p \in Params : NoValue \notin {p.path, p.persona, p.level}}

\* A URL has a query, NoParams when there is none, and a fragment, of which the
\* number of anchors counts: 0 without one, 1 for #anchor, 2 for
\* #anchor?query#anchor and so on.
Urls == [query: Params, anchors: Nat]
Url == history[at]

TypeOK ==
    /\ params \in Params
    /\ history \in Seq(Urls)
    /\ at \in 1..Len(history)
    /\ card \in Journeys \cup {NoValue}
    /\ journey \in BOOLEAN
    /\ button \in Buttons \cup {NoButton}
    /\ level \in Levels \cup {NoValue}
    /\ links \in WholeParams \cup {Nothing, Prompt}
    /\ failed \in BOOLEAN
    /\ events \in 0..MaxEvents

\* main() builds the cards and their handlers; setupCardState, which would
\* read the URL and the defaults, is never called.  The style sheet hides the
\* cards.
Init ==
    /\ \E query \in Queries, anchors \in IF Anchored THEN {0, 1} ELSE {0} :
          history = <<[query |-> query, anchors |-> anchors]>>
    /\ at = 1
    /\ params = NoParams
    /\ card = NoValue /\ journey = TRUE
    /\ button = NoButton /\ level = NoValue /\ links = Nothing
    /\ failed = FALSE
    /\ events = 0

-------------------------------------------------------------------------------
\* Faulty variant: as if the reader were always at the last entry.
PushAtEnd(urls) ==
    /\ history' = SubSeq(history, 1, at) \o urls
    /\ at' = Len(history) + Len(urls)

\* A new entry: those ahead are dropped.
Push(urls) ==
    /\ history' = SubSeq(history, 1, at) \o urls
    /\ at' = at + Len(urls)

\* In a URL with an anchor and no query the first question mark, where set
\* splits it, is part of the fragment.
AnchorFirst == Url.query = NoParams /\ Url.anchors > 0

\* Faulty variant: set pushes before it stores.
PushParamsBefore(sets) ==
    Push([k \in DOMAIN sets |->
             [Url EXCEPT !.query = IF k = 1 THEN params ELSE sets[k - 1]]])

\* Calls of set with these parameters one after the other.  The new URL is all
\* before the question mark, the parameters, and the fragment once more.
PushParams(sets) ==
    Push([k \in DOMAIN sets |->
             IF AnchorFirst THEN [Url EXCEPT !.anchors = @ + k]
                            ELSE [Url EXCEPT !.query = sets[k]]])

\* Faulty variant: the persona is not reset.
ClickPathKeepsPersona(path) ==
    /\ params' = [params EXCEPT !.path = path, !.level = NoValue]
    /\ PushParams(<<params'>>)
    /\ card' = IF path \in Journeys THEN path ELSE NoValue
    /\ journey' = (path \in Journeys)
    /\ failed' = FALSE
    /\ UNCHANGED selection

\* Faulty variant: the special paths hide nothing.
ClickPathShowsAll(path) ==
    /\ params' = [NoParams EXCEPT !.path = path]
    /\ PushParams(<<params'>>)
    /\ card' = IF path \in Journeys THEN path ELSE NoValue
    /\ failed' = FALSE
    /\ UNCHANGED <<selection, journey>>

\* handlePathClick: three calls of set, so two entries show a half-made choice.
ClickPath(path) ==
    LET chosen == [params EXCEPT !.path = path]
        without == [chosen EXCEPT !.persona = NoValue]
    IN  /\ params' = [without EXCEPT !.level = NoValue]
        /\ PushParams(<<chosen, without, params'>>)
        /\ card' = IF path \in Journeys THEN path ELSE NoValue
        /\ journey' = (path \in Journeys)
        /\ failed' = FALSE
        /\ UNCHANGED selection

\* setInfoData: info[path] is undefined when no path was chosen.
SetInfoData ==
    IF params'.path \notin Journeys
    THEN failed' = TRUE /\ UNCHANGED links
    ELSE /\ failed' = FALSE
         /\ links' = IF params'.persona \in PersonasOf[params'.path]
                     THEN params' ELSE Prompt

\* handlePersonaClick sets the persona, and the default level when none was
\* chosen; handleLevelClick then sets the level once more.
ClickPersona(persona) ==
    LET chosen == [params EXCEPT !.persona = persona]
        leveled == [chosen EXCEPT !.level = DefaultLevel]
    IN  /\ card # NoValue /\ journey /\ persona \in PersonasOf[card]
        /\ IF params.level = NoValue
           THEN params' = leveled /\ PushParams(<<chosen, leveled, leveled>>)
           ELSE params' = chosen /\ PushParams(<<chosen, chosen>>)
        /\ button' = <<card, persona>>
        /\ level' = params'.level
        /\ SetInfoData
        /\ UNCHANGED display

\* handleLevelClick.
ClickLevel(chosen) ==
    /\ journey
    /\ params' = [params EXCEPT !.level = chosen]
    /\ PushParams(<<params'>>)
    /\ level' = chosen
    /\ SetInfoData
    /\ UNCHANGED <<button, display>>

\* A click on the link of the prompt, to #cardWrapper.  Which anchor it is makes
\* no difference here.
FollowPrompt ==
    /\ links = Prompt /\ journey /\ Url.anchors # 1
    /\ Push(<<[Url EXCEPT !.anchors = 1]>>)
    /\ UNCHANGED <<params, selection, display, failed>>

\* The browser's buttons.  The page has no popstate listener, so that moving
\* among its own entries changes nothing but the URL.
Move ==
    /\ at' \in {at - 1, at + 1} \cap DOMAIN history
    /\ UNCHANGED <<params, history, selection, display, failed>>

Reload ==
    /\ params' = NoParams
    /\ card' = NoValue /\ journey' = TRUE
    /\ button' = NoButton /\ level' = NoValue /\ links' = Nothing
    /\ failed' = FALSE
    /\ UNCHANGED <<history, at>>

Next ==
    /\ events < MaxEvents /\ events' = events + 1
    /\ \/ \E path \in Paths : ClickPath(path)
       \/ \E persona \in Personas : ClickPersona(persona)
       \/ \E l \in Levels : ClickLevel(l)
       \/ FollowPrompt
       \/ Move
       \/ Reload

Spec == Init /\ [][Next]_vars
-------------------------------------------------------------------------------
(* Properties.                                                             *)

\* While a persona is chosen the page agrees with the parameters, however the
\* reader came there: it is a persona of the path chosen, its button, on the
\* card displayed, and its level are the ones selected, and the links are those
\* of the three (setInfoData reads what the click handlers have stored).
PageShowsChoice ==
    params.persona # NoValue =>
        /\ params.persona \in PersonasOf[params.path]
        /\ card = params.path /\ journey
        /\ button = <<params.path, params.persona>>
        /\ level = params.level
        /\ links = params

\* setInfoData fails only for a reader who clicks a level before any path: once
\* a path is chosen no order of clicks leads to info[path] of a path without
\* personas.
FailsOnlyBeforePath == failed => params.path = NoValue

\* Every click of a page whose URL has no anchor before the query leaves the
\* URL at the parameters it has stored, also after the reader went back or
\* followed the prompt's link: the last of a handler's calls of set has them all.
ClickPushesParams ==
    [][params' # params /\ params' # NoParams /\ ~AnchorFirst
          => Url'.query = params']_vars

\* "Update both internal params and URL state" (home.js:53).
UpdatesUrl ==
    [][params' # params /\ params' # NoParams => Url'.query = params']_vars
=============================================================================
