------------------------------- MODULE Glossary -------------------------------
(***************************************************************************)
(* The glossary page: layouts/docs/glossary.html and the script            *)
(* static/js/glossary.js.  The page filters its terms by the tags a reader *)
(* has activated and keeps the active tags in the query of its address.    *)
(*                                                                         *)
(* Three copies of "which tags are active" have to agree: the class        *)
(* active-tag of the tag elements, the script's object activeTags, and the *)
(* address.  A term's show-count says how many of its tags are active.     *)
(***************************************************************************)
EXTENDS Integers, Sequences, FiniteSets

CONSTANTS
    Tags,         \* the ids of data/canonical-tags
    Default,      \* defaultActiveTag
    Terms,        \* the glossary terms
    TagsOf,       \* the tags in the front matter of a term
    All, NoneKey, \* selectAllKey and deselectAllKey
    Unknown,      \* a parameter that names no tag of the page
    MaxHistory    \* bound: entries this page adds to the session history

Keys == Tags \cup {All, NoneKey, Unknown}

ASSUME TagsAssumption ==
    /\ IsFiniteSet(Tags)
    /\ Default \in Tags
    /\ TagsOf \in [Terms -> SUBSET Tags]

ASSUME KeyAssumption ==
    /\ All \notin Tags \cup {NoneKey, Unknown}
    /\ NoneKey \notin Tags \cup {Unknown}
    /\ Unknown \notin Tags

ASSUME HistoryAssumption == MaxHistory \in Nat

(***************************************************************************)
(* An address of the page: the parameters in its query, whether it has a   *)
(* question mark in front of any fragment, and whether it has a fragment.  *)
(***************************************************************************)
Addresses ==
    {a \in [query: SUBSET Keys, mark: BOOLEAN, fragment: BOOLEAN] :
        a.query # {} => a.mark}

VARIABLES
    address,     \* window.location
    history,     \* the addresses before it, latest last
    opened,      \* history variable: the query this document was loaded with
    activeTags,  \* the keys of the object activeTags
    marked,      \* the tag elements of class active-tag
    showCount,   \* data("show-count") of the terms
    hidden       \* the terms of class hide

page == <<activeTags, marked, showCount, hidden>>
vars == <<address, history, opened, page>>

TypeOK ==
    /\ address \in Addresses
    /\ history \in Seq(Addresses)
    /\ opened \in SUBSET Keys
    /\ activeTags \in SUBSET Keys
    /\ marked \in SUBSET Tags
    /\ showCount \in [Terms -> Nat]
    /\ hidden \in SUBSET Terms

\* How many of the tags in T a term has.
Count(t, T) == Cardinality(TagsOf[t] \cap T)

\* initParams: without parameters the default tag is meant.
Params(q) == IF q = {} THEN {Default} ELSE q

(***************************************************************************)
(* What loading the page with query q makes of a fresh document: the       *)
(* possible sets of active tags.  "all" is looked for before "none", and   *)
(* either leaves tags beside it in the query unread.  A parameter that     *)
(* names no tag ends the loop over the parameters with an error, wherever  *)
(* in the loop it stands.                                                  *)
(***************************************************************************)
MarkedAfterLoad(q) ==
    IF All \in q THEN {Tags}
    ELSE IF NoneKey \in q THEN {{}}
    ELSE IF Unknown \in q THEN SUBSET (q \cap Tags)
    ELSE {Params(q)}

\* The object activeTags after the load, in which loaded are the active tags.
KeysAfterLoad(q, loaded) ==
    IF All \in q THEN (q \cup Tags) \ {NoneKey} ELSE Params(q) \cup loaded

\* The parameters that the clicks of the load push.
PushedByLoad(q) ==
    IF All \in q THEN {All}
    ELSE IF NoneKey \in q THEN {NoneKey}
    ELSE Params(q)

\* Whether the load clicks anything: if so it pushes, and only once or often
\* the same address, which is one entry here.
Pushes(q, loaded) == {All, NoneKey} \cap q # {} \/ loaded # {}

(***************************************************************************)
(* updateParams puts the new query behind href.split('?')[0].  Without a   *)
(* question mark in front of the fragment that is an address with a        *)
(* fragment: the parameters become a part of it, and there is no query.    *)
(***************************************************************************)
Anchored(a) == a.fragment /\ ~a.mark
WithParams(a, q) ==
    IF Anchored(a) THEN a ELSE [a EXCEPT !.query = q, !.mark = TRUE]

\* pushState with the given parameters.
Push(q) ==
    /\ Len(history) < MaxHistory
    /\ address' = WithParams(address, q)
    /\ history' = Append(history, address)

\* A link, a bookmark or the reader's typing opens the page, with any
\* parameters and perhaps at a term.
Init ==
    \E a \in Addresses : \E loaded \in MarkedAfterLoad(a.query) :
        /\ opened = a.query
        /\ marked = loaded
        /\ activeTags = KeysAfterLoad(a.query, loaded)
        /\ showCount = [t \in Terms |-> Count(t, loaded)]
        /\ hidden = {t \in Terms : Count(t, loaded) = 0}
        /\ IF Pushes(a.query, loaded)
             THEN address = WithParams(a, PushedByLoad(a.query)) /\ history = <<a>>
             ELSE address = a /\ history = <<>>

-----------------------------------------------------------------------------
\* Faulty variants, used to show that the properties can fail.

\* deactivateTagTerms hides every term with the tag, whatever its count.
DeactivateHides(T) ==
    /\ marked' = marked \ T
    /\ showCount' = [t \in Terms |-> showCount[t] - Count(t, T)]
    /\ hidden' = hidden \cup {t \in Terms : Count(t, T) > 0}
    /\ activeTags' = activeTags \ T

\* The loop of "Deselect all" without its test for active-tag.
DeselectAllUnchecked ==
    /\ marked' = {}
    /\ showCount' = [t \in Terms |-> showCount[t] - Count(t, Tags)]
    /\ hidden' = Terms
    /\ activeTags' = activeTags \ Tags
    /\ Push({NoneKey})
    /\ UNCHANGED opened

\* activateTagTerms keeps the key "none" beside the new tag.
ActivateBesideNone(T) ==
    /\ marked' = marked \cup T
    /\ showCount' = [t \in Terms |-> showCount[t] + Count(t, T)]
    /\ hidden' = {t \in hidden : Count(t, T) = 0 \/ showCount'[t] = 0}
    /\ activeTags' = activeTags \cup T

(***************************************************************************)
(* activateTagTerms and deactivateTagTerms, for all tags of a set at once: *)
(* the handlers call them in a loop that nothing can interrupt.            *)
(***************************************************************************)
Activate(T) ==
    /\ marked' = marked \cup T
    /\ showCount' = [t \in Terms |-> showCount[t] + Count(t, T)]
    /\ hidden' = {t \in hidden : Count(t, T) = 0 \/ showCount'[t] = 0}
    /\ activeTags' = IF T = {} THEN activeTags
                     ELSE (activeTags \cup T) \ {NoneKey}

Deactivate(T) ==
    /\ marked' = marked \ T
    /\ showCount' = [t \in Terms |-> showCount[t] - Count(t, T)]
    /\ hidden' = hidden \cup
                    {t \in Terms : Count(t, T) > 0 /\ showCount'[t] < 1}
    /\ activeTags' = activeTags \ T

-----------------------------------------------------------------------------
ClickTag(tag) ==
    /\ IF tag \in marked THEN Deactivate({tag}) ELSE Activate({tag})
    /\ Push(activeTags')
    /\ UNCHANGED opened

SelectAll ==
    /\ Activate(Tags \ marked)
    /\ Push({All})
    /\ UNCHANGED opened

DeselectAll ==
    /\ Deactivate(marked)
    /\ Push({NoneKey})
    /\ UNCHANGED opened

\* The LINK beside a term leads to its anchor in the same document.
FollowPermalink ==
    /\ Len(history) < MaxHistory
    /\ address' = [address EXCEPT !.fragment = TRUE]
    /\ history' = Append(history, address)
    /\ UNCHANGED <<opened, page>>

\* The reader reloads the page or opens its present address elsewhere.
Reload ==
    \E loaded \in MarkedAfterLoad(address.query) :
        /\ opened' = address.query
        /\ marked' = loaded
        /\ activeTags' = KeysAfterLoad(address.query, loaded)
        /\ showCount' = [t \in Terms |-> Count(t, loaded)]
        /\ hidden' = {t \in Terms : Count(t, loaded) = 0}
        /\ IF Pushes(address.query, loaded)
             THEN Push(PushedByLoad(address.query))
             ELSE UNCHANGED <<address, history>>

\* Back to an entry of this document: no popstate handler, so only the
\* address changes.
Back ==
    /\ history # <<>>
    /\ address' = history[Len(history)]
    /\ history' = SubSeq(history, 1, Len(history) - 1)
    /\ UNCHANGED <<opened, page>>

Next ==
    \/ \E tag \in Tags : ClickTag(tag)
    \/ SelectAll
    \/ DeselectAll
    \/ FollowPermalink
    \/ Reload
    \/ Back

Spec == Init /\ [][Next]_vars

-----------------------------------------------------------------------------
(***************************************************************************)
(* A term is visible exactly when one of its tags is active, and its count *)
(* is the number of its active tags, after any sequence of clicks, loads   *)
(* and failed loads.                                                       *)
(***************************************************************************)
VisibleIffActive ==
    \A t \in Terms :
        /\ showCount[t] = Count(t, marked)
        /\ t \in hidden <=> TagsOf[t] \cap marked = {}

\* A query of tags alone or of "none" alone: the only ones that leave no key
\* behind which stands for another tag than those that are active.
Clean(q) == q \subseteq Tags \/ q = {NoneKey}

(***************************************************************************)
(* In a document that was loaded with a clean query, every change of the   *)
(* tags that leaves one active makes an address that shows the same tags   *)
(* when it is opened, also after steps back in the history and along terms *)
(* of the page.  It does not where the address had a fragment and no       *)
(* question mark before it: there the parameters go into the fragment.     *)
(***************************************************************************)
ClicksAreBookmarked ==
    [][marked' # marked /\ marked' # {} /\ Clean(opened') /\ ~Anchored(address)
         => MarkedAfterLoad(address'.query) = {marked'}]_vars
=============================================================================
