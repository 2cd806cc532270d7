----------------------------- MODULE JourneyToc -----------------------------
(***************************************************************************)
(* The headings of a user journey page (user-journeys/toc.js): each one is *)
(* replaced by an anchor, section-1 and so on, and a banner that takes     *)
(* over its id; a table of contents links to the anchors; and the page     *)
(* scrolls, in half a second, to the anchor of a link or of its address.   *)
(***************************************************************************)
EXTENDS Naturals, Sequences, SequencesExt

CONSTANTS
    Contents,   \* the ids of a page's headings, in document order, none twice
    SectionId,  \* the ids section-1, section-2 and so on
    Fragments,  \* fragments of addresses
    NoFragment,
    MaxLinks    \* bound: links of the table of contents that a reader follows

ASSUME ContentsAssumption ==
    /\ SectionId \in Seq(STRING) /\ IsInjective(SectionId)
    /\ Contents \subseteq Seq(STRING)
    /\ \A ids \in Contents : IsInjective(ids) /\ Len(ids) <= Len(SectionId)

VARIABLES
    headings,   \* the ids of the headings
    document,   \* what can be scrolled to: an id, and which heading it is at
    entries,    \* the table of contents: where each entry leads
    fragment,   \* the fragment of the address the page was opened with
    ready,      \* the handler has come to its end
    animations, \* the scrolls that are queued, the first of them under way
    at,         \* the heading the page was last scrolled to, 0 for none
    wanted,     \* history: the heading the reader wanted last, 0 for none
    follows

tocVars == <<headings, document, entries, fragment, ready, animations, at,
             wanted, follows>>

TocInit ==
    /\ headings \in Contents
    /\ document = [k \in DOMAIN headings |-> [id |-> headings[k], heading |-> k]]
    /\ entries = <<>>
    /\ fragment \in Fragments \union {NoFragment}
    /\ ready = FALSE
    /\ animations = <<>>
    /\ at = 0 /\ wanted = 0 /\ follows = 0

-------------------------------------------------------------------------------
\* $("#id"): the first element with the id, 0 if there is none.
Find(id) == SelectInSeq(document, LAMBDA element : element.id = id)

\* Faulty variant: the banner has no id.
InjectWithoutId ==
    LET next == Len(entries) + 1
        place == SelectInSeq(document, LAMBDA e : e.heading = next)
        anchor == [id |-> SectionId[next], heading |-> next]
    IN  /\ next <= Len(headings)
        /\ entries' = Append(entries, SectionId[next])
        /\ document' = [document EXCEPT ![place] = anchor]
        /\ UNCHANGED <<headings, fragment, ready, animations, at, wanted, follows>>

\* One round of the loop over the headings.
InjectHeading ==
    LET next == Len(entries) + 1
        place == SelectInSeq(document, LAMBDA e : e.heading = next)
        anchor == [id |-> SectionId[next], heading |-> next]
    IN  /\ next <= Len(headings)
        /\ entries' = Append(entries, SectionId[next])
        /\ document' = InsertAt(document, place, anchor)
        /\ UNCHANGED <<headings, fragment, ready, animations, at, wanted, follows>>

\* scrollToHash; without such an element its last expression is a TypeError,
\* and nothing is queued.
ScrollToHash(id) ==
    animations' = IF Find(id) = 0 THEN animations
                  ELSE Append(animations, document[Find(id)].heading)

\* The heading that a fragment meant before the headings were replaced.
Meant(id) == SelectInSeq(headings, LAMBDA heading : heading = id)

\* The rest of the handler.
JumpToSection ==
    /\ Len(entries) = Len(headings) /\ ~ready
    /\ ready' = TRUE
    /\ IF fragment = NoFragment THEN UNCHANGED animations ELSE ScrollToHash(fragment)
    /\ wanted' = IF fragment = NoFragment THEN 0 ELSE Meant(fragment)
    /\ UNCHANGED <<headings, document, entries, fragment, at, follows>>

\* The browser jumps to the anchor as well.
FollowEntry(k) ==
    /\ ready /\ follows < MaxLinks /\ k \in DOMAIN entries
    /\ ScrollToHash(entries[k])
    /\ at' = document[Find(entries[k])].heading
    /\ wanted' = k
    /\ follows' = follows + 1
    /\ UNCHANGED <<headings, document, entries, fragment, ready>>

AnimationEnds ==
    /\ animations # <<>>
    /\ at' = Head(animations)
    /\ animations' = Tail(animations)
    /\ UNCHANGED <<headings, document, entries, fragment, ready, wanted, follows>>

TocNext ==
    \/ InjectHeading \/ JumpToSection
    \/ \E k \in DOMAIN headings : FollowEntry(k)
    \/ AnimationEnds

TocSpec == TocInit /\ [][TocNext]_tocVars

-------------------------------------------------------------------------------
(* Properties.                                                             *)

(***************************************************************************)
(* Once nothing scrolls any more the page stands at the heading that was   *)
(* asked for last, by an entry of the table of contents or by an address   *)
(* that still names a heading's own id: the banners keep the ids, and the  *)
(* scrolls of quick clicks end in their order.  A heading that is itself   *)
(* called section-1 or the like is excepted: its id is there twice.        *)
(***************************************************************************)
StandsAtSection ==
    /\ ready /\ animations = <<>> /\ wanted # 0
    /\ \A k \in DOMAIN headings : headings[k] \notin ToSet(SectionId)
    => at = wanted
=============================================================================
