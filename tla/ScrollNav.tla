------------------------------ MODULE ScrollNav ------------------------------
(***************************************************************************)
(* The sidebar of a generated API reference page (scroll.js): a tree of    *)
(* links of which the part around the reader's position is unfolded and    *)
(* one link is marked, kept up to date by the window's scroll and          *)
(* hashchange events, and the code tabs of the page (tabvisibility.js),    *)
(* which change where its headings are.                                    *)
(*                                                                         *)
(* Headings are numbered in document order; 0 is "none" (a token that is   *)
(* undefined or null).                                                     *)
(***************************************************************************)
EXTENDS Naturals, Sequences, FiniteSets

CONSTANTS
    N,           \* number of headings
    Parent,      \* the heading each one is listed under in navData.toc
    Tabs,        \* the code tabs
    FirstTab,    \* the default
    NoTab,       \* before tabvisibility.js is ready
    Top,         \* offset().top of each heading, by the tab that shows code
    Bottom,      \* the last scroll position, by tab
    Offset,      \* how far above a heading counts as reaching it, 50 pixels
    MaxMoves     \* bound: scrolls, followed links, clicks on tabs

Headings == 1..N
Layouts == Tabs \union {NoTab}

ASSUME PageAssumption ==
    /\ N \in Nat \ {0} /\ Offset \in Nat /\ MaxMoves \in Nat
    /\ FirstTab \in Tabs /\ NoTab \notin Tabs
    /\ Bottom \in [Layouts -> Nat]
    /\ Top \in [Layouts -> [Headings -> Nat]]
    /\ \A t \in Layouts : \A h, k \in Headings : h < k => Top[t][h] < Top[t][k]

Up(h) == IF h = 0 THEN 0 ELSE Parent[h]

\* Sections, subsections and a third level, each heading after its parent
\* and before whatever follows its parent's.
ASSUME TreeAssumption ==
    /\ Parent \in [Headings -> 0..N]
    /\ \A h \in Headings : Parent[h] < h /\ Up(Up(Up(h))) = 0
    /\ \A h, k \in Headings : Parent[k] < h /\ h < k => Parent[k] <= Parent[h]

Subsections(h) == {k \in Headings : Parent[k] = h}
Sections == Subsections(0)
Ancestors(h) == {Up(h), Up(Up(h))} \ {0}

\* getNavNode: only a heading with subsections has a list to unfold.
NavNode(h) == IF h # 0 /\ Subsections(h) # {} THEN {h} ELSE {}

VARIABLES
    scroll,     \* scrollTop of the window
    tab,        \* the tab whose code blocks are active
    nav,        \* the sidebar, and what the script remembers of it
    sidebar,    \* the link the sidebar was last scrolled to
    scrolled,   \* a scroll event is to come
    hashes,     \* hashchange events to come
    pending,    \* scrollToNav's timeouts, and whether all kept still since
    shifted,    \* history: a tab moved the headings after the last event
    moves

vars == <<scroll, tab, nav, sidebar, scrolled, hashes, pending, shifted, moves>>

Navs == [section: 0..N, subsection: 0..N, elem: 0..N,
         shown: SUBSET Headings, selected: SUBSET Headings]

TypeOK ==
    /\ tab \in Layouts /\ scroll \in 0..Bottom[tab]
    /\ nav \in Navs
    /\ sidebar \in 0..N
    /\ scrolled \in BOOLEAN /\ shifted \in BOOLEAN
    /\ hashes \in Nat /\ moves \in 0..MaxMoves
    /\ pending \in Seq([to: 0..N, still: BOOLEAN])

-------------------------------------------------------------------------------
(* What the script computes from a scroll position.                        *)

Reached(h, t, p) == p + Offset >= Top[t][h]

\* Faulty variant: the first one, as if the lists were not reversed.
FirstReached(nodes, t, p) ==
    LET reached == {h \in nodes : Reached(h, t, p)}
    IN  IF reached = {} THEN 0
        ELSE CHOOSE h \in reached : \A k \in reached : h <= k

\* navData lists every level from the end of the document to its beginning.
CheckNodePositions(nodes, t, p) ==
    LET reached == {h \in nodes : Reached(h, t, p)}
    IN  IF reached = {} THEN 0
        ELSE CHOOSE h \in reached : \A k \in reached : k <= h

\* Faulty variant: the old list is not folded.
UnfoldOnly(shown, old, new) == shown \union NavNode(new)

\* hide and show, when the token has changed.
Unfold(shown, old, new) ==
    IF new = old THEN shown ELSE (shown \ NavNode(old)) \union NavNode(new)

(***************************************************************************)
(* A section without subsections leaves the subsection as it was.          *)
(***************************************************************************)
ScrollActions(v, t, p) ==
    LET active == CheckNodePositions(Sections, t, p)
        sub == CheckNodePositions(Subsections(active), t, p)
        level1 == [v EXCEPT !.section = active,
                            !.shown = Unfold(@, v.section, active)]
    IN  IF active = 0 THEN v
        ELSE IF Subsections(active) = {} THEN level1
        ELSE [level1 EXCEPT !.subsection = sub,
                            !.shown = Unfold(@, v.subsection, sub)]

\* Faulty variant: the offset is forgotten.
CheckExactElement(v, t, p) ==
    LET last == CheckNodePositions(Headings, t, p - IF p < Offset THEN p ELSE Offset)
        active == IF last = 0 THEN v.elem ELSE last
    IN  [v EXCEPT !.elem = active,
                  !.selected = (@ \ {v.elem}) \union ({active} \ {0})]

\* activeElemToken is not reset above the first heading.
CheckActiveElement(v, t, p) ==
    LET last == CheckNodePositions(Headings, t, p)
        active == IF last = 0 THEN v.elem ELSE last
    IN  [v EXCEPT !.elem = active,
                  !.selected = (@ \ {v.elem}) \union ({active} \ {0})]

Refreshed == CheckActiveElement(ScrollActions(nav, tab, scroll), tab, scroll)

-------------------------------------------------------------------------------
(* The ready handler of scroll.js, at the position the browser restored,   *)
(* runs before that of tabvisibility.js: no code block is active yet.      *)
(***************************************************************************)
Blank == [section |-> 0, subsection |-> 0, elem |-> 0,
          shown |-> {}, selected |-> {}]

Init ==
    /\ tab = NoTab
    /\ scroll \in 0..Bottom[NoTab]
    /\ nav = CheckActiveElement(ScrollActions(Blank, tab, scroll), tab, scroll)
    /\ sidebar = 0
    /\ scrolled = FALSE /\ hashes = 0
    /\ pending = <<>>
    /\ shifted = FALSE
    /\ moves = 0

\* Where the window is and how much of it is code have changed.
MovedTo(p) ==
    /\ scroll' = p
    /\ scrolled' = (scrolled \/ p # scroll)
    /\ pending' = [k \in DOMAIN pending |-> [pending[k] EXCEPT !.still = FALSE]]

\* The active blocks move the headings; the browser may keep the position,
\* anchor it to what is in view, or have to cut it off.
Show(t) ==
    /\ tab' = t
    /\ \E p \in 0..Bottom[t] : MovedTo(p)
    /\ shifted' = TRUE
    /\ UNCHANGED <<nav, sidebar, hashes>>

SetDefautTab == tab = NoTab /\ Show(FirstTab) /\ UNCHANGED moves

Move == moves < MaxMoves /\ moves' = moves + 1

\* A click on the active tab changes nothing.
ClickTab(t) == tab \notin {NoTab, t} /\ Move /\ Show(t)

ReaderScrolls(p) ==
    /\ Move
    /\ p # scroll
    /\ MovedTo(p)
    /\ UNCHANGED <<tab, nav, sidebar, hashes, shifted>>

\* Faulty variant: the end of the page is forgotten.
FollowHashPastEnd(h) ==
    /\ Move
    /\ MovedTo(Top[tab][h])
    /\ hashes' = hashes + 1
    /\ UNCHANGED <<tab, nav, sidebar, shifted>>

\* A link of the sidebar or of the text, or the browser's back button.
FollowHash(h) ==
    /\ Move
    /\ MovedTo(IF Top[tab][h] <= Bottom[tab] THEN Top[tab][h] ELSE Bottom[tab])
    /\ hashes' = hashes + 1
    /\ UNCHANGED <<tab, nav, sidebar, shifted>>

-------------------------------------------------------------------------------
(* The script's handlers.                                                  *)

OnScroll ==
    /\ scrolled
    /\ scrolled' = FALSE
    /\ nav' = Refreshed
    /\ shifted' = FALSE
    /\ UNCHANGED <<scroll, tab, sidebar, hashes, pending, moves>>

ScrollToken(v) == IF v.subsection # 0 THEN v.subsection ELSE v.section

\* Faulty variant: the target is taken from what was active before.
OnHashChangeStale ==
    /\ hashes > 0
    /\ hashes' = hashes - 1
    /\ nav' = Refreshed
    /\ pending' = Append(pending, [to |-> ScrollToken(nav), still |-> TRUE])
    /\ shifted' = FALSE
    /\ UNCHANGED <<scroll, tab, sidebar, scrolled, moves>>

OnHashChange ==
    /\ hashes > 0
    /\ hashes' = hashes - 1
    /\ nav' = Refreshed
    /\ pending' = Append(pending, [to |-> ScrollToken(Refreshed), still |-> TRUE])
    /\ shifted' = FALSE
    /\ UNCHANGED <<scroll, tab, sidebar, scrolled, moves>>

\* 200 ms later; a link that does not exist scrolls nothing.
ScrollToNav ==
    /\ pending # <<>>
    /\ pending' = Tail(pending)
    /\ nav' = Refreshed
    /\ sidebar' = IF Head(pending).to = 0 THEN sidebar ELSE Head(pending).to
    /\ shifted' = FALSE
    /\ UNCHANGED <<scroll, tab, scrolled, hashes, moves>>

Next ==
    \/ SetDefautTab
    \/ \E t \in Tabs : ClickTab(t)
    \/ \E p \in 0..Bottom[tab] : ReaderScrolls(p)
    \/ \E h \in Headings : FollowHash(h)
    \/ OnScroll \/ OnHashChange \/ ScrollToNav

Spec == Init /\ [][Next]_vars

-------------------------------------------------------------------------------
(* Properties.                                                             *)

(***************************************************************************)
(* One list of each level is unfolded, the one the script remembers:       *)
(* wherever the reader has been, none is left behind.  The remembered      *)
(* subsection is one of the remembered section, except where the section   *)
(* has none: nowhere else does it outlive its section.                     *)
(***************************************************************************)
OneUnfolded ==
    /\ nav.shown = NavNode(nav.section) \union NavNode(nav.subsection)
    /\ nav.subsection # 0 =>
          \/ nav.subsection \in Subsections(nav.section)
          \/ Subsections(nav.section) = {}

(***************************************************************************)
(* The marked link is never inside a folded list, although the lists and   *)
(* the mark come from two different scans of the headings and each is      *)
(* left as it is above the first of them.                                  *)
(***************************************************************************)
MarkedIsVisible ==
    /\ nav.selected = {nav.elem} \ {0}
    /\ Ancestors(nav.elem) \subseteq nav.shown

LastReached(h) ==
    /\ Reached(h, tab, scroll)
    /\ \A k \in Headings : Reached(k, tab, scroll) => k <= h

(***************************************************************************)
(* Once the events are handled, the marked link is that of the last        *)
(* heading reached and the unfolded section the one it lies in, unless a   *)
(* tab has moved the headings since: nothing tells scroll.js.              *)
(***************************************************************************)
FollowsUnlessShifted ==
    ~scrolled /\ hashes = 0 /\ ~shifted =>
        \A h \in Headings : LastReached(h) =>
            nav.elem = h /\ nav.section \in {h} \union Ancestors(h)

(***************************************************************************)
(* The delayed scrolling of the sidebar ends at a link that can be seen    *)
(* and that leads to the marked one, unless the reader moved on in the     *)
(* meantime or the section has no subsections (then an older one's may be  *)
(* the target).                                                            *)
(***************************************************************************)
SidebarFollows ==
    [][ /\ Len(pending') < Len(pending)
        /\ Head(pending).still
        /\ nav.section # 0
        /\ Subsections(nav'.section) # {}
        => /\ sidebar' \in {nav'.elem} \union Ancestors(nav'.elem)
           /\ Ancestors(sidebar') \subseteq nav'.shown ]_vars
=============================================================================
