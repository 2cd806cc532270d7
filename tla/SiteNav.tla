------------------------------- MODULE SiteNav -------------------------------
(***************************************************************************)
(* The navigation of a page (script.js, kub and pushmenu): the header menu *)
(* of a medium window, the push menu of a narrow one, and the table of     *)
(* contents (TOC) of a docs page, which one window's scroll, resize, key   *)
(* and click listeners open and close in steps, some of them delayed.      *)
(*                                                                         *)
(* The page is one record, so that the handlers, which call each other,    *)
(* are functions from page to page.  Time is counted in units of 10 ms.    *)
(*                                                                         *)
(* A window is narrow below 800 pixels, where toggleMenu shows the push    *)
(* menu, and wide from 1025 pixels on, where the style sheet shows all of  *)
(* the menu and the TOC on the page and takes their buttons away.          *)
(***************************************************************************)
EXTENDS Naturals, Sequences, Timeouts

CONSTANTS
    TocDelay,     \* toggleToc's timeout, 100 ms
    OnDelay,      \* exposeMe's, 10 ms
    HideDelay,    \* closeMe's, 300 ms
    Transition,   \* the header's CSS transition, 300 ms
    MaxEvents     \* bound: what the reader does

ASSUME NavDelaysAssumption ==
    /\ TocDelay \in Nat /\ OnDelay \in Nat /\ HideDelay \in Nat
    /\ Transition \in Nat \ {0}
    /\ MaxEvents \in Nat

VARIABLES page, events

navVars == <<page, events>>

\* The height of the bar alone, of the open menu, and any height in between.
HeaderHeights == {"bar", "nav", "between"}
NavTasks == {"listen", "on", "hide"}
Widths == {"narrow", "medium", "wide"}

NavTypeOK ==
    /\ DOMAIN page = {"docs", "width", "openNav", "openToc", "listening",
                      "header", "savedHeight", "transition", "displayed", "on",
                      "overlayOn", "menuZ", "timers"}
    /\ page.width \in Widths
    /\ \A flag \in {"docs", "openNav", "openToc", "listening", "displayed", "on",
                    "overlayOn"} : page[flag] \in BOOLEAN
    /\ page.menuZ \in Nat /\ page.transition \in 0..Transition
    /\ page.header \in HeaderHeights /\ page.savedHeight \in HeaderHeights
    /\ \A k \in DOMAIN page.timers :
          page.timers[k].task \in NavTasks /\ page.timers[k].left \in Nat
    /\ events \in 0..MaxEvents

\* A page as it is loaded; only those of the docs have a table of contents.
Loaded(docs, width) ==
    [docs |-> docs, width |-> width, openNav |-> FALSE, openToc |-> FALSE,
     listening |-> FALSE, header |-> "bar", savedHeight |-> "bar",
     transition |-> 0, displayed |-> FALSE, on |-> FALSE, overlayOn |-> FALSE,
     menuZ |-> 0, timers |-> NoTimeouts]

NavInit ==
    /\ \E docs \in BOOLEAN, width \in Widths : page = Loaded(docs, width)
    /\ events = 0

-------------------------------------------------------------------------------
(* The z-index of what has one, 0 for auto, in the order of the document.  *)

CellophaneZ(p) == IF p.openNav THEN 9998 ELSE 0
HeaderZ(p) == IF p.openNav THEN 9999 ELSE 8888
TocZ(p) == IF p.docs /\ p.width # "wide" THEN 999999 ELSE 0
FlyoutZ(p) == IF p.docs /\ p.width # "wide" THEN 99999 ELSE 0

\* One step of highestZ.
Raise(Z, thisZ) == IF thisZ > Z THEN thisZ + 1 ELSE Z

\* The menu, added to the body last, is the last.
HighestZ(p) ==
    LET header == Raise(Raise(1000, CellophaneZ(p)), HeaderZ(p))
        toc == Raise(Raise(header, TocZ(p)), FlyoutZ(p))
    IN  Raise(toc, p.menuZ)

-------------------------------------------------------------------------------
(* The push menu.                                                          *)

ExposeMe(p) ==
    [p EXCEPT !.overlayOn = TRUE, !.displayed = TRUE, !.menuZ = HighestZ(p),
              !.timers = SetTimeout(@, "on", OnDelay)]

CloseMe(p) ==
    [p EXCEPT !.on = FALSE, !.timers = SetTimeout(@, "hide", HideDelay)]

\* Faulty variant: the body's class stays.
HideOnly(p) == [p EXCEPT !.displayed = FALSE]

Hide(p) == [p EXCEPT !.displayed = FALSE, !.overlayOn = FALSE]

-------------------------------------------------------------------------------
(* The table of contents.                                                  *)

ToggleToc(p) ==
    [p EXCEPT !.openToc = ~@, !.timers = SetTimeout(@, "listen", TocDelay)]

\* Faulty variant: the listener is never removed.
ListenForGood(p) == [p EXCEPT !.listening = @ \/ p.openToc]

\* The listener follows the class as it is when the timeout ends.
Listen(p) == [p EXCEPT !.listening = p.openToc]

\* A click outside the table of contents, as it arrives at the window.
WindowClick(p) == IF p.listening THEN ToggleToc(p) ELSE p

-------------------------------------------------------------------------------
(* The header menu.                                                        *)

OuterHeight(p) == IF p.transition > 0 THEN "between" ELSE p.header

\* A new height starts the transition again.
SetHeight(p, h) ==
    [p EXCEPT !.header = h, !.transition = IF h = p.header THEN @ ELSE Transition]

\* Faulty variant: the closed header is left to the style sheet.
ToggleMenuClears(p) ==
    IF p.width = "narrow" THEN ExposeMe(p)
    ELSE [SetHeight(p, IF p.openNav THEN "auto" ELSE "nav")
            EXCEPT !.openNav = ~@]

ToggleMenu(p) ==
    IF p.width = "narrow" THEN ExposeMe(p)
    ELSE [SetHeight(p, IF p.openNav THEN p.savedHeight ELSE "nav")
            EXCEPT !.openNav = ~@]

\* Faulty variant: the height is measured whether or not the menu is open.
ResetMeasuresFirst(p) ==
    LET measured == [p EXCEPT !.savedHeight = OuterHeight(p)]
        nav == IF p.openNav THEN ToggleMenu(measured) ELSE measured
    IN  IF nav.openToc THEN ToggleToc(nav) ELSE nav

ResetTheView(p) ==
    LET nav == IF p.openNav THEN ToggleMenu(p)
                            ELSE [p EXCEPT !.savedHeight = OuterHeight(p)]
    IN  IF nav.openToc THEN ToggleToc(nav) ELSE nav

-------------------------------------------------------------------------------
(* What the reader does, one event after the other.                        *)

Happens(after) ==
    /\ events < MaxEvents
    /\ events' = events + 1
    /\ page' = after

Scroll == Happens(ResetTheView(page))

\* resetTheView was added to the window's listeners before closeMe.
Resize ==
    \E width \in Widths :
        Happens(CloseMe(ResetTheView([page EXCEPT !.width = width])))

Escape == page.openNav /\ Happens(ToggleMenu(page))

\* The button of the header, or the cellophane under an open menu.
ClickHamburger ==
    /\ page.width # "wide" \/ page.openNav
    /\ Happens(WindowClick(ToggleMenu(page)))

\* Beside an open header menu, and in a wide window, the button is hidden.
ClickFlyout ==
    /\ page.docs /\ page.width # "wide" /\ ~page.openNav
    /\ Happens(WindowClick(ToggleToc(page)))

\* The close button of the table of contents is within it.
ClickCloseToc ==
    /\ page.openToc /\ page.width # "wide"
    /\ Happens(ToggleToc(page))

ClickOverlay == page.displayed /\ Happens(WindowClick(CloseMe(page)))

\* The sled stops the click that its close button has got.
ClickCloseMenu == page.displayed /\ Happens(CloseMe(page))

ClickElsewhere == page.listening /\ Happens(WindowClick(page))

-------------------------------------------------------------------------------
(* Timeouts.                                                               *)

Run(task, after(_)) ==
    /\ IsDue(page.timers) /\ DueTask(page.timers) = task
    /\ page' = after([page EXCEPT !.timers = WithoutDue(@)])
    /\ UNCHANGED events

AddOn(p) == [p EXCEPT !.on = TRUE]

NavCallback ==
    \/ Run("listen", Listen)
    \/ Run("on", AddOn)
    \/ Run("hide", Hide)

NavTick ==
    /\ page.timers # NoTimeouts \/ page.transition > 0
    /\ ~IsDue(page.timers)
    /\ page' = [page EXCEPT !.timers = Elapse(@),
                           !.transition = IF @ > 0 THEN @ - 1 ELSE 0]
    /\ UNCHANGED events

NavNext ==
    \/ Scroll \/ Resize \/ Escape
    \/ ClickHamburger \/ ClickFlyout \/ ClickCloseToc
    \/ ClickOverlay \/ ClickCloseMenu \/ ClickElsewhere
    \/ NavCallback \/ NavTick

NavSpec == NavInit /\ [][NavNext]_navVars

-------------------------------------------------------------------------------
(* Properties.                                                             *)

Pending(task) == \E k \in DOMAIN page.timers : page.timers[k].task = task

\* Of two elements with the same z-index the later one in the document, which
\* is the menu, is in front.
MenuInFront ==
    \A z \in {CellophaneZ(page), HeaderZ(page), TocZ(page), FlyoutZ(page)} :
        page.menuZ >= z

(***************************************************************************)
(* The body cannot scroll exactly while the push menu lies over it ("kills *)
(* body scrolling"); a menu that lies there without class "on", which is   *)
(* invisible and takes every click, is about to appear or to go away, and  *)
(* one that stays is in front of the rest of the page: whatever openings,  *)
(* closings and resizes overlap.                                           *)
(***************************************************************************)
MenuNeverStuck ==
    /\ page.overlayOn = page.displayed
    /\ page.displayed /\ ~page.on => Pending("on") \/ Pending("hide")
    /\ page.displayed /\ ~Pending("hide") => MenuInFront

(***************************************************************************)
(* Clicks outside the table of contents are listened to exactly while it   *)
(* is open, or a change of that is on its way: toggled twice within the    *)
(* delay, it ends in the state it shows.                                   *)
(***************************************************************************)
ListensWhileOpen == Pending("listen") \/ page.listening = page.openToc

(***************************************************************************)
(* Closing the menu brings the header back to the height of its bar,       *)
(* unless the height was measured in the middle of the animation.          *)
(***************************************************************************)
HeaderReturns ==
    /\ page.openNav => page.header = "nav"
    /\ ~page.openNav /\ page.savedHeight = "bar" => page.header = "bar"
    /\ page.savedHeight # "nav"
=============================================================================
