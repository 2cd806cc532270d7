--------------------------- MODULE NavigationProofs ---------------------------
(***************************************************************************)
(* What is proved of the two navigations that MCNavigation composes: that  *)
(* of a page of the site, for all delays and any number of events, and the *)
(* sidebar of a reference page, for every tree of headings of at most      *)
(* three levels, every layout and every number of moves.                   *)
(***************************************************************************)
EXTENDS SiteNav, ScrollNav, SequenceLemmas

-------------------------------------------------------------------------------
(* The navigation of a page.                                               *)

Pages ==
    [docs: BOOLEAN, width: Widths, openNav: BOOLEAN, openToc: BOOLEAN,
     listening: BOOLEAN, header: HeaderHeights, savedHeight: HeaderHeights,
     transition: 0..Transition, displayed: BOOLEAN, on: BOOLEAN,
     overlayOn: BOOLEAN, menuZ: Nat, timers: Timers(NavTasks)]

InFront(p) ==
    /\ p.menuZ >= CellophaneZ(p) /\ p.menuZ >= HeaderZ(p)
    /\ p.menuZ >= TocZ(p) /\ p.menuZ >= FlyoutZ(p)

\* A menu that stays where it is was opened in a narrow window, as this is.
StaysInFront(p) ==
    p.displayed /\ ~Waits(p.timers, "hide") => p.width = "narrow" /\ InFront(p)

MenuSound(p) ==
    /\ p.overlayOn = p.displayed
    /\ p.displayed /\ ~p.on => Waits(p.timers, "on") \/ Waits(p.timers, "hide")

TocSound(p) == Waits(p.timers, "listen") \/ p.listening = p.openToc

\* What savedHeight holds was never measured with the menu open.
HeaderSound(p) ==
    /\ p.openNav => p.header = "nav"
    /\ ~p.openNav => p.header # "nav"
    /\ ~p.openNav /\ p.savedHeight = "bar" => p.header = "bar"
    /\ p.savedHeight # "nav"

Sound(p) == p \in Pages /\ MenuSound(p) /\ TocSound(p) /\ HeaderSound(p)

LEMMA NavTimeoutLemma ==
    ASSUME NEW timeouts \in Timers(NavTasks), NEW task \in NavTasks,
           NEW delay \in {TocDelay, OnDelay, HideDelay}
    PROVE  /\ SetTimeout(timeouts, task, delay) \in Timers(NavTasks)
           /\ \A t : Waits(SetTimeout(timeouts, task, delay), t)
                     <=> Waits(timeouts, t) \/ t = task
<1>1. delay \in Nat
  BY NavDelaysAssumption
<1>. QED  BY <1>1, SetTimeoutLemma, Zenon

(***************************************************************************)
(* exposeMe puts the menu in front of everything that has a z-index.       *)
(***************************************************************************)
LEMMA HighestZLemma ==
    ASSUME NEW p \in Pages
    PROVE  /\ HighestZ(p) \in Nat
           /\ HighestZ(p) >= CellophaneZ(p) /\ HighestZ(p) >= HeaderZ(p)
           /\ HighestZ(p) >= TocZ(p) /\ HighestZ(p) >= FlyoutZ(p)
<1>1. p.menuZ \in Nat
  BY DEF Pages
<1>2. /\ CellophaneZ(p) \in Nat /\ HeaderZ(p) \in Nat
      /\ TocZ(p) \in Nat /\ FlyoutZ(p) \in Nat
  BY DEF CellophaneZ, HeaderZ, TocZ, FlyoutZ
<1>. QED  BY <1>1, <1>2 DEF HighestZ, Raise

LEMMA ExposeMeLemma ==
    ASSUME NEW p, Sound(p), p.width = "narrow"
    PROVE  Sound(ExposeMe(p)) /\ StaysInFront(ExposeMe(p))
<1>1. PICK q : q = ExposeMe(p)
  OBVIOUS
<1>2. PICK set : set = SetTimeout(p.timers, "on", OnDelay)
  OBVIOUS
<1>3. PICK z : z = HighestZ(p)
  OBVIOUS
<1>4. p \in Pages /\ p.timers \in Timers(NavTasks)
  BY DEF Sound, Pages
<1>5. set \in Timers(NavTasks) /\ \A t : Waits(set, t) <=> Waits(p.timers, t) \/ t = "on"
  BY <1>2, <1>4, NavTimeoutLemma DEF NavTasks
<1>6. /\ z \in Nat
      /\ z >= CellophaneZ(p) /\ z >= HeaderZ(p) /\ z >= TocZ(p) /\ z >= FlyoutZ(p)
  BY <1>3, <1>4, HighestZLemma
<1>7. q = [p EXCEPT !.overlayOn = TRUE, !.displayed = TRUE, !.menuZ = z, !.timers = set]
  BY <1>1, <1>2, <1>3, <1>4 DEF ExposeMe, Pages
<1>8. q \in Pages
  BY <1>4, <1>5, <1>6, <1>7 DEF Pages
<1>9. /\ q.overlayOn = TRUE /\ q.displayed = TRUE /\ q.menuZ = z /\ q.timers = set
      /\ q.openNav = p.openNav /\ q.docs = p.docs /\ q.width = p.width
      /\ q.openToc = p.openToc /\ q.listening = p.listening /\ q.on = p.on
      /\ q.header = p.header /\ q.savedHeight = p.savedHeight
  BY <1>4, <1>7 DEF Pages
<1>10. InFront(q)
  BY <1>6, <1>9 DEF InFront, CellophaneZ, HeaderZ, TocZ, FlyoutZ
<1>11. MenuSound(q) /\ TocSound(q) /\ HeaderSound(q)
  BY <1>5, <1>9 DEF Sound, MenuSound, TocSound, HeaderSound
<1>. QED  BY <1>1, <1>8, <1>9, <1>10, <1>11 DEF Sound, StaysInFront

LEMMA CloseMeLemma ==
    ASSUME NEW p, Sound(p)
    PROVE  Sound(CloseMe(p)) /\ StaysInFront(CloseMe(p))
<1>1. PICK q : q = CloseMe(p)
  OBVIOUS
<1>2. PICK set : set = SetTimeout(p.timers, "hide", HideDelay)
  OBVIOUS
<1>4. p \in Pages /\ p.timers \in Timers(NavTasks)
  BY DEF Sound, Pages
<1>5. set \in Timers(NavTasks) /\ \A t : Waits(set, t) <=> Waits(p.timers, t) \/ t = "hide"
  BY <1>2, <1>4, NavTimeoutLemma DEF NavTasks
<1>7. q = [p EXCEPT !.on = FALSE, !.timers = set]
  BY <1>1, <1>2, <1>4 DEF CloseMe, Pages
<1>8. q \in Pages
  BY <1>4, <1>5, <1>7 DEF Pages
<1>9. /\ q.overlayOn = p.overlayOn /\ q.displayed = p.displayed /\ q.timers = set
      /\ q.openNav = p.openNav /\ q.openToc = p.openToc /\ q.listening = p.listening
      /\ q.header = p.header /\ q.savedHeight = p.savedHeight
  BY <1>4, <1>7 DEF Pages
<1>11. MenuSound(q) /\ TocSound(q) /\ HeaderSound(q)
  BY <1>5, <1>9 DEF Sound, MenuSound, TocSound, HeaderSound
<1>. QED  BY <1>1, <1>5, <1>8, <1>9, <1>11 DEF Sound, StaysInFront

LEMMA ToggleTocLemma ==
    ASSUME NEW p, Sound(p)
    PROVE  Sound(ToggleToc(p)) /\ (StaysInFront(p) => StaysInFront(ToggleToc(p)))
<1>1. PICK q : q = ToggleToc(p)
  OBVIOUS
<1>2. PICK set : set = SetTimeout(p.timers, "listen", TocDelay)
  OBVIOUS
<1>3. p \in Pages /\ p.timers \in Timers(NavTasks)
  BY DEF Sound, Pages
<1>4. /\ set \in Timers(NavTasks)
      /\ \A t : Waits(set, t) <=> Waits(p.timers, t) \/ t = "listen"
  BY <1>2, <1>3, NavTimeoutLemma DEF NavTasks
<1>5. q = [p EXCEPT !.openToc = ~@, !.timers = set]
  BY <1>1, <1>2, <1>3 DEF ToggleToc, Pages
<1>6. q \in Pages
  BY <1>3, <1>4, <1>5 DEF Pages
<1>7. /\ q.overlayOn = p.overlayOn /\ q.displayed = p.displayed /\ q.on = p.on
      /\ q.openNav = p.openNav /\ q.docs = p.docs /\ q.width = p.width
      /\ q.header = p.header /\ q.savedHeight = p.savedHeight
      /\ q.menuZ = p.menuZ /\ q.timers = set
  BY <1>3, <1>5 DEF Pages
<1>8. MenuSound(q) /\ TocSound(q) /\ HeaderSound(q)
  BY <1>4, <1>7 DEF Sound, MenuSound, TocSound, HeaderSound
<1>9. StaysInFront(p) => StaysInFront(q)
  BY <1>4, <1>7 DEF StaysInFront, InFront, CellophaneZ, HeaderZ, TocZ, FlyoutZ
<1>. QED  BY <1>1, <1>6, <1>8, <1>9 DEF Sound

LEMMA WindowClickLemma ==
    ASSUME NEW p, Sound(p)
    PROVE  Sound(WindowClick(p)) /\ (StaysInFront(p) => StaysInFront(WindowClick(p)))
BY ToggleTocLemma DEF WindowClick

LEMMA ToggleMenuLemma ==
    ASSUME NEW p, Sound(p)
    PROVE  Sound(ToggleMenu(p)) /\ (StaysInFront(p) => StaysInFront(ToggleMenu(p)))
<1>1. CASE p.width = "narrow"
  BY <1>1, ExposeMeLemma DEF ToggleMenu
<1>2. CASE p.width # "narrow"
  <2>1. PICK q : q = ToggleMenu(p)
    OBVIOUS
  <2>2. PICK h : h = IF p.openNav THEN p.savedHeight ELSE "nav"
    OBVIOUS
  <2>3. PICK moved : moved = IF h = p.header THEN p.transition ELSE Transition
    OBVIOUS
  <2>4. p \in Pages /\ h \in HeaderHeights /\ moved \in 0..Transition
    BY <2>2, <2>3, NavDelaysAssumption DEF Sound, Pages, HeaderHeights
  <2>5. q = [p EXCEPT !.header = h, !.transition = moved, !.openNav = ~@]
    BY <1>2, <2>1, <2>2, <2>3, <2>4 DEF ToggleMenu, SetHeight, Pages
  <2>6. q \in Pages
    BY <2>4, <2>5 DEF Pages
  <2>7. /\ q.overlayOn = p.overlayOn /\ q.displayed = p.displayed /\ q.on = p.on
        /\ q.openNav = ~p.openNav /\ q.openToc = p.openToc
        /\ q.listening = p.listening /\ q.width = p.width
        /\ q.header = h /\ q.savedHeight = p.savedHeight /\ q.timers = p.timers
    BY <2>4, <2>5 DEF Pages
  <2>8. MenuSound(q) /\ TocSound(q)
    BY <2>7 DEF Sound, MenuSound, TocSound
  <2>9. HeaderSound(q)
    BY <2>2, <2>7 DEF Sound, HeaderSound
  <2>10. StaysInFront(p) => StaysInFront(q)
    BY <1>2, <2>7 DEF StaysInFront
  <2>. QED  BY <2>1, <2>6, <2>8, <2>9, <2>10 DEF Sound
<1>. QED  BY <1>1, <1>2

(***************************************************************************)
(* A header that is measured closed is never as high as the open one.      *)
(***************************************************************************)
LEMMA MeasureLemma ==
    ASSUME NEW p, Sound(p), ~p.openNav
    PROVE  /\ Sound([p EXCEPT !.savedHeight = OuterHeight(p)])
           /\ StaysInFront(p) => StaysInFront([p EXCEPT !.savedHeight = OuterHeight(p)])
<1>1. PICK h : h = OuterHeight(p)
  OBVIOUS
<1>2. PICK q : q = [p EXCEPT !.savedHeight = h]
  OBVIOUS
<1>3. p \in Pages
  BY DEF Sound
<1>4. p.header \in HeaderHeights /\ p.header # "nav"
  BY <1>3 DEF Sound, HeaderSound, Pages
<1>5. h \in HeaderHeights /\ h # "nav" /\ (h = "bar" => p.header = "bar")
  BY <1>1, <1>4 DEF OuterHeight, HeaderHeights
<1>6. q \in Pages
  BY <1>2, <1>3, <1>5 DEF Pages
<1>7. /\ q.overlayOn = p.overlayOn /\ q.displayed = p.displayed /\ q.on = p.on
      /\ q.openNav = p.openNav /\ q.docs = p.docs /\ q.width = p.width
      /\ q.openToc = p.openToc /\ q.listening = p.listening
      /\ q.header = p.header /\ q.savedHeight = h
      /\ q.menuZ = p.menuZ /\ q.timers = p.timers
  BY <1>2, <1>3 DEF Pages
<1>8. MenuSound(q) /\ TocSound(q) /\ HeaderSound(q)
  BY <1>5, <1>7 DEF Sound, MenuSound, TocSound, HeaderSound
<1>9. StaysInFront(p) => StaysInFront(q)
  BY <1>7 DEF StaysInFront, InFront, CellophaneZ, HeaderZ, TocZ, FlyoutZ
<1>. QED  BY <1>1, <1>2, <1>6, <1>8, <1>9 DEF Sound

LEMMA ResetTheViewLemma ==
    ASSUME NEW p, Sound(p)
    PROVE  Sound(ResetTheView(p)) /\ (StaysInFront(p) => StaysInFront(ResetTheView(p)))
<1>1. PICK mid : mid = IF p.openNav THEN ToggleMenu(p)
                                    ELSE [p EXCEPT !.savedHeight = OuterHeight(p)]
  OBVIOUS
<1>2. Sound(mid) /\ (StaysInFront(p) => StaysInFront(mid))
  BY <1>1, ToggleMenuLemma, MeasureLemma
<1>3. ResetTheView(p) = IF mid.openToc THEN ToggleToc(mid) ELSE mid
  BY <1>1 DEF ResetTheView
<1>. QED  BY <1>2, <1>3, ToggleTocLemma

LEMMA WidthLemma ==
    ASSUME NEW p, Sound(p), NEW width \in Widths
    PROVE  Sound([p EXCEPT !.width = width])
<1>1. PICK q : q = [p EXCEPT !.width = width]
  OBVIOUS
<1>2. p \in Pages
  BY DEF Sound
<1>3. q \in Pages
  BY <1>1, <1>2 DEF Pages
<1>4. /\ q.overlayOn = p.overlayOn /\ q.displayed = p.displayed /\ q.on = p.on
      /\ q.openNav = p.openNav /\ q.openToc = p.openToc /\ q.listening = p.listening
      /\ q.header = p.header /\ q.savedHeight = p.savedHeight /\ q.timers = p.timers
  BY <1>1, <1>2 DEF Pages
<1>5. MenuSound(q) /\ TocSound(q) /\ HeaderSound(q)
  BY <1>4 DEF Sound, MenuSound, TocSound, HeaderSound
<1>. QED  BY <1>1, <1>3, <1>5 DEF Sound

-------------------------------------------------------------------------------
(* The invariant of the navigation, and one lemma for each kind of step.   *)

NavInv == Sound(page) /\ StaysInFront(page) /\ events \in 0..MaxEvents

LEMMA NavInitLemma == NavInit => NavInv
<1>. SUFFICES ASSUME NavInit PROVE NavInv
  OBVIOUS
<1>1. PICK docs \in BOOLEAN, width \in Widths : page = Loaded(docs, width)
  BY DEF NavInit
<1>2. NoTimeouts \in Timers(NavTasks)
  BY NoTimeoutsLemma
<1>3. 0 \in 0..Transition /\ 0 \in 0..MaxEvents
  BY NavDelaysAssumption
<1>4. page \in Pages
  BY <1>1, <1>2, <1>3 DEF Pages, Loaded, HeaderHeights
<1>5. MenuSound(page) /\ TocSound(page) /\ HeaderSound(page) /\ StaysInFront(page)
  BY <1>1 DEF Loaded, MenuSound, TocSound, HeaderSound, StaysInFront
<1>. QED  BY <1>3, <1>4, <1>5 DEF NavInv, Sound, NavInit

LEMMA HappensLemma ==
    ASSUME NavInv, NEW after, Happens(after), Sound(after) /\ StaysInFront(after)
    PROVE  NavInv'
<1>1. events' \in 0..MaxEvents
  BY NavDelaysAssumption DEF NavInv, Happens
<1>2. page' = after
  BY DEF Happens
<1>. QED  BY <1>1, <1>2 DEF NavInv, Sound, StaysInFront, InFront, MenuSound, TocSound,
                        HeaderSound, CellophaneZ, HeaderZ, TocZ, FlyoutZ

LEMMA ReaderStep ==
    ASSUME NavInv,
           \/ Scroll \/ Resize \/ Escape
           \/ ClickHamburger \/ ClickFlyout \/ ClickCloseToc
           \/ ClickOverlay \/ ClickCloseMenu \/ ClickElsewhere
    PROVE  NavInv'
<1>0. Sound(page) /\ StaysInFront(page)
  BY DEF NavInv
<1>1. CASE Scroll
  BY <1>0, <1>1, ResetTheViewLemma, HappensLemma DEF Scroll
<1>2. CASE Resize
  <2>1. PICK width \in Widths :
            Happens(CloseMe(ResetTheView([page EXCEPT !.width = width])))
    BY <1>2 DEF Resize
  <2>2. Sound([page EXCEPT !.width = width])
    BY <1>0, WidthLemma
  <2>3. Sound(ResetTheView([page EXCEPT !.width = width]))
    BY <2>2, ResetTheViewLemma
  <2>. QED  BY <2>1, <2>3, CloseMeLemma, HappensLemma
<1>3. CASE Escape
  BY <1>0, <1>3, ToggleMenuLemma, HappensLemma DEF Escape
<1>4. CASE ClickHamburger
  BY <1>0, <1>4, ToggleMenuLemma, WindowClickLemma, HappensLemma DEF ClickHamburger
<1>5. CASE ClickFlyout
  BY <1>0, <1>5, ToggleTocLemma, WindowClickLemma, HappensLemma DEF ClickFlyout
<1>6. CASE ClickCloseToc
  BY <1>0, <1>6, ToggleTocLemma, HappensLemma DEF ClickCloseToc
<1>7. CASE ClickOverlay
  BY <1>0, <1>7, CloseMeLemma, WindowClickLemma, HappensLemma DEF ClickOverlay
<1>8. CASE ClickCloseMenu
  BY <1>0, <1>8, CloseMeLemma, HappensLemma DEF ClickCloseMenu
<1>9. CASE ClickElsewhere
  BY <1>0, <1>9, WindowClickLemma, HappensLemma DEF ClickElsewhere
<1>. QED  BY <1>1, <1>2, <1>3, <1>4, <1>5, <1>6, <1>7, <1>8, <1>9

\* What is left of the timers when a callback runs.
LEMMA RestLemma ==
    ASSUME NavInv, NEW task, IsDue(page.timers), DueTask(page.timers) = task
    PROVE  /\ page.timers \in Timers(NavTasks)
           /\ WithoutDue(page.timers) \in Timers(NavTasks)
           /\ \A t : Waits(page.timers, t) /\ t # task
                        => Waits(WithoutDue(page.timers), t)
<1>1. page.timers \in Timers(NavTasks)
  BY DEF NavInv, Sound, Pages
<1>. QED  BY <1>1, WithoutDueLemma

LEMMA ListenStep ==
    ASSUME NavInv, Run("listen", Listen) PROVE NavInv'
<1>1. PICK rest : rest = WithoutDue(page.timers)
  OBVIOUS
<1>2. /\ rest \in Timers(NavTasks)
      /\ \A t : Waits(page.timers, t) /\ t # "listen" => Waits(rest, t)
  BY <1>1, RestLemma DEF Run
<1>3. page \in Pages /\ Sound(page) /\ StaysInFront(page)
  BY DEF NavInv, Sound
<1>4. PICK q : q = [page EXCEPT !.timers = rest, !.listening = page.openToc]
  OBVIOUS
<1>5. page' = q /\ events' = events
  BY <1>1, <1>3, <1>4 DEF Run, Listen, Pages
<1>6. q \in Pages
  BY <1>2, <1>3, <1>4 DEF Pages
<1>7. /\ q.overlayOn = page.overlayOn /\ q.displayed = page.displayed
      /\ q.on = page.on /\ q.openNav = page.openNav /\ q.docs = page.docs
      /\ q.width = page.width /\ q.openToc = page.openToc
      /\ q.listening = page.openToc /\ q.header = page.header
      /\ q.savedHeight = page.savedHeight /\ q.menuZ = page.menuZ
      /\ q.timers = rest
  BY <1>3, <1>4 DEF Pages
<1>8. MenuSound(q) /\ TocSound(q) /\ HeaderSound(q)
  BY <1>2, <1>3, <1>7 DEF Sound, MenuSound, TocSound, HeaderSound
<1>9. StaysInFront(q)
  BY <1>2, <1>3, <1>7 DEF StaysInFront, InFront, CellophaneZ, HeaderZ, TocZ, FlyoutZ
<1>10. Sound(q)
  BY <1>6, <1>8 DEF Sound
<1>. QED  BY <1>5, <1>9, <1>10 DEF NavInv, Sound, StaysInFront, InFront, MenuSound, TocSound,
                        HeaderSound, CellophaneZ, HeaderZ, TocZ, FlyoutZ

LEMMA AddOnStep ==
    ASSUME NavInv, Run("on", AddOn) PROVE NavInv'
<1>1. PICK rest : rest = WithoutDue(page.timers)
  OBVIOUS
<1>2. /\ rest \in Timers(NavTasks)
      /\ \A t : Waits(page.timers, t) /\ t # "on" => Waits(rest, t)
  BY <1>1, RestLemma DEF Run
<1>3. page \in Pages /\ Sound(page) /\ StaysInFront(page)
  BY DEF NavInv, Sound
<1>4. PICK q : q = [page EXCEPT !.timers = rest, !.on = TRUE]
  OBVIOUS
<1>5. page' = q /\ events' = events
  BY <1>1, <1>3, <1>4 DEF Run, AddOn, Pages
<1>6. q \in Pages
  BY <1>2, <1>3, <1>4 DEF Pages
<1>7. /\ q.overlayOn = page.overlayOn /\ q.displayed = page.displayed
      /\ q.on = TRUE /\ q.openNav = page.openNav /\ q.docs = page.docs
      /\ q.width = page.width /\ q.openToc = page.openToc
      /\ q.listening = page.listening /\ q.header = page.header
      /\ q.savedHeight = page.savedHeight /\ q.menuZ = page.menuZ
      /\ q.timers = rest
  BY <1>3, <1>4 DEF Pages
<1>8. MenuSound(q) /\ TocSound(q) /\ HeaderSound(q)
  BY <1>2, <1>3, <1>7 DEF Sound, MenuSound, TocSound, HeaderSound
<1>9. StaysInFront(q)
  BY <1>2, <1>3, <1>7 DEF StaysInFront, InFront, CellophaneZ, HeaderZ, TocZ, FlyoutZ
<1>10. Sound(q)
  BY <1>6, <1>8 DEF Sound
<1>. QED  BY <1>5, <1>9, <1>10 DEF NavInv, Sound, StaysInFront, InFront, MenuSound, TocSound,
                        HeaderSound, CellophaneZ, HeaderZ, TocZ, FlyoutZ

LEMMA HideStep ==
    ASSUME NavInv, Run("hide", Hide) PROVE NavInv'
<1>1. PICK rest : rest = WithoutDue(page.timers)
  OBVIOUS
<1>2. /\ rest \in Timers(NavTasks)
      /\ \A t : Waits(page.timers, t) /\ t # "hide" => Waits(rest, t)
  BY <1>1, RestLemma DEF Run
<1>3. page \in Pages /\ Sound(page)
  BY DEF NavInv, Sound
<1>4. PICK q : q = [page EXCEPT !.timers = rest, !.displayed = FALSE,
                               !.overlayOn = FALSE]
  OBVIOUS
<1>5. page' = q /\ events' = events
  BY <1>1, <1>3, <1>4 DEF Run, Hide, Pages
<1>6. q \in Pages
  BY <1>2, <1>3, <1>4 DEF Pages
<1>7. /\ q.overlayOn = FALSE /\ q.displayed = FALSE
      /\ q.openNav = page.openNav /\ q.openToc = page.openToc
      /\ q.listening = page.listening /\ q.header = page.header
      /\ q.savedHeight = page.savedHeight /\ q.timers = rest
  BY <1>3, <1>4 DEF Pages
<1>8. MenuSound(q) /\ TocSound(q) /\ HeaderSound(q) /\ StaysInFront(q)
  BY <1>2, <1>3, <1>7 DEF Sound, MenuSound, TocSound, HeaderSound, StaysInFront
<1>9. Sound(q) /\ StaysInFront(q)
  BY <1>6, <1>8 DEF Sound
<1>. QED  BY <1>5, <1>9 DEF NavInv, Sound, StaysInFront, InFront, MenuSound, TocSound,
                        HeaderSound, CellophaneZ, HeaderZ, TocZ, FlyoutZ

LEMMA NavTickStep ==
    ASSUME NavInv, NavTick PROVE NavInv'
<1>1. PICK rest : rest = Elapse(page.timers)
  OBVIOUS
<1>2. PICK moved : moved = IF page.transition > 0 THEN page.transition - 1 ELSE 0
  OBVIOUS
<1>3. page \in Pages /\ Sound(page) /\ StaysInFront(page) /\ page.timers \in Timers(NavTasks)
  BY DEF NavInv, Sound, Pages
<1>4. /\ rest \in Timers(NavTasks)
      /\ \A t : Waits(rest, t) <=> Waits(page.timers, t)
  BY <1>1, <1>3, ElapseLemma DEF NavTick
<1>5. moved \in 0..Transition
  <2>1. page.transition \in 0..Transition
    BY <1>3 DEF Pages
  <2>. QED  BY <1>2, <2>1, NavDelaysAssumption
<1>6. PICK q : q = [page EXCEPT !.timers = rest, !.transition = moved]
  OBVIOUS
<1>7. page' = q /\ events' = events
  BY <1>1, <1>2, <1>3, <1>6 DEF NavTick, Pages
<1>8. q \in Pages
  BY <1>3, <1>4, <1>5, <1>6 DEF Pages
<1>9. /\ q.overlayOn = page.overlayOn /\ q.displayed = page.displayed
      /\ q.on = page.on /\ q.openNav = page.openNav /\ q.docs = page.docs
      /\ q.width = page.width /\ q.openToc = page.openToc
      /\ q.listening = page.listening /\ q.header = page.header
      /\ q.savedHeight = page.savedHeight /\ q.menuZ = page.menuZ
      /\ q.timers = rest
  BY <1>3, <1>6 DEF Pages
<1>10. MenuSound(q) /\ TocSound(q) /\ HeaderSound(q)
  BY <1>3, <1>4, <1>9 DEF Sound, MenuSound, TocSound, HeaderSound
<1>11. StaysInFront(q)
  BY <1>3, <1>4, <1>9 DEF StaysInFront, InFront, CellophaneZ, HeaderZ, TocZ, FlyoutZ
<1>12. Sound(q)
  BY <1>8, <1>10 DEF Sound
<1>. QED  BY <1>7, <1>11, <1>12 DEF NavInv, Sound, StaysInFront, InFront, MenuSound, TocSound,
                        HeaderSound, CellophaneZ, HeaderZ, TocZ, FlyoutZ

LEMMA NavStill ==
    ASSUME NavInv, UNCHANGED navVars PROVE NavInv'
BY DEF NavInv, Sound, StaysInFront, InFront, MenuSound, TocSound, HeaderSound,
       CellophaneZ, HeaderZ, TocZ, FlyoutZ, navVars

LEMMA NavNextLemma == NavInv /\ [NavNext]_navVars => NavInv'
<1>. SUFFICES ASSUME NavInv, [NavNext]_navVars PROVE NavInv'
  OBVIOUS
<1>1. CASE \/ Scroll \/ Resize \/ Escape
           \/ ClickHamburger \/ ClickFlyout \/ ClickCloseToc
           \/ ClickOverlay \/ ClickCloseMenu \/ ClickElsewhere
  BY <1>1, ReaderStep
<1>2. CASE Run("listen", Listen)
  BY <1>2, ListenStep
<1>3. CASE Run("on", AddOn)
  BY <1>3, AddOnStep
<1>4. CASE Run("hide", Hide)
  BY <1>4, HideStep
<1>5. CASE NavTick
  BY <1>5, NavTickStep
<1>6. CASE UNCHANGED navVars
  BY <1>6, NavStill
<1>. QED  BY <1>1, <1>2, <1>3, <1>4, <1>5, <1>6 DEF NavNext, NavCallback

LEMMA NavInvariant == NavSpec => []NavInv
BY NavInitLemma, NavNextLemma, PTL DEF NavSpec

(***************************************************************************)
(* The page keeps its shape (script.js, kub and pushmenu).                 *)
(***************************************************************************)
THEOREM NavTypes == NavSpec => []NavTypeOK
<1>1. NavInv => NavTypeOK
  <2>. SUFFICES ASSUME NavInv PROVE NavTypeOK
    OBVIOUS
  <2>1. page \in Pages /\ page.timers \in Timers(NavTasks)
    BY DEF NavInv, Sound, Pages
  <2>2. ASSUME NEW k \in DOMAIN page.timers
        PROVE  page.timers[k].task \in NavTasks /\ page.timers[k].left \in Nat
    <3>. DEFINE S == [task: NavTasks, left: Nat]
    <3>1. page.timers[k] \in S
      <4>. HIDE DEF S
      <4>1. page.timers \in Seq(S)
        BY <2>1 DEF Timers, S
      <4>. QED  BY <4>1
    <3>. QED  BY <3>1
  <2>3. DOMAIN page = {"docs", "width", "openNav", "openToc", "listening",
                       "header", "savedHeight", "transition", "displayed", "on",
                       "overlayOn", "menuZ", "timers"}
    BY <2>1 DEF Pages
  <2>4. /\ page.width \in Widths
        /\ \A flag \in {"docs", "openNav", "openToc", "listening", "displayed",
                        "on", "overlayOn"} : page[flag] \in BOOLEAN
    BY <2>1 DEF Pages
  <2>5. /\ page.menuZ \in Nat /\ page.transition \in 0..Transition
        /\ page.header \in HeaderHeights /\ page.savedHeight \in HeaderHeights
    BY <2>1 DEF Pages
  <2>6. events \in 0..MaxEvents
    BY DEF NavInv
  <2>. QED  BY <2>2, <2>3, <2>4, <2>5, <2>6 DEF NavTypeOK
<1>. QED  BY <1>1, NavInvariant, PTL

(***************************************************************************)
(* For all delays and however many events overlap: the push menu never     *)
(* stays behind invisible, or under the page, and the page scrolls when it *)
(* is gone.                                                                *)
(***************************************************************************)
THEOREM MenuNotStuck == NavSpec => []MenuNeverStuck
<1>1. NavInv => MenuNeverStuck
  BY DEF NavInv, Sound, MenuSound, StaysInFront, InFront, MenuNeverStuck, MenuInFront,
         Pending, Waits
<1>. QED  BY <1>1, NavInvariant, PTL

(***************************************************************************)
(* The listener for clicks outside the table of contents ends as the table *)
(* of contents does.                                                       *)
(***************************************************************************)
THEOREM Listens == NavSpec => []ListensWhileOpen
<1>1. NavInv => ListensWhileOpen
  BY DEF NavInv, Sound, TocSound, ListensWhileOpen, Pending, Waits
<1>. QED  BY <1>1, NavInvariant, PTL

(***************************************************************************)
(* A closed header has the height of its bar, unless it was measured in    *)
(* the middle of its transition.                                           *)
(***************************************************************************)
THEOREM HeaderIsBar == NavSpec => []HeaderReturns
<1>1. NavInv => HeaderReturns
  BY DEF NavInv, Sound, HeaderSound, HeaderReturns
<1>. QED  BY <1>1, NavInvariant, PTL

-------------------------------------------------------------------------------
(* The sidebar of a reference page.                                        *)

Refresh(v, t, p) == CheckActiveElement(ScrollActions(v, t, p), t, p)

(***************************************************************************)
(* The inductive invariant of the sidebar.  Beside what the properties say *)
(* of it, the remembered section and, where it has subsections, the        *)
(* remembered subsection lead to the marked heading: this is what a reload *)
(* of one of them without the others would lose.                           *)
(***************************************************************************)
LeadsTo(h, k) == h \in {k} \union Ancestors(k)

Unfolded(v) == v.shown = NavNode(v.section) \union NavNode(v.subsection)
Marked(v) == v.selected = {v.elem} \ {0}
Visible(v) == Ancestors(v.elem) \subseteq v.shown
Belongs(v) ==
    v.subsection # 0 =>
        v.subsection \in Subsections(v.section) \/ Subsections(v.section) = {}
Leads(v) ==
    /\ v.section # 0 => LeadsTo(v.section, v.elem)
    /\ v.subsection \in Subsections(v.section) => LeadsTo(v.subsection, v.elem)
    /\ v.section \in Sections \union {0} /\ v.subsection \notin Sections

Consistent(v) == Unfolded(v) /\ Marked(v) /\ Visible(v) /\ Belongs(v) /\ Leads(v)

\* A target computed at this position is still the one to be computed.
TargetIsFresh ==
    \A k \in DOMAIN pending :
        pending[k].still => pending[k].to = ScrollToken(Refreshed)

\* FollowsUnlessShifted, by what the script itself finds.
FollowsScan ==
    LET at == CheckNodePositions(Headings, tab, scroll)
    IN  ~scrolled /\ hashes = 0 /\ ~shifted /\ at # 0 =>
            nav.elem = at /\ nav.section \in {at} \union Ancestors(at)

IInv == TypeOK /\ Consistent(nav) /\ TargetIsFresh /\ FollowsScan

-----------------------------------------------------------------------------
(* The tree of headings.                                                   *)

LEMMA ParentType ==
    /\ N \in Nat \ {0}
    /\ \A h \in Headings : Parent[h] \in Nat /\ Parent[h] < h
    /\ \A h \in 0..N : Up(h) \in 0..N /\ (h # 0 => Up(h) < h)
    /\ \A h \in Headings : Up(h) = Parent[h]
    /\ 1 \in Sections
BY PageAssumption, TreeAssumption DEF Headings, Up, Sections, Subsections

(***************************************************************************)
(* What a scan finds: the last of the headings reached, if there is one.   *)
(***************************************************************************)
LEMMA CheckLemma ==
    ASSUME NEW nodes \in SUBSET Headings, NEW t, NEW p,
           NEW r, r = CheckNodePositions(nodes, t, p)
    PROVE  /\ r \in 0..N
           /\ r = 0 <=> ~ \E h \in nodes : Reached(h, t, p)
           /\ r # 0 => /\ r \in nodes /\ Reached(r, t, p)
                       /\ \A k \in nodes : Reached(k, t, p) => k <= r
<1>. DEFINE reached == {h \in nodes : Reached(h, t, p)}
<1>n. N \in Nat
  BY PageAssumption
<1>h. \A h \in nodes : h \in 1..N
  BY DEF Headings
<1>1. CASE reached = {}
  <2>1. r = 0
    BY <1>1 DEF CheckNodePositions
  <2>. QED  BY <1>1, <2>1, <1>n
<1>2. CASE reached # {}
  <2>. DEFINE T == {N - h : h \in reached}
  <2>1. T \subseteq Nat /\ T # {}
    BY <1>2, <1>h, <1>n
  <2>2. PICK x \in T : \A y \in T : x <= y
    BY <2>1, LeastElement
  <2>4. PICK m \in reached : x = N - m
    OBVIOUS
  <2>5. \A k \in reached : k <= m
    <3>1. TAKE k \in reached
    <3>2. N - m <= N - k
      BY <2>2, <2>4
    <3>. QED  BY <3>2, <1>h, <1>n
  <2>6. r = CHOOSE h \in reached : \A k \in reached : k <= h
    BY <1>2 DEF CheckNodePositions
  <2>7. r \in reached /\ \A k \in reached : k <= r
    BY <2>5, <2>6
  <2>. QED  BY <2>7, <1>h, <1>n
<1>. QED  BY <1>1, <1>2

(***************************************************************************)
(* The headings reached are those up to one of them.                       *)
(***************************************************************************)
LEMMA ReachedDown ==
    ASSUME NEW t \in Layouts, NEW p \in Nat, NEW h \in Headings,
           NEW k \in Headings, h <= k, Reached(k, t, p)
    PROVE  Reached(h, t, p)
<1>1. Top[t] \in [Headings -> Nat] /\ Offset \in Nat
  BY PageAssumption
<1>2. Top[t][h] <= Top[t][k]
  BY <1>1, PageAssumption DEF Headings
<1>. QED  BY <1>1, <1>2 DEF Reached

(***************************************************************************)
(* The last section before a heading is the one it lies in, and the last   *)
(* of its subsections the one that leads to it, by the order of the tree.  *)
(***************************************************************************)
LEMMA PathLemma ==
    ASSUME NEW e \in Headings,
           NEW s \in Sections, s <= e,
           \A k \in Sections : k <= e => k <= s
    PROVE  /\ LeadsTo(s, e)
           /\ \A m \in Subsections(s) :
                 m <= e /\ (\A k \in Subsections(s) : k <= e => k <= m)
                    => LeadsTo(m, e) /\ Ancestors(e) \subseteq {s, m}
           /\ (~ \E m \in Subsections(s) : m <= e) => e = s
<1>1. /\ s \in Headings /\ Parent[s] = 0
      /\ \A h \in Headings : h \in Nat /\ h # 0
  BY DEF Sections, Subsections, Headings
<1>t. /\ \A h \in Headings : Parent[h] \in 0..N /\ Parent[h] < h
      /\ \A h, k \in Headings : Parent[k] < h /\ h < k => Parent[k] <= Parent[h]
      /\ \A h \in Headings : Up(Up(Up(h))) = 0
  BY TreeAssumption
<1>u. \A h \in Headings : Up(h) = Parent[h]
  BY ParentType
<1>s. \A k \in Headings : Parent[k] = 0 => k \in Sections
  BY DEF Sections, Subsections
<1>z. Up(0) = 0
  BY DEF Up
<1>p. \A h \in 0..N : h # 0 => h \in Headings
  BY PageAssumption DEF Headings
<1>2. CASE Parent[e] = 0
  <2>1. e = s
    BY <1>1, <1>2, <1>s, <1>t
  <2>2. \A m \in Subsections(s) : ~ (m <= e)
    BY <2>1, <1>1, <1>t DEF Subsections
  <2>. QED  BY <2>1, <2>2 DEF LeadsTo
<1>3. CASE Parent[e] # 0 /\ Parent[Parent[e]] = 0
  <2>. DEFINE q == Parent[e]
  <2>1. q \in Headings /\ q < e /\ q \in Sections
    BY <1>3, <1>t, <1>p, <1>s
  <2>2. q = s
    <3>1. q <= s
      BY <2>1, <1>1
    <3>2. s # e
      BY <1>3, <1>1
    <3>3. ~ (q < s)
      BY <3>2, <2>1, <1>1, <1>t
    <3>. QED  BY <3>1, <3>3, <1>1, <2>1
  <2>3. e \in Subsections(s)
    BY <2>2 DEF Subsections
  <2>4. Ancestors(e) = {s}
    BY <2>1, <2>2, <1>1, <1>u DEF Ancestors
  <2>5. ASSUME NEW m \in Subsections(s), m <= e,
               \A k \in Subsections(s) : k <= e => k <= m
        PROVE  m = e
    <3>1. m \in Headings
      BY DEF Subsections
    <3>. QED  BY <2>3, <2>5, <3>1, <1>1
  <2>. QED  BY <2>3, <2>4, <2>5, <1>1 DEF LeadsTo
<1>4. CASE Parent[e] # 0 /\ Parent[Parent[e]] # 0
  <2>. DEFINE m0 == Parent[e]
              q == Parent[m0]
  <2>1. m0 \in Headings /\ m0 < e /\ q \in Headings /\ q < m0
    BY <1>4, <1>t, <1>p
  <2>2. Parent[q] = 0
    <3>1. Up(Up(Up(e))) = 0
      BY <1>t
    <3>. QED  BY <3>1, <2>1, <1>u
  <2>3. q \in Sections /\ q <= e
    BY <2>1, <2>2, <1>s, <1>1
  <2>4. q <= s
    BY <2>3
  <2>5. s # e /\ s # m0
    BY <1>4, <1>1
  <2>6. ~ (m0 < s)
    BY <2>1, <2>5, <1>1, <1>t
  <2>7. ~ (q < s)
    BY <2>1, <2>5, <2>6, <1>1, <1>t
  <2>8. q = s
    BY <2>4, <2>7, <1>1, <2>1
  <2>9. m0 \in Subsections(s) /\ m0 <= e
    BY <2>1, <2>8, <1>1 DEF Subsections
  <2>10. Ancestors(e) = {s, m0}
    BY <2>1, <2>8, <1>1, <1>u DEF Ancestors
  <2>11. ASSUME NEW m \in Subsections(s), m <= e,
                \A k \in Subsections(s) : k <= e => k <= m
         PROVE  m = m0
    <3>1. m \in Headings /\ Parent[m] = s
      BY DEF Subsections
    <3>2. m0 <= m
      BY <2>9, <2>11
    <3>3. m # e
      BY <3>1, <2>1, <2>8, <1>t, <1>1
    <3>4. ~ (m0 < m)
      BY <3>1, <3>3, <2>1, <2>8, <2>11, <1>t, <1>1
    <3>. QED  BY <3>1, <3>2, <3>4, <2>1, <1>1
  <2>. QED  BY <2>9, <2>10, <2>11, <1>1 DEF LeadsTo
<1>. QED  BY <1>2, <1>3, <1>4

-----------------------------------------------------------------------------
(* What a refresh leaves.                                                  *)

LEMMA UnfoldLemma ==
    ASSUME NEW a \in 0..N, NEW b \in 0..N, NEW c \in 0..N,
           a \in Sections \union {0}, c \in Sections \union {0},
           b # 0 => b \notin Sections
    PROVE  /\ Unfold(NavNode(a) \union NavNode(b), a, c)
                 = NavNode(c) \union NavNode(b)
           /\ \A d \in 0..N :
                 (d # 0 => d \notin Sections) =>
                    Unfold(NavNode(c) \union NavNode(b), b, d)
                       = NavNode(c) \union NavNode(d)
BY DEF Unfold, NavNode

LEMMA NavType ==
    /\ \A h \in 0..N : NavNode(h) \subseteq Headings
    /\ Sections \subseteq Headings /\ 0 \notin Headings
    /\ \A h : Subsections(h) \subseteq Headings
    /\ Headings \subseteq 0..N
    /\ \A h \in Headings : Subsections(h) \cap Sections = {}
BY PageAssumption DEF NavNode, Headings, Sections, Subsections

(***************************************************************************)
(* A refresh keeps the sidebar consistent; unless it is above the first    *)
(* heading it marks the last one reached and remembers the section and the *)
(* subsection that lead to it, otherwise it changes nothing.               *)
(***************************************************************************)
LEMMA RefreshLemma ==
    ASSUME NEW v \in Navs, Consistent(v),
           NEW t \in Layouts, NEW p \in Nat,
           NEW w, w = Refresh(v, t, p),
           NEW at, at = CheckNodePositions(Headings, t, p),
           NEW active, active = CheckNodePositions(Sections, t, p),
           NEW sub, sub = CheckNodePositions(Subsections(active), t, p)
    PROVE  /\ w \in Navs /\ Consistent(w)
           /\ at = 0 => w = v
           /\ at # 0 => /\ w.elem = at /\ w.section = active /\ active # 0
                        /\ w.subsection = IF Subsections(active) = {}
                                          THEN v.subsection ELSE sub
<1>at. /\ at \in 0..N
       /\ at = 0 <=> ~ \E h \in Headings : Reached(h, t, p)
       /\ at # 0 => /\ at \in Headings /\ Reached(at, t, p)
                    /\ \A k \in Headings : Reached(k, t, p) => k <= at
  BY CheckLemma
<1>ac. /\ active \in 0..N
       /\ active = 0 <=> ~ \E h \in Sections : Reached(h, t, p)
       /\ active # 0 => /\ active \in Sections /\ Reached(active, t, p)
                        /\ \A k \in Sections : Reached(k, t, p) => k <= active
  BY CheckLemma, NavType
<1>su. /\ sub \in 0..N
       /\ sub = 0 <=> ~ \E h \in Subsections(active) : Reached(h, t, p)
       /\ sub # 0 => /\ sub \in Subsections(active) /\ Reached(sub, t, p)
                     /\ \A k \in Subsections(active) : Reached(k, t, p) => k <= sub
  <2>. DEFINE nodes == Subsections(active)
  <2>1. nodes \in SUBSET Headings
    BY NavType
  <2>. HIDE DEF nodes
  <2>2. sub = CheckNodePositions(nodes, t, p)
    BY DEF nodes
  <2>3. /\ sub \in 0..N
        /\ sub = 0 <=> ~ \E h \in nodes : Reached(h, t, p)
        /\ sub # 0 => /\ sub \in nodes /\ Reached(sub, t, p)
                      /\ \A k \in nodes : Reached(k, t, p) => k <= sub
    BY <2>1, <2>2, CheckLemma
  <2>. QED  BY <2>3 DEF nodes
<1>v. /\ v = [section |-> v.section, subsection |-> v.subsection,
              elem |-> v.elem, shown |-> v.shown, selected |-> v.selected]
      /\ v.section \in 0..N /\ v.subsection \in 0..N /\ v.elem \in 0..N
      /\ v.shown \in SUBSET Headings /\ v.selected \in SUBSET Headings
  BY DEF Navs
<1>1. CASE at = 0
  <2>1. active = 0
    BY <1>1, <1>at, <1>ac, NavType
  <2>2. ScrollActions(v, t, p) = v
    BY <2>1 DEF ScrollActions
  <2>3. (v.selected \ {v.elem}) \union ({v.elem} \ {0}) = v.selected
    BY DEF Consistent, Marked
  <2>4. w = [v EXCEPT !.elem = v.elem, !.selected = v.selected]
    BY <1>1, <2>2, <2>3 DEF Refresh, CheckActiveElement
  <2>5. w = v
    BY <2>4, <1>v
  <2>. QED  BY <1>1, <2>5
<1>2. CASE at # 0
  <2>1. \A h \in Headings : Reached(h, t, p) <=> h <= at
    BY <1>2, <1>at, ReachedDown
  <2>2. active # 0
    <3>1. 1 \in Sections /\ 1 \in Headings /\ 1 <= at
      BY <1>2, <1>at, ParentType, NavType DEF Headings
    <3>. QED  BY <3>1, <2>1, <1>ac
  <2>3. /\ active \in Sections /\ active <= at
        /\ \A k \in Sections : k <= at => k <= active
    BY <2>1, <2>2, <1>ac, NavType
  <2>4. /\ sub # 0 => /\ sub \in Subsections(active) /\ sub <= at
                      /\ \A k \in Subsections(active) : k <= at => k <= sub
        /\ sub = 0 => ~ \E m \in Subsections(active) : m <= at
    BY <2>1, <1>su, NavType
  <2>5. /\ LeadsTo(active, at)
        /\ sub # 0 => LeadsTo(sub, at) /\ Ancestors(at) \subseteq {active, sub}
        /\ sub = 0 => at = active
    BY <2>3, <2>4, <1>2, <1>at, PathLemma
  <2>. DEFINE s2 == IF Subsections(active) = {} THEN v.subsection ELSE sub
              shown2 == NavNode(active) \union NavNode(s2)
  <2>6. s2 \in 0..N /\ s2 \notin Sections /\ v.subsection \notin Sections
    BY <2>4, <1>v, <1>su, NavType, <2>3 DEF Consistent, Leads
  <2>7. /\ Unfold(v.shown, v.section, active)
              = NavNode(active) \union NavNode(v.subsection)
        /\ Unfold(NavNode(active) \union NavNode(v.subsection), v.subsection, s2)
              = shown2
    <3>1. v.shown = NavNode(v.section) \union NavNode(v.subsection)
          /\ v.section \in Sections \union {0}
      BY DEF Consistent, Unfolded, Leads
    <3>. QED  BY <3>1, <2>3, <2>6, <1>v, <1>ac, UnfoldLemma
  <2>8. ScrollActions(v, t, p)
          = [v EXCEPT !.section = active, !.subsection = s2, !.shown = shown2]
    <3>1. CASE Subsections(active) = {}
      <4>1. s2 = v.subsection
        BY <3>1
      <4>2. ScrollActions(v, t, p)
              = [v EXCEPT !.section = active,
                          !.shown = NavNode(active) \union NavNode(v.subsection)]
        BY <2>2, <2>7, <3>1 DEF ScrollActions
      <4>. QED  BY <4>1, <4>2, <1>v
    <3>2. CASE Subsections(active) # {}
      <4>1. s2 = sub
        BY <3>2
      <4>2. ScrollActions(v, t, p)
              = [[v EXCEPT !.section = active,
                           !.shown = NavNode(active) \union NavNode(v.subsection)]
                   EXCEPT !.subsection = sub, !.shown = Unfold(@, v.subsection, sub)]
        BY <2>2, <2>7, <3>2 DEF ScrollActions
      <4>. HIDE DEF shown2
      <4>. QED  BY <4>1, <4>2, <2>7, <1>v
    <3>. QED  BY <3>1, <3>2
  <2>9. w = [section |-> active, subsection |-> s2, elem |-> at,
             shown |-> shown2, selected |-> {at}]
    <3>1. (v.selected \ {v.elem}) \union ({at} \ {0}) = {at}
      BY <1>2 DEF Consistent, Marked
    <3>2. PICK u : u = ScrollActions(v, t, p)
      OBVIOUS
    <3>3. u = [section |-> active, subsection |-> s2, elem |-> v.elem,
               shown |-> shown2, selected |-> v.selected]
      <4>. HIDE DEF s2, shown2
      <4>. QED  BY <3>2, <2>8, <1>v
    <3>4. w = CheckActiveElement(u, t, p)
      BY <3>2 DEF Refresh
    <3>5. w = [u EXCEPT !.elem = at,
                        !.selected = (@ \ {u.elem}) \union ({at} \ {0})]
      BY <3>4, <1>2 DEF CheckActiveElement
    <3>. HIDE DEF s2, shown2
    <3>. QED  BY <3>1, <3>3, <3>5
  <2>10. w \in Navs
    BY <2>9, <2>6, <1>at, <1>ac, <1>2, NavType DEF Navs
  <2>11. Unfolded(w) /\ Marked(w)
    <3>. HIDE DEF s2
    <3>. QED  BY <2>9, <1>2 DEF Unfolded, Marked
  <2>12. Belongs(w)
    BY <2>9, <2>4 DEF Belongs
  <2>13. Leads(w)
    <3>1. s2 \in Subsections(active) => s2 = sub /\ sub # 0
      BY NavType
    <3>. HIDE DEF s2, shown2
    <3>. QED  BY <3>1, <2>9, <2>3, <2>5, <2>6 DEF Leads
  <2>14. Visible(w)
    <3>1. CASE sub = 0
      <4>1. Ancestors(at) = {}
        BY <3>1, <2>3, <2>5, NavType DEF Ancestors, Up, Sections, Subsections
      <4>. QED  BY <4>1, <2>9 DEF Visible
    <3>2. CASE sub # 0
      <4>1. s2 = sub /\ Subsections(active) # {}
        BY <3>2, <2>4
      <4>2. active \in shown2
        BY <4>1, <2>2 DEF NavNode
      <4>3. \A a \in Ancestors(at) : a \in shown2
        <5>1. SUFFICES ASSUME sub \in Ancestors(at) PROVE sub \in shown2
          BY <4>2, <3>2, <2>5
        <5>2. \E k \in Headings : Parent[k] = sub
          <6>1. at \in Headings /\ 0 \notin Headings
            BY <1>at, <1>2, NavType
          <6>2. Up(at) = Parent[at] /\ (Parent[at] # 0 => Parent[at] \in Headings)
            BY <6>1, ParentType, TreeAssumption DEF Headings
          <6>3. sub \in {Up(at), Up(Up(at))} \ {0}
            BY <5>1 DEF Ancestors
          <6>4. CASE sub = Up(at)
            BY <6>1, <6>2, <6>4
          <6>5. CASE sub = Up(Up(at)) /\ sub # 0
            BY <6>1, <6>2, <6>5 DEF Up
          <6>. QED  BY <6>3, <6>4, <6>5
        <5>3. sub \in NavNode(sub)
          BY <5>2, <3>2 DEF NavNode, Subsections
        <5>. QED  BY <5>3, <4>1
      <4>. QED  BY <4>3, <2>9 DEF Visible
    <3>. QED  BY <3>1, <3>2
  <2>15. w.elem = at /\ w.section = active /\ w.subsection = s2
    <3>. HIDE DEF s2, shown2
    <3>. QED  BY <2>9
  <2>. QED  BY <1>2, <2>2, <2>6, <2>10, <2>11, <2>12, <2>13, <2>14, <2>15 DEF Consistent
<1>. QED  BY <1>1, <1>2

-----------------------------------------------------------------------------
(* The steps of the script's handlers all refresh the sidebar.             *)

LEMMA RefreshedLemma ==
    ASSUME TypeOK, Consistent(nav),
           NEW at, at = CheckNodePositions(Headings, tab, scroll)
    PROVE  /\ Refreshed \in Navs /\ Consistent(Refreshed)
           /\ ScrollToken(Refresh(Refreshed, tab, scroll)) = ScrollToken(Refreshed)
           /\ at # 0 => Refreshed.elem = at /\ Refreshed.section # 0
           /\ nav.section # 0 => Refreshed.section # 0
<1>. DEFINE active == CheckNodePositions(Sections, tab, scroll)
            sub == CheckNodePositions(Subsections(active), tab, scroll)
<1>1. nav \in Navs /\ tab \in Layouts /\ scroll \in Nat
  BY PageAssumption DEF TypeOK
<1>2. PICK w : w = Refresh(nav, tab, scroll)
  OBVIOUS
<1>3. Refreshed = w
  BY <1>2 DEF Refreshed, Refresh
<1>4. PICK x : x = Refresh(w, tab, scroll)
  OBVIOUS
<1>. HIDE DEF active, sub
<1>5. /\ w \in Navs /\ Consistent(w)
      /\ at = 0 => w = nav
      /\ at # 0 => /\ w.elem = at /\ w.section = active /\ active # 0
                   /\ w.subsection = IF Subsections(active) = {}
                                     THEN nav.subsection ELSE sub
  BY <1>1, <1>2, RefreshLemma DEF active, sub
<1>6. /\ at = 0 => x = w
      /\ at # 0 => /\ x.section = active
                   /\ x.subsection = IF Subsections(active) = {}
                                     THEN w.subsection ELSE sub
  BY <1>1, <1>4, <1>5, RefreshLemma DEF active, sub
<1>7. ScrollToken(x) = ScrollToken(w)
  BY <1>5, <1>6 DEF ScrollToken
<1>. QED  BY <1>3, <1>4, <1>5, <1>7

-----------------------------------------------------------------------------
(***************************************************************************)
(* Initially nothing is remembered and the blank sidebar is refreshed.     *)
(***************************************************************************)
LEMMA InitLemma == Init => IInv
<1>. SUFFICES ASSUME Init PROVE IInv
  OBVIOUS
<1>1. tab = NoTab /\ tab \in Layouts /\ scroll \in 0..Bottom[tab] /\ scroll \in Nat
  BY PageAssumption DEF Init, Layouts
<1>2. Blank \in Navs /\ Consistent(Blank) /\ Blank.elem = 0
  <2>1. NavNode(0) = {} /\ Ancestors(0) = {}
    BY DEF NavNode, Ancestors, Up
  <2>2. 0 \in 0..N /\ 0 \notin Sections
    BY PageAssumption, NavType
  <2>3. Blank \in Navs
    BY <2>2 DEF Blank, Navs
  <2>4. Unfolded(Blank) /\ Marked(Blank) /\ Visible(Blank)
    BY <2>1 DEF Blank, Unfolded, Marked, Visible
  <2>5. Belongs(Blank) /\ Leads(Blank)
    BY <2>2 DEF Blank, Belongs, Leads, Sections
  <2>. QED  BY <2>3, <2>4, <2>5 DEF Blank, Consistent
<1>3. PICK at : at = CheckNodePositions(Headings, tab, scroll)
  OBVIOUS
<1>4. nav = Refresh(Blank, tab, scroll)
  BY DEF Init, Refresh
<1>5. nav \in Navs /\ Consistent(nav) /\ (at # 0 => nav.elem = at /\ nav.section # 0)
  BY <1>1, <1>2, <1>3, <1>4, RefreshLemma
<1>6. TypeOK
  <2>1. pending \in Seq([to: 0..N, still: BOOLEAN]) /\ sidebar \in 0..N
        /\ hashes \in Nat /\ moves \in 0..MaxMoves
        /\ scrolled \in BOOLEAN /\ shifted \in BOOLEAN
    <3>1. pending \in Seq([to: 0..N, still: BOOLEAN])
      BY EmptySeq DEF Init
    <3>2. sidebar = 0 /\ hashes = 0 /\ moves = 0 /\ scrolled = FALSE /\ shifted = FALSE
      BY DEF Init
    <3>3. 0 \in 0..N /\ 0 \in 0..MaxMoves
      BY PageAssumption
    <3>. QED  BY <3>1, <3>2, <3>3
  <2>. QED  BY <1>1, <1>5, <2>1 DEF TypeOK
<1>7. TargetIsFresh
  BY DEF Init, TargetIsFresh
<1>8. FollowsScan
  BY <1>3, <1>5 DEF FollowsScan, Consistent, Leads, LeadsTo
<1>. QED  BY <1>5, <1>6, <1>7, <1>8 DEF IInv

(***************************************************************************)
(* A step that moves the window or the headings makes every target one     *)
(* that was computed elsewhere.                                            *)
(***************************************************************************)
LEMMA MoveLemma ==
    ASSUME TypeOK, NEW p \in Nat, MovedTo(p)
    PROVE  /\ pending' \in Seq([to: 0..N, still: BOOLEAN])
           /\ Len(pending') = Len(pending)
           /\ TargetIsFresh'
           /\ scrolled' \in BOOLEAN
<1>1. pending \in Seq([to: 0..N, still: BOOLEAN])
  BY DEF TypeOK
<1>2. DOMAIN pending = 1..Len(pending) /\ Len(pending) \in Nat
  BY <1>1, LenProperties
<1>3. ASSUME NEW k \in DOMAIN pending
      PROVE  /\ pending'[k] \in [to: 0..N, still: BOOLEAN]
             /\ pending'[k].still = FALSE
  <2>1. pending[k] \in [to: 0..N, still: BOOLEAN]
    BY <1>1, <1>2, ElementOfSeq
  <2>2. pending'[k] = [pending[k] EXCEPT !.still = FALSE]
    BY DEF MovedTo
  <2>. QED  BY <2>1, <2>2
<1>4. pending' = [k \in 1..Len(pending) |-> pending'[k]]
  BY <1>2 DEF MovedTo
<1>5. /\ pending' \in Seq([to: 0..N, still: BOOLEAN])
      /\ Len(pending') = Len(pending)
      /\ DOMAIN pending' = DOMAIN pending
  <2>1. pending' \in [1..Len(pending) -> [to: 0..N, still: BOOLEAN]]
    BY <1>2, <1>3, <1>4
  <2>2. pending' \in Seq([to: 0..N, still: BOOLEAN])
    <3>. DEFINE T == [to: 0..N, still: BOOLEAN]
    <3>1. ASSUME NEW n \in Nat, NEW q \in [1..n -> T] PROVE q \in Seq(T)
      <4>. HIDE DEF T
      <4>. QED  OBVIOUS
    <3>. HIDE DEF T
    <3>2. pending' \in [1..Len(pending) -> T]
      BY <2>1 DEF T
    <3>3. pending' \in Seq(T)
      BY <1>2, <3>1, <3>2
    <3>. QED  BY <3>3 DEF T
  <2>3. Len(pending') = Len(pending) /\ DOMAIN pending' = 1..Len(pending)
    BY <1>2, <1>4, <2>2, LenProperties
  <2>. QED  BY <1>2, <2>2, <2>3
<1>6. TargetIsFresh'
  BY <1>3, <1>5 DEF TargetIsFresh
<1>7. scrolled' \in BOOLEAN
  <2>1. scrolled \in BOOLEAN /\ (p # scroll) \in BOOLEAN
    BY DEF TypeOK
  <2>. QED  BY <2>1, Zenon DEF MovedTo
<1>. QED  BY <1>5, <1>6, <1>7

(***************************************************************************)
(* A step of a handler that refreshes the sidebar.                         *)
(***************************************************************************)
LEMMA HandlerLemma ==
    ASSUME IInv, nav' = Refreshed, UNCHANGED <<scroll, tab>>
    PROVE  /\ nav' \in Navs /\ Consistent(nav)'
           /\ FollowsScan'
           /\ ScrollToken(Refreshed)' = ScrollToken(Refreshed)
<1>1. PICK at : at = CheckNodePositions(Headings, tab, scroll)
  OBVIOUS
<1>2. /\ nav' \in Navs /\ Consistent(nav')
      /\ ScrollToken(Refresh(nav', tab, scroll)) = ScrollToken(Refreshed)
      /\ at # 0 => nav'.elem = at /\ nav'.section # 0
  BY <1>1, RefreshedLemma DEF IInv
<1>3. Consistent(nav)'
  BY <1>2 DEF Consistent, Unfolded, Marked, Visible, Belongs, Leads, LeadsTo
<1>4. ScrollToken(Refreshed)' = ScrollToken(Refreshed)
  BY <1>2 DEF Refreshed, Refresh, ScrollToken
<1>5. CheckNodePositions(Headings, tab', scroll') = at
  BY <1>1
<1>6. FollowsScan'
  BY <1>2, <1>5 DEF FollowsScan, Consistent, Leads, LeadsTo
<1>. QED  BY <1>2, <1>3, <1>4, <1>6

-----------------------------------------------------------------------------
(***************************************************************************)
(* Every step keeps the inductive invariant.                               *)
(***************************************************************************)
LEMMA ShowLemma ==
    ASSUME IInv, NEW t \in Layouts, Show(t), moves' \in 0..MaxMoves
    PROVE  IInv'
<1>1. PICK p \in 0..Bottom[t] : MovedTo(p)
  BY DEF Show
<1>2. p \in Nat /\ tab' = t /\ scroll' = p
  BY <1>1, PageAssumption DEF Show, MovedTo
<1>3. /\ pending' \in Seq([to: 0..N, still: BOOLEAN])
      /\ TargetIsFresh' /\ scrolled' \in BOOLEAN
  BY <1>1, <1>2, MoveLemma DEF IInv
<1>4. TypeOK'
  BY <1>1, <1>2, <1>3 DEF IInv, TypeOK, Show
<1>5. nav' = nav
  BY DEF Show
<1>6. Consistent(nav)'
  BY <1>5 DEF IInv, Consistent, Unfolded, Marked, Visible, Belongs, Leads, LeadsTo
<1>7. FollowsScan'
  BY DEF Show, FollowsScan
<1>. QED  BY <1>3, <1>4, <1>6, <1>7 DEF IInv

LEMMA NextLemma == IInv /\ [Next]_vars => IInv'
<1>. SUFFICES ASSUME IInv, [Next]_vars PROVE IInv'
  OBVIOUS
<1>t. /\ nav \in Navs /\ tab \in Layouts /\ scroll \in 0..Bottom[tab]
      /\ sidebar \in 0..N /\ scrolled \in BOOLEAN /\ shifted \in BOOLEAN
      /\ hashes \in Nat /\ moves \in 0..MaxMoves
      /\ pending \in Seq([to: 0..N, still: BOOLEAN])
      /\ scroll \in Nat /\ Bottom[tab] \in Nat /\ MaxMoves \in Nat
  BY PageAssumption DEF IInv, TypeOK
<1>m. Move => moves' \in 0..MaxMoves
  BY <1>t DEF Move
<1>1. CASE SetDefautTab
  <2>1. FirstTab \in Layouts
    BY PageAssumption DEF Layouts
  <2>. QED  BY <1>1, <1>t, <2>1, ShowLemma DEF SetDefautTab
<1>2. ASSUME NEW t \in Tabs, ClickTab(t) PROVE IInv'
  BY <1>2, <1>m, ShowLemma DEF ClickTab, Layouts
<1>3. ASSUME NEW p \in 0..Bottom[tab], ReaderScrolls(p) PROVE IInv'
  <2>1. MovedTo(p) /\ p \in Nat /\ nav' = nav
    BY <1>3, <1>t DEF ReaderScrolls
  <2>2. /\ pending' \in Seq([to: 0..N, still: BOOLEAN])
        /\ TargetIsFresh' /\ scrolled' \in BOOLEAN
    BY <2>1, MoveLemma DEF IInv
  <2>3. TypeOK'
    BY <1>3, <1>m, <1>t, <2>1, <2>2 DEF TypeOK, ReaderScrolls, MovedTo
  <2>4. Consistent(nav)'
    BY <2>1 DEF IInv, Consistent, Unfolded, Marked, Visible, Belongs, Leads, LeadsTo
  <2>5. FollowsScan'
    BY <1>3 DEF ReaderScrolls, MovedTo, FollowsScan
  <2>. QED  BY <2>2, <2>3, <2>4, <2>5 DEF IInv
<1>4. ASSUME NEW h \in Headings, FollowHash(h) PROVE IInv'
  <2>. DEFINE p == IF Top[tab][h] <= Bottom[tab] THEN Top[tab][h] ELSE Bottom[tab]
  <2>1. Top[tab][h] \in Nat
    BY <1>t, PageAssumption
  <2>2. p \in 0..Bottom[tab] /\ p \in Nat
    BY <1>t, <2>1
  <2>3. MovedTo(p) /\ nav' = nav /\ hashes' = hashes + 1
    BY <1>4 DEF FollowHash
  <2>. HIDE DEF p
  <2>4. /\ pending' \in Seq([to: 0..N, still: BOOLEAN])
        /\ TargetIsFresh' /\ scrolled' \in BOOLEAN
    BY <2>2, <2>3, MoveLemma DEF IInv
  <2>5. TypeOK'
    BY <1>4, <1>m, <1>t, <2>2, <2>3, <2>4 DEF TypeOK, FollowHash, MovedTo
  <2>6. Consistent(nav)'
    BY <2>3 DEF IInv, Consistent, Unfolded, Marked, Visible, Belongs, Leads, LeadsTo
  <2>7. FollowsScan'
    BY <2>3, <1>t DEF FollowsScan
  <2>. QED  BY <2>4, <2>5, <2>6, <2>7 DEF IInv
<1>5. CASE OnScroll
  <2>1. /\ nav' \in Navs /\ Consistent(nav)'
        /\ FollowsScan'
        /\ ScrollToken(Refreshed)' = ScrollToken(Refreshed)
    BY <1>5, HandlerLemma DEF OnScroll
  <2>2. TypeOK'
    BY <1>5, <1>t, <2>1 DEF TypeOK, OnScroll
  <2>3. TargetIsFresh'
    BY <1>5, <2>1 DEF IInv, TargetIsFresh, OnScroll
  <2>. QED  BY <2>1, <2>2, <2>3 DEF IInv
<1>6. CASE OnHashChange
  <2>1. /\ nav' \in Navs /\ Consistent(nav)'
        /\ FollowsScan'
        /\ ScrollToken(Refreshed)' = ScrollToken(Refreshed)
    BY <1>6, HandlerLemma DEF OnHashChange
  <2>. DEFINE e == [to |-> ScrollToken(Refreshed), still |-> TRUE]
  <2>2. e \in [to: 0..N, still: BOOLEAN]
    BY <1>6, <2>1 DEF OnHashChange, ScrollToken, Navs
  <2>. HIDE DEF e
  <2>3. /\ pending' \in Seq([to: 0..N, still: BOOLEAN])
        /\ DOMAIN pending' = 1..(Len(pending) + 1)
        /\ \A k \in DOMAIN pending' :
              pending'[k] = IF k \in DOMAIN pending THEN pending[k] ELSE e
    <3>1. pending' = Append(pending, e)
      BY <1>6 DEF OnHashChange, e
    <3>. QED  BY <3>1, <1>t, <2>2, AppendProperties, LenProperties
  <2>4. TypeOK'
    <3>1. hashes' \in Nat /\ shifted' \in BOOLEAN
      <4>1. hashes \in Nat /\ hashes > 0 /\ hashes' = hashes - 1
        BY <1>6, <1>t DEF OnHashChange
      <4>2. shifted' \in BOOLEAN
        BY <1>6 DEF OnHashChange
      <4>. QED  BY <4>1, <4>2
    <3>2. UNCHANGED <<scroll, tab, sidebar, scrolled, moves>>
      BY <1>6 DEF OnHashChange
    <3>3. nav' \in Navs /\ pending' \in Seq([to: 0..N, still: BOOLEAN])
      BY <2>1, <2>3
    <3>. QED  BY <1>t, <3>1, <3>2, <3>3 DEF TypeOK
  <2>5. TargetIsFresh'
    <3>1. e.to = ScrollToken(Refreshed)
      BY DEF e
    <3>. QED  BY <3>1, <2>1, <2>3 DEF IInv, TargetIsFresh
  <2>. QED  BY <2>1, <2>4, <2>5 DEF IInv
<1>7. CASE ScrollToNav
  <2>1. /\ nav' \in Navs /\ Consistent(nav)'
        /\ FollowsScan'
        /\ ScrollToken(Refreshed)' = ScrollToken(Refreshed)
    BY <1>7, HandlerLemma DEF ScrollToNav
  <2>2. /\ pending' \in Seq([to: 0..N, still: BOOLEAN])
        /\ \A k \in DOMAIN pending' : k + 1 \in DOMAIN pending
                                      /\ pending'[k] = pending[k + 1]
    BY <1>7, <1>t, HeadTailProperties, LenProperties DEF ScrollToNav
  <2>3. Head(pending).to \in 0..N
    <3>1. pending # <<>>
      BY <1>7 DEF ScrollToNav
    <3>2. Head(pending) \in [to: 0..N, still: BOOLEAN]
      BY <1>t, <3>1, HeadTailProperties
    <3>. QED  BY <3>2
  <2>4. TypeOK'
    BY <1>7, <1>t, <2>1, <2>2, <2>3 DEF TypeOK, ScrollToNav
  <2>5. TargetIsFresh'
    BY <2>1, <2>2 DEF IInv, TargetIsFresh
  <2>. QED  BY <2>1, <2>4, <2>5 DEF IInv
<1>8. CASE UNCHANGED vars
  BY <1>8 DEF vars, IInv, TypeOK, Consistent, Unfolded, Marked, Visible, Belongs,
              Leads, LeadsTo, TargetIsFresh, Refreshed, FollowsScan
<1>. QED  BY <1>1, <1>2, <1>3, <1>4, <1>5, <1>6, <1>7, <1>8 DEF Next

-----------------------------------------------------------------------------
(***************************************************************************)
(* The inductive invariant always holds.                                   *)
(***************************************************************************)
THEOREM Invariance == Spec => []IInv
BY InitLemma, NextLemma, PTL DEF Spec

(***************************************************************************)
(* The variables always have their types: in particular the window never   *)
(* stands past the end of the page.                                        *)
(***************************************************************************)
THEOREM TypeCorrect == Spec => []TypeOK
BY Invariance, PTL DEF IInv

(***************************************************************************)
(* One list of each level is unfolded, the one remembered, and they belong *)
(* together wherever there are subsections.                                *)
(***************************************************************************)
THEOREM OneListUnfolded == Spec => []OneUnfolded
<1>1. IInv => OneUnfolded
  BY DEF IInv, Consistent, Unfolded, Belongs, OneUnfolded
<1>. QED  BY <1>1, Invariance, PTL

(***************************************************************************)
(* The marked link is never inside a folded list.                          *)
(***************************************************************************)
THEOREM MarkIsVisible == Spec => []MarkedIsVisible
<1>1. IInv => MarkedIsVisible
  BY DEF IInv, Consistent, Marked, Visible, MarkedIsVisible
<1>. QED  BY <1>1, Invariance, PTL

(***************************************************************************)
(* Without events to come the sidebar is where the reader is, unless a tab *)
(* has moved the headings.                                                 *)
(***************************************************************************)
THEOREM Follows == Spec => []FollowsUnlessShifted
<1>1. IInv => FollowsUnlessShifted
  <2>. SUFFICES ASSUME FollowsScan, ~scrolled, hashes = 0, ~shifted,
                       NEW h \in Headings, LastReached(h)
                PROVE  nav.elem = h /\ nav.section \in {h} \union Ancestors(h)
    BY DEF IInv, FollowsUnlessShifted
  <2>1. PICK at : at = CheckNodePositions(Headings, tab, scroll)
    OBVIOUS
  <2>2. /\ at # 0 /\ at \in Headings
        /\ Reached(at, tab, scroll) /\ h <= at
    BY <2>1, CheckLemma DEF LastReached
  <2>3. at = h
    BY <2>2, PageAssumption DEF LastReached, Headings
  <2>. QED  BY <2>1, <2>2, <2>3 DEF FollowsScan
<1>. QED  BY <1>1, Invariance, PTL

(***************************************************************************)
(* The delayed scrolling of the sidebar ends at a link that can be seen.   *)
(***************************************************************************)
THEOREM SidebarIsSeen == Spec => SidebarFollows
<1>. DEFINE Seen ==
        /\ Len(pending') < Len(pending)
        /\ Head(pending).still
        /\ nav.section # 0
        /\ Subsections(nav'.section) # {}
        => /\ sidebar' \in {nav'.elem} \union Ancestors(nav'.elem)
           /\ Ancestors(sidebar') \subseteq nav'.shown
<1>1. IInv /\ IInv' /\ [Next]_vars => [Seen]_vars
  <2>. SUFFICES ASSUME IInv, IInv', Next,
                       Len(pending') < Len(pending),
                       Head(pending).still,
                       nav.section # 0,
                       Subsections(nav'.section) # {}
                PROVE  /\ sidebar' \in {nav'.elem} \union Ancestors(nav'.elem)
                       /\ Ancestors(sidebar') \subseteq nav'.shown
    OBVIOUS
  <2>1. pending \in Seq([to: 0..N, still: BOOLEAN]) /\ Len(pending) \in Nat
    BY LenProperties DEF IInv, TypeOK
  <2>2. ScrollToNav
    <3>1. ASSUME NEW p \in Nat, MovedTo(p) PROVE FALSE
      BY <3>1, <2>1, MoveLemma DEF IInv
    <3>2. ASSUME NEW t \in Layouts, Show(t) PROVE FALSE
      BY <3>1, <3>2, PageAssumption DEF Show
    <3>3. ~SetDefautTab /\ ~ \E t \in Tabs : ClickTab(t)
      BY <3>2, PageAssumption DEF SetDefautTab, ClickTab, Layouts
    <3>4. ~ \E p \in 0..Bottom[tab] : ReaderScrolls(p)
      BY <3>1 DEF ReaderScrolls
    <3>5. ~ \E h \in Headings : FollowHash(h)
      BY <3>1, PageAssumption DEF FollowHash, IInv, TypeOK
    <3>6. ~OnScroll
      BY <2>1 DEF OnScroll
    <3>7. ~OnHashChange
      BY <2>1, AppendProperties DEF OnHashChange
    <3>. QED  BY <3>3, <3>4, <3>5, <3>6, <3>7 DEF Next
  <2>3. nav' = Refreshed /\ nav'.section # 0 /\ nav'.section \in Headings
    <3>1. nav' = Refreshed
      BY <2>2 DEF ScrollToNav
    <3>2. nav'.section # 0
      BY <3>1, RefreshedLemma DEF IInv
    <3>. QED  BY <3>1, <3>2 DEF IInv, TypeOK, Navs, Headings
  <2>4. Head(pending).to = ScrollToken(nav')
    <3>1. 1 \in DOMAIN pending /\ Head(pending) = pending[1]
      BY <2>1, <2>2, HeadTailProperties, LenProperties, EmptySeq DEF ScrollToNav
    <3>. QED  BY <3>1, <2>3 DEF IInv, TargetIsFresh
  <2>5. sidebar' = ScrollToken(nav')
    BY <2>2, <2>3, <2>4 DEF ScrollToNav, ScrollToken
  <2>6. Consistent(nav')
    BY DEF IInv, Consistent, Unfolded, Marked, Visible, Belongs, Leads, LeadsTo
  <2>7. CASE nav'.subsection = 0
    <3>1. sidebar' = nav'.section /\ nav'.section \in Sections
      BY <2>3, <2>5, <2>6, <2>7 DEF ScrollToken, Consistent, Leads
    <3>2. Ancestors(sidebar') = {}
      BY <3>1, <2>3 DEF Ancestors, Up, Sections, Subsections
    <3>. QED  BY <3>1, <3>2, <2>3, <2>6 DEF Consistent, Leads, LeadsTo
  <2>8. CASE nav'.subsection # 0
    <3>1. sidebar' = nav'.subsection /\ nav'.subsection \in Subsections(nav'.section)
      BY <2>5, <2>6, <2>8 DEF ScrollToken, Consistent, Belongs
    <3>2. Ancestors(sidebar') = {nav'.section}
      BY <3>1, <2>3, <2>6, <2>8 DEF Consistent, Leads, Ancestors, Up, Sections, Subsections
    <3>3. nav'.section \in nav'.shown
      BY <2>3, <2>6 DEF Consistent, Unfolded, NavNode
    <3>. QED  BY <3>1, <3>2, <3>3, <2>6 DEF Consistent, Leads, LeadsTo
  <2>. QED  BY <2>7, <2>8
<1>. QED  BY <1>1, Invariance, PTL DEF Spec, SidebarFollows
===============================================================================
