------------------------------ MODULE Accordion ------------------------------
(***************************************************************************)
(* The table of contents of a docs page (script.js, "accordion"): items    *)
(* that open and close with an animation, and the two flags that keep the  *)
(* animations apart, moving and yah ("you are here").                      *)
(*                                                                         *)
(* Time is counted in units of CSS_BROWSER_HACK_DELAY, which orders the    *)
(* three delays as the page does.                                          *)
(***************************************************************************)
EXTENDS Naturals, Sequences, Timeouts

CONSTANTS
    Containers,   \* items with content of their own
    Links,        \* items without
    Within,       \* the containers around an item, at every depth
    HackDelay,    \* CSS_BROWSER_HACK_DELAY, 25 ms
    Duration,     \* transition-duration of .wrapper, 300 ms
    YahTime,      \* how long yah holds, 500 ms
    MaxClicks     \* bound: clicks

ASSUME DelaysAssumption ==
    /\ HackDelay \in Nat \ {0} /\ Duration \in Nat /\ YahTime \in Nat
    /\ MaxClicks \in Nat

Items == Containers \union Links

ASSUME ItemsAssumption ==
    /\ Containers \intersect Links = {}
    /\ Within \in [Items -> SUBSET Containers]
    /\ \A c \in Containers : c \notin Within[c]
    /\ \A i \in Items : \A c \in Within[i] : Within[c] \subseteq Within[i]

Heights == {"zero", "content", "auto"}
Tasks == ({"clicked", "closed", "opened"} \X Items) \union {<<"yah", "page">>}

VARIABLES
    on,        \* containers with class "on"
    height,    \* height in the style of each container's wrapper
    moving,
    yah,
    timers,
    clicks,
    early      \* history: a click was accepted while yah held

vars == <<on, height, moving, yah, timers, clicks, early>>

TypeOK ==
    /\ on \in SUBSET Containers
    /\ height \in [Containers -> Heights]
    /\ moving \in BOOLEAN /\ yah \in BOOLEAN /\ early \in BOOLEAN
    /\ \A k \in DOMAIN timers :
          timers[k].task \in Tasks /\ timers[k].left \in Nat
    /\ clicks \in 0..MaxClicks

\* CollapseBox calls itself for the content of every container: each gets a
\* wrapper, and each wrapper is closed.
CollapseBox == [c \in Containers |-> "zero"]

\* setYAH: what contains the links to this page, any number of them, is open.
SetYAH(here) == UNION {Within[link] : link \in here}

\* Document ready.
Init ==
    /\ \E here \in SUBSET Links : on = SetYAH(here)
    /\ height = [c \in Containers |-> IF c \in on THEN "auto" ELSE CollapseBox[c]]
    /\ moving = FALSE
    /\ yah = TRUE
    /\ timers = SetTimeout(NoTimeouts, <<"yah", "page">>, YahTime)
    /\ clicks = 0
    /\ early = FALSE

-------------------------------------------------------------------------------
\* Faulty variant: a click that does not look at moving.
ClickWhileMoving(i) ==
    /\ clicks < MaxClicks
    /\ moving' = (moving \/ ~yah)
    /\ timers' = SetTimeout(timers, <<"clicked", i>>, HackDelay)
    /\ clicks' = clicks + 1
    /\ early' = (early \/ yah)
    /\ UNCHANGED <<on, height, yah>>

(***************************************************************************)
(* The click on an item's title: ignored while something moves, unless yah *)
(* still holds.                                                            *)
(***************************************************************************)
Click(i) ==
    /\ clicks < MaxClicks
    /\ yah \/ ~moving
    /\ moving' = (moving \/ ~yah)
    /\ timers' = SetTimeout(timers, <<"clicked", i>>, HackDelay)
    /\ clicks' = clicks + 1
    /\ early' = (early \/ yah)
    /\ UNCHANGED <<on, height, yah>>

\* The next callback that is due, and what it leaves of the timers.
Runs(task) == IsDue(timers) /\ DueTask(timers) = task

\* Faulty variant: a link's click returns without resetting moving.
FollowLinkMoving(i) ==
    /\ i \in Links
    /\ Runs(<<"clicked", i>>)
    /\ timers' = WithoutDue(timers)
    /\ UNCHANGED <<on, height, moving, yah, clicks, early>>

FollowLink(i) ==
    /\ i \in Links
    /\ Runs(<<"clicked", i>>)
    /\ timers' = WithoutDue(timers)
    /\ moving' = FALSE
    /\ UNCHANGED <<on, height, yah, clicks, early>>

\* Faulty variant: without "if (!isContainer)".
OpenAnything(i) ==
    /\ i \in Items \ on
    /\ Runs(<<"clicked", i>>)
    /\ on' = on \union {i}
    /\ height' = [height EXCEPT ![i] = "content"]
    /\ timers' = SetTimeout(WithoutDue(timers), <<"opened", i>>, Duration)
    /\ UNCHANGED <<moving, yah, clicks, early>>

(***************************************************************************)
(* toggleItem fixes the height to start the animation from.                *)
(***************************************************************************)
Open(c) ==
    /\ c \in Containers \ on
    /\ Runs(<<"clicked", c>>)
    /\ on' = on \union {c}
    /\ height' = [height EXCEPT ![c] = "content"]
    /\ timers' = SetTimeout(WithoutDue(timers), <<"opened", c>>, Duration)
    /\ UNCHANGED <<moving, yah, clicks, early>>

Close(c) ==
    /\ c \in on
    /\ Runs(<<"clicked", c>>)
    /\ on' = on \ {c}
    /\ height' = [height EXCEPT ![c] = "content"]
    /\ timers' = SetTimeout(WithoutDue(timers), <<"closed", c>>, HackDelay)
    /\ UNCHANGED <<moving, yah, clicks, early>>

Opened(c) ==
    /\ Runs(<<"opened", c>>)
    /\ height' = [height EXCEPT ![c] = "auto"]
    /\ moving' = FALSE
    /\ timers' = WithoutDue(timers)
    /\ UNCHANGED <<on, yah, clicks, early>>

Closed(c) ==
    /\ Runs(<<"closed", c>>)
    /\ height' = [height EXCEPT ![c] = "zero"]
    /\ moving' = FALSE
    /\ timers' = WithoutDue(timers)
    /\ UNCHANGED <<on, yah, clicks, early>>

YahEnds ==
    /\ Runs(<<"yah", "page">>)
    /\ yah' = FALSE
    /\ timers' = WithoutDue(timers)
    /\ UNCHANGED <<on, height, moving, clicks, early>>

Callback ==
    \/ \E i \in Items : FollowLink(i) \/ Open(i) \/ Close(i)
    \/ \E c \in Containers : Opened(c) \/ Closed(c)
    \/ YahEnds

Tick ==
    /\ timers # NoTimeouts /\ ~IsDue(timers)
    /\ timers' = Elapse(timers)
    /\ UNCHANGED <<on, height, moving, yah, clicks, early>>

Next ==
    \/ \E i \in Items : Click(i)
    \/ Callback
    \/ Tick

Spec == Init /\ [][Next]_vars

\* Time passes and the browser runs the callbacks that are due.
FairSpec == Spec /\ WF_vars(Callback \/ Tick)

-------------------------------------------------------------------------------
(* Properties.                                                             *)

Shows(c) == height[c] = IF c \in on THEN "auto" ELSE "zero"

\* At most one callback is pending, and it resets moving or leads to it.
OneAtATime == Len(timers) = IF moving THEN 1 ELSE 0

(***************************************************************************)
(* However the clicks and the delayed steps of the animations interleave,  *)
(* once yah is over there is one animation at a time, and when nothing     *)
(* moves any more an item has the height of its content exactly when it    *)
(* has class "on"; unless a click came before the flag moving was in       *)
(* force.                                                                  *)
(***************************************************************************)
SettlesUnlessEarly ==
    ~early =>
        /\ ~yah => OneAtATime
        /\ timers = NoTimeouts => \A c \in Containers : Shows(c)

\* The accordion never stops taking clicks.
MovingEnds == moving ~> ~moving

(***************************************************************************)
(* "enclosed in a wrapper with height = 0 when closed, and height =        *)
(* contentHeight when open", when nothing moves.                           *)
(***************************************************************************)
ClosedHasNoHeight ==
    timers = NoTimeouts => \A c \in Containers : c \notin on => height[c] = "zero"
=============================================================================
