-------------------------- MODULE PageScriptsProofs --------------------------
(***************************************************************************)
(* What is proved of the scripts that MCPageScripts composes, for all      *)
(* delays, any page and any number of clicks.  They share no variable.     *)
(***************************************************************************)
EXTENDS Accordion, AutoBurger, VideoPlayer, PartnerBoxes, Redirects, JourneyToc,
        SequenceLemmas, FunctionTheorems

-------------------------------------------------------------------------------
(* The accordion.                                                          *)

YahTask == <<"yah", "page">>

Typed ==
    /\ on \in SUBSET Containers
    /\ height \in [Containers -> Heights]
    /\ moving \in BOOLEAN /\ yah \in BOOLEAN /\ early \in BOOLEAN
    /\ timers \in Timers(Tasks)
    /\ clicks \in 0..MaxClicks

\* What an item shows, and what may still be about to change it.
Explained(c) ==
    /\ Waits(timers, <<"opened", c>>) => c \in on
    /\ Waits(timers, <<"closed", c>>) => c \notin on
    /\ Shows(c) \/ Waits(timers, <<"opened", c>>) \/ Waits(timers, <<"closed", c>>)

(***************************************************************************)
(* Without an early click the only callback while yah holds is the one     *)
(* that ends it, and every item shows what it should; later there is one   *)
(* callback while something moves, and none otherwise.                     *)
(***************************************************************************)
Calm ==
    ~early =>
        /\ yah => /\ Len(timers) = 1 /\ Waits(timers, YahTask) /\ ~moving
                  /\ \A c \in Containers : Shows(c)
        /\ ~yah => /\ OneAtATime /\ ~Waits(timers, YahTask)
                   /\ \A c \in Containers : Explained(c)

AccordionInv == Typed /\ Calm

LEMMA TaskLemma ==
    /\ YahTask \in Tasks
    /\ \A i \in Items : <<"clicked", i>> \in Tasks /\ <<"clicked", i>> # YahTask
    /\ \A c \in Containers : /\ <<"opened", c>> \in Tasks /\ <<"closed", c>> \in Tasks
                             /\ <<"opened", c>> # YahTask /\ <<"closed", c>> # YahTask
    /\ \A c, d : /\ <<"opened", c>> # <<"closed", d>>
                 /\ <<"clicked", c>> # <<"closed", d>>
                 /\ <<"clicked", c>> # <<"opened", d>>
                 /\ <<"opened", c>> = <<"opened", d>> => c = d
                 /\ <<"closed", c>> = <<"closed", d>> => c = d
BY DEF YahTask, Tasks, Items

(***************************************************************************)
(* A callback other than the end of yah is the only one, while something   *)
(* moves.                                                                  *)
(***************************************************************************)
LEMMA AloneLemma ==
    ASSUME AccordionInv, NEW task, Runs(task), task # YahTask, ~early
    PROVE  /\ ~yah /\ moving = TRUE
           /\ \A t : Waits(timers, t) <=> t = task
           /\ Len(WithoutDue(timers)) = 0
           /\ \A t : ~Waits(WithoutDue(timers), t)
<1>1. timers \in Timers(Tasks) /\ IsDue(timers) /\ DueTask(timers) = task
  BY DEF AccordionInv, Typed, Runs
<1>2. /\ \E k \in DOMAIN timers : task = timers[k].task
      /\ WithoutDue(timers) \in Timers(Tasks)
      /\ Len(WithoutDue(timers)) + 1 = Len(timers)
  BY <1>1, WithoutDueLemma
<1>3. /\ Len(WithoutDue(timers)) \in Nat /\ Len(timers) \in Nat
      /\ DOMAIN timers = 1..Len(timers)
      /\ DOMAIN WithoutDue(timers) = 1..Len(WithoutDue(timers))
  BY <1>1, <1>2 DEF Timers
<1>4. Len(timers) = 1
  BY <1>2, <1>3 DEF AccordionInv, Calm, OneAtATime, Typed
<1>5. \A t : Waits(timers, t) <=> t = task
  BY <1>2, <1>3, <1>4 DEF Waits
<1>6. ~yah
  BY <1>5 DEF AccordionInv, Calm
<1>7. moving = TRUE
  BY <1>4, <1>6 DEF AccordionInv, Calm, OneAtATime, Typed
<1>8. Len(WithoutDue(timers)) = 0
  BY <1>2, <1>3, <1>4
<1>9. \A t : ~Waits(WithoutDue(timers), t)
  BY <1>3, <1>8 DEF Waits
<1>. QED  BY <1>5, <1>6, <1>7, <1>8, <1>9

LEMMA AccordionInit == Init => AccordionInv
<1>. SUFFICES ASSUME Init PROVE AccordionInv
  OBVIOUS
<1>1. PICK here \in SUBSET Links : on = SetYAH(here)
  BY DEF Init
<1>2. on \in SUBSET Containers
  BY <1>1, ItemsAssumption DEF SetYAH, Items
<1>3. height = [c \in Containers |-> IF c \in on THEN "auto" ELSE "zero"]
  BY DEF Init, CollapseBox
<1>4. height \in [Containers -> Heights]
  BY <1>3 DEF Heights
<1>5. timers = SetTimeout(NoTimeouts, YahTask, YahTime) /\ YahTime \in Nat
  BY DelaysAssumption DEF Init, YahTask
<1>6. timers \in Timers(Tasks) /\ Len(timers) = 1 /\ Waits(timers, YahTask)
  <2>1. YahTask \in Tasks /\ NoTimeouts \in Timers(Tasks) /\ Len(NoTimeouts) = 0
    BY TaskLemma, NoTimeoutsLemma
  <2>2. /\ SetTimeout(NoTimeouts, YahTask, YahTime) \in Timers(Tasks)
        /\ Len(SetTimeout(NoTimeouts, YahTask, YahTime)) = Len(NoTimeouts) + 1
        /\ \A t : Waits(SetTimeout(NoTimeouts, YahTask, YahTime), t)
                    <=> Waits(NoTimeouts, t) \/ t = YahTask
    BY <1>5, <2>1, SetTimeoutLemma, Zenon
  <2>3. Waits(timers, YahTask)
    BY <1>5, <2>2
  <2>. QED  BY <1>5, <2>1, <2>2, <2>3
<1>7. \A c \in Containers : Shows(c)
  BY <1>3 DEF Shows
<1>8. clicks \in 0..MaxClicks
  BY DelaysAssumption DEF Init
<1>9. moving = FALSE /\ yah = TRUE /\ early = FALSE
  BY DEF Init
<1>10. Typed
  BY <1>2, <1>4, <1>6, <1>8, <1>9 DEF Typed
<1>. QED  BY <1>6, <1>7, <1>9, <1>10 DEF AccordionInv, Calm

-------------------------------------------------------------------------------
(* One lemma for each action of the accordion.                             *)

LEMMA ClickStep ==
    ASSUME AccordionInv, NEW i \in Items, Click(i) PROVE AccordionInv'
<1>1. /\ timers \in Timers(Tasks) /\ HackDelay \in Nat
      /\ timers' = SetTimeout(timers, <<"clicked", i>>, HackDelay)
  BY DelaysAssumption DEF AccordionInv, Typed, Click
<1>2. /\ timers' \in Timers(Tasks)
      /\ Len(timers') = Len(timers) + 1
      /\ \A t : Waits(timers', t) <=> Waits(timers, t) \/ t = <<"clicked", i>>
  <2>. DEFINE task == <<"clicked", i>>
  <2>1. task \in Tasks
    BY TaskLemma
  <2>. HIDE DEF task
  <2>2. /\ SetTimeout(timers, task, HackDelay) \in Timers(Tasks)
        /\ Len(SetTimeout(timers, task, HackDelay)) = Len(timers) + 1
        /\ \A t : Waits(SetTimeout(timers, task, HackDelay), t)
                    <=> Waits(timers, t) \/ t = task
    BY <1>1, <2>1, SetTimeoutLemma, Zenon
  <2>. QED  BY <1>1, <2>2 DEF task
<1>3. Typed'
  <2>1. clicks' \in 0..MaxClicks
    BY DelaysAssumption DEF AccordionInv, Typed, Click
  <2>. QED  BY <1>2, <2>1 DEF AccordionInv, Typed, Click
<1>4. Calm'
  <2>. SUFFICES ASSUME ~early' PROVE Calm'
    BY DEF Calm
  <2>1. ~early /\ ~yah /\ ~moving /\ moving' = TRUE /\ ~yah'
    BY DEF AccordionInv, Typed, Click
  <2>2. Len(timers) = 0
    BY <2>1 DEF AccordionInv, Calm, OneAtATime
  <2>3. Len(timers') = 1
    BY <1>2, <2>2
  <2>4. ~Waits(timers', YahTask)
    BY <1>2, <2>1, TaskLemma DEF AccordionInv, Calm
  <2>5. OneAtATime'
    BY <2>1, <2>3 DEF OneAtATime
  <2>6. ASSUME NEW c \in Containers PROVE Explained(c)'
    <3>1. Explained(c)
      BY <2>1 DEF AccordionInv, Calm
    <3>2. on' = on /\ height' = height
      BY DEF Click
    <3>3. /\ Waits(timers', <<"opened", c>>) <=> Waits(timers, <<"opened", c>>)
          /\ Waits(timers', <<"closed", c>>) <=> Waits(timers, <<"closed", c>>)
      BY <1>2, TaskLemma
    <3>. QED  BY <3>1, <3>2, <3>3 DEF Explained, Shows
  <2>. QED  BY <2>1, <2>4, <2>5, <2>6 DEF Calm
<1>. QED  BY <1>3, <1>4 DEF AccordionInv

LEMMA FollowLinkStep ==
    ASSUME AccordionInv, NEW i \in Items, FollowLink(i) PROVE AccordionInv'
<1>1. Runs(<<"clicked", i>>) /\ timers' = WithoutDue(timers)
  BY DEF FollowLink
<1>2. timers' \in Timers(Tasks)
  BY <1>1, WithoutDueLemma DEF AccordionInv, Typed, Runs
<1>3. Typed'
  BY <1>2 DEF AccordionInv, Typed, FollowLink
<1>4. Calm'
  <2>. SUFFICES ASSUME ~early' PROVE Calm'
    BY DEF Calm
  <2>0. ~early
    BY DEF FollowLink
  <2>1. /\ ~yah
        /\ \A t : Waits(timers, t) <=> t = <<"clicked", i>>
        /\ Len(timers') = 0
        /\ \A t : ~Waits(timers', t)
    BY <1>1, <2>0, AloneLemma, TaskLemma
  <2>2. OneAtATime' /\ ~yah'
    BY <2>1 DEF OneAtATime, FollowLink
  <2>3. ASSUME NEW c \in Containers PROVE Explained(c)'
    <3>1. Explained(c)
      BY <2>0, <2>1 DEF AccordionInv, Calm
    <3>2. Shows(c)
      BY <2>1, <3>1, TaskLemma DEF Explained
    <3>. QED  BY <2>1, <3>2 DEF Explained, Shows, FollowLink
  <2>. QED  BY <2>1, <2>2, <2>3 DEF Calm
<1>. QED  BY <1>3, <1>4 DEF AccordionInv

(***************************************************************************)
(* The callback of a click leaves its animation's next step as the only    *)
(* one.                                                                    *)
(***************************************************************************)
LEMMA AnimateLemma ==
    ASSUME AccordionInv, NEW c \in Items, Runs(<<"clicked", c>>),
           NEW next \in Tasks, NEW delay \in {HackDelay, Duration}
    PROVE  /\ SetTimeout(WithoutDue(timers), next, delay) \in Timers(Tasks)
           /\ ~early => /\ ~yah /\ moving = TRUE
                        /\ Len(SetTimeout(WithoutDue(timers), next, delay)) = 1
                        /\ \A t : Waits(timers, t) <=> t = <<"clicked", c>>
                        /\ \A t : Waits(SetTimeout(WithoutDue(timers), next, delay), t)
                                  <=> t = next
<1>1. WithoutDue(timers) \in Timers(Tasks)
  BY WithoutDueLemma DEF AccordionInv, Typed, Runs
<1>2. delay \in Nat
  BY DelaysAssumption
<1>3. /\ SetTimeout(WithoutDue(timers), next, delay) \in Timers(Tasks)
      /\ Len(SetTimeout(WithoutDue(timers), next, delay)) = Len(WithoutDue(timers)) + 1
      /\ \A t : Waits(SetTimeout(WithoutDue(timers), next, delay), t)
                <=> Waits(WithoutDue(timers), t) \/ t = next
  BY <1>1, <1>2, SetTimeoutLemma, Zenon
<1>4. ~early => /\ ~yah /\ moving = TRUE
                /\ \A t : Waits(timers, t) <=> t = <<"clicked", c>>
                /\ Len(WithoutDue(timers)) = 0
                /\ \A t : ~Waits(WithoutDue(timers), t)
  BY AloneLemma, TaskLemma
<1>. QED  BY <1>3, <1>4

LEMMA OpenStep ==
    ASSUME AccordionInv, NEW c \in Items, Open(c) PROVE AccordionInv'
<1>1. /\ c \in Containers /\ c \notin on /\ on' = on \union {c}
      /\ Runs(<<"clicked", c>>) /\ <<"opened", c>> \in Tasks
      /\ timers' = SetTimeout(WithoutDue(timers), <<"opened", c>>, Duration)
      /\ height' = [height EXCEPT ![c] = "content"]
  BY TaskLemma DEF Open
<1>2. /\ timers' \in Timers(Tasks)
      /\ ~early => /\ ~yah /\ moving = TRUE /\ Len(timers') = 1
                   /\ \A t : Waits(timers, t) <=> t = <<"clicked", c>>
                   /\ \A t : Waits(timers', t) <=> t = <<"opened", c>>
  BY <1>1, AnimateLemma
<1>3. Typed'
  <2>1. on' \in SUBSET Containers /\ height' \in [Containers -> Heights]
    BY <1>1 DEF AccordionInv, Typed, Heights
  <2>. QED  BY <1>2, <2>1 DEF AccordionInv, Typed, Open
<1>4. Calm'
  <2>. SUFFICES ASSUME ~early' PROVE Calm'
    BY DEF Calm
  <2>1. ~early /\ ~yah' /\ moving' = TRUE
    BY <1>2 DEF Open
  <2>2. OneAtATime' /\ ~Waits(timers', YahTask)
    BY <1>1, <1>2, <2>1, TaskLemma DEF OneAtATime
  <2>3. ASSUME NEW d \in Containers PROVE Explained(d)'
    <3>1. Shows(d)
      BY <1>2, <2>1, TaskLemma DEF AccordionInv, Calm, Explained
    <3>2. CASE d = c
      BY <1>1, <1>2, <2>1, <3>2, TaskLemma DEF Explained
    <3>3. CASE d # c
      <4>1. Shows(d)'
        BY <1>1, <3>1, <3>3 DEF Shows, AccordionInv, Typed
      <4>. QED  BY <1>2, <2>1, <3>3, <4>1, TaskLemma DEF Explained
    <3>. QED  BY <3>2, <3>3
  <2>. QED  BY <2>1, <2>2, <2>3 DEF Calm, YahTask
<1>. QED  BY <1>3, <1>4 DEF AccordionInv

LEMMA CloseStep ==
    ASSUME AccordionInv, NEW c \in Items, Close(c) PROVE AccordionInv'
<1>1. /\ c \in Containers /\ c \in on /\ on' = on \ {c}
      /\ Runs(<<"clicked", c>>) /\ <<"closed", c>> \in Tasks
      /\ timers' = SetTimeout(WithoutDue(timers), <<"closed", c>>, HackDelay)
      /\ height' = [height EXCEPT ![c] = "content"]
  BY TaskLemma DEF Close, AccordionInv, Typed
<1>2. /\ timers' \in Timers(Tasks)
      /\ ~early => /\ ~yah /\ moving = TRUE /\ Len(timers') = 1
                   /\ \A t : Waits(timers, t) <=> t = <<"clicked", c>>
                   /\ \A t : Waits(timers', t) <=> t = <<"closed", c>>
  BY <1>1, AnimateLemma
<1>3. Typed'
  <2>1. on' \in SUBSET Containers /\ height' \in [Containers -> Heights]
    BY <1>1 DEF AccordionInv, Typed, Heights
  <2>. QED  BY <1>2, <2>1 DEF AccordionInv, Typed, Close
<1>4. Calm'
  <2>. SUFFICES ASSUME ~early' PROVE Calm'
    BY DEF Calm
  <2>1. ~early /\ ~yah' /\ moving' = TRUE
    BY <1>2 DEF Close
  <2>2. OneAtATime' /\ ~Waits(timers', YahTask)
    BY <1>1, <1>2, <2>1, TaskLemma DEF OneAtATime
  <2>3. ASSUME NEW d \in Containers PROVE Explained(d)'
    <3>1. Shows(d)
      BY <1>2, <2>1, TaskLemma DEF AccordionInv, Calm, Explained
    <3>2. CASE d = c
      BY <1>1, <1>2, <2>1, <3>2, TaskLemma DEF Explained
    <3>3. CASE d # c
      <4>1. Shows(d)'
        BY <1>1, <3>1, <3>3 DEF Shows, AccordionInv, Typed
      <4>. QED  BY <1>2, <2>1, <3>3, <4>1, TaskLemma DEF Explained
    <3>. QED  BY <3>2, <3>3
  <2>. QED  BY <2>1, <2>2, <2>3 DEF Calm, YahTask
<1>. QED  BY <1>3, <1>4 DEF AccordionInv

LEMMA OpenedStep ==
    ASSUME AccordionInv, NEW c \in Containers, Opened(c) PROVE AccordionInv'
<1>1. /\ Runs(<<"opened", c>>) /\ timers' = WithoutDue(timers)
      /\ height' = [height EXCEPT ![c] = "auto"]
  BY DEF Opened
<1>2. timers' \in Timers(Tasks)
  BY <1>1, WithoutDueLemma DEF AccordionInv, Typed, Runs
<1>3. Typed'
  <2>1. height' \in [Containers -> Heights]
    BY <1>1 DEF AccordionInv, Typed, Heights
  <2>. QED  BY <1>2, <2>1 DEF AccordionInv, Typed, Opened
<1>4. Calm'
  <2>. SUFFICES ASSUME ~early' PROVE Calm'
    BY DEF Calm
  <2>0. ~early
    BY DEF Opened
  <2>1. /\ ~yah
        /\ \A t : Waits(timers, t) <=> t = <<"opened", c>>
        /\ Len(timers') = 0
        /\ \A t : ~Waits(timers', t)
    BY <1>1, <2>0, AloneLemma, TaskLemma
  <2>2. OneAtATime' /\ ~yah'
    BY <2>1 DEF OneAtATime, Opened
  <2>3. ASSUME NEW d \in Containers PROVE Explained(d)'
    <3>1. Explained(d)
      BY <2>0, <2>1 DEF AccordionInv, Calm
    <3>2. CASE d = c
      BY <1>1, <2>1, <3>1, <3>2 DEF Explained, Shows, Opened, AccordionInv, Typed
    <3>3. CASE d # c
      <4>1. Shows(d)
        BY <2>1, <3>1, <3>3, TaskLemma DEF Explained
      <4>. QED  BY <1>1, <2>1, <3>3, <4>1 DEF Explained, Shows, Opened, AccordionInv, Typed
    <3>. QED  BY <3>2, <3>3
  <2>. QED  BY <2>1, <2>2, <2>3 DEF Calm
<1>. QED  BY <1>3, <1>4 DEF AccordionInv

LEMMA ClosedStep ==
    ASSUME AccordionInv, NEW c \in Containers, Closed(c) PROVE AccordionInv'
<1>1. /\ Runs(<<"closed", c>>) /\ timers' = WithoutDue(timers)
      /\ height' = [height EXCEPT ![c] = "zero"]
  BY DEF Closed
<1>2. timers' \in Timers(Tasks)
  BY <1>1, WithoutDueLemma DEF AccordionInv, Typed, Runs
<1>3. Typed'
  <2>1. height' \in [Containers -> Heights]
    BY <1>1 DEF AccordionInv, Typed, Heights
  <2>. QED  BY <1>2, <2>1 DEF AccordionInv, Typed, Closed
<1>4. Calm'
  <2>. SUFFICES ASSUME ~early' PROVE Calm'
    BY DEF Calm
  <2>0. ~early
    BY DEF Closed
  <2>1. /\ ~yah
        /\ \A t : Waits(timers, t) <=> t = <<"closed", c>>
        /\ Len(timers') = 0
        /\ \A t : ~Waits(timers', t)
    BY <1>1, <2>0, AloneLemma, TaskLemma
  <2>2. OneAtATime' /\ ~yah'
    BY <2>1 DEF OneAtATime, Closed
  <2>3. ASSUME NEW d \in Containers PROVE Explained(d)'
    <3>1. Explained(d)
      BY <2>0, <2>1 DEF AccordionInv, Calm
    <3>2. CASE d = c
      BY <1>1, <2>1, <3>1, <3>2 DEF Explained, Shows, Closed, AccordionInv, Typed
    <3>3. CASE d # c
      <4>1. Shows(d)
        BY <2>1, <3>1, <3>3, TaskLemma DEF Explained
      <4>. QED  BY <1>1, <2>1, <3>3, <4>1 DEF Explained, Shows, Closed, AccordionInv, Typed
    <3>. QED  BY <3>2, <3>3
  <2>. QED  BY <2>1, <2>2, <2>3 DEF Calm
<1>. QED  BY <1>3, <1>4 DEF AccordionInv

LEMMA YahEndsStep ==
    ASSUME AccordionInv, YahEnds PROVE AccordionInv'
<1>1. /\ Runs(YahTask) /\ timers' = WithoutDue(timers) /\ yah' = FALSE
      /\ UNCHANGED <<on, height, moving, clicks, early>>
  BY DEF YahEnds, YahTask
<1>2. /\ \E k \in DOMAIN timers : YahTask = timers[k].task
      /\ timers' \in Timers(Tasks)
      /\ Len(timers') + 1 = Len(timers)
  BY <1>1, WithoutDueLemma DEF AccordionInv, Typed, Runs
<1>3. Typed'
  BY <1>1, <1>2 DEF AccordionInv, Typed
<1>4. Calm'
  <2>. SUFFICES ASSUME ~early' PROVE Calm'
    BY DEF Calm
  <2>1. /\ Len(timers) = 1 /\ ~moving
        /\ \A c \in Containers : Shows(c)
    BY <1>1, <1>2 DEF AccordionInv, Calm, Waits
  <2>2. Len(timers') = 0
    BY <1>2, <2>1 DEF Timers
  <2>3. \A t : ~Waits(timers', t)
    BY <1>2, <2>2 DEF Waits, Timers
  <2>4. OneAtATime' /\ ~yah'
    BY <1>1, <2>1, <2>2 DEF OneAtATime
  <2>5. \A c \in Containers : Explained(c)'
    BY <1>1, <2>1, <2>3 DEF Explained, Shows
  <2>. QED  BY <2>3, <2>4, <2>5 DEF Calm
<1>. QED  BY <1>3, <1>4 DEF AccordionInv

LEMMA TickStep ==
    ASSUME AccordionInv, Tick PROVE AccordionInv'
<1>1. /\ ~IsDue(timers) /\ timers' = Elapse(timers)
      /\ UNCHANGED <<on, height, moving, yah, clicks, early>>
  BY DEF Tick
<1>2. /\ timers' \in Timers(Tasks)
      /\ Len(timers') = Len(timers)
      /\ \A t : Waits(timers', t) <=> Waits(timers, t)
  BY <1>1, ElapseLemma DEF AccordionInv, Typed
<1>3. Typed'
  BY <1>1, <1>2 DEF AccordionInv, Typed
<1>4. \A c \in Containers : Explained(c)' <=> Explained(c)
  BY <1>1, <1>2 DEF Explained, Shows
<1>5. \A c \in Containers : Shows(c)' <=> Shows(c)
  BY <1>1 DEF Shows
<1>6. Calm'
  BY <1>1, <1>2, <1>4, <1>5 DEF AccordionInv, Calm, OneAtATime
<1>. QED  BY <1>3, <1>6 DEF AccordionInv

LEMMA AccordionStill ==
    ASSUME AccordionInv, UNCHANGED vars PROVE AccordionInv'
BY DEF AccordionInv, Typed, Calm, OneAtATime, Explained, Shows, vars

LEMMA AccordionNext == AccordionInv /\ [Next]_vars => AccordionInv'
<1>. SUFFICES ASSUME AccordionInv, [Next]_vars PROVE AccordionInv'
  OBVIOUS
<1>1. ASSUME NEW i \in Items, Click(i) PROVE AccordionInv'
  BY <1>1, ClickStep
<1>2. ASSUME NEW i \in Items, FollowLink(i) \/ Open(i) \/ Close(i) PROVE AccordionInv'
  BY <1>2, FollowLinkStep, OpenStep, CloseStep
<1>3. ASSUME NEW c \in Containers, Opened(c) \/ Closed(c) PROVE AccordionInv'
  BY <1>3, OpenedStep, ClosedStep
<1>4. CASE YahEnds \/ Tick
  BY <1>4, YahEndsStep, TickStep
<1>5. CASE UNCHANGED vars
  BY <1>5, AccordionStill
<1>. QED  BY <1>1, <1>2, <1>3, <1>4, <1>5 DEF Next, Callback

(***************************************************************************)
(* The accordion's variables keep their types (script.js, "accordion").    *)
(***************************************************************************)
THEOREM AccordionTypes == Spec => []TypeOK
<1>1. ASSUME timers \in Timers(Tasks), NEW k \in DOMAIN timers
      PROVE  timers[k].task \in Tasks /\ timers[k].left \in Nat
  <2>. DEFINE S == [task: Tasks, left: Nat]
  <2>1. timers[k] \in S
    <3>. HIDE DEF S
    <3>1. timers \in Seq(S)
      BY <1>1 DEF Timers, S
    <3>. QED  BY <3>1
  <2>. QED  BY <2>1
<1>2. Spec => []AccordionInv
  BY AccordionInit, AccordionNext, PTL DEF Spec
<1>3. AccordionInv => TypeOK
  BY <1>1 DEF AccordionInv, Typed, TypeOK
<1>. QED  BY <1>2, <1>3, PTL

(***************************************************************************)
(* However many clicks come, for all delays: without an early one there is *)
(* one animation at a time once yah is over, and what nothing moves shows  *)
(* what its class says.                                                    *)
(***************************************************************************)
THEOREM AccordionSettles == Spec => []SettlesUnlessEarly
<1>1. AccordionInv => SettlesUnlessEarly
  <2>1. timers = NoTimeouts => Len(timers) = 0 /\ \A t : ~Waits(timers, t)
    BY NoTimeoutsLemma
  <2>. QED  BY <2>1 DEF AccordionInv, Calm, Explained, SettlesUnlessEarly
<1>2. Spec => []AccordionInv
  BY AccordionInit, AccordionNext, PTL DEF Spec
<1>. QED  BY <1>1, <1>2, PTL
-------------------------------------------------------------------------------
(* The video player.                                                       *)

Fades == {"in", "out"}

Players == [displayed: BOOLEAN, source: {"none", "data-url"},
            overflow: {"visible", "hidden", "auto"}, handlers: Nat]

VideoTyped ==
    /\ video \in Players
    /\ fades \in Seq(Fades)
    /\ again \in BOOLEAN

\* The last fade of the queue decides whether the body scrolls, and what is
\* displayed, or will be, can be dismissed.
LastFadeDecides ==
    /\ video.displayed => video.handlers >= 1
    /\ \A k \in DOMAIN fades : fades[k] = "in" => video.handlers >= 1
    /\ fades # <<>> => (fades[Len(fades)] = "in" <=> video.overflow = "hidden")
    /\ fades # <<>> /\ fades[1] = "in" => video.displayed
    /\ fades = <<>> => /\ video.displayed <=> video.overflow = "hidden"
                       /\ ~video.displayed => video.source = "none"

\* Without a call while a fade-out was to end, no fade-in waits behind one, and
\* what is displayed, or about to be, has its source.
NoneOvertaken ==
    ~again =>
        /\ \A i, j \in DOMAIN fades : i < j /\ fades[i] = "out" => fades[j] = "out"
        /\ \A i \in DOMAIN fades : fades[i] = "in" => video.source = "data-url"
        /\ video.displayed => video.source = "data-url"

VideoInv == VideoTyped /\ LastFadeDecides /\ NoneOvertaken

LEMMA VideoInitLemma == VideoInit => VideoInv
<1>. SUFFICES ASSUME VideoInit PROVE VideoInv
  OBVIOUS
<1>1. video \in Players /\ again = FALSE
  BY DEF VideoInit, Players
<1>2. fades = <<>> /\ ~video.displayed /\ video.overflow # "hidden" /\ video.source = "none"
  BY DEF VideoInit
<1>3. fades \in Seq(Fades) /\ Len(fades) = 0
  BY <1>2, EmptySeq
<1>4. \A i \in DOMAIN fades : FALSE
  BY <1>3
<1>. QED  BY <1>1, <1>2, <1>3, <1>4
          DEF VideoInv, VideoTyped, LastFadeDecides, NoneOvertaken

LEMMA ShowVideoLemma == VideoInv /\ ShowVideo => VideoInv'
<1>. SUFFICES ASSUME VideoInv, ShowVideo PROVE VideoInv'
  OBVIOUS
<1>. DEFINE n == Len(fades)
<1>1. fades \in Seq(Fades) /\ fades' = Append(fades, "in") /\ "in" \in Fades
  BY DEF Fades, VideoInv, VideoTyped, ShowVideo
<1>2. /\ n \in Nat /\ DOMAIN fades = 1..n /\ DOMAIN fades' = 1..(n + 1)
      /\ Len(fades') = n + 1 /\ fades' \in Seq(Fades)
      /\ \A k \in 1..n : fades'[k] = fades[k]
      /\ fades'[n + 1] = "in"
  BY <1>1, AppendProperties
<1>3. fades' # <<>> /\ Head(fades') = fades'[1] /\ 1 \in DOMAIN fades'
  BY <1>2
<1>4. /\ video'.overflow = "hidden" /\ video'.source = "data-url"
      /\ video'.handlers = video.handlers + 1
      /\ (video'.displayed <=> video.displayed \/ fades'[1] = "in")
      /\ video' \in Players
  <2>1. PICK player : player = [video EXCEPT !.overflow = "hidden", !.source = "data-url",
                                            !.handlers = @ + 1]
    OBVIOUS
  <2>2. /\ player \in Players /\ player.overflow = "hidden"
        /\ player.source = "data-url" /\ player.handlers = video.handlers + 1
        /\ player.displayed = video.displayed
    <3>1. video \in Players
      BY DEF VideoInv, VideoTyped
    <3>2. video.handlers + 1 \in Nat
      BY <3>1 DEF Players
    <3>3. player = [displayed |-> video.displayed, source |-> "data-url",
                    overflow |-> "hidden", handlers |-> video.handlers + 1]
      BY <2>1, <3>1 DEF Players
    <3>. QED  BY <3>1, <3>2, <3>3 DEF Players
  <2>3. video' = IF fades'[1] = "in" THEN [player EXCEPT !.displayed = TRUE] ELSE player
    BY <1>1, <1>3, <2>1 DEF ShowVideo, Begins
  <2>. QED  BY <2>2, <2>3 DEF Players
<1>5. again' = (again \/ \E k \in DOMAIN fades : fades[k] = "out") /\ again' \in BOOLEAN
  BY DEF ShowVideo, VideoInv, VideoTyped
<1>6. VideoTyped'
  BY <1>2, <1>4, <1>5 DEF VideoTyped
<1>7. LastFadeDecides'
  <2>1. fades'[Len(fades')] = "in" /\ fades' # <<>>
    BY <1>2, <1>3
  <2>2. video'.handlers >= 1
    BY <1>4 DEF VideoInv, VideoTyped, Players
  <2>. QED  BY <1>4, <2>1, <2>2, Zenon DEF LastFadeDecides
<1>8. NoneOvertaken'
  <2>. SUFFICES ASSUME again' = FALSE PROVE NoneOvertaken'
    BY <1>5 DEF NoneOvertaken
  <2>1. \A k \in 1..n : fades[k] # "out"
    BY <1>2, <1>5
  <2>2. \A k \in 1..(n + 1) : k \in 1..n \/ k = n + 1
    BY <1>2
  <2>3. \A k \in DOMAIN fades' : fades'[k] # "out"
    BY <1>2, <2>1, <2>2
  <2>. QED  BY <1>4, <2>3, Zenon DEF NoneOvertaken
<1>. QED  BY <1>6, <1>7, <1>8 DEF VideoInv

LEMMA ClickPlayerLemma == VideoInv /\ ClickPlayer => VideoInv'
<1>. SUFFICES ASSUME VideoInv, ClickPlayer PROVE VideoInv'
  OBVIOUS
<1>. DEFINE n == Len(fades)
            m == video.handlers
            outs == [k \in 1..m |-> "out"]
<1>1. /\ fades \in Seq(Fades) /\ fades' = fades \o outs
      /\ m \in Nat /\ m >= 1
  BY DEF VideoInv, VideoTyped, LastFadeDecides, ClickPlayer, Players
<1>2. outs \in Seq(Fades) /\ Len(outs) = m /\ \A k \in 1..m : outs[k] = "out"
  BY <1>1 DEF Fades
<1>. HIDE DEF outs, m
<1>3. /\ n \in Nat /\ DOMAIN fades = 1..n /\ DOMAIN fades' = 1..(n + m)
      /\ Len(fades') = n + m /\ fades' \in Seq(Fades)
      /\ \A k \in 1..n : fades'[k] = fades[k]
  <2>1. n \in Nat /\ DOMAIN fades = 1..n
    BY <1>1
  <2>2. /\ fades' \in Seq(Fades) /\ Len(fades') = n + m
        /\ \A k \in 1..(n + m) : fades'[k] = IF k <= n THEN fades[k] ELSE outs[k - n]
    BY <1>1, <1>2, ConcatProperties
  <2>3. \A k \in 1..n : k \in 1..(n + m) /\ k <= n
    BY <1>1, <2>1
  <2>. QED  BY <2>1, <2>2, <2>3
<1>4. \A k \in (n + 1)..(n + m) : fades'[k] = "out"
  <2>. SUFFICES ASSUME NEW k \in (n + 1)..(n + m) PROVE fades'[k] = "out"
    OBVIOUS
  <2>1. k - n \in 1..m
    BY <1>1, <1>3
  <2>2. fades'[k] = outs[k - n]
    BY <1>1, <1>2, <1>3, <2>1, ConcatProperties
  <2>. QED  BY <1>2, <2>1, <2>2
<1>5. /\ video'.overflow = "auto" /\ video'.source = video.source
      /\ video'.handlers = m /\ video'.displayed
      /\ video' \in Players
  BY DEF ClickPlayer, VideoInv, VideoTyped, m, Players
<1>6. again' = again
  BY DEF ClickPlayer
<1>7. VideoTyped'
  BY <1>3, <1>5, <1>6 DEF VideoTyped, VideoInv
<1>8. n + m \in (n + 1)..(n + m) /\ fades' # <<>>
  BY <1>1, <1>3
<1>9. LastFadeDecides'
  BY <1>1, <1>3, <1>4, <1>5, <1>8 DEF LastFadeDecides
<1>10. NoneOvertaken'
  <2>. SUFFICES ASSUME ~again PROVE NoneOvertaken'
    BY <1>6 DEF NoneOvertaken
  <2>1. \A i \in 1..(n + m) : i \in 1..n \/ i \in (n + 1)..(n + m)
    BY <1>1, <1>3
  <2>2. \A i, j \in DOMAIN fades' : i < j /\ fades'[i] = "out" => fades'[j] = "out"
    BY <1>1, <1>3, <1>4, <2>1 DEF NoneOvertaken, VideoInv
  <2>3. \A i \in DOMAIN fades' : fades'[i] = "in" => i \in 1..n
    BY <1>3, <1>4, <2>1
  <2>4. video.displayed
    BY DEF ClickPlayer
  <2>. QED  BY <1>5, <2>2, <2>4 DEF NoneOvertaken, VideoInv
<1>. QED  BY <1>7, <1>9, <1>10 DEF VideoInv

LEMMA FadeEndsLemma == VideoInv /\ FadeEnds => VideoInv'
<1>. SUFFICES ASSUME VideoInv, FadeEnds PROVE VideoInv'
  OBVIOUS
<1>. DEFINE n == Len(fades)
<1>1. fades \in Seq(Fades) /\ fades' = Tail(fades) /\ fades # <<>>
  BY DEF VideoInv, VideoTyped, FadeEnds
<1>2. /\ n \in Nat /\ n >= 1 /\ DOMAIN fades = 1..n /\ DOMAIN fades' = 1..(n - 1)
      /\ Len(fades') = n - 1 /\ fades' \in Seq(Fades)
      /\ \A k \in 1..(n - 1) : fades'[k] = fades[k + 1]
      /\ Head(fades) = fades[1] /\ fades[1] \in Fades
  BY <1>1
<1>3. /\ n = 1 => fades' = <<>>
      /\ n > 1 => fades' # <<>> /\ Head(fades') = fades[2] /\ fades'[1] = fades[2]
  BY <1>2
<1>4. PICK ended : ended = IF fades[1] = "out"
                           THEN [video EXCEPT !.displayed = FALSE, !.source = "none"]
                           ELSE video
  OBVIOUS
<1>5. /\ ended \in Players
      /\ ended.overflow = video.overflow /\ ended.handlers = video.handlers
      /\ fades[1] = "out" => ~ended.displayed /\ ended.source = "none"
      /\ fades[1] = "in" => ended = video
  BY <1>4 DEF VideoInv, VideoTyped, Players
<1>6. video' = Begins(ended, fades')
  BY <1>1, <1>2, <1>4 DEF FadeEnds
<1>7. /\ video' \in Players
      /\ video'.overflow = ended.overflow /\ video'.source = ended.source
      /\ video'.handlers = ended.handlers
      /\ (video'.displayed <=> ended.displayed \/ (n > 1 /\ fades[2] = "in"))
  <2>1. CASE n > 1 /\ fades[2] = "in"
    <3>1. video' = [ended EXCEPT !.displayed = TRUE]
      BY <1>3, <1>6, <2>1 DEF Begins
    <3>. QED  BY <1>5, <2>1, <3>1 DEF Players
  <2>2. CASE ~ (n > 1 /\ fades[2] = "in")
    <3>1. video' = ended
      BY <1>2, <1>3, <1>6, <2>2 DEF Begins
    <3>. QED  BY <1>5, <2>2, <3>1
  <2>. QED  BY <2>1, <2>2
<1>8. again' = again
  BY DEF FadeEnds
<1>9. VideoTyped'
  BY <1>2, <1>7, <1>8 DEF VideoTyped, VideoInv
<1>10. n > 1 => /\ n - 1 \in 1..(n - 1) /\ fades'[Len(fades')] = fades[n]
                /\ 2 \in 1..n
  BY <1>2
<1>11. LastFadeDecides'
  <2>1. ASSUME video'.displayed PROVE video'.handlers >= 1
    <3>1. ended.displayed \/ (n > 1 /\ fades[2] = "in")
      BY <1>7, <2>1
    <3>2. ended.displayed => video.displayed
      BY <1>2, <1>5 DEF Fades
    <3>3. n > 1 /\ fades[2] = "in" => video.handlers >= 1
      BY <1>2, <1>10 DEF LastFadeDecides, VideoInv
    <3>. QED  BY <1>5, <1>7, <3>1, <3>2, <3>3 DEF LastFadeDecides, VideoInv
  <2>5. ASSUME NEW k \in DOMAIN fades', fades'[k] = "in" PROVE video'.handlers >= 1
    <3>1. k + 1 \in DOMAIN fades /\ fades[k + 1] = "in"
      BY <1>2, <2>5
    <3>. QED  BY <1>5, <1>7, <3>1 DEF LastFadeDecides, VideoInv
  <2>2. ASSUME fades' # <<>> PROVE fades'[Len(fades')] = "in" <=> video'.overflow = "hidden"
    BY <1>2, <1>3, <1>5, <1>7, <1>10, <2>2 DEF LastFadeDecides, NoneOvertaken, VideoInv, VideoTyped, Fades
  <2>3. ASSUME fades' # <<>>, fades'[1] = "in" PROVE video'.displayed
    BY <1>2, <1>3, <1>5, <1>7, <1>10, <2>3 DEF LastFadeDecides, NoneOvertaken, VideoInv, VideoTyped, Fades
  <2>4. ASSUME fades' = <<>>
        PROVE  /\ video'.displayed <=> video'.overflow = "hidden"
               /\ ~video'.displayed => video'.source = "none"
    BY <1>2, <1>3, <1>5, <1>7, <1>10, <2>4 DEF LastFadeDecides, NoneOvertaken, VideoInv, VideoTyped, Fades
  <2>. QED  BY <2>1, <2>2, <2>3, <2>4, <2>5 DEF LastFadeDecides
<1>12. NoneOvertaken'
  <2>1. ASSUME ~again, NEW i \in DOMAIN fades', NEW j \in DOMAIN fades', i < j,
               fades'[i] = "out"
        PROVE  fades'[j] = "out"
    <3>1. /\ i + 1 \in DOMAIN fades /\ j + 1 \in DOMAIN fades /\ i + 1 < j + 1
          /\ fades'[i] = fades[i + 1] /\ fades'[j] = fades[j + 1]
      BY <1>2, <2>1
    <3>. QED  BY <2>1, <3>1 DEF NoneOvertaken, VideoInv
  <2>2. ASSUME ~again, NEW i \in DOMAIN fades', fades'[i] = "in"
        PROVE  video'.source = "data-url"
    <3>1. /\ i + 1 \in DOMAIN fades /\ 1 \in DOMAIN fades /\ 1 < i + 1
          /\ fades[i + 1] = "in"
      BY <1>2, <2>2
    <3>2. fades[1] = "in"
      BY <1>2, <2>2, <3>1 DEF NoneOvertaken, VideoInv, Fades
    <3>. QED  BY <1>5, <1>7, <2>2, <3>1, <3>2 DEF NoneOvertaken, VideoInv
  <2>3. ASSUME ~again, video'.displayed PROVE video'.source = "data-url"
    BY <1>2, <1>3, <1>5, <1>7, <1>10, <2>3 DEF LastFadeDecides, NoneOvertaken, VideoInv, VideoTyped, Fades
  <2>. QED  BY <1>8, <2>1, <2>2, <2>3 DEF NoneOvertaken
<1>. QED  BY <1>9, <1>11, <1>12 DEF VideoInv

(***************************************************************************)
(* When nothing fades any more, the body is locked exactly while the       *)
(* player is displayed, a hidden player has no source, and one displayed   *)
(* has its source unless it was opened while an earlier fade-out was to    *)
(* end: for any number of calls, clicks and handlers.                      *)
(***************************************************************************)
THEOREM VideoSettled == VideoSpec => []VideoSettles
<1>1. VideoInv /\ UNCHANGED videoVars => VideoInv'
  <2>. SUFFICES ASSUME VideoInv, UNCHANGED videoVars PROVE VideoInv'
    OBVIOUS
  <2>1. video' = video /\ fades' = fades /\ again' = again
    BY DEF videoVars
  <2>. QED  BY <2>1 DEF VideoInv, VideoTyped, LastFadeDecides, NoneOvertaken
<1>2. VideoInv /\ [VideoNext]_videoVars => VideoInv'
  BY <1>1, ShowVideoLemma, ClickPlayerLemma, FadeEndsLemma DEF VideoNext
<1>3. VideoInv => VideoSettles
  BY DEF VideoInv, LastFadeDecides, NoneOvertaken, VideoSettles
<1>. QED  BY <1>2, <1>3, VideoInitLemma, PTL DEF VideoSpec

-------------------------------------------------------------------------------
(* The boxes of the partners.                                              *)

Partner == [name: Nat, type: 0..4]

PartnersTyped ==
    /\ partners \in Seq(Partner)
    /\ sorted \in BOOLEAN
    /\ boxes \in [ContainerIds -> Seq(Partner)]
    /\ current \in 0..Len(partners)
    /\ ~sorted => current = 0

PartnersInv == PartnersTyped /\ PartnersPlaced

LEMMA ContainerLemma ==
    ASSUME NEW p \in Partner PROVE ContainerOf(p.type) \in ContainerIds
<1>1. p.type \in 0..4
  BY DEF Partner
<1>. QED  BY <1>1 DEF ContainerOf, ContainerIds

LEMMA PartnersInitLemma == PartnersInit => PartnersInv
<1>. SUFFICES ASSUME PartnersInit PROVE PartnersInv
  OBVIOUS
<1>1. partners \in Seq(Partner) /\ Len(partners) \in Nat
  BY TablesAssumption DEF PartnersInit, Partner
<1>2. boxes \in [ContainerIds -> Seq(Partner)] /\ \A c \in ContainerIds : boxes[c] = <<>>
  BY EmptySeq DEF PartnersInit
<1>3. current = 0 /\ sorted = FALSE
  BY DEF PartnersInit
<1>4. \A c \in ContainerIds : Among(c, current) = {}
  BY <1>3 DEF Among
<1>5. Len(<<>>) = 0 /\ Cardinality({}) = 0
  BY EmptySeq, FS_EmptySet
<1>6. PartnersTyped
  <2>1. current \in 0..Len(partners)
    BY <1>1, <1>3
  <2>. QED  BY <1>1, <1>2, <1>3, <2>1, Zenon DEF PartnersTyped
<1>7. \A c \in ContainerIds :
         /\ Len(boxes[c]) = Cardinality(Among(c, current))
         /\ \A j \in Among(c, current) : FALSE
  BY <1>2, <1>4, <1>5
<1>8. PartnersPlaced
  BY <1>2, <1>3, <1>7, Zenon DEF PartnersPlaced
<1>. QED  BY <1>6, <1>8 DEF PartnersInv

LEMMA SortPartnersLemma == PartnersInv /\ SortPartners => PartnersInv'
<1>. SUFFICES ASSUME PartnersInv, SortPartners PROVE PartnersInv'
  OBVIOUS
<1>. DEFINE n == Len(partners)
<1>1. /\ partners \in Seq(Partner) /\ n \in Nat /\ DOMAIN partners = 1..n
      /\ \A k \in 1..n : partners[k] \in Partner
  BY DEF PartnersInv, PartnersTyped
<1>2. PICK order \in SetToSeqs(1..n) :
         /\ \A j, k \in DOMAIN order :
               j < k => partners[order[j]].name <= partners[order[k]].name
         /\ partners' = [k \in DOMAIN order |-> partners[order[k]]]
  BY <1>1 DEF SortPartners
<1>3. order \in [1..n -> 1..n]
  <2>1. ASSUME NEW m \in Nat PROVE Cardinality(1..m) = m
    <3>1. m \in Int /\ 1 \in Int
      OBVIOUS
    <3>2. Cardinality(1..m) = IF 1 > m THEN 0 ELSE m - 1 + 1
      BY <3>1, FS_Interval
    <3>. QED  BY <3>2
  <2>2. Cardinality(1..n) = n
    BY <1>1, <2>1
  <2>. QED  BY <1>2, <2>2 DEF SetToSeqs
<1>4. /\ partners' \in Seq(Partner) /\ Len(partners') = n /\ DOMAIN partners' = 1..n
      /\ \A k \in 1..n : partners'[k] = partners[order[k]]
  BY <1>1, <1>2, <1>3
<1>5. /\ sorted' = TRUE /\ current' = current /\ current = 0
      /\ boxes' = boxes /\ present' = present
  BY DEF SortPartners, PartnersInv, PartnersTyped
<1>6. \A c \in ContainerIds : Among(c, current)' = {} /\ Among(c, current) = {}
  BY <1>5 DEF Among
<1>7. PartnersTyped'
  BY <1>1, <1>4, <1>5 DEF PartnersInv, PartnersTyped
<1>8. \A j, k \in DOMAIN partners' : j < k => partners'[j].name <= partners'[k].name
  BY <1>2, <1>3, <1>4
<1>9. PartnersPlaced'
  BY <1>5, <1>6, <1>8 DEF PartnersInv, PartnersPlaced
<1>. QED  BY <1>7, <1>9 DEF PartnersInv

LEMMA AddBoxLemma == PartnersInv /\ AddBox => PartnersInv'
<1>. SUFFICES ASSUME PartnersInv, AddBox PROVE PartnersInv'
  OBVIOUS
<1>. DEFINE partner == partners[current + 1]
            container == ContainerOf(partner.type)
<1>1. /\ partners \in Seq(Partner) /\ Len(partners) \in Nat
      /\ boxes \in [ContainerIds -> Seq(Partner)] /\ current \in Nat
      /\ current + 1 \in 1..Len(partners) /\ sorted
  BY DEF PartnersInv, PartnersTyped, AddBox, Looping
<1>2. partner \in Partner
  BY <1>1, ElementOfSeq
<1>3. container \in ContainerIds
  BY <1>2, ContainerLemma
<1>4. partners' = partners /\ present' = present /\ sorted' = sorted
  BY DEF AddBox
<1>5. CASE container \notin present
  <2>1. boxes' = boxes /\ current' = current
    BY <1>5 DEF AddBox
  <2>. QED  BY <1>4, <2>1 DEF PartnersInv, PartnersTyped, PartnersPlaced, Among
<1>6. CASE container \in present
  <2>. DEFINE before(c) == Among(c, current)
              new(c) == Among(c, current + 1)
  <2>1. /\ boxes' = [boxes EXCEPT ![container] = Append(@, partner)]
        /\ current' = current + 1
    BY <1>6 DEF AddBox
  <2>3. \A c : Among(c, current)' = new(c)
    BY <1>4, <2>1 DEF Among
  <2>4. \A c : new(c) = IF c = container THEN before(c) \union {current + 1} ELSE before(c)
    BY <1>1 DEF Among
  <2>5. \A c : \A k \in Nat : IsFiniteSet(Among(c, k))
    <3>. TAKE c
    <3>. TAKE k \in Nat
    <3>1. IsFiniteSet(1..k) /\ Among(c, k) \subseteq 1..k
      BY FS_Interval DEF Among
    <3>. QED  BY <3>1, FS_Subset
  <2>6. \A c : current + 1 \notin before(c)
    BY <1>1 DEF Among
  <2>7. Cardinality(new(container)) = Cardinality(before(container)) + 1
    <3>1. IsFiniteSet(before(container))
      BY <1>1, <2>5
    <3>. HIDE DEF container
    <3>. QED  BY <2>4, <2>6, <3>1, FS_AddElement
  <2>8. /\ boxes' \in [ContainerIds -> Seq(Partner)]
        /\ \A c \in ContainerIds : c # container => boxes'[c] = boxes[c]
        /\ boxes'[container] = Append(boxes[container], partner)
    BY <1>1, <1>2, <1>3, <2>1, AppendProperties
  <2>9. /\ boxes[container] \in Seq(Partner)
        /\ Len(boxes[container]) = Cardinality(before(container))
        /\ Len(boxes[container]) \in Nat
    BY <1>1, <1>3 DEF PartnersInv, PartnersPlaced
  <2>10. PartnersTyped'
    BY <1>1, <1>4, <2>1, <2>8 DEF PartnersInv, PartnersTyped
  <2>11. ASSUME NEW c \in ContainerIds
         PROVE  /\ Len(boxes'[c]) = Cardinality(new(c))
                /\ \A j \in new(c) : boxes'[c][Cardinality(Among(c, j))] = partners[j]
    <3>1. CASE c # container
      <4>1. new(c) = before(c) /\ boxes'[c] = boxes[c]
        BY <2>4, <2>8, <3>1
      <4>. QED  BY <4>1 DEF PartnersInv, PartnersPlaced
    <3>2. CASE c = container
      <4>1. Len(boxes'[c]) = Cardinality(new(c))
        BY <1>2, <2>7, <2>8, <2>9, <3>2, AppendProperties
      <4>2. boxes'[c][Cardinality(Among(c, current + 1))] = partner
        BY <1>2, <2>7, <2>8, <2>9, <3>2, AppendProperties
      <4>3. ASSUME NEW j \in before(c)
            PROVE  boxes'[c][Cardinality(Among(c, j))] = partners[j]
        <5>1. j \in 1..current
          BY DEF Among
        <5>2. Among(c, j) \subseteq before(c) /\ j \in Among(c, j)
          BY <1>1, <5>1 DEF Among
        <5>3. /\ IsFiniteSet(before(c)) /\ IsFiniteSet(Among(c, j))
              /\ Among(c, j) # {}
          BY <1>1, <2>5, <5>1, <5>2
        <5>4. Cardinality(Among(c, j)) \in 1..Cardinality(before(c))
          BY <5>2, <5>3, FS_Subset, FS_CardinalityType, FS_EmptySet
        <5>5. boxes'[c][Cardinality(Among(c, j))] = boxes[c][Cardinality(Among(c, j))]
          BY <1>2, <2>8, <2>9, <3>2, <5>4, AppendProperties
        <5>. QED  BY <5>5 DEF PartnersInv, PartnersPlaced
      <4>. QED  BY <2>4, <3>2, <4>1, <4>2, <4>3
    <3>. QED  BY <3>1, <3>2
  <2>13. PartnersPlaced'
    <3>1. ASSUME NEW c \in ContainerIds
          PROVE  (/\ Len(boxes[c]) = Cardinality(Among(c, current))
                  /\ \A j \in Among(c, current) :
                        boxes[c][Cardinality(Among(c, j))] = partners[j])'
      <4>1. \A j : {i \in 1..j : ContainerOf(partners'[i].type) = c} = Among(c, j)
        BY <1>4 DEF Among
      <4>2. new(c) = {i \in 1..current' : ContainerOf(partners'[i].type) = c}
        BY <1>4, <2>1 DEF Among
      <4>3. \A j \in new(c) : boxes'[c][Cardinality(
                {i \in 1..j : ContainerOf(partners'[i].type) = c})] = partners'[j]
        BY <1>4, <2>11, <4>1
      <4>. QED  BY <2>11, <4>2, <4>3 DEF Among
    <3>2. \A c \in ContainerIds \ present' : boxes'[c] = <<>>
      BY <1>4, <1>6, <2>8 DEF PartnersInv, PartnersPlaced
    <3>3. \A j, k \in DOMAIN partners' : j < k => partners'[j].name <= partners'[k].name
      BY <1>1, <1>4 DEF PartnersInv, PartnersPlaced
    <3>. QED  BY <3>1, <3>2, <3>3, Zenon DEF PartnersPlaced
  <2>. QED  BY <2>10, <2>13 DEF PartnersInv
<1>. QED  BY <1>5, <1>6

(***************************************************************************)
(* Every container lists by name the partners of its type up to the one    *)
(* that the script has come to, and nothing is shown in or past a missing  *)
(* container: for every table, every order of equal names and every page.  *)
(***************************************************************************)
THEOREM PartnersArePlaced == PartnersSpec => []PartnersPlaced
<1>1. PartnersInv /\ UNCHANGED partnerVars => PartnersInv'
  <2>. SUFFICES ASSUME PartnersInv, UNCHANGED partnerVars PROVE PartnersInv'
    OBVIOUS
  <2>1. /\ partners' = partners /\ present' = present /\ sorted' = sorted
        /\ boxes' = boxes /\ current' = current
    BY DEF partnerVars
  <2>. QED  BY <2>1 DEF PartnersInv, PartnersTyped, PartnersPlaced, Among
<1>2. PartnersInv /\ [PartnersNext]_partnerVars => PartnersInv'
  BY <1>1, SortPartnersLemma, AddBoxLemma DEF PartnersNext
<1>. QED  BY <1>2, PartnersInitLemma, PTL DEF PartnersSpec, PartnersInv

-------------------------------------------------------------------------------
(* The headings of a user journey page.                                    *)

Element == [id: STRING, heading: Nat]

Banner(k) == [id |-> headings[k], heading |-> k]
Anchor(k) == [id |-> SectionId[k], heading |-> k]

TocTyped ==
    /\ headings \in Contents
    /\ document \in Seq(Element)
    /\ entries \in Seq(STRING) /\ Len(entries) <= Len(headings)
    /\ \A k \in DOMAIN entries : entries[k] = SectionId[k]
    /\ ready \in BOOLEAN /\ (ready => Len(entries) = Len(headings))
    /\ animations \in Seq(Nat)

\* Every heading's banner and the anchors of those done are in the document,
\* and nothing else.
DocumentSound ==
    /\ \A k \in DOMAIN headings : \E i \in DOMAIN document : document[i] = Banner(k)
    /\ \A k \in DOMAIN entries : \E i \in DOMAIN document : document[i] = Anchor(k)
    /\ \A i \in DOMAIN document :
          \/ \E k \in DOMAIN headings : document[i] = Banner(k)
          \/ \E k \in DOMAIN entries : document[i] = Anchor(k)

NoneCalledSection == \A k \in DOMAIN headings : headings[k] \notin ToSet(SectionId)

\* The last scroll leads to what the reader wanted last.
LastLeads ==
    ready /\ wanted # 0 /\ NoneCalledSection =>
        IF animations = <<>> THEN at = wanted ELSE animations[Len(animations)] = wanted

TocInv == TocTyped /\ DocumentSound /\ LastLeads

LEMMA HeadingsLemma ==
    ASSUME TocTyped
    PROVE  /\ headings \in Seq(STRING) /\ Len(headings) \in Nat
           /\ DOMAIN headings = 1..Len(headings) /\ Len(headings) <= Len(SectionId)
           /\ \A j, k \in DOMAIN headings : headings[j] = headings[k] => j = k
           /\ SectionId \in Seq(STRING) /\ Len(SectionId) \in Nat
           /\ DOMAIN SectionId = 1..Len(SectionId)
           /\ \A j, k \in DOMAIN SectionId : SectionId[j] = SectionId[k] => j = k
           /\ Len(entries) \in Nat /\ DOMAIN entries = 1..Len(entries)
           /\ Len(document) \in Nat /\ DOMAIN document = 1..Len(document)
BY ContentsAssumption DEF TocTyped, IsInjective

LEMMA TocInitLemma == TocInit => TocInv
<1>. SUFFICES ASSUME TocInit PROVE TocInv
  OBVIOUS
<1>1. headings \in Contents /\ headings \in Seq(STRING)
  BY ContentsAssumption DEF TocInit
<1>2. /\ document = [k \in DOMAIN headings |-> [id |-> headings[k], heading |-> k]]
      /\ entries = <<>> /\ animations = <<>> /\ ready = FALSE
  BY DEF TocInit
<1>3. /\ Len(headings) \in Nat /\ DOMAIN headings = 1..Len(headings)
      /\ \A k \in 1..Len(headings) : headings[k] \in STRING
  BY <1>1
<1>4. document \in Seq(Element) /\ DOMAIN document = DOMAIN headings
  BY <1>2, <1>3 DEF Element
<1>5. \A k \in DOMAIN headings : document[k] = Banner(k)
  BY <1>2 DEF Banner
<1>6. /\ entries \in Seq(STRING) /\ animations \in Seq(Nat) /\ Len(entries) = 0
      /\ \A k \in DOMAIN entries : FALSE
  <2>1. Len(entries) = 0 /\ entries \in Seq(STRING) /\ animations \in Seq(Nat)
    BY <1>2, EmptySeq
  <2>. QED  BY <2>1
<1>7. TocTyped
  <2>1. Len(entries) <= Len(headings)
    BY <1>3, <1>6
  <2>. QED  BY <1>1, <1>2, <1>4, <1>6, <2>1, Zenon DEF TocTyped
<1>8. DocumentSound
  BY <1>4, <1>5, <1>6 DEF DocumentSound
<1>. QED  BY <1>2, <1>7, <1>8 DEF TocInv, LastLeads

\* A search for an id finds an element that has it, if there is one.
LEMMA FindLemma ==
    ASSUME TocTyped, NEW id
    PROVE  /\ Find(id) # 0 => /\ Find(id) \in DOMAIN document
                              /\ document[Find(id)].id = id
                              /\ document[Find(id)].heading \in Nat
           /\ (\E i \in DOMAIN document : document[i].id = id) => Find(id) # 0
<1>. DEFINE I == {i \in 1..Len(document) : document[i].id = id}
<1>1. Find(id) = IF I # {} THEN Min(I) ELSE 0
  BY DEF Find, SelectInSeq
<1>2. Len(document) \in Nat /\ DOMAIN document = 1..Len(document)
  BY HeadingsLemma
<1>3. I \in SUBSET (1..Len(document))
  OBVIOUS
<1>. HIDE DEF I
<1>4. /\ Find(id) # 0 => Find(id) \in I
      /\ Find(id) = 0 => I = {}
  BY <1>1, <1>2, <1>3, FirstPlaceLemma
<1>5. \A i \in DOMAIN document : document[i].heading \in Nat
  <2>1. \A i \in 1..Len(document) : document[i] \in Element
    BY ElementOfSeq DEF TocTyped
  <2>. QED  BY <1>2, <2>1 DEF Element
<1>. QED  BY <1>2, <1>4, <1>5 DEF I

\* What an address meant is a heading with that id.
LEMMA MeantLemma ==
    ASSUME TocTyped, NEW id, Meant(id) # 0
    PROVE  Meant(id) \in DOMAIN headings /\ headings[Meant(id)] = id
<1>. DEFINE I == {i \in 1..Len(headings) : headings[i] = id}
<1>1. Meant(id) = IF I # {} THEN Min(I) ELSE 0
  BY DEF Meant, SelectInSeq
<1>2. Len(headings) \in Nat /\ DOMAIN headings = 1..Len(headings)
  BY HeadingsLemma
<1>3. I \in SUBSET (1..Len(headings))
  OBVIOUS
<1>. HIDE DEF I
<1>4. Meant(id) \in I
  BY <1>1, <1>2, <1>3, FirstPlaceLemma
<1>. QED  BY <1>2, <1>4 DEF I

LEMMA InjectHeadingLemma == TocInv /\ InjectHeading => TocInv'
<1>. SUFFICES ASSUME TocInv, InjectHeading PROVE TocInv'
  OBVIOUS
<1>. DEFINE next == Len(entries) + 1
            I == {i \in 1..Len(document) : document[i].heading = next}
            place == SelectInSeq(document, LAMBDA e : e.heading = next)
<1>0. TocTyped /\ DocumentSound
  BY DEF TocInv
<1>1. /\ next \in DOMAIN headings /\ next \in DOMAIN SectionId
      /\ entries' = Append(entries, SectionId[next])
      /\ document' = InsertAt(document, place, Anchor(next))
      /\ headings' = headings /\ ready' = ready /\ animations' = animations
      /\ wanted' = wanted /\ at' = at
  BY <1>0, HeadingsLemma DEF InjectHeading, Anchor
<1>2. place \in 1..Len(document)
  <2>1. place = IF I # {} THEN Min(I) ELSE 0
    BY DEF SelectInSeq
  <2>2. I \in SUBSET (1..Len(document)) /\ Len(document) \in Nat
    BY <1>0, HeadingsLemma
  <2>3. PICK i \in DOMAIN document : document[i] = Banner(next)
    BY <1>0, <1>1 DEF DocumentSound
  <2>4. i \in I
    BY <1>0, <2>3, HeadingsLemma DEF Banner
  <2>. HIDE DEF I, place
  <2>5. place \in I
    BY <2>1, <2>2, <2>4, FirstPlaceLemma
  <2>. QED  BY <2>2, <2>5
<1>. HIDE DEF place
<1>3. SectionId[next] \in STRING /\ Anchor(next) \in Element /\ Len(entries) \in Nat
  <2>1. SectionId[next] \in STRING
    BY <1>0, <1>1, HeadingsLemma
  <2>. QED  BY <1>0, <2>1, HeadingsLemma DEF Anchor, Element
<1>4. /\ document \in Seq(Element) /\ entries \in Seq(STRING)
      /\ Len(document) \in Nat /\ DOMAIN document = 1..Len(document)
      /\ DOMAIN entries = 1..Len(entries)
  BY <1>0, HeadingsLemma DEF TocTyped
<1>5. /\ document' \in Seq(Element) /\ DOMAIN document' = 1..(Len(document) + 1)
      /\ \A i \in 1..(place - 1) : document'[i] = document[i]
      /\ document'[place] = Anchor(next)
      /\ \A i \in place..Len(document) : document'[i + 1] = document[i]
  <2>1. place \in 1..(Len(document) + 1)
    BY <1>2, <1>4
  <2>2. document \in Seq(Element) /\ Anchor(next) \in Element
    BY <1>3, <1>4
  <2>3. document' = InsertAt(document, place, Anchor(next))
    BY <1>1
  <2>. HIDE DEF next
  <2>4. /\ document' \in Seq(Element) /\ Len(document') = Len(document) + 1
        /\ \A i \in 1..(place - 1) : document'[i] = document[i]
        /\ document'[place] = Anchor(next)
        /\ \A i \in place..Len(document) : document'[i + 1] = document[i]
    BY <2>1, <2>2, <2>3, InsertAtLemma, SMTT(40)
  <2>. QED  BY <1>4, <2>4
<1>6. /\ \A i \in DOMAIN document : \E j \in DOMAIN document' : document'[j] = document[i]
      /\ \E j \in DOMAIN document' : document'[j] = Anchor(next)
      /\ \A j \in DOMAIN document' : \/ document'[j] = Anchor(next)
                                     \/ \E i \in DOMAIN document : document'[j] = document[i]
  <2>1. ASSUME NEW i \in DOMAIN document
        PROVE  \E j \in DOMAIN document' : document'[j] = document[i]
    <3>1. CASE i < place
      <4>1. i \in DOMAIN document' /\ document'[i] = document[i]
        BY <1>2, <1>4, <1>5, <3>1
      <4>. QED  BY <4>1
    <3>2. CASE ~ (i < place)
      <4>1. i + 1 \in DOMAIN document' /\ i \in place..Len(document)
        BY <1>2, <1>4, <1>5, <3>2
      <4>2. document'[i + 1] = document[i]
        BY <1>5, <4>1
      <4>. QED  BY <4>1, <4>2
    <3>. QED  BY <3>1, <3>2
  <2>2. place \in DOMAIN document' /\ document'[place] = Anchor(next)
    BY <1>2, <1>4, <1>5
  <2>3. ASSUME NEW j \in DOMAIN document', document'[j] # Anchor(next)
        PROVE  \E i \in DOMAIN document : document'[j] = document[i]
    <3>1. CASE j < place
      <4>1. j \in DOMAIN document /\ document'[j] = document[j]
        BY <1>2, <1>4, <1>5, <3>1
      <4>. QED  BY <4>1
    <3>2. CASE ~ (j < place)
      <4>1. j # place
        BY <1>5, <2>3
      <4>2. /\ j - 1 \in DOMAIN document /\ j - 1 \in place..Len(document)
            /\ (j - 1) + 1 = j
        BY <1>2, <1>4, <1>5, <3>2, <4>1
      <4>3. document'[j] = document[j - 1]
        BY <1>5, <4>2
      <4>. QED  BY <4>2, <4>3
    <3>. QED  BY <3>1, <3>2
  <2>. QED  BY <2>1, <2>2, <2>3
<1>7. /\ entries' \in Seq(STRING) /\ Len(entries') = next
      /\ DOMAIN entries' = 1..next
      /\ \A k \in DOMAIN entries : k \in DOMAIN entries' /\ entries'[k] = entries[k]
      /\ entries'[next] = SectionId[next] /\ next \in DOMAIN entries'
      /\ \A k \in DOMAIN entries' : k \in DOMAIN entries \/ k = next
  <2>1. /\ entries' \in Seq(STRING) /\ Len(entries') = next
        /\ \A k \in 1..Len(entries) : entries'[k] = entries[k]
        /\ entries'[next] = SectionId[next]
    BY <1>1, <1>3, <1>4, AppendProperties
  <2>. QED  BY <1>3, <1>4, <2>1
<1>8. TocTyped'
  <2>1. Len(entries') <= Len(headings') /\ (ready' => Len(entries') = Len(headings'))
    BY <1>0, <1>1, <1>3, <1>7, HeadingsLemma DEF TocTyped
  <2>2. \A k \in DOMAIN entries' : entries'[k] = SectionId[k]
    BY <1>0, <1>7 DEF TocTyped
  <2>. QED  BY <1>0, <1>1, <1>5, <1>7, <2>1, <2>2 DEF TocTyped
<1>9. \A k : Banner(k)' = Banner(k) /\ Anchor(k)' = Anchor(k)
  BY <1>1 DEF Banner, Anchor
<1>10. DocumentSound'
  <2>1. \A k \in DOMAIN headings' : \E i \in DOMAIN document' : document'[i] = Banner(k)
    BY <1>0, <1>1, <1>6 DEF DocumentSound
  <2>2. \A k \in DOMAIN entries' : \E i \in DOMAIN document' : document'[i] = Anchor(k)
    BY <1>0, <1>6, <1>7 DEF DocumentSound
  <2>3. \A i \in DOMAIN document' :
           \/ \E k \in DOMAIN headings' : document'[i] = Banner(k)
           \/ \E k \in DOMAIN entries' : document'[i] = Anchor(k)
    BY <1>0, <1>1, <1>6, <1>7 DEF DocumentSound
  <2>. QED  BY <1>1, <2>1, <2>2, <2>3 DEF DocumentSound, Banner, Anchor
<1>11. LastLeads'
  BY <1>1 DEF TocInv, LastLeads, NoneCalledSection
<1>. QED  BY <1>8, <1>10, <1>11 DEF TocInv

(***************************************************************************)
(* A scroll that is queued last leads where its heading is.                *)
(***************************************************************************)
LEMMA QueuedLemma ==
    ASSUME TocTyped, NEW k \in Nat, NEW queue, queue = Append(animations, k)
    PROVE  queue \in Seq(Nat) /\ queue # <<>> /\ queue[Len(queue)] = k
<1>1. animations \in Seq(Nat)
  BY DEF TocTyped
<1>2. /\ queue \in Seq(Nat) /\ Len(queue) = Len(animations) + 1 /\ queue # <<>>
      /\ queue[Len(animations) + 1] = k
  BY <1>1, AppendProperties
<1>. QED  BY <1>2

LEMMA JumpToSectionLemma == TocInv /\ JumpToSection => TocInv'
<1>. SUFFICES ASSUME TocInv, JumpToSection PROVE TocInv'
  OBVIOUS
<1>0. TocTyped /\ DocumentSound
  BY DEF TocInv
<1>1. /\ headings' = headings /\ document' = document /\ entries' = entries
      /\ ready' = TRUE /\ Len(entries) = Len(headings)
  BY DEF JumpToSection
<1>2. DocumentSound'
  BY <1>0, <1>1 DEF DocumentSound, Banner, Anchor
<1>3. CASE fragment = NoFragment
  <2>1. animations' = animations /\ wanted' = 0
    BY <1>3 DEF JumpToSection
  <2>. QED  BY <1>0, <1>1, <1>2, <2>1 DEF TocInv, TocTyped, LastLeads
<1>4. CASE fragment # NoFragment
  <2>1. /\ wanted' = Meant(fragment)
        /\ animations' = IF Find(fragment) = 0 THEN animations
                         ELSE Append(animations, document[Find(fragment)].heading)
    BY <1>4 DEF JumpToSection, ScrollToHash
  <2>2. animations' \in Seq(Nat)
    <3>1. animations \in Seq(Nat)
      BY <1>0 DEF TocTyped
    <3>. QED  BY <1>0, <2>1, <3>1, FindLemma, QueuedLemma
  <2>3. ASSUME wanted' # 0, NoneCalledSection
        PROVE  animations' # <<>> /\ animations'[Len(animations')] = wanted'
    <3>. DEFINE w == Meant(fragment)
                f == Find(fragment)
    <3>1. w \in DOMAIN headings /\ headings[w] = fragment
      BY <1>0, <2>1, <2>3, MeantLemma
    <3>2. PICK i \in DOMAIN document : document[i] = Banner(w)
      BY <1>0, <3>1 DEF DocumentSound
    <3>3. document[i].id = fragment
      BY <3>1, <3>2 DEF Banner
    <3>4. f \in DOMAIN document /\ document[f].id = fragment /\ f # 0
      BY <1>0, <3>3, FindLemma
    <3>5. document[f].heading = w
      <4>1. CASE \E k \in DOMAIN headings : document[f] = Banner(k)
        BY <1>0, <3>1, <3>4, <4>1, HeadingsLemma DEF Banner
      <4>2. ASSUME NEW k \in DOMAIN entries, document[f] = Anchor(k) PROVE FALSE
        <5>1. k \in DOMAIN SectionId /\ SectionId[k] = fragment
          BY <1>0, <3>4, <4>2, HeadingsLemma DEF Anchor, TocTyped
        <5>. QED  BY <2>3, <3>1, <5>1 DEF NoneCalledSection, ToSet
      <4>. QED  BY <1>0, <3>4, <4>1, <4>2 DEF DocumentSound
    <3>6. w \in Nat
      BY <1>0, <3>1, HeadingsLemma
    <3>7. animations' = Append(animations, w)
      BY <2>1, <3>4, <3>5
    <3>. QED  BY <1>0, <2>1, <3>6, <3>7, QueuedLemma
  <2>4. TocTyped'
    BY <1>0, <1>1, <2>2 DEF TocTyped
  <2>5. LastLeads'
    BY <1>1, <2>3 DEF LastLeads, NoneCalledSection
  <2>. QED  BY <1>2, <2>4, <2>5 DEF TocInv
<1>. QED  BY <1>3, <1>4

LEMMA FollowEntryLemma ==
    ASSUME TocInv, NEW k \in DOMAIN headings, FollowEntry(k)
    PROVE  TocInv'
<1>0. TocTyped /\ DocumentSound
  BY DEF TocInv
<1>1. /\ headings' = headings /\ document' = document /\ entries' = entries
      /\ ready' = ready /\ wanted' = k /\ k \in DOMAIN entries
  BY DEF FollowEntry
<1>. DEFINE f == Find(SectionId[k])
<1>2. entries[k] = SectionId[k] /\ k \in DOMAIN SectionId /\ k \in Nat
  BY <1>0, <1>1, HeadingsLemma DEF TocTyped
<1>3. PICK i \in DOMAIN document : document[i] = Anchor(k)
  BY <1>0, <1>1 DEF DocumentSound
<1>4. document[i].id = SectionId[k]
  BY <1>3 DEF Anchor
<1>5. f # 0 /\ f \in DOMAIN document /\ document[f].id = SectionId[k]
      /\ document[f].heading \in Nat
  BY <1>0, <1>4, FindLemma
<1>6. animations' = Append(animations, document[f].heading)
  BY <1>2, <1>5 DEF FollowEntry, ScrollToHash
<1>7. /\ animations' \in Seq(Nat) /\ animations' # <<>>
      /\ animations'[Len(animations')] = document[f].heading
  BY <1>0, <1>5, <1>6, QueuedLemma
<1>8. ASSUME NoneCalledSection PROVE document[f].heading = k
  <2>1. ASSUME NEW j \in DOMAIN headings, document[f] = Banner(j) PROVE FALSE
    <3>1. headings[j] = SectionId[k]
      BY <1>5, <2>1 DEF Banner
    <3>. QED  BY <1>2, <1>8, <3>1 DEF NoneCalledSection, ToSet
  <2>2. ASSUME NEW j \in DOMAIN entries, document[f] = Anchor(j)
        PROVE  document[f].heading = k
    <3>1. SectionId[j] = SectionId[k] /\ document[f].heading = j
      BY <1>5, <2>2 DEF Anchor
    <3>2. j \in DOMAIN SectionId
      BY <1>0, HeadingsLemma DEF TocTyped
    <3>. QED  BY <1>0, <1>2, <3>1, <3>2, HeadingsLemma
  <2>. QED  BY <1>0, <1>5, <2>1, <2>2 DEF DocumentSound
<1>9. TocTyped'
  BY <1>0, <1>1, <1>7 DEF TocTyped
<1>10. DocumentSound'
  BY <1>0, <1>1 DEF DocumentSound, Banner, Anchor
<1>11. LastLeads'
  BY <1>1, <1>7, <1>8 DEF LastLeads, NoneCalledSection
<1>. QED  BY <1>9, <1>10, <1>11 DEF TocInv

LEMMA AnimationEndsLemma == TocInv /\ AnimationEnds => TocInv'
<1>. SUFFICES ASSUME TocInv, AnimationEnds PROVE TocInv'
  OBVIOUS
<1>0. TocTyped /\ DocumentSound
  BY DEF TocInv
<1>1. /\ headings' = headings /\ document' = document /\ entries' = entries
      /\ ready' = ready /\ wanted' = wanted /\ animations # <<>>
      /\ at' = Head(animations) /\ animations' = Tail(animations)
  BY DEF AnimationEnds
<1>. DEFINE n == Len(animations)
<1>2. /\ n \in Nat /\ n >= 1 /\ animations' \in Seq(Nat) /\ Len(animations') = n - 1
      /\ \A k \in 1..(n - 1) : animations'[k] = animations[k + 1]
      /\ Head(animations) = animations[1]
  BY <1>0, <1>1 DEF TocTyped
<1>3. TocTyped'
  BY <1>0, <1>1, <1>2 DEF TocTyped
<1>4. DocumentSound'
  BY <1>0, <1>1 DEF DocumentSound, Banner, Anchor
<1>5. LastLeads'
  <2>. SUFFICES ASSUME ready, wanted # 0, NoneCalledSection
                PROVE  IF animations' = <<>> THEN at' = wanted
                       ELSE animations'[Len(animations')] = wanted
    BY <1>1 DEF LastLeads, NoneCalledSection
  <2>1. animations[n] = wanted
    BY <1>1 DEF TocInv, LastLeads
  <2>2. CASE n = 1
    BY <1>1, <1>2, <2>1, <2>2
  <2>3. CASE n > 1
    <3>1. n - 1 \in 1..(n - 1) /\ (n - 1) + 1 = n /\ animations' # <<>>
      BY <1>2, <2>3
    <3>. QED  BY <1>2, <2>1, <3>1
  <2>. QED  BY <1>2, <2>2, <2>3
<1>. QED  BY <1>3, <1>4, <1>5 DEF TocInv

(***************************************************************************)
(* When nothing scrolls any more, the page stands at the heading asked for *)
(* last, unless a heading is called like an anchor: for every page whose   *)
(* headings have different ids, every address and any number of clicks.    *)
(***************************************************************************)
THEOREM StandsWhereAsked == TocSpec => []StandsAtSection
<1>1. TocInv /\ UNCHANGED tocVars => TocInv'
  <2>. SUFFICES ASSUME TocInv, UNCHANGED tocVars PROVE TocInv'
    OBVIOUS
  <2>1. /\ headings' = headings /\ document' = document /\ entries' = entries
        /\ ready' = ready /\ wanted' = wanted /\ animations' = animations /\ at' = at
    BY DEF tocVars
  <2>. QED  BY <2>1 DEF TocInv, TocTyped, DocumentSound, LastLeads,
                       NoneCalledSection, Banner, Anchor
<1>2. TocInv /\ [TocNext]_tocVars => TocInv'
  BY <1>1, InjectHeadingLemma, JumpToSectionLemma, FollowEntryLemma,
     AnimationEndsLemma DEF TocNext
<1>3. TocInv => StandsAtSection
  BY DEF TocInv, LastLeads, NoneCalledSection, StandsAtSection
<1>. QED  BY <1>2, <1>3, TocInitLemma, PTL DEF TocSpec

-------------------------------------------------------------------------------
(* The push menus made from the page.                                      *)

Burger == [id: STRING, items: Seq([tag: STRING, exclude: STRING])]
Entry == [tag: {"a"}, of: Nat \X Nat]
Menu == [id: STRING, entries: Seq(Entry)]

Ofs(list) == {list[n].of : n \in DOMAIN list}

\* What the first c elements have for a menu.
Upto(id, c) == UNION {{k} \X Offers(k) : k \in {j \in 1..c : burgers[j].id = id}}

Complete(menu, c) == Ofs(menu.entries) = Upto(menu.id, c) /\ InDocumentOrder(menu.entries)

\* One menu for each name among the first c elements, complete so far.
MenusSound(ms, c) ==
    /\ ms \in Seq(Menu)
    /\ \A i, j \in DOMAIN ms : ms[i].id = ms[j].id => i = j
    /\ \A k \in 1..c : \E i \in DOMAIN ms : ms[i].id = burgers[k].id
    /\ \A i \in DOMAIN ms : Complete(ms[i], c)

BurgerInv ==
    /\ burgers \in Seq(Burger)
    /\ collected \in 0..Len(burgers)
    /\ MenusSound(menus, collected)
    /\ allPushMenus \in Seq(Menu) /\ Len(allPushMenus) <= Len(menus)
    /\ \A i \in DOMAIN allPushMenus : allPushMenus[i] = menus[i]
    /\ collected < Len(burgers) => allPushMenus = <<>>

LEMMA UptoLemma ==
    ASSUME NEW id, NEW c \in Nat
    PROVE  /\ \A p : p \in Upto(id, c) <=>
                 \E k \in 1..c : \E n \in Offers(k) : burgers[k].id = id /\ p = <<k, n>>
           /\ burgers[c + 1].id = id =>
                 Upto(id, c + 1) = Upto(id, c) \union {c + 1} \X Offers(c + 1)
           /\ burgers[c + 1].id # id => Upto(id, c + 1) = Upto(id, c)
           /\ (\A k \in 1..c : burgers[k].id # id) => Upto(id, c) = {}
<1>1. ASSUME NEW d \in Nat, NEW p
      PROVE  p \in Upto(id, d) <=>
                 \E k \in 1..d : \E n \in Offers(k) : burgers[k].id = id /\ p = <<k, n>>
  <2>1. \A k : p \in {k} \X Offers(k) <=> \E n \in Offers(k) : p = <<k, n>>
    OBVIOUS
  <2>. QED  BY <2>1 DEF Upto
<1>2. c + 1 \in Nat /\ \A k : k \in 1..(c + 1) <=> k \in 1..c \/ k = c + 1
  OBVIOUS
<1>3. \A p : p \in {c + 1} \X Offers(c + 1) <=> \E n \in Offers(c + 1) : p = <<c + 1, n>>
  OBVIOUS
<1>4. \A p : p \in Upto(id, c + 1) <=>
         p \in Upto(id, c) \/ (burgers[c + 1].id = id /\ p \in {c + 1} \X Offers(c + 1))
  <2>. TAKE p
  <2>1. p \in Upto(id, c + 1) <=>
            \E k \in 1..(c + 1) : \E n \in Offers(k) : burgers[k].id = id /\ p = <<k, n>>
    BY <1>1, <1>2
  <2>2. p \in Upto(id, c) <=>
            \E k \in 1..c : \E n \in Offers(k) : burgers[k].id = id /\ p = <<k, n>>
    BY <1>1
  <2>. QED  BY <1>2, <1>3, <2>1, <2>2, Zenon
<1>. QED  BY <1>1, <1>4

LEMMA CopiesLemma ==
    ASSUME burgers \in Seq(Burger), NEW k \in 1..Len(burgers), NEW copies,
           copies = Copies(k)
    PROVE  /\ copies \in Seq(Entry)
           /\ Ofs(copies) = {k} \X Offers(k)
           /\ \A n \in DOMAIN copies : copies[n].of[1] = k
           /\ InDocumentOrder(copies)
<1>1. PICK n \in Nat : Offers(k) \in SUBSET (1..n)
  <2>1. burgers[k] \in Burger
    BY ElementOfSeq
  <2>2. burgers[k].items \in Seq([tag: STRING, exclude: STRING])
    BY <2>1 DEF Burger
  <2>3. /\ Len(burgers[k].items) \in Nat
        /\ DOMAIN burgers[k].items = 1..Len(burgers[k].items)
    BY <2>2, LenProperties
  <2>. QED  BY <2>3 DEF Offers
<1>2. PICK order : order = InOrder(Offers(k))
  OBVIOUS
<1>3. Lists(order, Offers(k))
  <2>1. PICK s : Lists(s, Offers(k))
    BY <1>1, OrderLemma
  <2>2. s \in SetToSeqs(Offers(k)) /\ Increasing(s)
    BY <1>1, <2>1, SetToSeqsLemma DEF Lists
  <2>3. order \in SetToSeqs(Offers(k)) /\ Increasing(order)
    BY <1>2, <2>2 DEF InOrder, Increasing
  <2>. QED  BY <1>1, <2>3, SetToSeqsLemma
<1>4. /\ order \in Seq(Offers(k)) /\ Len(order) \in Nat /\ DOMAIN order = 1..Len(order)
      /\ \A j \in DOMAIN order : order[j] \in Offers(k)
  <2>1. order \in Seq(Offers(k))
    BY <1>3 DEF Lists
  <2>. QED  BY <2>1, LenProperties, ElementOfSeq
<1>5. copies = [j \in DOMAIN order |-> [tag |-> "a", of |-> <<k, order[j]>>]]
  BY <1>2 DEF Copies
<1>6. /\ DOMAIN copies = 1..Len(order) /\ DOMAIN copies = DOMAIN order
      /\ \A j \in DOMAIN copies : /\ copies[j] = [tag |-> "a", of |-> <<k, order[j]>>]
                                  /\ copies[j].of = <<k, order[j]>>
  BY <1>4, <1>5
<1>7. copies \in Seq(Entry)
  <2>1. k \in Nat /\ \A j \in DOMAIN order : order[j] \in Nat
    BY <1>1, <1>4
  <2>2. \A j \in 1..Len(order) : copies[j] \in Entry
    BY <1>4, <1>6, <2>1 DEF Entry
  <2>3. copies = [j \in 1..Len(order) |-> copies[j]]
    BY <1>4, <1>5
  <2>. QED  BY <1>4, <2>2, <2>3
<1>8. Ofs(copies) = {k} \X Offers(k)
  <2>1. \A p \in Ofs(copies) : p \in {k} \X Offers(k)
    BY <1>4, <1>6 DEF Ofs
  <2>2. ASSUME NEW x \in Offers(k) PROVE <<k, x>> \in Ofs(copies)
    <3>1. PICK j \in DOMAIN order : order[j] = x
      BY <1>3 DEF Lists
    <3>2. j \in DOMAIN copies /\ copies[j].of = <<k, x>>
      BY <1>6, <3>1
    <3>. QED  BY <3>2 DEF Ofs
  <2>. QED  BY <2>1, <2>2
<1>9. \A j \in DOMAIN copies : copies[j].of[1] = k
  BY <1>6
<1>10. InDocumentOrder(copies)
  <2>. SUFFICES ASSUME NEW i \in DOMAIN copies, NEW j \in DOMAIN copies, i < j
                PROVE  Precedes(copies[i].of, copies[j].of)
    BY DEF InDocumentOrder
  <2>1. order[i] < order[j]
    BY <1>3, <1>6 DEF Lists, Increasing
  <2>2. copies[i].of = <<k, order[i]>> /\ copies[j].of = <<k, order[j]>>
    BY <1>6
  <2>. QED  BY <2>1, <2>2 DEF Precedes
<1>. QED  BY <1>7, <1>8, <1>9, <1>10

(***************************************************************************)
(* A menu to which an element behind all that made it adds its copies.     *)
(***************************************************************************)
LEMMA JoinLemma ==
    ASSUME NEW e \in Seq(Entry), NEW f \in Seq(Entry), NEW c \in Nat,
           InDocumentOrder(e), InDocumentOrder(f),
           \A i \in DOMAIN e : e[i].of[1] <= c,
           \A i \in DOMAIN f : f[i].of[1] = c + 1,
           NEW g, g = e \o f
    PROVE  g \in Seq(Entry) /\ InDocumentOrder(g) /\ Ofs(g) = Ofs(e) \union Ofs(f)
<1>1. /\ Len(e) \in Nat /\ Len(f) \in Nat
      /\ DOMAIN e = 1..Len(e) /\ DOMAIN f = 1..Len(f)
  BY LenProperties
<1>2. /\ g \in Seq(Entry) /\ DOMAIN g = 1..(Len(e) + Len(f))
      /\ \A k \in 1..(Len(e) + Len(f)) :
            g[k] = IF k <= Len(e) THEN e[k] ELSE f[k - Len(e)]
  <2>1. /\ g \in Seq(Entry) /\ Len(g) = Len(e) + Len(f)
        /\ \A k \in 1..(Len(e) + Len(f)) :
              g[k] = IF k <= Len(e) THEN e[k] ELSE f[k - Len(e)]
    BY ConcatProperties
  <2>. QED  BY <2>1, LenProperties
<1>3. \A k \in DOMAIN e : k \in DOMAIN g /\ g[k] = e[k]
  BY <1>1, <1>2
<1>4. ASSUME NEW k \in DOMAIN f PROVE k + Len(e) \in DOMAIN g /\ g[k + Len(e)] = f[k]
  <2>1. /\ k + Len(e) \in 1..(Len(e) + Len(f)) /\ ~ (k + Len(e) <= Len(e))
        /\ (k + Len(e)) - Len(e) = k
    BY <1>1
  <2>. QED  BY <1>2, <2>1
<1>5. ASSUME NEW k \in DOMAIN g
      PROVE  \/ k \in DOMAIN e /\ g[k] = e[k]
             \/ k > Len(e) /\ k - Len(e) \in DOMAIN f /\ g[k] = f[k - Len(e)]
  BY <1>1, <1>2
<1>6. InDocumentOrder(g)
  <2>. SUFFICES ASSUME NEW i \in DOMAIN g, NEW j \in DOMAIN g, i < j
                PROVE  Precedes(g[i].of, g[j].of)
    BY DEF InDocumentOrder
  <2>1. CASE j \in DOMAIN e
    <3>1. i \in DOMAIN e /\ g[i] = e[i] /\ g[j] = e[j]
      BY <1>1, <1>2, <1>3, <2>1
    <3>. QED  BY <2>1, <3>1 DEF InDocumentOrder
  <2>2. CASE j \notin DOMAIN e /\ i \in DOMAIN e
    <3>1. j - Len(e) \in DOMAIN f /\ g[j] = f[j - Len(e)] /\ g[i] = e[i]
      BY <1>3, <1>5, <2>2
    <3>2. g[i].of[1] <= c /\ g[j].of[1] = c + 1
      BY <2>2, <3>1
    <3>3. g[i].of[1] \in Nat
      <4>1. e[i] \in Entry
        BY <1>1, <2>2, ElementOfSeq
      <4>. QED  BY <3>1, <4>1 DEF Entry
    <3>. QED  BY <3>2, <3>3 DEF Precedes
  <2>3. CASE i \notin DOMAIN e
    <3>1. /\ i - Len(e) \in DOMAIN f /\ g[i] = f[i - Len(e)] /\ i > Len(e)
          /\ j - Len(e) \in DOMAIN f /\ g[j] = f[j - Len(e)]
          /\ i - Len(e) < j - Len(e)
      BY <1>1, <1>2, <1>5, <2>3
    <3>. QED  BY <3>1 DEF InDocumentOrder
  <2>. QED  BY <2>1, <2>2, <2>3
<1>7. \A p \in Ofs(g) : p \in Ofs(e) \union Ofs(f)
  BY <1>5 DEF Ofs
<1>8. \A p \in Ofs(e) \union Ofs(f) : p \in Ofs(g)
  <2>1. \A k \in DOMAIN e : e[k].of \in Ofs(g)
    BY <1>3 DEF Ofs
  <2>2. ASSUME NEW k \in DOMAIN f PROVE f[k].of \in Ofs(g)
    BY <1>4 DEF Ofs
  <2>. QED  BY <2>1, <2>2 DEF Ofs
<1>. QED  BY <1>2, <1>6, <1>7, <1>8

(***************************************************************************)
(* A menu that comes to the end of the body, the others being without the  *)
(* one of that name.                                                       *)
(***************************************************************************)
LEMMA AddMenuLemma ==
    ASSUME NEW rest \in Seq(Menu), NEW new \in Menu, NEW c \in Nat,
           new.id = burgers[c + 1].id, Complete(new, c + 1),
           \A i, j \in DOMAIN rest : rest[i].id = rest[j].id => i = j,
           \A i \in DOMAIN rest : rest[i].id # new.id /\ Complete(rest[i], c),
           \A k \in 1..c : burgers[k].id # new.id =>
               \E i \in DOMAIN rest : rest[i].id = burgers[k].id,
           NEW after, after = Append(rest, new)
    PROVE  MenusSound(after, c + 1)
<1>. DEFINE n == Len(rest)
<1>1. /\ after \in Seq(Menu) /\ n \in Nat /\ DOMAIN rest = 1..n
      /\ DOMAIN after = 1..(n + 1)
      /\ \A i \in DOMAIN rest : i \in DOMAIN after /\ after[i] = rest[i]
      /\ n + 1 \in DOMAIN after /\ after[n + 1] = new
      /\ \A i \in DOMAIN after : i \in DOMAIN rest \/ i = n + 1
  <2>1. n \in Nat /\ DOMAIN rest = 1..n
    BY LenProperties
  <2>2. /\ after \in Seq(Menu) /\ Len(after) = n + 1
        /\ \A i \in 1..n : after[i] = rest[i]
        /\ after[n + 1] = new
    BY AppendProperties
  <2>3. DOMAIN after = 1..(n + 1)
    BY <2>2, LenProperties
  <2>. QED  BY <2>1, <2>2, <2>3
<1>. HIDE DEF n
<1>2. \A i, j \in DOMAIN after : after[i].id = after[j].id => i = j
  BY <1>1
<1>3. \A k \in 1..(c + 1) : \E i \in DOMAIN after : after[i].id = burgers[k].id
  <2>. TAKE k \in 1..(c + 1)
  <2>1. CASE burgers[k].id = new.id
    BY <1>1, <2>1
  <2>2. CASE burgers[k].id # new.id
    <3>1. k \in 1..c
      BY <2>2
    <3>2. PICK i \in DOMAIN rest : rest[i].id = burgers[k].id
      BY <2>2, <3>1
    <3>. QED  BY <1>1, <3>2
  <2>. QED  BY <2>1, <2>2
<1>4. ASSUME NEW i \in DOMAIN after PROVE Complete(after[i], c + 1)
  <2>1. CASE i \in DOMAIN rest
    <3>1. after[i] = rest[i] /\ rest[i].id # burgers[c + 1].id /\ Complete(rest[i], c)
      BY <1>1, <2>1
    <3>2. Upto(rest[i].id, c + 1) = Upto(rest[i].id, c)
      BY <3>1, UptoLemma
    <3>. QED  BY <3>1, <3>2 DEF Complete
  <2>2. CASE i = n + 1
    BY <1>1, <2>2
  <2>. QED  BY <1>1, <2>1, <2>2
<1>. QED  BY <1>1, <1>2, <1>3, <1>4 DEF MenusSound

LEMMA BurgerInitLemma == BurgerInit => BurgerInv
<1>. SUFFICES ASSUME BurgerInit PROVE BurgerInv
  OBVIOUS
<1>1. burgers \in Seq(Burger) /\ Len(burgers) \in Nat
  BY PagesAssumption DEF BurgerInit, Burger
<1>2. collected = 0 /\ menus = <<>> /\ allPushMenus = <<>>
  BY DEF BurgerInit
<1>3. /\ menus \in Seq(Menu) /\ Len(menus) = 0 /\ allPushMenus \in Seq(Menu)
      /\ Len(allPushMenus) = 0
  BY <1>2, EmptySeq
<1>4. \A i \in DOMAIN menus \union DOMAIN allPushMenus : FALSE
  BY <1>3
<1>5. MenusSound(menus, 0)
  <2>1. \A k \in 1..0 : FALSE
    OBVIOUS
  <2>. QED  BY <1>3, <1>4, <2>1, Zenon DEF MenusSound
<1>6. collected \in 0..Len(burgers) /\ Len(allPushMenus) <= Len(menus)
  BY <1>1, <1>2
<1>. QED  BY <1>1, <1>2, <1>3, <1>4, <1>5, <1>6, Zenon DEF BurgerInv

LEMMA CollectLemma == BurgerInv /\ Collect => BurgerInv'
<1>. SUFFICES ASSUME BurgerInv, Collect PROVE BurgerInv'
  OBVIOUS
<1>. DEFINE next == collected + 1
            id == burgers[next].id
            there == MenuOf(id)
            I == {i \in 1..Len(menus) : menus[i].id = id}
<1>1. /\ burgers \in Seq(Burger) /\ collected \in Nat /\ next \in 1..Len(burgers)
      /\ burgers' = burgers /\ allPushMenus' = allPushMenus /\ collected' = next
      /\ allPushMenus = <<>>
  BY DEF BurgerInv, Collect
<1>2. burgers[next] \in Burger /\ id \in STRING
  <2>1. burgers[next] \in Burger
    BY <1>1, ElementOfSeq
  <2>. QED  BY <2>1 DEF Burger
<1>3. /\ menus \in Seq(Menu) /\ Len(menus) \in Nat /\ DOMAIN menus = 1..Len(menus)
      /\ \A i \in DOMAIN menus : menus[i] \in Menu
      /\ \A i, j \in DOMAIN menus : menus[i].id = menus[j].id => i = j
      /\ \A k \in 1..collected : \E i \in DOMAIN menus : menus[i].id = burgers[k].id
      /\ \A i \in DOMAIN menus : Complete(menus[i], collected)
  <2>1. MenusSound(menus, collected)
    BY DEF BurgerInv
  <2>2. menus \in Seq(Menu)
    BY <2>1 DEF MenusSound
  <2>. QED  BY <2>1, <2>2, LenProperties, ElementOfSeq DEF MenusSound
<1>4. PICK copies : copies = Copies(next)
  OBVIOUS
<1>5. /\ copies \in Seq(Entry)
      /\ Ofs(copies) = {next} \X Offers(next)
      /\ \A n \in DOMAIN copies : copies[n].of[1] = next
      /\ InDocumentOrder(copies)
  BY <1>1, <1>4, CopiesLemma
<1>6. menus' = IF there = 0
               THEN Append(menus, [id |-> id, entries |-> copies])
               ELSE Append(RemoveAt(menus, there),
                           [menus[there] EXCEPT !.entries = @ \o copies])
  BY <1>4 DEF Collect
<1>7. /\ there # 0 => there \in DOMAIN menus /\ menus[there].id = id
      /\ there = 0 => \A i \in DOMAIN menus : menus[i].id # id
  <2>1. there = IF I # {} THEN Min(I) ELSE 0
    BY DEF MenuOf, SelectInSeq
  <2>2. I \in SUBSET (1..Len(menus))
    OBVIOUS
  <2>. HIDE DEF I, there
  <2>3. (there # 0 => there \in I) /\ (there = 0 => I = {})
    BY <1>3, <2>1, <2>2, FirstPlaceLemma
  <2>. QED  BY <1>3, <2>3 DEF I
<1>. HIDE DEF next, there, I, id
<1>8. MenusSound(menus', collected + 1)
  <2>1. CASE there = 0
    <3>1. PICK new : new = [id |-> id, entries |-> copies]
      OBVIOUS
    <3>2. new \in Menu /\ new.id = id /\ new.entries = copies
      BY <1>2, <1>5, <3>1 DEF Menu
    <3>3. \A k \in 1..collected : burgers[k].id # id
      BY <1>3, <1>7, <2>1
    <3>4. Upto(id, collected) = {}
      BY <1>1, <3>3, UptoLemma
    <3>5. Upto(id, collected + 1) = {next} \X Offers(next)
      <4>1. Upto(id, collected + 1) = Upto(id, collected) \union {next} \X Offers(next)
        BY <1>1, UptoLemma DEF next, id
      <4>. QED  BY <3>4, <4>1
    <3>6. Complete(new, collected + 1)
      BY <1>5, <3>2, <3>5 DEF Complete
    <3>7. menus' = Append(menus, new) /\ new.id = burgers[collected + 1].id
      BY <1>6, <2>1, <3>1, <3>2 DEF id, next
    <3>8. \A i \in DOMAIN menus : menus[i].id # new.id /\ Complete(menus[i], collected)
      BY <1>3, <1>7, <2>1, <3>2
    <3>9. \A k \in 1..collected : burgers[k].id # new.id =>
             \E i \in DOMAIN menus : menus[i].id = burgers[k].id
      BY <1>3
    <3>. QED  BY <1>1, <1>3, <3>2, <3>6, <3>7, <3>8, <3>9, AddMenuLemma
  <2>2. CASE there # 0
    <3>1. PICK rest : rest = RemoveAt(menus, there)
      OBVIOUS
    <3>2. PICK old : old = menus[there]
      OBVIOUS
    <3>3. PICK new : new = [old EXCEPT !.entries = @ \o copies]
      OBVIOUS
    <3>4. /\ there \in 1..Len(menus) /\ old.id = id /\ old \in Menu
          /\ Complete(old, collected)
      BY <1>3, <1>7, <2>2, <3>2
    <3>5. /\ rest \in Seq(Menu) /\ Len(rest) = Len(menus) - 1
          /\ \A k \in 1..(Len(menus) - 1) :
                rest[k] = IF k < there THEN menus[k] ELSE menus[k + 1]
      <4>1. menus \in Seq(Menu)
        BY <1>3
      <4>2. there \in 1..Len(menus)
        BY <3>4
      <4>. QED  BY <3>1, <4>1, <4>2, RemoveAtLemma
    <3>6. DOMAIN rest = 1..(Len(menus) - 1)
      BY <3>5, LenProperties
    <3>7. \A k \in DOMAIN rest :
             \/ k < there /\ k \in DOMAIN menus /\ rest[k] = menus[k]
             \/ k + 1 > there /\ k + 1 \in DOMAIN menus /\ rest[k] = menus[k + 1]
      BY <1>3, <3>4, <3>5, <3>6
    <3>8. \A i, j \in DOMAIN rest : rest[i].id = rest[j].id => i = j
      <4>1. \A k \in DOMAIN rest : k \in Nat
        BY <3>6
      <4>. QED  BY <1>3, <3>4, <3>7, <4>1
    <3>9. \A i \in DOMAIN rest : rest[i].id # id /\ Complete(rest[i], collected)
      BY <1>3, <1>7, <2>2, <3>4, <3>7
    <3>10. ASSUME NEW i \in DOMAIN menus, menus[i].id # id
           PROVE  \E j \in DOMAIN rest : rest[j] = menus[i]
      <4>1. i # there
        BY <1>7, <2>2, <3>10
      <4>2. CASE i < there
        <5>1. i \in DOMAIN rest /\ rest[i] = menus[i]
          BY <1>3, <3>4, <3>5, <3>6, <4>2
        <5>. QED  BY <5>1
      <4>3. CASE i > there
        <5>1. /\ i - 1 \in DOMAIN rest /\ ~ (i - 1 < there) /\ (i - 1) + 1 = i
          BY <1>3, <3>4, <3>6, <4>3
        <5>2. rest[i - 1] = menus[i]
          BY <3>5, <3>6, <5>1
        <5>. QED  BY <5>1, <5>2
      <4>. QED  BY <1>3, <3>4, <4>1, <4>2, <4>3
    <3>11. /\ old.entries \in Seq(Entry) /\ InDocumentOrder(old.entries)
           /\ Ofs(old.entries) = Upto(id, collected)
      BY <3>4 DEF Complete, Menu
    <3>12. \A i \in DOMAIN old.entries : old.entries[i].of[1] <= collected
      <4>. TAKE i \in DOMAIN old.entries
      <4>1. old.entries[i].of \in Upto(id, collected)
        BY <3>11 DEF Ofs
      <4>2. PICK p : p = old.entries[i].of
        OBVIOUS
      <4>3. p \in Upto(id, collected) <=>
               \E k \in 1..collected : \E n \in Offers(k) :
                  burgers[k].id = id /\ p = <<k, n>>
        BY <1>1, UptoLemma
      <4>4. \E k \in 1..collected : \E n \in Offers(k) : p = <<k, n>>
        BY <4>1, <4>2, <4>3
      <4>. QED  BY <1>1, <4>2, <4>4
    <3>13. PICK joined : joined = old.entries \o copies
      OBVIOUS
    <3>14. /\ joined \in Seq(Entry) /\ InDocumentOrder(joined)
           /\ Ofs(joined) = Upto(id, collected) \union {next} \X Offers(next)
      <4>1. /\ copies \in Seq(Entry) /\ InDocumentOrder(copies) /\ collected \in Nat
            /\ \A i \in DOMAIN copies : copies[i].of[1] = collected + 1
        BY <1>1, <1>5 DEF next
      <4>2. old.entries \in Seq(Entry) /\ InDocumentOrder(old.entries)
        BY <3>11
      <4>3. /\ joined \in Seq(Entry) /\ InDocumentOrder(joined)
            /\ Ofs(joined) = Ofs(old.entries) \union Ofs(copies)
        BY <3>12, <3>13, <4>1, <4>2, JoinLemma
      <4>. QED  BY <1>5, <3>11, <4>3
    <3>15. new \in Menu /\ new.id = id /\ new.entries = joined
      BY <3>3, <3>4, <3>13, <3>14 DEF Menu
    <3>16. Upto(id, collected + 1) = Upto(id, collected) \union {next} \X Offers(next)
      BY <1>1, UptoLemma DEF next, id
    <3>17. Complete(new, collected + 1)
      BY <3>14, <3>15, <3>16 DEF Complete
    <3>18. menus' = Append(rest, new) /\ new.id = burgers[collected + 1].id
      BY <1>6, <2>2, <3>1, <3>2, <3>3, <3>15 DEF id, next
    <3>19. \A k \in 1..collected : burgers[k].id # new.id =>
              \E j \in DOMAIN rest : rest[j].id = burgers[k].id
      <4>. SUFFICES ASSUME NEW k \in 1..collected, burgers[k].id # id
                    PROVE  \E j \in DOMAIN rest : rest[j].id = burgers[k].id
        BY <3>15
      <4>1. PICK i \in DOMAIN menus : menus[i].id = burgers[k].id
        BY <1>3
      <4>. QED  BY <3>10, <4>1
    <3>. QED  BY <1>1, <3>5, <3>8, <3>9, <3>15, <3>17, <3>18, <3>19, AddMenuLemma
  <2>. QED  BY <2>1, <2>2
<1>9. MenusSound(menus, collected)'
  <2>1. \A c, m : Complete(m, c)' = Complete(m, c)
    BY <1>1 DEF Complete, Upto, Offers
  <2>. QED  BY <1>1, <1>8, <2>1 DEF MenusSound, next
<1>10. /\ allPushMenus' \in Seq(Menu) /\ Len(allPushMenus') <= Len(menus')
       /\ \A i \in DOMAIN allPushMenus' : allPushMenus'[i] = menus'[i]
  <2>1. Len(allPushMenus') = 0 /\ allPushMenus' \in Seq(Menu)
    BY <1>1, EmptySeq
  <2>2. Len(menus') \in Nat
    BY <1>8, LenProperties DEF MenusSound
  <2>. QED  BY <2>1, <2>2
<1>11. collected' \in 0..Len(burgers')
  BY <1>1
<1>. QED  BY <1>1, <1>9, <1>10, <1>11 DEF BurgerInv

LEMMA WrapLemma == BurgerInv /\ Wrap => BurgerInv'
<1>. SUFFICES ASSUME BurgerInv, Wrap PROVE BurgerInv'
  OBVIOUS
<1>. DEFINE n == Len(allPushMenus)
<1>1. /\ burgers' = burgers /\ collected' = collected /\ menus' = menus
      /\ allPushMenus' = Append(allPushMenus, menus[n + 1])
      /\ n + 1 <= Len(menus) /\ ~ (collected < Len(burgers))
  BY DEF Wrap, BurgerInv
<1>2. /\ menus \in Seq(Menu) /\ Len(menus) \in Nat
      /\ allPushMenus \in Seq(Menu) /\ n \in Nat
      /\ DOMAIN allPushMenus = 1..n
  <2>1. menus \in Seq(Menu) /\ allPushMenus \in Seq(Menu)
    BY DEF BurgerInv, MenusSound
  <2>. QED  BY <2>1, LenProperties
<1>3. menus[n + 1] \in Menu
  BY <1>1, <1>2, ElementOfSeq
<1>4. /\ allPushMenus' \in Seq(Menu) /\ Len(allPushMenus') = n + 1
      /\ \A i \in 1..n : allPushMenus'[i] = allPushMenus[i]
      /\ allPushMenus'[n + 1] = menus[n + 1]
  BY <1>1, <1>2, <1>3, AppendProperties
<1>5. \A i \in DOMAIN allPushMenus' : allPushMenus'[i] = menus'[i]
  BY <1>1, <1>2, <1>4 DEF BurgerInv
<1>6. MenusSound(menus, collected)'
  BY <1>1 DEF BurgerInv, MenusSound, Complete, Upto, Offers
<1>. QED  BY <1>1, <1>4, <1>5, <1>6 DEF BurgerInv

(***************************************************************************)
(* When the page is ready there is one menu for every name, with all that  *)
(* its elements offer, in document order: for every page.                  *)
(***************************************************************************)
THEOREM MenusAreComplete == BurgerSpec => []MenusComplete
<1>1. BurgerInv /\ UNCHANGED burgerVars => BurgerInv'
  <2>. SUFFICES ASSUME BurgerInv, UNCHANGED burgerVars PROVE BurgerInv'
    OBVIOUS
  <2>1. /\ burgers' = burgers /\ collected' = collected /\ menus' = menus
        /\ allPushMenus' = allPushMenus
    BY DEF burgerVars
  <2>. QED  BY <2>1 DEF BurgerInv, MenusSound, Complete, Upto, Offers
<1>2. BurgerInv /\ [BurgerNext]_burgerVars => BurgerInv'
  BY <1>1, CollectLemma, WrapLemma DEF BurgerNext
<1>3. BurgerInv => MenusComplete
  <2>. SUFFICES ASSUME BurgerInv, BurgerReady, NEW k \in DOMAIN burgers
                PROVE  \E m \in DOMAIN allPushMenus :
                          /\ \A j \in DOMAIN allPushMenus :
                                allPushMenus[j].id = burgers[k].id <=> j = m
                          /\ Ofs(allPushMenus[m].entries) = Expected(burgers[k].id)
                          /\ InDocumentOrder(allPushMenus[m].entries)
    BY DEF MenusComplete, Ofs
  <2>1. /\ MenusSound(menus, collected) /\ collected = Len(burgers)
        /\ allPushMenus \in Seq(Menu) /\ menus \in Seq(Menu) /\ burgers \in Seq(Burger)
        /\ Len(allPushMenus) = Len(menus)
        /\ \A i \in DOMAIN allPushMenus : allPushMenus[i] = menus[i]
    BY DEF BurgerInv, BurgerReady, MenusSound
  <2>2. DOMAIN allPushMenus = DOMAIN menus /\ DOMAIN burgers = 1..collected
    BY <2>1, LenProperties
  <2>3. PICK m \in DOMAIN menus : menus[m].id = burgers[k].id
    BY <2>1, <2>2 DEF MenusSound
  <2>4. \A j \in DOMAIN allPushMenus : allPushMenus[j].id = burgers[k].id <=> j = m
    BY <2>1, <2>2, <2>3 DEF MenusSound
  <2>5. Complete(menus[m], collected)
    BY <2>1, <2>3 DEF MenusSound
  <2>6. Upto(burgers[k].id, collected) = Expected(burgers[k].id)
    BY <2>2 DEF Upto, Expected
  <2>7. /\ m \in DOMAIN allPushMenus /\ allPushMenus[m] = menus[m]
        /\ Ofs(allPushMenus[m].entries) = Expected(burgers[k].id)
        /\ InDocumentOrder(allPushMenus[m].entries)
    BY <2>1, <2>2, <2>3, <2>5, <2>6 DEF Complete
  <2>. QED  BY <2>4, <2>7
<1>. QED  BY <1>2, <1>3, BurgerInitLemma, PTL DEF BurgerSpec

-------------------------------------------------------------------------------
(* redirects.js.                                                           *)

\* The pattern stands in the URL, from its i-th token on.
StandsAt(url, pattern, i) ==
    /\ i >= 1 /\ i + Len(pattern) - 1 <= Len(url)
    /\ \A j \in 1..Len(pattern) : url[i + j - 1] = pattern[j]

\* The strings that a URL is made of; those of the patterns are named because
\* the provers do not know them for strings.
Token == STRING \union {"/", "README", "index", ".md", ".html", "404"}

LEMMA TupleLemma ==
    /\ \A a \in Token : <<a>> \in Seq(Token) /\ Len(<<a>>) = 1 /\ <<a>>[1] = a
    /\ \A a, b, c \in Token : /\ <<a, b, c>> \in Seq(Token) /\ Len(<<a, b, c>>) = 3
                             /\ <<a, b, c>>[1] = a /\ <<a, b, c>>[2] = b /\ <<a, b, c>>[3] = c
  OBVIOUS

LEMMA PatternsLemma ==
    ASSUME NEW k \in 1..5
    PROVE  /\ Len(OldURLs) = 5 /\ DOMAIN OldURLs = 1..5
           /\ OldURLs[k] \in Seq(Token)
           /\ Len(OldURLs[k]) \in Nat /\ Len(OldURLs[k]) >= 1
           /\ \A j \in 1..Len(OldURLs[k]) : OldURLs[k][j] # "#"
           /\ OldURLs[k][Len(OldURLs[k])] \in {".md", ".html"}
           /\ OldURLs[4] = <<".html">> /\ OldURLs[5] = <<".md">>
<1>1. Len(OldURLs) = 5 /\ DOMAIN OldURLs = 1..5
  BY DEF OldURLs
<1>2. /\ OldURLs[1] = <<"/", "README", ".md">> /\ OldURLs[2] = <<"/", "README", ".html">>
      /\ OldURLs[3] = <<"/", "index", ".md">>
      /\ OldURLs[4] = <<".html">> /\ OldURLs[5] = <<".md">>
  BY DEF OldURLs
<1>3. "/" \in Token /\ "README" \in Token /\ "index" \in Token /\ ".md" \in Token /\ ".html" \in Token
  BY DEF Token
<1>. DEFINE Good(p) == /\ p \in Seq(Token) /\ Len(p) \in Nat /\ Len(p) >= 1
                       /\ \A j \in 1..Len(p) : p[j] # "#"
                       /\ p[Len(p)] \in {".md", ".html"}
<1>4. \A a \in Token : a \in {".md", ".html"} => Good(<<a>>)
  <2>. TAKE a \in Token
  <2>1. <<a>> \in Seq(Token) /\ Len(<<a>>) = 1 /\ <<a>>[1] = a
    BY TupleLemma
  <2>. QED  BY <2>1
<1>5. \A a, b, c \in Token : a # "#" /\ b # "#" /\ c \in {".md", ".html"} => Good(<<a, b, c>>)
  <2>. TAKE a, b, c \in Token
  <2>1. /\ <<a, b, c>> \in Seq(Token) /\ Len(<<a, b, c>>) = 3
        /\ <<a, b, c>>[1] = a /\ <<a, b, c>>[2] = b /\ <<a, b, c>>[3] = c
    BY TupleLemma
  <2>2. \A j \in 1..3 : j = 1 \/ j = 2 \/ j = 3
    OBVIOUS
  <2>. QED  BY <2>1, <2>2
<1>. HIDE DEF Good
<1>6. /\ Good(OldURLs[1]) /\ Good(OldURLs[2]) /\ Good(OldURLs[3])
      /\ Good(OldURLs[4]) /\ Good(OldURLs[5])
  BY <1>2, <1>3, <1>4, <1>5
<1>7. k = 1 \/ k = 2 \/ k = 3 \/ k = 4 \/ k = 5
  OBVIOUS
<1>8. Good(OldURLs[k])
  BY <1>6, <1>7
<1>. QED  BY <1>1, <1>2, <1>8 DEF Good

LEMMA HoldsLemma ==
    ASSUME NEW T, NEW url \in Seq(T), NEW pattern \in Seq(T), Len(pattern) >= 1
    PROVE  Holds(url, pattern) <=> \E i \in 1..Len(url) : StandsAt(url, pattern, i)
<1>. DEFINE n == Len(pattern)
            m == Len(url)
<1>1. n \in Nat /\ m \in Nat /\ n >= 1
  BY LenProperties
<1>2. /\ \A j \in 1..m : url[j] \in T
      /\ pattern = [j \in 1..n |-> pattern[j]]
  OBVIOUS
<1>3. \A a, b \in 0..m :
         /\ Len(SubSeq(url, a + 1, b)) = IF a + 1 <= b THEN b - a ELSE 0
         /\ \A j \in 1..(b - a) : SubSeq(url, a + 1, b)[j] = url[a + j]
         /\ SubSeq(url, a + 1, b) \in Seq(T)
  <2>. TAKE a, b \in 0..m
  <2>1. a + 1 \in Int /\ b \in Int /\ \A j \in (a + 1)..b : url[j] \in T
    BY <1>1, <1>2
  <2>2. /\ SubSeq(url, a + 1, b) \in Seq(T)
        /\ Len(SubSeq(url, a + 1, b)) = IF a + 1 <= b THEN b - (a + 1) + 1 ELSE 0
        /\ \A j \in 1..(b - (a + 1) + 1) : SubSeq(url, a + 1, b)[j] = url[a + 1 + j - 1]
    BY <2>1, SubSeqProperties
  <2>3. b - (a + 1) + 1 = b - a /\ \A j \in 1..(b - a) : a + 1 + j - 1 = a + j
    BY <1>1
  <2>. QED  BY <2>2, <2>3
<1>. HIDE DEF n, m
<1>4. ASSUME Holds(url, pattern) PROVE \E i \in 1..m : StandsAt(url, pattern, i)
  <2>1. PICK a \in 0..m, b \in 0..m : pattern = SubSeq(url, a + 1, b)
    BY <1>4 DEF Holds, SubSeqs, m
  <2>2. n = b - a /\ a + 1 <= b
    BY <1>1, <1>3, <2>1 DEF n
  <2>3. \A j \in 1..n : url[a + j] = pattern[j]
    BY <1>3, <2>1, <2>2
  <2>4. a + 1 \in 1..m /\ a + 1 >= 1 /\ a + 1 + n - 1 <= m
        /\ \A j \in 1..n : a + 1 + j - 1 = a + j
    BY <1>1, <2>2
  <2>5. StandsAt(url, pattern, a + 1)
    BY <2>3, <2>4 DEF StandsAt, n, m
  <2>. QED  BY <2>4, <2>5
<1>5. ASSUME NEW i \in 1..m, StandsAt(url, pattern, i) PROVE Holds(url, pattern)
  <2>. DEFINE a == i - 1
              b == i + n - 1
              s == SubSeq(url, a + 1, b)
  <2>1. i + n - 1 <= m /\ \A j \in 1..n : url[i + j - 1] = pattern[j]
    BY <1>5 DEF StandsAt, n, m
  <2>2. a \in 0..m /\ b \in 0..m /\ b - a = n /\ a + 1 <= b
        /\ \A j \in 1..n : a + j = i + j - 1
    BY <1>1, <2>1
  <2>. HIDE DEF a, b
  <2>3. Len(s) = n /\ s \in Seq(T) /\ \A j \in 1..n : s[j] = url[a + j]
    BY <1>1, <1>3, <2>2
  <2>4. \A j \in 1..n : s[j] = pattern[j]
    BY <2>1, <2>2, <2>3
  <2>. HIDE DEF s
  <2>5. s = pattern
    BY <2>3, <2>4, SeqEqual DEF n
  <2>. QED  BY <2>2, <2>5 DEF Holds, SubSeqs, s, m
<1>. QED  BY <1>4, <1>5 DEF m

\* url2 is url with the tokens of the pattern, from the i-th on, replaced by a
\* slash.
ReplacedAt(url, url2, pattern, i) ==
    LET n == Len(pattern)
    IN  /\ Len(url2) = Len(url) - n + 1
        /\ \A j \in 1..Len(url2) :
              url2[j] = IF j < i THEN url[j] ELSE IF j = i THEN "/" ELSE url[j + n - 1]

\* What replace does: the first occurrence becomes a slash.
LEMMA ReplaceFirstLemma ==
    ASSUME NEW url \in Seq(Token), NEW pattern \in Seq(Token), Len(pattern) >= 1,
           Holds(url, pattern),
           NEW url2, url2 = ReplaceFirstSubSeq(<<"/">>, pattern, url)
    PROVE  /\ url2 \in Seq(Token)
           /\ \E i \in 1..Len(url) :
                /\ StandsAt(url, pattern, i)
                /\ \A h \in 1..Len(url) : StandsAt(url, pattern, h) => i <= h
                /\ ReplacedAt(url, url2, pattern, i)
<1>. DEFINE n == Len(pattern)
            m == Len(url)
            Ends == {e \in 0..m : Holds(SubSeq(url, 1, e), pattern)}
            last == CHOOSE e \in 0..m :
                      /\ pattern \in SubSeqs(SubSeq(url, 1, e))
                      /\ \A d \in 0..e-1 : pattern \notin SubSeqs(SubSeq(url, 1, d))
            i == last - (n - 1)
<1>1. n \in Nat /\ m \in Nat /\ n >= 1 /\ \A j \in 1..m : url[j] \in Token
  BY LenProperties, ElementOfSeq
<1>. HIDE DEF n, m
<1>2. \A e \in 0..m : /\ SubSeq(url, 1, e) \in Seq(Token) /\ Len(SubSeq(url, 1, e)) = e
                      /\ \A j \in 1..e : SubSeq(url, 1, e)[j] = url[j]
  <2>. TAKE e \in 0..m
  <2>1. 1 \in Int /\ e \in Int /\ \A j \in 1..e : url[j] \in Token
    BY <1>1
  <2>2. /\ SubSeq(url, 1, e) \in Seq(Token)
        /\ Len(SubSeq(url, 1, e)) = IF 1 <= e THEN e - 1 + 1 ELSE 0
        /\ \A j \in 1..(e - 1 + 1) : SubSeq(url, 1, e)[j] = url[1 + j - 1]
    BY <2>1, SubSeqProperties
  <2>3. e - 1 + 1 = e /\ \A j \in 1..e : 1 + j - 1 = j
    BY <1>1
  <2>4. ~(1 <= e) => e = 0
    BY <1>1
  <2>. QED  BY <2>2, <2>3, <2>4
<1>3. ASSUME NEW e \in 0..m
      PROVE  Holds(SubSeq(url, 1, e), pattern) <=>
                \E h \in 1..m : StandsAt(url, pattern, h) /\ h + n - 1 <= e
  <2>. DEFINE s == SubSeq(url, 1, e)
  <2>1. s \in Seq(Token) /\ Len(s) = e /\ \A j \in 1..e : s[j] = url[j]
    BY <1>2
  <2>. HIDE DEF s
  <2>2. Holds(s, pattern) <=> \E h \in 1..e : StandsAt(s, pattern, h)
    BY <2>1, HoldsLemma
  <2>3. ASSUME NEW h \in 1..m, h + n - 1 <= e
        PROVE  h \in 1..e /\ (StandsAt(s, pattern, h) <=> StandsAt(url, pattern, h))
    <3>1. h \in 1..e /\ h >= 1 /\ h + n - 1 <= m
      BY <1>1, <2>3
    <3>2. \A j \in 1..n : h + j - 1 \in 1..e
      BY <1>1, <2>3
    <3>3. \A j \in 1..n : s[h + j - 1] = url[h + j - 1]
      BY <2>1, <3>2
    <3>. QED  BY <2>1, <2>3, <3>1, <3>3 DEF StandsAt, n, m
  <2>4. \A h \in 1..e : h \in 1..m
    BY <1>1
  <2>5. \A h : StandsAt(s, pattern, h) => h + n - 1 <= e
    BY <2>1 DEF StandsAt, n
  <2>. QED  BY <2>2, <2>3, <2>4, <2>5 DEF s
<1>4. Ends # {}
  <2>1. PICK h \in 1..m : StandsAt(url, pattern, h)
    BY HoldsLemma DEF m
  <2>2. h + n - 1 <= m
    BY <2>1 DEF StandsAt, n, m
  <2>3. h + n - 1 \in 0..m /\ h + n - 1 <= h + n - 1
    BY <1>1, <2>2
  <2>. QED  BY <1>3, <2>1, <2>3
<1>5. PICK e \in Ends : \A d \in Ends : e <= d
  <2>1. Ends \in SUBSET Nat
    BY <1>1
  <2>. QED  BY <1>4, <2>1, LeastElement
<1>6. \A d \in 0..e-1 : d \in 0..m /\ d \notin Ends
  BY <1>1, <1>5
<1>7. /\ pattern \in SubSeqs(SubSeq(url, 1, e))
      /\ \A d \in 0..e-1 : pattern \notin SubSeqs(SubSeq(url, 1, d))
  BY <1>5, <1>6 DEF Holds
<1>8. /\ last \in 0..m /\ Holds(SubSeq(url, 1, last), pattern)
      /\ \A d \in 0..last-1 : ~Holds(SubSeq(url, 1, d), pattern)
  BY <1>5, <1>7 DEF Holds
<1>. HIDE DEF last, Ends
<1>9. PICK h \in 1..m : StandsAt(url, pattern, h) /\ h + n - 1 <= last
  BY <1>3, <1>8
<1>10. \A g \in 1..m : StandsAt(url, pattern, g) => last <= g + n - 1
  <2>. SUFFICES ASSUME NEW g \in 1..m, StandsAt(url, pattern, g), g + n - 1 < last
                PROVE  FALSE
    BY <1>1, <1>8
  <2>1. g + n - 1 \in 0..last-1 /\ g + n - 1 \in 0..m /\ g + n - 1 <= g + n - 1
    BY <1>1, <1>8
  <2>. QED  BY <1>3, <1>8, <2>1
<1>11. h = i
  <2>1. last <= h + n - 1
    BY <1>9, <1>10
  <2>. QED  BY <1>1, <1>8, <1>9, <2>1
<1>12. /\ i \in 1..m /\ StandsAt(url, pattern, i)
       /\ \A g \in 1..m : StandsAt(url, pattern, g) => i <= g
  BY <1>1, <1>8, <1>9, <1>10, <1>11
<1>. DEFINE before == SubSeq(url, 1, i - 1)
            behind == SubSeq(url, i + n, m)
<1>13. url2 = before \o <<"/">> \o behind
  BY DEF ReplaceFirstSubSeq, ReplaceSubSeqAt, IndexFirstSubSeq, Holds, n, m, i, last
<1>14. i + n - 1 <= m
  BY <1>12 DEF StandsAt, n, m
<1>. HIDE DEF i, before, behind
<1>15. before \in Seq(Token) /\ Len(before) = i - 1
       /\ \A j \in 1..(i - 1) : before[j] = url[j]
  <2>1. i - 1 \in 0..m
    BY <1>1, <1>12
  <2>. QED  BY <1>2, <2>1 DEF before
<1>16. behind \in Seq(Token) /\ Len(behind) = m - n - i + 1
       /\ \A j \in 1..(m - n - i + 1) : behind[j] = url[i + n - 1 + j]
  <2>1. i + n \in Int /\ m \in Int /\ \A j \in (i + n)..m : url[j] \in Token
    BY <1>1, <1>12
  <2>2. /\ behind \in Seq(Token)
        /\ Len(behind) = IF i + n <= m THEN m - (i + n) + 1 ELSE 0
        /\ \A j \in 1..(m - (i + n) + 1) : behind[j] = url[i + n + j - 1]
    BY <2>1, SubSeqProperties DEF behind
  <2>3. m - (i + n) + 1 = m - n - i + 1
        /\ \A j \in 1..(m - n - i + 1) : i + n + j - 1 = i + n - 1 + j
    BY <1>1, <1>12
  <2>4. ~(i + n <= m) => m - n - i + 1 = 0
    BY <1>1, <1>12, <1>14
  <2>. QED  BY <2>2, <2>3, <2>4
<1>. DEFINE front == before \o <<"/">>
<1>17. <<"/">> \in Seq(Token) /\ Len(<<"/">>) = 1 /\ <<"/">>[1] = "/"
  BY TupleLemma DEF Token
<1>18. /\ front \in Seq(Token) /\ Len(front) = i
       /\ \A j \in 1..(i - 1) : front[j] = url[j]
       /\ front[i] = "/"
  <2>1. /\ front \in Seq(Token) /\ Len(front) = Len(before) + 1
        /\ \A j \in 1..(Len(before) + 1) :
              front[j] = IF j <= Len(before) THEN before[j] ELSE <<"/">>[j - Len(before)]
    BY <1>15, <1>17, ConcatProperties
  <2>2. Len(before) + 1 = i /\ i - Len(before) = 1 /\ i \in 1..(Len(before) + 1)
        /\ ~(i <= Len(before))
        /\ \A j \in 1..(i - 1) : j \in 1..(Len(before) + 1) /\ j <= Len(before)
    BY <1>1, <1>12, <1>15
  <2>. QED  BY <1>15, <1>17, <2>1, <2>2
<1>. HIDE DEF front
<1>19. /\ url2 \in Seq(Token) /\ Len(url2) = i + (m - n - i + 1)
       /\ \A j \in 1..(i + (m - n - i + 1)) :
             url2[j] = IF j <= i THEN front[j] ELSE behind[j - i]
  <2>1. url2 = front \o behind
    BY <1>13 DEF front
  <2>2. /\ url2 \in Seq(Token) /\ Len(url2) = Len(front) + Len(behind)
        /\ \A j \in 1..(Len(front) + Len(behind)) :
             url2[j] = IF j <= Len(front) THEN front[j] ELSE behind[j - Len(front)]
    <3>1. front \in Seq(Token) /\ behind \in Seq(Token)
      BY <1>16, <1>18
    <3>2. /\ front \o behind \in Seq(Token)
          /\ Len(front \o behind) = Len(front) + Len(behind)
          /\ \A j \in 1..(Len(front) + Len(behind)) :
               (front \o behind)[j] = IF j <= Len(front) THEN front[j] ELSE behind[j - Len(front)]
      BY <3>1, ConcatProperties
    <3>. QED  BY <2>1, <3>2
  <2>. QED  BY <1>16, <1>18, <2>2
<1>20. ReplacedAt(url, url2, pattern, i)
  <2>1. Len(url2) = m - n + 1
    BY <1>1, <1>12, <1>19
  <2>2. ASSUME NEW j \in 1..Len(url2)
        PROVE  url2[j] = IF j < i THEN url[j] ELSE IF j = i THEN "/" ELSE url[j + n - 1]
    <3>1. j \in 1..(i + (m - n - i + 1))
      BY <1>19
    <3>2. CASE j < i
      <4>1. j <= i /\ j \in 1..(i - 1)
        BY <1>12, <3>1, <3>2
      <4>. QED  BY <1>18, <1>19, <3>1, <3>2, <4>1
    <3>3. CASE j = i
      BY <1>12, <1>18, <1>19, <3>1, <3>3
    <3>4. CASE j > i
      <4>1. ~(j <= i) /\ j - i \in 1..(m - n - i + 1) /\ i + n - 1 + (j - i) = j + n - 1
            /\ ~(j < i) /\ j # i
        BY <1>1, <1>12, <3>1, <3>4
      <4>. QED  BY <1>16, <1>19, <3>1, <4>1
    <3>5. j < i \/ j = i \/ j > i
      BY <1>12, <3>1
    <3>. QED  BY <3>2, <3>3, <3>4, <3>5
  <2>. QED  BY <2>1, <2>2 DEF ReplacedAt, n, m
<1>. QED  BY <1>12, <1>19, <1>20 DEF m

\* A replacement adds no token but a slash, and takes the suffix away.
LEMMA CountLemma ==
    ASSUME NEW url \in Seq(Token), NEW url2 \in Seq(Token), NEW pattern \in Seq(Token),
           Len(pattern) >= 1, NEW i \in 1..Len(url), StandsAt(url, pattern, i),
           ReplacedAt(url, url2, pattern, i), NEW tokens, "/" \notin tokens
    PROVE  /\ Count(url, tokens) \in Nat /\ Count(url2, tokens) \in Nat
           /\ Count(url2, tokens) <= Count(url, tokens)
           /\ pattern[Len(pattern)] \in tokens => Count(url2, tokens) < Count(url, tokens)
<1>. DEFINE n == Len(pattern)
            m == Len(url)
            here == {k \in DOMAIN url : url[k] \in tokens}
            there == {k \in DOMAIN url2 : url2[k] \in tokens}
            others == here \ {i + n - 1}
            f == [k \in there |-> IF k < i THEN k ELSE k + n - 1]
<1>1. n \in Nat /\ m \in Nat /\ n >= 1 /\ DOMAIN url = 1..m
      /\ Len(url2) \in Nat /\ DOMAIN url2 = 1..Len(url2)
  BY LenProperties
<1>2. i \in Nat /\ i >= 1 /\ i + n - 1 <= m /\ Len(url2) = m - n + 1
  BY <1>1 DEF StandsAt, ReplacedAt
<1>3. \A k \in 1..Len(url2) :
         url2[k] = IF k < i THEN url[k] ELSE IF k = i THEN "/" ELSE url[k + n - 1]
  BY DEF ReplacedAt
<1>4. \A k \in there : k \in 1..Len(url2) /\ k # i /\ f[k] = IF k < i THEN k ELSE k + n - 1
  BY <1>1, <1>3
<1>5. \A k \in there : f[k] \in 1..m /\ f[k] # i + n - 1 /\ url[f[k]] \in tokens
  <2>. TAKE k \in there
  <2>1. k \in 1..Len(url2) /\ k # i /\ url2[k] \in tokens
    BY <1>4
  <2>2. CASE k < i
    <3>1. f[k] = k /\ k \in 1..m /\ k # i + n - 1 /\ url2[k] = url[k]
      BY <1>1, <1>2, <1>3, <1>4, <2>1, <2>2
    <3>. QED  BY <2>1, <3>1
  <2>3. CASE ~(k < i)
    <3>1. f[k] = k + n - 1 /\ url2[k] = url[k + n - 1]
      BY <1>3, <1>4, <2>1, <2>3
    <3>2. k + n - 1 \in 1..m /\ k + n - 1 # i + n - 1
      BY <1>1, <1>2, <2>1, <2>3
    <3>. QED  BY <2>1, <3>1, <3>2
  <2>. QED  BY <2>2, <2>3
<1>6. f \in [there -> others]
  BY <1>1, <1>5
<1>7. \A a, b \in there : f[a] = f[b] => a = b
  BY <1>1, <1>2, <1>4
<1>8. IsFiniteSet(here) /\ IsFiniteSet(others) /\ IsFiniteSet(there)
  <2>1. \A a \in Nat : IsFiniteSet(1..a)
    BY FS_Interval
  <2>2. here \in SUBSET (1..m) /\ others \in SUBSET (1..m) /\ there \in SUBSET (1..Len(url2))
    BY <1>1
  <2>. QED  BY <1>1, <2>1, <2>2, FS_Subset
<1>. HIDE DEF f, here, there
<1>9. Cardinality(there) <= Cardinality(others)
  <2>1. f \in Injection(there, others)
    BY <1>6, <1>7, Fun_IsInj
  <2>. QED  BY <1>8, <2>1, FS_Injection
<1>10. /\ Cardinality(here) \in Nat /\ Cardinality(there) \in Nat /\ Cardinality(others) \in Nat
       /\ Cardinality(others) = IF i + n - 1 \in here THEN Cardinality(here) - 1
                                                      ELSE Cardinality(here)
  BY <1>8, FS_RemoveElement, FS_CardinalityType
<1>11. pattern[n] \in tokens => i + n - 1 \in here
  <2>1. url[i + n - 1] = pattern[n]
    BY <1>1 DEF StandsAt
  <2>2. i + n - 1 \in 1..m
    BY <1>1, <1>2
  <2>. QED  BY <1>1, <2>1, <2>2 DEF here
<1>. QED  BY <1>9, <1>10, <1>11 DEF Count, here, there

\* The page for an address that does not exist is not arrived at.
LEMMA NotFoundLemma ==
    ASSUME NEW url \in Seq(Token), NEW url2 \in Seq(Token), NEW pattern \in Seq(Token),
           Len(pattern) >= 1, NEW i \in 1..Len(url), StandsAt(url, pattern, i),
           ReplacedAt(url, url2, pattern, i), Holds(url2, NotFound)
    PROVE  Holds(url, NotFound)
<1>. DEFINE n == Len(pattern)
            m == Len(url)
<1>1. n \in Nat /\ m \in Nat /\ n >= 1 /\ Len(url2) \in Nat
  BY LenProperties
<1>2. i \in Nat /\ i >= 1 /\ i + n - 1 <= m /\ Len(url2) = m - n + 1
  BY <1>1 DEF StandsAt, ReplacedAt
<1>3. \A k \in 1..Len(url2) :
         url2[k] = IF k < i THEN url[k] ELSE IF k = i THEN "/" ELSE url[k + n - 1]
  BY DEF ReplacedAt
<1>4. NotFound \in Seq(Token) /\ Len(NotFound) = 2 /\ Len(NotFound) >= 1
      /\ NotFound[1] = "404" /\ NotFound[2] = ".html"
  <2>1. \A a, b \in Token : <<a, b>> \in Seq(Token) /\ Len(<<a, b>>) = 2
                            /\ <<a, b>>[1] = a /\ <<a, b>>[2] = b
    OBVIOUS
  <2>2. "404" \in Token /\ ".html" \in Token
    BY DEF Token
  <2>. QED  BY <2>1, <2>2 DEF NotFound
<1>. HIDE DEF n, m
<1>5. PICK h \in 1..Len(url2) : StandsAt(url2, NotFound, h)
  BY <1>4, HoldsLemma
<1>6. /\ h + 1 \in 1..Len(url2) /\ url2[h] = "404" /\ url2[h + 1] = ".html"
  <2>1. h + 2 - 1 <= Len(url2) /\ \A j \in 1..2 : url2[h + j - 1] = NotFound[j]
    BY <1>4, <1>5 DEF StandsAt
  <2>2. 1 \in 1..2 /\ 2 \in 1..2 /\ h + 1 - 1 = h /\ h + 2 - 1 = h + 1
    OBVIOUS
  <2>3. url2[h] = NotFound[1] /\ url2[h + 1] = NotFound[2]
    BY <2>1, <2>2
  <2>4. h + 1 \in 1..Len(url2)
    BY <1>1, <2>1
  <2>. QED  BY <1>4, <2>3, <2>4
<1>7. h # i /\ h + 1 # i
  BY <1>3, <1>6
<1>8. ASSUME NEW g \in 1..m, g + 1 <= m, url[g] = "404", url[g + 1] = ".html"
      PROVE  Holds(url, NotFound)
  <2>1. \A j \in 1..2 : url[g + j - 1] = NotFound[j]
    <3>. TAKE j \in 1..2
    <3>1. j = 1 \/ j = 2
      OBVIOUS
    <3>2. g + 1 - 1 = g /\ g + 2 - 1 = g + 1
      OBVIOUS
    <3>. QED  BY <1>4, <1>8, <3>1, <3>2
  <2>2. StandsAt(url, NotFound, g)
    BY <1>1, <1>4, <1>8, <2>1 DEF StandsAt, m
  <2>. QED  BY <1>4, <2>2, HoldsLemma DEF m
<1>9. CASE h < i
  <2>1. h + 1 < i /\ h \in 1..m /\ h + 1 <= m
    BY <1>1, <1>2, <1>7, <1>9
  <2>2. url[h] = "404" /\ url[h + 1] = ".html"
    BY <1>3, <1>6, <1>9, <2>1
  <2>. QED  BY <1>8, <2>1, <2>2
<1>10. CASE ~(h < i)
  <2>1. ~(h + 1 < i) /\ h + n - 1 \in 1..m /\ h + n - 1 + 1 <= m /\ h + 1 + n - 1 = h + n - 1 + 1
    BY <1>1, <1>2, <1>6, <1>7, <1>10
  <2>2. url[h + n - 1] = "404" /\ url[h + 1 + n - 1] = ".html"
    BY <1>3, <1>6, <1>7, <1>10, <2>1
  <2>. QED  BY <1>8, <2>1, <2>2
<1>. QED  BY <1>9, <1>10

\* What the browser loads: all before the first fragment sign.
LEMMA DocumentLemma ==
    ASSUME NEW url \in Seq(Token)
    PROVE  /\ \E d \in 0..Len(url) :
                /\ \A j \in 1..d : url[j] # "#"
                /\ d = Len(url) \/ url[d + 1] = "#"
           /\ \A d \in 0..Len(url) :
                (\A j \in 1..d : url[j] # "#") /\ (d = Len(url) \/ url[d + 1] = "#")
                => Document(url) = SubSeq(url, 1, d)
<1>. DEFINE m == Len(url)
            more == url \o <<"#">>
            signs == {k \in 1..Len(more) : more[k] = "#"}
            first == IF signs # {} THEN Min(signs) ELSE 0
<1>1. m \in Nat /\ \A j \in 1..m : url[j] \in Token
  BY LenProperties, ElementOfSeq
<1>2. /\ Len(more) = m + 1 /\ more[m + 1] = "#" /\ \A j \in 1..m : more[j] = url[j]
  <2>1. \A a \in {"#"} : <<a>> \in Seq({"#"}) /\ Len(<<a>>) = 1 /\ <<a>>[1] = a
    OBVIOUS
  <2>2. url \in Seq(Token \union {"#"}) /\ <<"#">> \in Seq(Token \union {"#"})
    <3>1. \A a \in Token \union {"#"} : <<a>> \in Seq(Token \union {"#"})
      OBVIOUS
    <3>2. url \in [1..m -> Token \union {"#"}]
      BY <1>1
    <3>. QED  BY <1>1, <3>1, <3>2
  <2>3. /\ Len(more) = m + Len(<<"#">>)
        /\ \A j \in 1..(m + Len(<<"#">>)) :
              more[j] = IF j <= m THEN url[j] ELSE <<"#">>[j - m]
    BY <2>2, ConcatProperties
  <2>4. Len(<<"#">>) = 1 /\ <<"#">>[1] = "#"
    BY <2>1
  <2>5. m + 1 \in 1..(m + 1) /\ ~(m + 1 <= m) /\ m + 1 - m = 1
        /\ \A j \in 1..m : j \in 1..(m + 1) /\ j <= m
    BY <1>1
  <2>. QED  BY <2>3, <2>4, <2>5
<1>3. Document(url) = SubSeq(url, 1, first - 1)
  BY DEF Document, SelectInSeq
<1>. HIDE DEF m, more
<1>4. signs \in SUBSET (1..(m + 1)) /\ m + 1 \in signs /\ m + 1 \in Nat
  BY <1>1, <1>2
<1>5. first \in 1..(m + 1) /\ first \in signs /\ \A k \in signs : first <= k
  <2>1. /\ first \in 0..(m + 1)
        /\ first # 0 => first \in signs /\ \A k \in signs : first <= k
        /\ first = 0 => signs = {}
    <3>1. first = IF signs # {} THEN Min(signs) ELSE 0
      OBVIOUS
    <3>. HIDE DEF first, signs
    <3>. QED  BY <1>4, <3>1, FirstPlaceLemma
  <2>. QED  BY <1>1, <1>4, <2>1
<1>. HIDE DEF first
<1>6. first - 1 \in 0..m /\ (\A j \in 1..(first - 1) : url[j] # "#")
      /\ (first - 1 = m \/ url[first - 1 + 1] = "#")
  <2>1. first - 1 \in 0..m /\ first - 1 + 1 = first
    BY <1>1, <1>5
  <2>2. \A j \in 1..(first - 1) : j \in 1..m /\ j \in 1..Len(more) /\ ~(first <= j)
    BY <1>1, <1>2, <1>5
  <2>3. \A j \in 1..(first - 1) : url[j] # "#"
    BY <1>2, <1>5, <2>2
  <2>4. first # m + 1 => url[first] = "#"
    <3>1. first # m + 1 => first \in 1..m
      BY <1>1, <1>5
    <3>. QED  BY <1>2, <1>5, <3>1
  <2>5. first = m + 1 => first - 1 = m
    BY <1>1
  <2>. QED  BY <2>1, <2>3, <2>4, <2>5
<1>7. ASSUME NEW d \in 0..m, \A j \in 1..d : url[j] # "#", d = m \/ url[d + 1] = "#"
      PROVE  d = first - 1
  <2>1. d + 1 \in signs
    <3>1. d + 1 \in 1..Len(more)
      BY <1>1, <1>2
    <3>2. d # m => d + 1 \in 1..m
      BY <1>1
    <3>3. more[d + 1] = "#"
      BY <1>2, <1>7, <3>2
    <3>. QED  BY <3>1, <3>3
  <2>2. first <= d + 1
    BY <1>5, <2>1
  <2>3. ~(first <= d)
    <3>. SUFFICES ASSUME first <= d PROVE FALSE
      OBVIOUS
    <3>1. first \in 1..d /\ first \in 1..m
      BY <1>1, <1>5
    <3>2. more[first] = "#"
      BY <1>5
    <3>. QED  BY <1>2, <1>7, <3>1, <3>2
  <2>. QED  BY <1>1, <1>5, <2>2, <2>3
<1>. QED  BY <1>3, <1>6, <1>7 DEF m

\* The endings a document had before the site served addresses without them.
DocSuffixes == {".md", ".html"}

\* A replacement takes a suffix from what the browser loads, or leaves it as it
\* was, without the pattern.
LEMMA DocumentReplaced ==
    ASSUME NEW url \in Seq(Token), NEW url2 \in Seq(Token), NEW pattern \in Seq(Token),
           Len(pattern) >= 1, \A j \in 1..Len(pattern) : pattern[j] # "#",
           pattern[Len(pattern)] \in DocSuffixes,
           NEW i \in 1..Len(url), StandsAt(url, pattern, i),
           \A h \in 1..Len(url) : StandsAt(url, pattern, h) => i <= h,
           ReplacedAt(url, url2, pattern, i)
    PROVE  \/ Document(url2) = Document(url) /\ ~Holds(Document(url), pattern)
           \/ Count(Document(url2), DocSuffixes) < Count(Document(url), DocSuffixes)
<1>. DEFINE n == Len(pattern)
            m == Len(url)
<1>1. n \in Nat /\ m \in Nat /\ n >= 1 /\ Len(url2) \in Nat
  BY LenProperties
<1>2. i \in Nat /\ i >= 1 /\ i + n - 1 <= m /\ Len(url2) = m - n + 1
  BY <1>1 DEF StandsAt, ReplacedAt
<1>3. \A k \in 1..Len(url2) :
         url2[k] = IF k < i THEN url[k] ELSE IF k = i THEN "/" ELSE url[k + n - 1]
  BY DEF ReplacedAt
<1>. HIDE DEF n, m
<1>4. PICK d \in 0..m : (\A j \in 1..d : url[j] # "#") /\ (d = m \/ url[d + 1] = "#")
  BY DocumentLemma DEF m
<1>5. Document(url) = SubSeq(url, 1, d)
  BY <1>4, DocumentLemma DEF m
<1>6. \A u \in Seq(Token) : \A e \in 0..Len(u) :
         /\ SubSeq(u, 1, e) \in Seq(Token) /\ Len(SubSeq(u, 1, e)) = e
         /\ \A j \in 1..e : SubSeq(u, 1, e)[j] = u[j]
  <2>. TAKE u \in Seq(Token)
  <2>. TAKE e \in 0..Len(u)
  <2>1. 1 \in Int /\ e \in Int /\ Len(u) \in Nat
    BY LenProperties
  <2>2. \A j \in 1..e : j \in 1..Len(u)
    BY <2>1
  <2>3. \A j \in 1..e : u[j] \in Token
    BY <2>2, ElementOfSeq
  <2>4. /\ SubSeq(u, 1, e) \in Seq(Token)
        /\ Len(SubSeq(u, 1, e)) = IF 1 <= e THEN e - 1 + 1 ELSE 0
        /\ \A j \in 1..(e - 1 + 1) : SubSeq(u, 1, e)[j] = u[1 + j - 1]
    BY <2>1, <2>3, SubSeqProperties
  <2>5. e - 1 + 1 = e /\ \A j \in 1..e : 1 + j - 1 = j
    BY <2>1
  <2>6. ~(1 <= e) => e = 0
    BY <2>1
  <2>. QED  BY <2>4, <2>5, <2>6
<1>7. /\ Document(url) \in Seq(Token) /\ Len(Document(url)) = d
      /\ \A j \in 1..d : Document(url)[j] = url[j]
  BY <1>4, <1>5, <1>6 DEF m
<1>8. CASE i + n - 1 <= d
  <2>. DEFINE e == d - n + 1
  <2>1. e \in 0..Len(url2) /\ i <= e /\ i <= d /\ e <= d
    BY <1>1, <1>2, <1>8
  <2>2. ASSUME NEW j \in 1..e PROVE url2[j] # "#"
    <3>1. j \in 1..Len(url2) /\ j \in 1..d /\ (j > i => j + n - 1 \in 1..d)
      BY <1>1, <1>2, <2>1
    <3>2. url2[j] = IF j < i THEN url[j] ELSE IF j = i THEN "/" ELSE url[j + n - 1]
      BY <1>3, <3>1
    <3>3. j < i \/ j = i \/ j > i
      BY <1>2, <3>1
    <3>. QED  BY <1>4, <3>1, <3>2, <3>3
  <2>3. e = Len(url2) \/ url2[e + 1] = "#"
    <3>1. CASE d = m
      BY <1>1, <1>2, <3>1
    <3>2. CASE d # m
      <4>1. e + 1 \in 1..Len(url2) /\ ~(e + 1 < i) /\ e + 1 # i /\ e + 1 + n - 1 = d + 1
        BY <1>1, <1>2, <2>1, <3>2
      <4>2. url2[e + 1] = url[d + 1]
        BY <1>3, <4>1
      <4>. QED  BY <1>4, <3>2, <4>2
    <3>. QED  BY <3>1, <3>2
  <2>. HIDE DEF e
  <2>4. Document(url2) = SubSeq(url2, 1, e)
    BY <2>1, <2>2, <2>3, DocumentLemma
  <2>5. /\ Document(url2) \in Seq(Token) /\ Len(Document(url2)) = e
        /\ \A j \in 1..e : Document(url2)[j] = url2[j]
    BY <1>6, <2>1, <2>4
  <2>6. StandsAt(Document(url), pattern, i)
    <3>1. \A j \in 1..n : i + j - 1 \in 1..d
      BY <1>1, <1>2, <1>8
    <3>2. \A j \in 1..n : url[i + j - 1] = pattern[j]
      BY DEF StandsAt, n
    <3>. QED  BY <1>2, <1>7, <1>8, <3>1, <3>2 DEF StandsAt, n
  <2>7. ReplacedAt(Document(url), Document(url2), pattern, i)
    <3>1. ASSUME NEW j \in 1..e
          PROVE  Document(url2)[j] = IF j < i THEN Document(url)[j]
                                     ELSE IF j = i THEN "/" ELSE Document(url)[j + n - 1]
      <4>1. j \in 1..Len(url2) /\ (j < i => j \in 1..d) /\ (j > i => j + n - 1 \in 1..d)
        BY <1>1, <1>2, <2>1 DEF e
      <4>2. Document(url2)[j] = IF j < i THEN url[j] ELSE IF j = i THEN "/" ELSE url[j + n - 1]
        BY <1>3, <2>5, <4>1
      <4>3. j < i \/ j = i \/ j > i
        BY <1>2, <4>1
      <4>. QED  BY <1>7, <4>1, <4>2, <4>3
    <3>2. Len(Document(url2)) = Len(Document(url)) - n + 1
      BY <1>7, <2>5 DEF e
    <3>. QED  BY <2>5, <3>1, <3>2 DEF ReplacedAt, n
  <2>8. i \in 1..Len(Document(url)) /\ "/" \notin DocSuffixes
    BY <1>2, <1>7, <2>1 DEF DocSuffixes
  <2>. QED  BY <1>7, <2>5, <2>6, <2>7, <2>8, CountLemma
<1>9. CASE ~(i + n - 1 <= d)
  <2>1. d # m /\ url[d + 1] = "#"
    BY <1>1, <1>2, <1>4, <1>9
  <2>2. d + 1 < i
    <3>. SUFFICES ASSUME ~(d + 1 < i) PROVE FALSE
      OBVIOUS
    <3>1. d + 2 - i \in 1..n /\ i + (d + 2 - i) - 1 = d + 1
      BY <1>1, <1>2, <1>9
    <3>2. url[d + 1] = pattern[d + 2 - i]
      BY <3>1 DEF StandsAt, n
    <3>. QED  BY <2>1, <3>1, <3>2 DEF n
  <2>3. d \in 0..Len(url2) /\ \A j \in 1..(d + 1) : j \in 1..Len(url2) /\ j < i
    BY <1>1, <1>2, <2>2
  <2>4. \A j \in 1..(d + 1) : url2[j] = url[j]
    BY <1>3, <2>3
  <2>5. d + 1 \in 1..(d + 1) /\ \A j \in 1..d : j \in 1..(d + 1)
    BY <1>1
  <2>6. url2[d + 1] = "#" /\ \A j \in 1..d : url2[j] = url[j] /\ url2[j] # "#"
    BY <1>4, <2>1, <2>4, <2>5
  <2>7. Document(url2) = SubSeq(url2, 1, d)
    BY <2>3, <2>6, DocumentLemma
  <2>8. /\ Document(url2) \in Seq(Token) /\ Len(Document(url2)) = d
        /\ \A j \in 1..d : Document(url2)[j] = url2[j]
    BY <1>6, <2>3, <2>7
  <2>9. Document(url2) = Document(url)
    <3>1. \A j \in 1..d : Document(url2)[j] = Document(url)[j]
      BY <1>7, <2>6, <2>8
    <3>. QED  BY <1>7, <2>8, <3>1, SeqEqual
  <2>10. ~Holds(Document(url), pattern)
    <3>. SUFFICES ASSUME Holds(Document(url), pattern) PROVE FALSE
      OBVIOUS
    <3>1. PICK h \in 1..d : StandsAt(Document(url), pattern, h)
      BY <1>7, HoldsLemma
    <3>2. h \in 1..m /\ h + n - 1 <= d
      BY <1>1, <1>7, <3>1 DEF StandsAt, n
    <3>3. \A j \in 1..n : h + j - 1 \in 1..d
      BY <1>1, <3>2
    <3>4. \A j \in 1..n : url[h + j - 1] = pattern[j]
      BY <1>7, <3>1, <3>3 DEF StandsAt, n
    <3>5. h >= 1 /\ h + n - 1 <= m
      BY <1>1, <3>2
    <3>6. StandsAt(url, pattern, h)
      BY <3>4, <3>5 DEF StandsAt, n, m
    <3>7. i <= h
      BY <3>2, <3>6 DEF m
    <3>. QED  BY <1>1, <1>2, <2>2, <3>2, <3>7
  <2>. QED  BY <2>9, <2>10
<1>. QED  BY <1>8, <1>9

\* What the browser loads is a beginning of the URL.
LEMMA DocumentBegins ==
    ASSUME NEW url \in Seq(Token), NEW pattern \in Seq(Token), Len(pattern) >= 1
    PROVE  /\ Document(url) \in Seq(Token)
           /\ Holds(Document(url), pattern) => Holds(url, pattern)
<1>1. PICK d \in 0..Len(url) : Document(url) = SubSeq(url, 1, d)
  BY DocumentLemma
<1>2. 1 \in Int /\ d \in Int /\ Len(url) \in Nat
  BY LenProperties
<1>3. \A j \in 1..d : j \in 1..Len(url)
  BY <1>2
<1>4. \A j \in 1..d : url[j] \in Token
  BY <1>3, ElementOfSeq
<1>5. /\ SubSeq(url, 1, d) \in Seq(Token)
      /\ Len(SubSeq(url, 1, d)) = IF 1 <= d THEN d - 1 + 1 ELSE 0
      /\ \A j \in 1..(d - 1 + 1) : SubSeq(url, 1, d)[j] = url[1 + j - 1]
  BY <1>2, <1>4, SubSeqProperties
<1>6. d - 1 + 1 = d /\ \A j \in 1..d : 1 + j - 1 = j
  BY <1>2
<1>7. ~(1 <= d) => d = 0
  BY <1>2
<1>8. /\ Document(url) \in Seq(Token) /\ Len(Document(url)) = d
      /\ \A j \in 1..d : Document(url)[j] = url[j]
  BY <1>1, <1>5, <1>6, <1>7
<1>9. ASSUME Holds(Document(url), pattern) PROVE Holds(url, pattern)
  <2>1. PICK h \in 1..d : StandsAt(Document(url), pattern, h)
    BY <1>8, <1>9, HoldsLemma
  <2>2. Len(pattern) \in Nat /\ h \in 1..Len(url) /\ h + Len(pattern) - 1 <= d /\ h >= 1
        /\ h + Len(pattern) - 1 <= Len(url)
    BY <1>2, <1>8, <2>1, LenProperties DEF StandsAt
  <2>3. \A j \in 1..Len(pattern) : h + j - 1 \in 1..d
    BY <1>2, <2>2
  <2>4. \A j \in 1..Len(pattern) : url[h + j - 1] = pattern[j]
    BY <1>8, <2>1, <2>3 DEF StandsAt
  <2>5. StandsAt(url, pattern, h)
    BY <2>2, <2>4 DEF StandsAt
  <2>. QED  BY <2>2, <2>5, HoldsLemma
<1>. QED  BY <1>8, <1>9

CountOf(url, s) == Count(url, {s})

\* A URL that does not hold a suffix has none.
LEMMA NoneLemma ==
    ASSUME NEW url \in Seq(Token), NEW s \in Token, ~Holds(url, <<s>>)
    PROVE  CountOf(url, s) = 0
<1>1. <<s>> \in Seq(Token) /\ Len(<<s>>) = 1 /\ <<s>>[1] = s /\ Len(<<s>>) >= 1
  BY TupleLemma
<1>2. Len(url) \in Nat /\ DOMAIN url = 1..Len(url)
  BY LenProperties
<1>3. ASSUME NEW k \in DOMAIN url, url[k] \in {s} PROVE FALSE
  <2>1. k >= 1 /\ k + 1 - 1 <= Len(url) /\ k + 1 - 1 = k /\ k \in 1..Len(url)
    BY <1>2
  <2>2. \A j \in 1..1 : j = 1
    OBVIOUS
  <2>3. StandsAt(url, <<s>>, k)
    BY <1>1, <1>3, <2>1, <2>2 DEF StandsAt
  <2>. QED  BY <1>1, <2>1, <2>3, HoldsLemma
<1>4. {k \in DOMAIN url : url[k] \in {s}} = {}
  BY <1>3
<1>. QED  BY <1>4, FS_EmptySet DEF CountOf, Count

LEMMA CountType ==
    ASSUME NEW url \in Seq(Token), NEW tokens
    PROVE  Count(url, tokens) \in Nat
<1>1. Len(url) \in Nat /\ DOMAIN url = 1..Len(url)
  BY LenProperties
<1>2. IsFiniteSet(1..Len(url))
  BY <1>1, FS_Interval
<1>3. {k \in DOMAIN url : url[k] \in tokens} \in SUBSET (1..Len(url))
  BY <1>1
<1>. QED  BY <1>2, <1>3, FS_Subset, FS_CardinalityType DEF Count

\* One round of the loop.
LEMMA RoundLemma ==
    ASSUME NEW url \in Seq(Token), NEW k \in 1..5, NEW url2,
           url2 = IF Holds(url, OldURLs[k]) /\ ~Holds(url, NotFound)
                  THEN ReplaceFirstSubSeq(<<"/">>, OldURLs[k], url)
                  ELSE url
    PROVE  /\ url2 \in Seq(Token)
           /\ \A s \in DocSuffixes : CountOf(url2, s) <= CountOf(url, s)
           /\ url2 = url \/ \E s \in DocSuffixes : CountOf(url2, s) < CountOf(url, s)
           /\ Holds(url, NotFound) => url2 = url
           /\ Holds(url2, NotFound) => Holds(url, NotFound)
           /\ ~Holds(url, NotFound) =>
                \A s \in DocSuffixes : OldURLs[k] = <<s>> =>
                   CountOf(url, s) = 0 \/ CountOf(url2, s) < CountOf(url, s)
           /\ \/ Document(url2) = Document(url)
                 /\ (Holds(url, NotFound) \/ ~Holds(Document(url), OldURLs[k]))
              \/ Count(Document(url2), DocSuffixes) < Count(Document(url), DocSuffixes)
<1>. DEFINE p == OldURLs[k]
<1>1. /\ p \in Seq(Token) /\ Len(p) \in Nat /\ Len(p) >= 1
      /\ \A j \in 1..Len(p) : p[j] # "#"
      /\ p[Len(p)] \in DocSuffixes
  BY PatternsLemma DEF DocSuffixes
<1>. HIDE DEF p
<1>2. \A s \in DocSuffixes : s \in Token /\ CountOf(url, s) \in Nat
  BY CountType DEF DocSuffixes, Token, CountOf
<1>3. CASE Holds(url, p) /\ ~Holds(url, NotFound)
  <2>1. url2 = ReplaceFirstSubSeq(<<"/">>, p, url)
    BY <1>3 DEF p
  <2>2. url2 \in Seq(Token)
    BY <1>1, <1>3, <2>1, ReplaceFirstLemma
  <2>3. PICK i \in 1..Len(url) :
          /\ StandsAt(url, p, i)
          /\ \A h \in 1..Len(url) : StandsAt(url, p, h) => i <= h
          /\ ReplacedAt(url, url2, p, i)
    BY <1>1, <1>3, <2>1, ReplaceFirstLemma
  <2>4. \A s \in DocSuffixes : "/" \notin {s}
    BY DEF DocSuffixes
  <2>5. ASSUME NEW s \in DocSuffixes
        PROVE  /\ CountOf(url2, s) <= CountOf(url, s)
               /\ p[Len(p)] = s => CountOf(url2, s) < CountOf(url, s)
    BY <1>1, <2>2, <2>3, <2>4, CountLemma DEF CountOf
  <2>6. \E s \in DocSuffixes : CountOf(url2, s) < CountOf(url, s)
    BY <1>1, <2>5
  <2>7. ~Holds(url2, NotFound)
    BY <1>1, <1>3, <2>2, <2>3, NotFoundLemma
  <2>8. ASSUME NEW s \in DocSuffixes, p = <<s>> PROVE CountOf(url2, s) < CountOf(url, s)
    <3>1. p[Len(p)] = s
      BY <1>2, <2>8, TupleLemma
    <3>. QED  BY <2>5, <3>1
  <2>9. \/ Document(url2) = Document(url) /\ ~Holds(Document(url), p)
        \/ Count(Document(url2), DocSuffixes) < Count(Document(url), DocSuffixes)
    BY <1>1, <2>2, <2>3, DocumentReplaced
  <2>. QED  BY <1>3, <2>2, <2>5, <2>6, <2>7, <2>8, <2>9 DEF p
<1>4. CASE ~(Holds(url, p) /\ ~Holds(url, NotFound))
  <2>1. url2 = url
    BY <1>4 DEF p
  <2>2. \A s \in DocSuffixes : CountOf(url2, s) <= CountOf(url, s)
    BY <1>2, <2>1
  <2>3. ~Holds(url, NotFound) => ~Holds(Document(url), p)
    BY <1>1, <1>4, DocumentBegins
  <2>4. ASSUME ~Holds(url, NotFound), NEW s \in DocSuffixes, p = <<s>>
        PROVE  CountOf(url, s) = 0
    BY <1>2, <1>4, <2>4, NoneLemma
  <2>. QED  BY <2>1, <2>2, <2>3, <2>4 DEF p
<1>. QED  BY <1>3, <1>4

-------------------------------------------------------------------------------
RedirectTyped ==
    /\ asked \in Seq(Token) /\ href \in Seq(Token) /\ forwarding \in Seq(Token)
    /\ round \in 0..5 /\ redirects \in Nat /\ loaded \in BOOLEAN

\* Nothing happens to a URL of the page for an address that does not exist.
LeftAlone ==
    /\ Holds(asked, NotFound) => href = asked /\ forwarding = asked
    /\ Holds(forwarding, NotFound) => Holds(asked, NotFound)

\* A redirect takes one of every suffix that there is.
Taken ==
    /\ \A s \in DocSuffixes :
          CountOf(href, s) = 0 \/ CountOf(href, s) + redirects <= CountOf(asked, s)
    /\ \E s \in DocSuffixes : redirects <= CountOf(asked, s)

\* So does a run up to the round for the suffix.
Taking ==
    /\ \A s \in DocSuffixes : CountOf(forwarding, s) <= CountOf(href, s)
    /\ \/ forwarding = href
       \/ \E s \in DocSuffixes : CountOf(forwarding, s) < CountOf(href, s)
    /\ loaded /\ ~Holds(asked, NotFound) =>
          \A s \in DocSuffixes : \A k \in 1..round : OldURLs[k] = <<s>> =>
             CountOf(forwarding, s) = 0 \/ CountOf(forwarding, s) < CountOf(href, s)

\* If a run has not changed what the browser loads, then the patterns that it
\* looked for are not in it.
Looked ==
    /\ \/ Document(forwarding) = Document(href)
       \/ Count(Document(forwarding), DocSuffixes) < Count(Document(href), DocSuffixes)
    /\ Document(forwarding) = Document(href) /\ ~Holds(asked, NotFound) =>
          \A k \in 1..round : ~Holds(Document(href), OldURLs[k])
    /\ ~loaded => round = 5 /\ href = forwarding

RedirectInv == RedirectTyped /\ LeftAlone /\ Taken /\ Taking /\ Looked

LEMMA RedirectInitInv == RedirectInit => RedirectInv
<1>. SUFFICES ASSUME RedirectInit PROVE RedirectInv
  OBVIOUS
<1>1. /\ asked \in Urls /\ href = asked /\ forwarding = asked
      /\ round = 0 /\ redirects = 0 /\ loaded = TRUE
  BY DEF RedirectInit
<1>2. asked \in Seq(Token)
  <2>1. asked \in Seq(STRING)
    BY <1>1, UrlsAssumption
  <2>2. Len(asked) \in Nat /\ asked \in [1..Len(asked) -> STRING]
    BY <2>1
  <2>3. asked \in [1..Len(asked) -> Token]
    BY <2>2 DEF Token
  <2>. QED  BY <2>2, <2>3
<1>3. \A s \in DocSuffixes : CountOf(asked, s) \in Nat
  BY <1>2, CountType DEF CountOf
<1>4. RedirectTyped /\ LeftAlone /\ Looked
  BY <1>1, <1>2 DEF RedirectTyped, LeftAlone, Looked
<1>5. Taken /\ Taking
  <2>1. \A s \in DocSuffixes : CountOf(asked, s) + 0 <= CountOf(asked, s) /\ 0 <= CountOf(asked, s)
                            /\ CountOf(asked, s) <= CountOf(asked, s)
    BY <1>3
  <2>2. ".md" \in DocSuffixes
    BY DEF DocSuffixes
  <2>3. \A k \in 1..round : FALSE
    BY <1>1
  <2>. QED  BY <1>1, <2>1, <2>2, <2>3 DEF Taken, Taking
<1>. QED  BY <1>4, <1>5 DEF RedirectInv

LEMMA LookForInv == RedirectInv /\ LookFor => RedirectInv'
<1>. SUFFICES ASSUME RedirectInv, LookFor PROVE RedirectInv'
  OBVIOUS
<1>. DEFINE k == round + 1
<1>1. /\ asked \in Seq(Token) /\ href \in Seq(Token) /\ forwarding \in Seq(Token)
      /\ round \in 0..5 /\ redirects \in Nat /\ loaded = TRUE
      /\ LeftAlone /\ Taken /\ Taking /\ Looked
  BY DEF RedirectInv, RedirectTyped, LookFor
<1>2. Len(OldURLs) = 5
  BY DEF OldURLs
<1>3. /\ k \in 1..5 /\ round' = k /\ asked' = asked /\ href' = href
      /\ redirects' = redirects /\ loaded' = loaded
      /\ forwarding' = IF Holds(forwarding, OldURLs[k]) /\ ~Holds(forwarding, NotFound)
                       THEN ReplaceFirstSubSeq(<<"/">>, OldURLs[k], forwarding)
                       ELSE forwarding
  BY <1>1, <1>2 DEF LookFor
<1>3a. \A j \in 1..k : j = k \/ j \in 1..round
  BY <1>1
<1>. HIDE DEF k
<1>. DEFINE f == forwarding'
<1>3b. f = forwarding'
  OBVIOUS
<1>. HIDE DEF f
<1>4. /\ f \in Seq(Token)
      /\ \A s \in DocSuffixes : CountOf(f, s) <= CountOf(forwarding, s)
      /\ f = forwarding \/ \E s \in DocSuffixes : CountOf(f, s) < CountOf(forwarding, s)
      /\ Holds(forwarding, NotFound) => f = forwarding
      /\ Holds(f, NotFound) => Holds(forwarding, NotFound)
      /\ ~Holds(forwarding, NotFound) =>
           \A s \in DocSuffixes : OldURLs[k] = <<s>> =>
              CountOf(forwarding, s) = 0 \/ CountOf(f, s) < CountOf(forwarding, s)
      /\ \/ Document(f) = Document(forwarding)
            /\ (Holds(forwarding, NotFound) \/ ~Holds(Document(forwarding), OldURLs[k]))
         \/ Count(Document(f), DocSuffixes) < Count(Document(forwarding), DocSuffixes)
  BY <1>1, <1>3, <1>3b, RoundLemma
<1>5. \A s \in DocSuffixes : CountOf(f, s) \in Nat /\ CountOf(forwarding, s) \in Nat
                          /\ CountOf(href, s) \in Nat
  BY <1>1, <1>4, CountType DEF CountOf
<1>6. Holds(forwarding, NotFound) => Holds(asked, NotFound)
  BY <1>1 DEF LeftAlone
<1>7. RedirectTyped'
  <2>1. round' \in 0..5
    BY <1>3
  <2>. QED  BY <1>1, <1>3, <1>3b, <1>4, <2>1 DEF RedirectTyped
<1>8. LeftAlone'
  BY <1>1, <1>3, <1>3b, <1>4 DEF LeftAlone
<1>9. Taken'
  BY <1>1, <1>3 DEF Taken, CountOf, Count
<1>10. Taking'
  <2>1. \A s \in DocSuffixes : CountOf(forwarding, s) <= CountOf(href, s)
    BY <1>1 DEF Taking
  <2>2. \A s \in DocSuffixes : CountOf(f, s) <= CountOf(href, s)
    BY <1>4, <1>5, <2>1
  <2>3. f = href \/ \E s \in DocSuffixes : CountOf(f, s) < CountOf(href, s)
    <3>1. CASE f = forwarding
      BY <1>1, <3>1 DEF Taking
    <3>2. CASE f # forwarding
      <4>1. PICK s \in DocSuffixes : CountOf(f, s) < CountOf(forwarding, s)
        BY <1>4, <3>2
      <4>2. CountOf(f, s) < CountOf(href, s)
        BY <1>5, <2>1, <4>1
      <4>. QED  BY <4>2
    <3>. QED  BY <3>1, <3>2
  <2>4. ASSUME ~Holds(asked, NotFound), NEW s \in DocSuffixes, NEW j \in 1..k, OldURLs[j] = <<s>>
        PROVE  CountOf(f, s) = 0 \/ CountOf(f, s) < CountOf(href, s)
    <3>1. CASE j = k
      <4>1. CountOf(forwarding, s) = 0 \/ CountOf(f, s) < CountOf(forwarding, s)
        BY <1>4, <1>6, <2>4, <3>1
      <4>. QED  BY <1>4, <1>5, <2>1, <4>1
    <3>2. CASE j \in 1..round
      <4>1. CountOf(forwarding, s) = 0 \/ CountOf(forwarding, s) < CountOf(href, s)
        BY <1>1, <2>4, <3>2 DEF Taking
      <4>2. CountOf(f, s) <= CountOf(forwarding, s)
        BY <1>4
      <4>. QED  BY <1>5, <4>1, <4>2
    <3>. QED  BY <1>3a, <3>1, <3>2
  <2>. QED  BY <1>3, <1>3b, <2>2, <2>3, <2>4 DEF Taking, CountOf, Count
<1>11. Looked'
  <2>1. /\ Document(href) \in Seq(Token) /\ Document(forwarding) \in Seq(Token)
        /\ Document(f) \in Seq(Token)
    BY <1>1, <1>4, PatternsLemma, DocumentBegins
  <2>. DEFINE h == Count(Document(href), DocSuffixes)
              g == Count(Document(forwarding), DocSuffixes)
              e == Count(Document(f), DocSuffixes)
  <2>2. h \in Nat /\ g \in Nat /\ e \in Nat
    BY <2>1, CountType
  <2>3. Document(forwarding) = Document(href) \/ g < h
    BY <1>1 DEF Looked
  <2>4. \/ Document(f) = Document(forwarding)
           /\ (Holds(forwarding, NotFound) \/ ~Holds(Document(forwarding), OldURLs[k]))
        \/ e < g
    BY <1>4
  <2>5. Document(f) = Document(href) => e = h
    OBVIOUS
  <2>6. Document(forwarding) = Document(href) => g = h
    OBVIOUS
  <2>7. Document(f) = Document(forwarding) => e = g
    OBVIOUS
  <2>. HIDE DEF h, g, e
  <2>8. Document(f) = Document(href) \/ e < h
    BY <2>2, <2>3, <2>4, <2>6, <2>7
  <2>9. Document(f) = Document(href) =>
          /\ Document(forwarding) = Document(href)
          /\ Holds(forwarding, NotFound) \/ ~Holds(Document(forwarding), OldURLs[k])
    <3>. SUFFICES ASSUME Document(f) = Document(href)
                  PROVE  /\ Document(forwarding) = Document(href)
                         /\ Holds(forwarding, NotFound) \/ ~Holds(Document(forwarding), OldURLs[k])
      OBVIOUS
    <3>1. ~(e < g)
      BY <2>2, <2>3, <2>5, <2>6
    <3>. QED  BY <2>4, <3>1
  <2>10. ASSUME Document(f) = Document(href), ~Holds(asked, NotFound), NEW j \in 1..k
         PROVE  ~Holds(Document(href), OldURLs[j])
    BY <1>1, <1>3a, <1>6, <2>9, <2>10 DEF Looked
  <2>. QED  BY <1>1, <1>3, <1>3b, <2>8, <2>10 DEF Looked, h, e
<1>. QED  BY <1>7, <1>8, <1>9, <1>10, <1>11 DEF RedirectInv

LEMMA ReplaceInv == RedirectInv /\ Replace => RedirectInv'
<1>. SUFFICES ASSUME RedirectInv, Replace PROVE RedirectInv'
  OBVIOUS
<1>1. /\ asked \in Seq(Token) /\ href \in Seq(Token) /\ forwarding \in Seq(Token)
      /\ round = 5 /\ redirects \in Nat /\ loaded = TRUE
      /\ LeftAlone /\ Taken /\ Taking /\ Looked
  <2>1. Len(OldURLs) = 5
    BY DEF OldURLs
  <2>. QED  BY <2>1 DEF RedirectInv, RedirectTyped, Replace
<1>2. /\ asked' = asked /\ forwarding' = forwarding /\ href' = forwarding
      /\ redirects' = IF forwarding # href THEN redirects + 1 ELSE redirects
      /\ loaded' = (Document(forwarding) # Document(href))
      /\ round' = IF loaded' THEN 0 ELSE round
  BY DEF Replace
<1>3. \A s \in DocSuffixes : CountOf(forwarding, s) \in Nat /\ CountOf(href, s) \in Nat
                          /\ CountOf(asked, s) \in Nat
  BY <1>1, CountType DEF CountOf
<1>4. loaded' \in BOOLEAN /\ round' \in 0..5 /\ (loaded' => round' = 0) /\ (~loaded' => round' = 5)
  BY <1>1, <1>2
<1>5. RedirectTyped'
  BY <1>1, <1>2, <1>4 DEF RedirectTyped
<1>6. LeftAlone'
  BY <1>1, <1>2 DEF LeftAlone
<1>7. Taken'
  <2>1. /\ \A s \in DocSuffixes :
             CountOf(href, s) = 0 \/ CountOf(href, s) + redirects <= CountOf(asked, s)
        /\ \E s \in DocSuffixes : redirects <= CountOf(asked, s)
        /\ \A s \in DocSuffixes : CountOf(forwarding, s) <= CountOf(href, s)
    BY <1>1 DEF Taken, Taking
  <2>2. CASE forwarding = href
    BY <1>2, <2>1, <2>2 DEF Taken, CountOf, Count
  <2>3. CASE forwarding # href
    <3>1. redirects' = redirects + 1
      BY <1>2, <2>3
    <3>2. ~Holds(asked, NotFound)
      BY <1>1, <2>3 DEF LeftAlone
    <3>3. ASSUME NEW s \in DocSuffixes
          PROVE  CountOf(forwarding, s) = 0
                 \/ CountOf(forwarding, s) + (redirects + 1) <= CountOf(asked, s)
      <4>1. \E k \in 1..round : OldURLs[k] = <<s>>
        <5>1. 4 \in 1..round /\ 5 \in 1..round /\ 4 \in 1..5
          BY <1>1
        <5>2. OldURLs[4] = <<".html">> /\ OldURLs[5] = <<".md">>
          BY <5>1, PatternsLemma
        <5>3. s = ".html" \/ s = ".md"
          BY DEF DocSuffixes
        <5>. QED  BY <5>1, <5>2, <5>3
      <4>2. CountOf(forwarding, s) = 0 \/ CountOf(forwarding, s) < CountOf(href, s)
        BY <1>1, <3>2, <4>1 DEF Taking
      <4>. QED  BY <1>1, <1>3, <2>1, <4>2
    <3>4. \E s \in DocSuffixes : redirects + 1 <= CountOf(asked, s)
      <4>1. PICK s \in DocSuffixes : CountOf(forwarding, s) < CountOf(href, s)
        BY <1>1, <2>3 DEF Taking
      <4>2. redirects + 1 <= CountOf(asked, s)
        BY <1>1, <1>3, <2>1, <4>1
      <4>. QED  BY <4>2
    <3>. QED  BY <1>2, <3>1, <3>3, <3>4 DEF Taken, CountOf, Count
  <2>. QED  BY <2>2, <2>3
<1>8. Taking'
  <2>1. \A s \in DocSuffixes : CountOf(forwarding, s) <= CountOf(forwarding, s)
    BY <1>3
  <2>2. loaded' => \A k \in 1..round' : FALSE
    BY <1>4
  <2>. QED  BY <1>2, <2>1, <2>2 DEF Taking, CountOf, Count
<1>9. Looked'
  <2>1. CASE loaded'
    <3>1. \A k \in 1..round' : FALSE
      BY <1>4, <2>1
    <3>. QED  BY <1>2, <2>1, <3>1 DEF Looked
  <2>2. CASE ~loaded'
    <3>1. Document(forwarding) = Document(href) /\ round' = round
      BY <1>2, <2>2
    <3>2. ~Holds(asked, NotFound) =>
             \A k \in 1..round : ~Holds(Document(forwarding), OldURLs[k])
      BY <1>1, <3>1 DEF Looked
    <3>. QED  BY <1>2, <1>4, <2>2, <3>1, <3>2 DEF Looked
  <2>. QED  BY <2>1, <2>2
<1>. QED  BY <1>5, <1>6, <1>7, <1>8, <1>9 DEF RedirectInv

\* Whatever URL the reader came to, redirects.js replaces the page at most as
\* often as the more frequent suffix occurs in it, ends at an address without
\* old patterns, and leaves the page for an address that does not exist alone.
THEOREM RedirectsDoEnd == RedirectSpec => []RedirectsEnd
<1>1. RedirectInit => RedirectInv
  BY RedirectInitInv
<1>2. RedirectInv /\ [RedirectNext]_redirectVars => RedirectInv'
  <2>. SUFFICES ASSUME RedirectInv, [RedirectNext]_redirectVars PROVE RedirectInv'
    OBVIOUS
  <2>1. CASE UNCHANGED redirectVars
    BY <2>1 DEF redirectVars, RedirectInv, RedirectTyped, LeftAlone, Taken, Taking, Looked
  <2>. QED  BY <2>1, LookForInv, ReplaceInv DEF RedirectNext
<1>3. RedirectInv => RedirectsEnd
  <2>. SUFFICES ASSUME RedirectInv PROVE RedirectsEnd
    OBVIOUS
  <2>1. redirects <= Count(asked, {".md"}) \/ redirects <= Count(asked, {".html"})
    BY DEF RedirectInv, Taken, CountOf, DocSuffixes
  <2>2. Holds(asked, NotFound) => forwarding = asked
    BY DEF RedirectInv, LeftAlone
  <2>3. ASSUME ~loaded, ~Holds(asked, NotFound), NEW k \in DOMAIN OldURLs
        PROVE  ~Holds(Document(href), OldURLs[k])
    <3>1. round = 5 /\ href = forwarding
      BY <2>3 DEF RedirectInv, Looked
    <3>2. DOMAIN OldURLs = 1..5
      BY DEF OldURLs
    <3>. QED  BY <2>3, <3>1, <3>2 DEF RedirectInv, Looked
  <2>. QED  BY <2>1, <2>2, <2>3 DEF RedirectsEnd
<1>. QED  BY <1>1, <1>2, <1>3, PTL DEF RedirectSpec
=============================================================================
