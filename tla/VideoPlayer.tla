---------------------------- MODULE VideoPlayer ----------------------------
(***************************************************************************)
(* The video player of the home page and the case studies (showVideo in    *)
(* script.js): it fades in over the page, whose body stops scrolling, and  *)
(* fades out at a click.  Fades are queued, the first of them is under way *)
(* and ends at any time.  The player covers the window, but the button     *)
(* that opened it keeps the focus and can be pressed again by a key.       *)
(*                                                                         *)
(* That the player comes to lie over the page (highestZ) is left to        *)
(* SiteNav, which has the same for the push menu.                          *)
(***************************************************************************)
EXTENDS Naturals, Sequences

CONSTANTS
    MaxShows,      \* bound: calls of showVideo
    MaxDismissals  \* bound: clicks on the player

VARIABLES
    video,        \* the player, and whether the body scrolls
    fades,        \* the player's queue of effects
    shows, clicked,
    again         \* history: showVideo was called while a fade-out was to end

videoVars == <<video, fades, shows, clicked, again>>

VideoInit ==
    /\ video = [displayed |-> FALSE, source |-> "none", overflow |-> "visible",
                handlers |-> 0]
    /\ fades = <<>>
    /\ shows = 0 /\ clicked = 0
    /\ again = FALSE

-------------------------------------------------------------------------------
(***************************************************************************)
(* A fade begins when it comes to the front of the queue: fadeIn displays  *)
(* the player at once.                                                     *)
(***************************************************************************)
Begins(player, queue) ==
    IF queue # <<>> /\ Head(queue) = "in" THEN [player EXCEPT !.displayed = TRUE]
                                           ELSE player

\* Every call adds one more click handler.
ShowVideo ==
    LET queue == Append(fades, "in")
    IN  /\ shows < MaxShows
        /\ shows' = shows + 1
        /\ fades' = queue
        /\ video' = Begins([video EXCEPT !.overflow = "hidden", !.source = "data-url",
                                         !.handlers = @ + 1], queue)
        /\ again' = (again \/ \E k \in DOMAIN fades : fades[k] = "out")
        /\ UNCHANGED clicked

\* Each handler lets the body scroll and queues a fade-out of its own.
ClickPlayer ==
    /\ video.displayed /\ clicked < MaxDismissals
    /\ clicked' = clicked + 1
    /\ video' = [video EXCEPT !.overflow = "auto"]
    /\ fades' = fades \o [k \in 1..video.handlers |-> "out"]
    /\ UNCHANGED <<shows, again>>

\* Faulty variant: the body scrolls again when the player is gone.
FadeEndsUnlocks ==
    LET ended == IF Head(fades) = "out"
                 THEN [video EXCEPT !.displayed = FALSE, !.source = "none",
                                    !.overflow = "auto"]
                 ELSE video
    IN  /\ fades # <<>>
        /\ fades' = Tail(fades)
        /\ video' = Begins(ended, Tail(fades))
        /\ UNCHANGED <<shows, clicked, again>>

\* A fade-out ends with its callback, also that of a player that is hidden
\* already.
FadeEnds ==
    LET ended == IF Head(fades) = "out"
                 THEN [video EXCEPT !.displayed = FALSE, !.source = "none"]
                 ELSE video
    IN  /\ fades # <<>>
        /\ fades' = Tail(fades)
        /\ video' = Begins(ended, Tail(fades))
        /\ UNCHANGED <<shows, clicked, again>>

VideoNext == ShowVideo \/ ClickPlayer \/ FadeEnds

VideoSpec == VideoInit /\ [][VideoNext]_videoVars

-------------------------------------------------------------------------------
(* Properties.                                                             *)

(***************************************************************************)
(* When nothing fades any more, the body is kept from scrolling exactly    *)
(* while the player is displayed, and a player that is hidden has lost its *)
(* source, so that no video goes on unseen, however the calls, the clicks  *)
(* with their growing number of handlers and the ends of the fades         *)
(* interleaved.  A player that is displayed has its source, unless it was  *)
(* opened again before an earlier fade-out had ended: that one's end       *)
(* empties the source that was set for the new one.                        *)
(***************************************************************************)
VideoSettles ==
    fades = <<>> =>
        /\ video.displayed <=> video.overflow = "hidden"
        /\ ~video.displayed => video.source = "none"
        /\ video.displayed /\ ~again => video.source = "data-url"
=============================================================================
