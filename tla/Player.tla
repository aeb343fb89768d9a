------------------------------- MODULE Player -------------------------------
(***************************************************************************)
(* The player the engine drives: which <video> of the page it is           *)
(* (core/src/adapter/resolve.ts), the adapter that outlives every element  *)
(* (swappable.ts), and the one seek the apply queue waits on (html5.ts).   *)
(*                                                                         *)
(* An element reports the end of a seek by a task of its own, which runs   *)
(* some time after it: somebody may have written the position, taken the   *)
(* media or replaced the element in between.                               *)
(***************************************************************************)
EXTENDS Integers, FiniteSets

CONSTANTS
    Last,        \* elements are 1..Last, in document order
    Size,        \* Size[e]: the area of its picture, once it has metadata
    Sound,       \* elements neither muted nor at volume 0
    Hints,       \* include, exclude: the elements a selector finds; min: minIntrinsicArea
    Outclassed,  \* OUTCLASSED
    End,         \* the duration of every media
    Tolerance,   \* landingToleranceS
    Target,      \* where the engine seeks to
    Other,       \* where the member or the site does
    Events,      \* what the page, the member and the engine do, at most
    None         \* no element, no seek

E == 1..Last

ASSUME PlayerAssumption ==
    /\ Last \in Nat \ {0} /\ Size \in [E -> Nat \ {0}] /\ Sound \subseteq E
    /\ Hints \in [include : SUBSET E, exclude : SUBSET E, min : Nat]
    /\ Outclassed \in Nat \ {0} /\ End \in Nat \ {0} /\ Tolerance \in Nat
    /\ Target \subseteq Int /\ Other \subseteq 0..End
    /\ None \notin E /\ Events \in Nat

VARIABLES
    el,      \* the elements of the page
    moved,   \* its media key is not the one the watcher last handed over
    target,  \* the element it did: the watcher's, and the adapter's target
    ground,  \* the element its listeners were last told of
    seek,    \* the seek the engine waits for
    ended,   \* how it ended, when it just did
    left     \* Events left

vars == <<el, moved, target, ground, seek, ended, left>>

Abs(n) == IF n < 0 THEN -n ELSE n
Lands(x) == IF x < 0 THEN 0 ELSE IF x > End THEN End ELSE x

(* readyState: a seek drops it to 1 until there is data where it goes.     *)
Ready(e) == IF ~el[e].media THEN 0 ELSE IF el[e].seeking THEN 1 ELSE 4

---------------------------------------------------------------------------
(* resolve.ts: the element the user is watching.                           *)

AudiblyPlaying(e) == ~el[e].paused /\ Ready(e) >= 1 /\ e \in Sound
Area(e) == IF el[e].media THEN Size[e] ELSE 0

Candidates ==
    LET out == {e \in E : /\ el[e].here /\ e \notin Hints.exclude
                          /\ ~(Area(e) > 0 /\ Area(e) < Hints.min)}
        inc == out \cap Hints.include
    IN  IF inc = {} THEN out ELSE inc

\* Sound first, then the larger picture, then the more loaded; the first of equals.
Beats(e, f) ==
    LET sound(x) == IF AudiblyPlaying(x) THEN 1 ELSE 0
    IN  \/ sound(e) > sound(f)
        \/ sound(e) = sound(f) /\ Area(e) > Area(f)
        \/ sound(e) = sound(f) /\ Area(e) = Area(f) /\ Ready(e) > Ready(f)
        \/ sound(e) = sound(f) /\ Area(e) = Area(f) /\ Ready(e) = Ready(f) /\ e < f
Best(videos) ==
    IF videos = {} THEN None ELSE CHOOSE e \in videos : \A f \in videos \ {e} : Beats(e, f)

\* Nothing but sound takes the room from an element that has loaded.
MutPickVideo(videos, current) ==
    LET best == Best(videos)
        kept == current \in videos /\ Ready(current) >= 1
    IN  IF kept /\ (AudiblyPlaying(current) \/ ~AudiblyPlaying(best)) THEN current ELSE best

PickVideo(videos, current) ==
    LET best == Best(videos)
        kept == current \in videos /\ Ready(current) >= 1
    IN  IF /\ kept
           /\ \/ AudiblyPlaying(current)
              \/ ~AudiblyPlaying(best) /\ Area(best) <= Outclassed * Area(current)
        THEN current ELSE best

---------------------------------------------------------------------------
(* html5.ts: one seek, and how it ends.                                    *)

Init ==
    /\ el \in [E -> [here : BOOLEAN, media : {FALSE}, paused : {TRUE}, at : {0},
                     start : {0}, seeking : {FALSE}, reports : {0}]]
    /\ moved = TRUE
    /\ target = None /\ ground = None
    /\ seek = None /\ ended = "none"
    /\ left = Events

Happens == left > 0 /\ left' = left - 1

Over(how) == seek' = None /\ ended' = how
Waits == seek' = seek /\ ended' = "none"

\* currentTime = x: a running seek is aborted, and only the new one reports.
\* Without media it is where the media will start.
Written(e, x) ==
    IF el[e].media THEN [el[e] EXCEPT !.seeking = TRUE, !.at = Lands(x)]
    ELSE [el[e] EXCEPT !.start = Lands(x)]

\* seekTo. With no target the swappable adapter answers at once.
SeekTo(x) ==
    /\ Happens /\ seek = None /\ target # None
    /\ seek' = [on |-> target, to |-> x, disturbed |-> FALSE, snapped |-> FALSE,
                silent |-> ~el[target].media /\ Lands(x) = 0]
    /\ el' = [el EXCEPT ![target] = Written(target, x)]
    /\ ended' = "none" /\ UNCHANGED <<moved, target, ground>>

\* Only where it was asked to go; whatever else reports is somebody else's.
MutDone(e) ==
    IF Abs(el[e].at - Lands(seek.to)) <= Tolerance THEN Over("landed")
    ELSE Waits

\* A target past the end is missed.
MutDoneUnclamped(e) ==
    IF Abs(el[e].at - seek.to) <= Tolerance THEN Over("landed")
    ELSE IF ~el[e].seeking THEN Over("elsewhere")
    ELSE Waits

Done(e) ==
    IF Abs(el[e].at - Lands(seek.to)) <= Tolerance THEN Over("landed")
    ELSE IF ~el[e].seeking THEN Over("elsewhere")
    ELSE Waits

TimesOut ==
    /\ seek # None
    /\ Over("timeout")
    /\ UNCHANGED <<el, moved, target, ground, left>>

---------------------------------------------------------------------------
(* The element.                                                            *)

\* It reports the end of its seek, to whoever listens.
Seeked(e) ==
    /\ el[e].reports > 0
    /\ el' = [el EXCEPT ![e].reports = @ - 1]
    /\ IF seek # None /\ seek.on = e THEN Done(e) ELSE Waits
    /\ UNCHANGED <<moved, target, ground, left>>

\* A player snaps to where it can start from, near where it was sent or not.
Arrives(e) ==
    /\ el[e].seeking
    /\ \E at \in 0..End :
          /\ el' = [el EXCEPT ![e].seeking = FALSE, ![e].at = at, ![e].reports = @ + 1]
          /\ seek' = IF seek # None /\ seek.on = e /\ Abs(at - el[e].at) > Tolerance
                     THEN [seek EXCEPT !.snapped = TRUE] ELSE seek
    /\ ended' = "none" /\ UNCHANGED <<moved, target, ground, left>>

\* It has metadata; a position written before that is sought now.
Loads(e) ==
    /\ el[e].here /\ ~el[e].media
    /\ el' = [el EXCEPT ![e].media = TRUE, ![e].start = 0, ![e].at = el[e].start,
                        ![e].seeking = el[e].start > 0]
    /\ Waits /\ UNCHANGED <<moved, target, ground, left>>

\* The load algorithm runs: no media, and no report of what it was doing.
Empties(e) ==
    /\ Happens /\ el[e].media
    /\ el' = [el EXCEPT ![e] = [here |-> @.here, media |-> FALSE, paused |-> TRUE, at |-> 0,
                                start |-> 0, seeking |-> FALSE, reports |-> 0]]
    /\ seek' = IF seek # None /\ seek.on = e THEN [seek EXCEPT !.silent = TRUE] ELSE seek
    /\ ended' = "none" /\ UNCHANGED <<moved, target, ground>>

---------------------------------------------------------------------------
(* The member and the site.                                                *)

\* A scrub, or the site's resume position.
Scrub(e, x) ==
    /\ Happens /\ el[e].media
    /\ el' = [el EXCEPT ![e] = Written(e, x)]
    /\ seek' = IF seek # None /\ seek.on = e THEN [seek EXCEPT !.disturbed = TRUE] ELSE seek
    /\ ended' = "none" /\ UNCHANGED <<moved, target, ground>>

PlaysOrPauses(e) ==
    /\ Happens /\ el[e].here
    /\ el' = [el EXCEPT ![e].paused = ~@]
    /\ Waits /\ UNCHANGED <<moved, target, ground>>

\* The page adds an element, or takes one away.
ComesOrGoes(e) ==
    /\ Happens
    /\ el' = [el EXCEPT ![e].here = ~@]
    /\ Waits /\ UNCHANGED <<moved, target, ground>>

\* A router goes to another media, or back, with or without a new element.
Navigate ==
    /\ Happens
    /\ moved' = ~moved
    /\ Waits /\ UNCHANGED <<el, target, ground>>

---------------------------------------------------------------------------
(* The watcher, and the adapter it retargets.                              *)

\* The old adapter is destroyed with its seek; the listeners hear of the swap.
SetTarget(next) ==
    /\ target' = next
    /\ IF seek # None THEN Over("abandoned") ELSE Waits
    /\ ground' = IF next = None /\ target = None THEN ground ELSE next

\* The same element on the same media is not new ground.
Check ==
    LET e == PickVideo(Candidates, target)
    IN  /\ e # target \/ moved
        /\ moved' = FALSE
        /\ SetTarget(e)
        /\ UNCHANGED <<el, left>>

---------------------------------------------------------------------------
Next ==
    \/ \E x \in Target : SeekTo(x)
    \/ TimesOut
    \/ \E e \in E :
          \/ Seeked(e) \/ Arrives(e) \/ Loads(e) \/ Empties(e)
          \/ PlaysOrPauses(e) \/ ComesOrGoes(e)
          \/ \E x \in Other : Scrub(e, x)
    \/ Navigate
    \/ Check

Spec == Init /\ [][Next]_vars

\* The watcher polls, and an element of the page loads and finishes its seeks.
FairSpec ==
    /\ Spec
    /\ WF_vars(Check)
    /\ WF_vars(\E e \in E : Loads(e) \/ Arrives(e))

---------------------------------------------------------------------------
TypeOK ==
    /\ el \in [E -> [here : BOOLEAN, media : BOOLEAN, paused : BOOLEAN, at : 0..End,
                     start : 0..End, seeking : BOOLEAN, reports : Nat]]
    /\ moved \in BOOLEAN
    /\ target \in E \cup {None} /\ ground \in E \cup {None}
    /\ seek # None => seek \in [on : E, to : Target, disturbed : BOOLEAN, snapped : BOOLEAN,
                               silent : BOOLEAN]
    /\ ended \in {"none", "landed", "elsewhere", "timeout", "abandoned"}
    /\ left \in 0..Events

(* Nothing is left behind on an element that is gone, or on a report that   *)
(* will not come: the apply queue waits only for a seek of the adapter's    *)
(* own element which that will still report (`seeked` of others, abandon),  *)
(* and the listeners know which element is read, or that there is none      *)
(* (setTarget). Outside of it are seeks on an element whose media is taken, *)
(* which wait out their timeout.                                           *)
NothingIsLeftBehind ==
    /\ ground = target
    /\ seek # None =>
         /\ seek.on = target
         /\ \/ el[seek.on].seeking \/ el[seek.on].reports > 0
            \/ ~el[seek.on].media /\ el[seek.on].start > 0
            \/ seek.silent

(* A seek is refused as "did not hold" only if somebody else wrote the      *)
(* position, or the player itself snapped past the tolerance: not because   *)
(* its target is past the end, nor for the report of an older seek, wherever *)
(* that one had landed (done's clamp, the tolerance, the order of its tests). *)
UndisturbedSeeksHold ==
    [][seek # None /\ seek' = None /\ ended' = "elsewhere"
         => seek.disturbed \/ seek.snapped]_vars

(* html5.ts, seekTo: "A stale `seeked` dispatched after our write finds     *)
(* `seeking` still set and is ignored": by then the position already reads  *)
(* as the target, which is asked first. No run lists it, for it does not   *)
(* hold: the stale event ends the new seek before it has landed.           *)
ResolvedHasLanded ==
    [][seek # None /\ seek' = None /\ ended' = "landed" => ~el[seek.on].seeking]_vars

(* Once the page leaves it alone, an element far larger than every other is *)
(* the one followed, unless another is heard: no early pick of a banner is  *)
(* held for good (pickVideo's escape, include that finds nothing).          *)
Evident ==
    {f \in E \ Hints.exclude :
        /\ el[f].here
        /\ \A e \in E \ ({f} \cup Hints.exclude) :
              el[e].here => ~AudiblyPlaying(e) /\ Size[f] > Outclassed * Size[e]}

FeatureIsFound == <>[](Evident # {}) => <>[](target \in Evident)
===========================================================================
