------------------------------ MODULE Detector ------------------------------
(***************************************************************************)
(* Whether what happened to the player is the member's doing               *)
(* (client/core/src/detector/detector.ts), over an element that plays,     *)
(* runs out of data, is sought by the member and moved by the room, is     *)
(* paused by the browser in a hidden tab, and is looked at when a timer or *)
(* an event says so.                                                       *)
(*                                                                         *)
(* Time and positions are in one unit; the rate is 1 and the end of the    *)
(* media is far away.  Time passes in ticks between two looks, at most     *)
(* Late of them: a play or a pause is looked at before the next tick (its  *)
(* event), anything else when the timer comes.                             *)
(***************************************************************************)
EXTENDS Integers

CONSTANTS Horizon,    \* positions are 0..Horizon
          Threshold,  \* seekThresholdMs
          MaxFrozen,  \* MAX_FROZEN_READ_MS
          Late,       \* the longest the timer takes
          Jumps,      \* how far the member and the room jump
          Doings      \* what the member, the room and the network do, at most

ASSUME DetectorAssumption ==
    /\ Horizon \in Nat /\ Threshold \in Nat /\ MaxFrozen \in Nat
    /\ Late \in Nat \ {0} /\ Jumps \subseteq Int /\ Doings \in Nat

VARIABLES video,  \* the element and the tab it is in
          room,   \* where the room says it is, whether it is paused; a transition is queued
          apply,  \* the transition being applied (applyingRemote)
          det,    \* the detector
          said,   \* what the last look observed
          since,  \* since that look: the time, and what was done to the element
          doings  \* Doings left

detectorVars == <<video, room, apply, det, said, since, doings>>

Pos == 0..Horizon
Magnitude(n) == IF n < 0 THEN -n ELSE n
Least(a, b) == IF a < b THEN a ELSE b
Most(a, b) == IF a > b THEN a ELSE b

(* What readState gives: the element plays on while its reading is held    *)
State(e) == [read |-> e.pos - e.held, paused |-> e.paused, hidden |-> e.hidden,
             ready |-> e.ready, loud |-> e.loud, held |-> e.frozen]

-----------------------------------------------------------------------------
(* evaluate: the detector d looks at the element s, dt after it last did.  *)

MutBrowserPaused(d, s) == s.paused /\ s.hidden /\ s.ready
BrowserPaused(d, s) == s.paused /\ s.hidden /\ ~d.audible /\ s.ready

(* Playing, and moved less than half of what it should have.  Two looks in *)
(* one tick are an instant apart, and a held reading has not moved at all. *)
Frozen(d, s, dt) ==
    /\ d.seen /\ ~s.paused /\ d.paused = "no"
    /\ IF dt = 0 THEN s.held ELSE 2 * (s.read - d.at) < dt

Outside(pos, lo, hi) == IF pos < lo THEN lo - pos ELSE IF pos > hi THEN pos - hi ELSE 0

(* The two-diff test *)
Jumped(gap, s, expected) == gap > Threshold /\ Magnitude(s.read - expected) > Threshold

YesNo(b) == IF b THEN "yes" ELSE "no"

Suspended(d, s) ==
    [d |-> [d EXCEPT !.suspended = TRUE, !.known = s.read, !.at = s.read, !.paused = YesNo(s.paused)],
     obs |-> "suspended"]

(* While it is stalled: a position playback could not have reached is a    *)
(* jump; the furthest it could have is kept for the resume.                *)
MutStalled(d, s, expected, dt) ==
    [d |-> [d EXCEPT !.stalled = TRUE, !.known = s.read, !.reach = s.read, !.paused = YesNo(s.paused)],
     obs |-> IF d.paused \notin {"none", YesNo(s.paused)} THEN "playstate" ELSE "stall"]
Stalled(d, s, expected, dt) ==
    LET hi == IF ~d.stalled /\ d.paused = "no" THEN d.known + dt ELSE d.known
        sought == Jumped(Outside(s.read, d.known, hi), s, expected)
        byBrowser == s.paused /\ s.hidden /\ ~d.audible
        far == IF d.stalled THEN d.reach + (IF s.paused THEN 0 ELSE dt) ELSE hi
    IN [d |-> [d EXCEPT !.stalled = TRUE, !.known = s.read,
                        !.reach = IF sought THEN s.read
                                  ELSE Least(s.read + MaxFrozen, Most(s.read, far)),
                        !.paused = IF sought \/ byBrowser THEN @ ELSE YesNo(s.paused)],
        obs |-> CASE sought -> "seek"
                  [] ~sought /\ ~byBrowser /\ d.paused \notin {"none", YesNo(s.paused)} -> "playstate"
                  [] OTHER -> "stall"]

(* Running, or just resumed from a stall *)
Running(d, s, expected, dt) ==
    LET hi == Most(d.known, d.reach) + (IF s.paused THEN 0 ELSE dt)
        known == IF d.stalled THEN s.read ELSE IF s.paused THEN d.known ELSE d.known + dt
        gap == IF d.stalled THEN Outside(s.read, d.known, hi) ELSE Magnitude(s.read - known)
        sought == Jumped(gap, s, expected)
    IN [d |-> [d EXCEPT !.stalled = FALSE, !.known = IF sought THEN s.read ELSE known,
                        !.paused = YesNo(s.paused)],
        obs |-> CASE sought -> "seek"
                  [] ~sought /\ d.paused \notin {"none", YesNo(s.paused)} -> "playstate"
                  [] OTHER -> "idle"]

Judge(d0, s, expected, dt) ==
    LET d1 == [d0 EXCEPT !.audible = @ \/ (~s.paused /\ s.loud)]
        back == IF d1.suspended
                THEN [d1 EXCEPT !.suspended = FALSE, !.paused = YesNo(s.paused), !.known = s.read, !.based = TRUE]
                ELSE d1
        stalled == ~s.ready \/ Frozen(back, s, dt)
        d2 == [back EXCEPT !.at = s.read, !.seen = TRUE, !.based = TRUE,
                           !.known = IF back.based THEN @ ELSE s.read]
    IN CASE BrowserPaused(d1, s) -> Suspended(d1, s)
         [] ~BrowserPaused(d1, s) /\ stalled -> Stalled(d2, s, expected, dt)
         [] OTHER -> Running(d2, s, expected, dt)

Rebaseline(d, pos, paused) ==
    [d EXCEPT !.known = pos, !.at = pos, !.reach = pos, !.based = TRUE, !.paused = YesNo(paused)]

Detector0 == [known |-> 0, based |-> FALSE, at |-> 0, seen |-> FALSE, stalled |-> FALSE,
              reach |-> 0, suspended |-> FALSE, audible |-> FALSE, paused |-> "none"]
(* What is measured is forgotten: no position is read until it is set again *)
Reset(d) == [Detector0 EXCEPT !.suspended = d.suspended, !.audible = d.audible]

-----------------------------------------------------------------------------
NotApplying == [on |-> FALSE, pos |-> 0, paused |-> FALSE]

(* act (engine.ts): what of an observation is sent.  While a transition is *)
(* applied, what it does to the player is not the member's: a seek that    *)
(* lands near its target, its own pause state, and a pause seen unready    *)
(* under the play that follows its seek                                    *)
MutOwn(obs, s, unready) == FALSE
Own(obs, s, unready) ==
    /\ apply.on
    /\ \/ obs = "seek" /\ Magnitude(s.read - apply.pos) <= Threshold
       \/ obs = "playstate" /\ (s.paused = apply.paused \/ (unready /\ ~apply.paused))

Sent(obs, s, unready) ==
    CASE obs \notin {"seek", "playstate"} -> obs
      [] obs = "seek" /\ ~Own(obs, s, unready) -> "seek"
      [] obs = "playstate" /\ ~Own(obs, s, unready) /\ s.paused # room.paused -> "playstate"
      [] OTHER -> "echo"

-----------------------------------------------------------------------------
(* The world                                                               *)

Occurs == doings > 0 /\ doings' = doings - 1
Nothing == [time |-> 0, from |-> 0, sought |-> FALSE, moved |-> FALSE, lag |-> FALSE,
            caught |-> FALSE, by |-> "nobody", event |-> FALSE]

(* `by` is whose doing it is that the element is not in the play state the *)
(* detector last took down, nobody's if it is.  A change sends an event.   *)
Changed(who) == [since EXCEPT !.by = IF @ = "nobody" THEN who ELSE "nobody", !.event = TRUE]

(* A look, at the timer or an event.  What is sent becomes the room's at   *)
(* once (predict).  `moved` is a seek no baseline has taken in yet, `lag`  *)
(* a lag the reading already had when the detector was reset.              *)
Look ==
    LET s == State(video)
        j == Judge(det, s, room.pos, IF det.seen THEN since.time ELSE 0)
        sent == Sent(j.obs, s, j.d.stalled)
        taken == \/ j.obs = "suspended" \/ (j.obs = "seek" /\ since.sought)
                 \/ video.held = 0 /\ (j.obs = "seek" \/ j.d.stalled \/ det.stalled)
    IN /\ det' = j.d
       /\ said' = sent
       /\ since' = [Nothing EXCEPT !.moved = since.moved /\ ~taken, !.lag = since.lag /\ ~taken,
                                   !.by = IF j.d.paused = YesNo(s.paused) THEN "nobody" ELSE since.by]
       /\ room' = CASE sent = "seek" -> [room EXCEPT !.pos = s.read]
                    [] sent = "playstate" -> [room EXCEPT !.pos = s.read, !.paused = s.paused]
                    [] OTHER -> room
       /\ UNCHANGED <<video, apply, doings>>

(* Time passes; the reading may be held after a seek (frozen)              *)
Tick ==
    /\ since.time < Late /\ ~since.event
    /\ LET runs == ~video.paused /\ video.ready
       IN /\ video.pos < Horizon /\ room.pos < Horizon
          /\ video.frozen => video.held < MaxFrozen
          /\ video' = [video EXCEPT !.pos = IF runs THEN @ + 1 ELSE @,
                                    !.held = IF runs /\ video.frozen THEN @ + 1 ELSE @,
                                    !.heard = @ \/ (runs /\ video.loud)]
    /\ room' = [room EXCEPT !.pos = IF room.paused THEN @ ELSE @ + 1]
    /\ since' = [since EXCEPT !.time = @ + 1]
    /\ UNCHANGED <<apply, det, said, doings>>

Thaws ==
    /\ video.frozen
    /\ video' = [video EXCEPT !.frozen = FALSE, !.held = 0]
    /\ since' = [since EXCEPT !.caught = @ \/ video.held > 0]
    /\ UNCHANGED <<room, apply, det, said, doings>>

(* The data runs out, or comes.  The browser holds the reading of a        *)
(* picture that runs, and under the room's seek the data comes with the    *)
(* press that follows (ApplyPress).                                        *)
Buffers ==
    /\ Occurs
    /\ ~video.frozen /\ ~apply.on
    /\ video' = [video EXCEPT !.ready = ~@]
    /\ UNCHANGED <<room, apply, det, said, since>>

Seeks(by, ready, frozen) ==
    /\ Occurs
    /\ video.pos - video.held + by \in Pos
    /\ ~since.sought
    /\ frozen => ready
    /\ apply.on => ~ready
    /\ video' = [video EXCEPT !.pos = @ - video.held + by, !.held = 0, !.ready = ready, !.frozen = frozen]
    /\ since' = [since EXCEPT !.sought = TRUE, !.moved = TRUE, !.from = video.pos]
    /\ UNCHANGED <<room, apply, det, said>>

Presses ==
    /\ Occurs
    /\ ~video.byBrowser /\ ~video.frozen
    /\ video' = [video EXCEPT !.paused = ~@]
    /\ since' = Changed("member")
    /\ UNCHANGED <<room, apply, det, said>>

Unmutes ==
    /\ Occurs
    /\ ~video.loud /\ ~video.hidden
    /\ video' = [video EXCEPT !.loud = TRUE]
    /\ UNCHANGED <<room, apply, det, said, since>>

Hides ==
    /\ Occurs
    /\ ~video.hidden
    /\ video' = [video EXCEPT !.hidden = TRUE]
    /\ UNCHANGED <<room, apply, det, said, since>>

(* Chrome pauses a hidden tab that never made a sound, and plays it again  *)
(* when it is shown                                                        *)
BackgroundPause ==
    /\ video.hidden /\ ~video.heard /\ ~video.loud /\ ~video.paused
    /\ ~since.event /\ ~video.frozen
    /\ video' = [video EXCEPT !.paused = TRUE, !.byBrowser = TRUE]
    /\ since' = Changed("browser")
    /\ UNCHANGED <<room, apply, det, said, doings>>

Shows ==
    /\ Occurs
    /\ video.hidden
    /\ video' = [video EXCEPT !.hidden = FALSE, !.byBrowser = FALSE,
                              !.paused = IF video.byBrowser THEN FALSE ELSE @]
    /\ since' = IF video.byBrowser THEN Changed("browser") ELSE since
    /\ UNCHANGED <<room, apply, det, said>>

(* The room moves: the anchor first, then the player behind its queue, and *)
(* the baseline after it.  A transition overtaken in its seek presses      *)
(* nothing.  The reading may be held from where its seek lands (§23).      *)
RoomMoves(by, paused) ==
    /\ Occurs
    /\ room.pos + by \in Pos
    /\ room' = [pos |-> room.pos + by, paused |-> paused, queued |-> TRUE]
    /\ UNCHANGED <<video, apply, det, said, since>>

ApplySeek ==
    /\ room.queued /\ ~apply.on
    /\ video' = [video EXCEPT !.pos = room.pos, !.held = 0, !.frozen = FALSE, !.ready = FALSE]
    /\ apply' = [on |-> TRUE, pos |-> room.pos, paused |-> room.paused]
    /\ room' = [room EXCEPT !.queued = FALSE]
    /\ UNCHANGED <<det, said, since, doings>>

ApplyPress(ready, frozen) ==
    /\ apply.on
    /\ frozen => ready
    /\ LET lands == [video EXCEPT !.ready = ready, !.frozen = frozen]
       IN video' = IF room.queued THEN lands
                   ELSE [lands EXCEPT !.paused = apply.paused, !.byBrowser = FALSE]
    /\ apply' = NotApplying
    /\ det' = Rebaseline(det, State(video').read, video'.paused)
    /\ since' = [Nothing EXCEPT !.time = since.time]
    /\ UNCHANGED <<room, said, doings>>

(* The connection closes, or the page shows other media                    *)
Reopens ==
    /\ Occurs
    /\ det' = Reset(det)
    /\ since' = [Nothing EXCEPT !.lag = video.held > 0]
    /\ UNCHANGED <<video, room, apply, said>>

DetectorInit ==
    /\ \E p, loud \in BOOLEAN :
        video = [pos |-> Horizon \div 2, held |-> 0, frozen |-> FALSE, paused |-> p,
                 ready |-> TRUE, hidden |-> FALSE, loud |-> loud, heard |-> FALSE,
                 byBrowser |-> FALSE]
    /\ room = [pos |-> Horizon \div 2, paused |-> video.paused, queued |-> FALSE]
    /\ apply = NotApplying
    /\ det = Detector0
    /\ said = "idle"
    /\ since = Nothing
    /\ doings = Doings

DetectorNext ==
    \/ Look \/ Tick \/ Thaws
    \/ Buffers \/ Presses \/ Unmutes \/ Hides \/ Shows \/ BackgroundPause
    \/ \E by \in Jumps, ready, frozen \in BOOLEAN : Seeks(by, ready, frozen)
    \/ \E by \in Jumps \cup {0}, paused \in BOOLEAN : RoomMoves(by, paused)
    \/ \E ready, frozen \in BOOLEAN : ApplyPress(ready, frozen)
    \/ ApplySeek \/ Reopens

DetectorSpec == DetectorInit /\ [][DetectorNext]_detectorVars

-----------------------------------------------------------------------------
Lag == 0..MaxFrozen
Videos == [pos : Pos, held : Lag, frozen : BOOLEAN, paused : BOOLEAN, ready : BOOLEAN,
           hidden : BOOLEAN, loud : BOOLEAN, heard : BOOLEAN, byBrowser : BOOLEAN]
Detectors == [known : Int, based : BOOLEAN, at : Int, seen : BOOLEAN, stalled : BOOLEAN,
              reach : Int, suspended : BOOLEAN, audible : BOOLEAN,
              paused : {"none", "yes", "no"}]
Delay == 0..Late
Happenings == [time : Delay, from : Pos, sought : BOOLEAN, moved : BOOLEAN, lag : BOOLEAN, caught : BOOLEAN,
               by : {"nobody", "member", "browser"}, event : BOOLEAN]

DetectorTypes ==
    /\ video \in Videos
    /\ room \in [pos : Pos, paused : BOOLEAN, queued : BOOLEAN]
    /\ apply \in [on : BOOLEAN, pos : Pos, paused : BOOLEAN]
    /\ det \in Detectors
    /\ said \in {"idle", "seek", "playstate", "stall", "suspended", "echo"}
    /\ since \in Happenings
    /\ doings \in 0..Doings

(* Neither a seek nor a press is made up: what buffers, freezes, catches   *)
(* up, is paused by the browser or is moved by the room, its reading held  *)
(* where that landed or not, does not read as the member's ("Any increase  *)
(* here is a bug", detector.ts:69).  A jump the member made counts until a *)
(* baseline has taken it in.  Four things are made up.                     *)
(*  - A pause of the browser's that was looked at once while the element   *)
(*    had no data is forgotten (`suspended` asks for data,                 *)
(*    detector.ts:287), and the browser's play, when the tab is shown      *)
(*    again, is sent.                                                      *)
(*  - What ran before a pause between two looks is never added to the      *)
(*    reference (detector.ts:235), so pause after pause moves it from the  *)
(*    truth, as far as the threshold.                                      *)
(*  - A held reading that catches up and runs out of data before the next  *)
(*    look: while stalled the reference allows for nothing (hi = lo,       *)
(*    detector.ts:186), the reach is for a resume only.                    *)
(*  - A reading that is held when the detector is reset: the first look    *)
(*    takes the reading for where the player is, and its catching up is a  *)
(*    jump from there (reset, detector.ts:291).                            *)
Forgotten == since.by = "browser" /\ ~det.suspended /\ ~video.paused
Drifted == Magnitude(det.known - det.at) + Late > Threshold
RanDry == since.caught /\ det.stalled /\ ~video.ready
NothingIsMadeUp ==
    [][Look => /\ said' = "seek" => since.moved \/ since.lag \/ RanDry \/ Drifted
               /\ said' = "playstate" => since.by = "member" \/ Forgotten]_detectorVars

(* What the detector cannot tell from the browser's doing: a hidden tab it *)
(* never saw play aloud, and the return from one                           *)
Silent == det.suspended \/ (video.hidden /\ ~det.audible /\ (video.paused \/ ~video.loud))

(* A jump further than playback, a held reading and the drift of the       *)
(* reference explain, and not to where the room is, is reported by the     *)
(* next look, whatever state the player was in                             *)
OutOfReach ==
    LET read == video.pos - video.held
        drift == Magnitude(det.known - det.at)
    IN /\ since.sought /\ det.seen /\ ~apply.on
       /\ Magnitude(read - since.from) > 2 * Late + MaxFrozen + Threshold + drift
       /\ Magnitude(read - room.pos) > Threshold
SeekIsSeen == [][Look /\ OutOfReach /\ ~Silent => said' = "seek"]_detectorVars

(* A press is reported by the look its event makes, or, when that look     *)
(* reports a seek or cannot tell it from the browser's pause, by a later   *)
(* one                                                                     *)
PressIsHeard ==
    [][Look /\ since.by = "member" /\ video.paused # room.paused /\ det.paused # "none"
            /\ ~Silent /\ ~apply.on
       => said' \in {"seek", "playstate"}]_detectorVars
=============================================================================
