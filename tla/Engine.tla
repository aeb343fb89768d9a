------------------------------- MODULE Engine -------------------------------
(***************************************************************************)
(* One member's sync engine (client/core/src/engine/engine.ts): from the   *)
(* frames of its session to what it does to its player, and from what      *)
(* happens to the player to the commands it sends.                         *)
(*                                                                         *)
(* JavaScript runs one task at a time, and the promise jobs a task leaves  *)
(* behind run before the next task.  So each handler is one action, and    *)
(* an action that is a task waits for Settled: no player mutation could go *)
(* on without waiting for the player or a timer.                           *)
(*                                                                         *)
(* Time is what it is compared with: `begun` holds the commands whose      *)
(* `when` has come, and each wait of the engine (reconcileAfterMs,         *)
(* settleMs, OWN_ACK_WAIT_MS, the gesture window) has an action that ends  *)
(* it.  Positions are left out: whether a transition seeks is a choice.    *)
(*                                                                         *)
(* This is an engine with gesture evidence, visible, and in a room of two  *)
(* or more.  Left out: seeding and naming a room (adoptFor), carrying it   *)
(* to the next episode, the end of the media, hidden tabs, seeks made by   *)
(* the member, reports, and the ticket and timers behind a connect.        *)
(***************************************************************************)
EXTENDS Integers, Sequences

CONSTANTS
  Media,          \* media keys
  NoMedia,        \* a page that names no media
  MaxReconforms,  \* maxReconforms
  MaxSeq,         \* bound on the number of commands
  Events          \* bound on what the member, the site, the browser and the
                  \* network do

ASSUME EngineAssumption ==
  /\ NoMedia \notin Media
  /\ MaxReconforms \in Nat /\ MaxSeq \in Nat \ {0} /\ Events \in Nat

VARIABLES
  room,     \* what the server applied, by seq: the first is the room as made
  begun,    \* seqs whose `when` has come
  wire,     \* frames on their way to the member
  up,       \* its commands on their way to the server
  me,       \* the engine
  el,       \* the element
  touched,  \* history, since the engine last took the play state down: the
            \* member pressed in the session, or it changed outside of one
  left      \* events left

serverVars == <<room, begun>>
linkVars   == <<wire, up>>
vars == <<room, begun, wire, up, me, el, touched, left>>

State(paused) == IF paused THEN "paused" ELSE "playing"

NoCmd == [id |-> 0, seq |-> 0, paused |-> TRUE]

NoTimer == [seq |-> 0, live |-> FALSE]

-----------------------------------------------------------------------------
(* What the engine knows of the room. *)

(* Before the first welcome the anchor is a placeholder. *)
Anchor(e) == IF e.applied = 0 THEN [paused |-> TRUE, media |-> NoMedia] ELSE room[e.applied]

OnRoomMedia(e) == e.local # NoMedia /\ e.local = Anchor(e).media

(* live: the work was queued in this session. *)
MutCanAim(e, live) == e.status = "joined" /\ e.clock /\ OnRoomMedia(e)
CanAim(e, live) == live /\ e.status = "joined" /\ e.clock /\ OnRoomMedia(e)

(* The room as this member has asked it to be. *)
RoomAnchor(e) ==
  IF e.intended # NoCmd /\ (e.intended.seq > 0 => e.applied < e.intended.seq)
  THEN e.intended ELSE Anchor(e)

-----------------------------------------------------------------------------
(* The apply chain.  A job is queued with the seq, the session (live) and  *)
(* the media epoch (here) of that moment.                                  *)

Job(kind, e) ==
  [kind |-> kind, seq |-> e.applied, live |-> TRUE, here |-> TRUE,
   phase |-> "queued", paused |-> TRUE, sought |-> FALSE]

Queue(e, kind) == [e EXCEPT !.chain = Append(@, Job(kind, e))]

Running(e) == e.chain # <<>> /\ Head(e.chain).phase # "queued"

(* No promise job is left to run. *)
Settled == me.chain # <<>> => Head(me.chain).phase \in {"seeking", "playing"}

(* What the engine asks again after every wait: a room's command, a conform *)
(* and a hold are for one seq; all but a gesture and a hold for one epoch.  *)
Current(e, j) ==
  /\ CanAim(e, j.live)
  /\ j.kind \in {"apply", "conform", "hold"} => j.seq = e.applied
  /\ j.kind \notin {"gesture", "hold"} => j.here

(* newMediaEpoch *)
NewMediaEpoch(e) ==
  [e EXCEPT !.acq = "detached", !.reconforms = 0, !.settled = FALSE, !.conforming = FALSE,
            !.base = "unknown", !.wait = "none", !.pressed = "no", !.timer = NoTimer,
            !.chain = [i \in 1 .. Len(@) |-> [@[i] EXCEPT !.here = FALSE]]]

(* this.epoch++ *)
EndSession(e) ==
  [e EXCEPT !.chain = [i \in 1 .. Len(@) |-> [@[i] EXCEPT !.live = FALSE]],
            !.timer.live = FALSE]

(* conform: a playing anchor that is known not to be due yet is waited for. *)
MutConform(e) == Queue([e EXCEPT !.conforming = TRUE], "conform")
Conform(e) ==
  LET c == [e EXCEPT !.conforming = TRUE]
  IN  IF ~e.clock \/ Anchor(e).paused \/ e.applied \in begun THEN Queue(c, "conform")
      ELSE [c EXCEPT !.timer = [seq |-> e.applied, live |-> TRUE]]

(* What queueConform leaves behind; a conform of another epoch, nothing.   *)
MutAfterConform(e, j, done) ==
  IF j.kind # "conform" \/ ~j.here THEN e
  ELSE [e EXCEPT !.conforming = FALSE,
                 !.settled = IF done THEN FALSE ELSE @,
                 !.acq = IF @ = "conforming" /\ done THEN "guarded" ELSE @]
AfterConform(e, j, done) ==
  IF j.kind # "conform" \/ ~j.here THEN e
  ELSE [e EXCEPT !.conforming = FALSE,
                 !.settled = IF done THEN FALSE ELSE @,
                 !.acq = IF @ # "conforming" THEN @ ELSE IF done THEN "guarded" ELSE "detached"]

(* The end of applyTransition: the detector takes down what the player did. *)
MutFinish(e, j, paused, done) ==
  AfterConform([e EXCEPT !.chain = Tail(@)], j, done)
Finish(e, j, paused, done) ==
  AfterConform([e EXCEPT !.chain = Tail(@), !.base = State(paused)], j, done)

-----------------------------------------------------------------------------
Init ==
  /\ \E k \in Media \cup {NoMedia}, p \in BOOLEAN : room = <<[paused |-> p, media |-> k]>>
  /\ begun = {1}
  /\ wire = <<>> /\ up = <<>>
  /\ \E k \in Media \cup {NoMedia} :
       me = [status |-> "away", clock |-> FALSE, welcomed |-> FALSE, applied |-> 0,
             pending |-> {}, mine |-> {}, sent |-> 0, intended |-> NoCmd, local |-> k,
             acq |-> "detached", conforming |-> FALSE, reconforms |-> 0, settled |-> FALSE,
             base |-> "unknown", wait |-> "none", pressed |-> "no",
             blocked |-> FALSE, retry |-> FALSE,
             chain |-> <<>>, timer |-> NoTimer]
  /\ el \in [paused : BOOLEAN, ready : BOOLEAN]
  /\ touched = "no"
  /\ left = Events

Linked == me.status \in {"joining", "joined"}

ToMember(frame) == wire' = IF Linked THEN Append(wire, frame) ELSE wire

Happens == left > 0 /\ left' = left - 1

-----------------------------------------------------------------------------
(* The server and the rest of the room, as Room.tla has them. *)

Extend(entry, frame) ==
  /\ Len(room) < MaxSeq
  /\ room' = Append(room, entry)
  /\ begun' = IF entry.paused THEN begun \cup {Len(room) + 1} ELSE begun
  /\ ToMember(frame)

Latest == room[Len(room)]

Others(paused, media) ==
  /\ paused \/ media = Latest.media      \* media lands paused
  /\ Extend([paused |-> paused, media |-> media],
            [t |-> "state", seq |-> Len(room) + 1, id |-> 0])
  /\ UNCHANGED <<up, me, el, touched, left>>

(* A command of this member is applied, or refused, or dropped by the gate. *)
Serve(taken) ==
  /\ up # <<>>
  /\ up' = Tail(up)
  /\ IF taken
     THEN Extend([paused |-> Head(up).paused, media |-> Latest.media],
                 [t |-> "ack", seq |-> Len(room) + 1, id |-> Head(up).id])
     ELSE UNCHANGED <<room, begun, wire>>
  /\ UNCHANGED <<me, el, touched, left>>

(* Commands with a lead come due in their order. *)
Begins(s) ==
  /\ s \in 1 .. Len(room) \ begun
  /\ 1 .. s - 1 \subseteq begun
  /\ begun' = begun \cup {s}
  /\ UNCHANGED <<room, linkVars, me, el, touched, left>>

(* A member behind a command that is due is told again. *)
Resync ==
  /\ me.status = "joined" /\ me.applied < Len(room) /\ Len(room) \in begun
  /\ wire = <<>>
  /\ ToMember([t |-> "state", seq |-> Len(room), id |-> 0])
  /\ UNCHANGED <<serverVars, up, me, el, touched, left>>

-----------------------------------------------------------------------------
(* The session. *)

Connect ==
  /\ Settled /\ me.status = "away"
  /\ me' = [me EXCEPT !.status = "joining"]
  /\ wire' = <<[t |-> "welcome", seq |-> Len(room), id |-> 0]>>
  /\ UNCHANGED <<serverVars, up, el, touched, left>>

(* onClose.  A clean close is the end. *)
Forgets(e) == [e EXCEPT !.pending = {}, !.intended = NoCmd]

Lost(e) == [EndSession(Forgets(e)) EXCEPT !.status = "away", !.clock = FALSE, !.base = "unknown"]

OnClose(clean) ==
  /\ Settled /\ Linked /\ Happens
  /\ wire' = <<>> /\ up' = <<>>
  /\ me' = IF clean THEN [Forgets(me) EXCEPT !.status = "closed"] ELSE Lost(me)
  /\ touched' = "no"
  /\ UNCHANGED <<serverVars, el>>

Stop ==
  /\ Settled /\ me.status # "closed" /\ Happens
  /\ wire' = <<>> /\ up' = <<>>
  /\ me' = [EndSession(Forgets(me)) EXCEPT !.status = "closed", !.retry = FALSE]
  /\ touched' = "no"
  /\ UNCHANGED <<serverVars, el>>

(* The third time.reply. *)
ClockSettles ==
  /\ Settled /\ me.status = "joined" /\ ~me.clock
  /\ me' = [me EXCEPT !.clock = TRUE]
  /\ UNCHANGED <<serverVars, linkVars, el, touched, left>>

(* The room's media changed: an epoch begins, as when the page's does. *)
RoomMediaChanged(e, changed) == IF changed THEN NewMediaEpoch(e) ELSE e

(* A welcome replaces the anchor, and touches no player. *)
Welcomed(e, seq) ==
  RoomMediaChanged([e EXCEPT !.status = "joined", !.applied = seq, !.welcomed = TRUE],
                   e.welcomed /\ room[seq].media # Anchor(e).media)

Acked(e, seq, id) ==
  [e EXCEPT !.mine = @ \cup {seq},
            !.intended.seq = IF e.intended.id = id THEN seq ELSE @]

Schedule(e, seq) == IF seq <= e.applied THEN e ELSE [e EXCEPT !.pending = @ \cup {seq}]

Receive ==
  LET f == Head(wire)
  IN  /\ Settled /\ wire # <<>>
      /\ wire' = Tail(wire)
      /\ me' = CASE f.t = "welcome" -> Welcomed(me, f.seq)
                 [] f.t = "state"   -> Schedule(me, f.seq)
                 [] f.t = "ack"     -> Schedule(Acked(me, f.seq, f.id), f.seq)
      /\ UNCHANGED <<serverVars, up, el, touched, left>>

(* drain, with applyScheduled's bookkeeping for all that is due.  Of those *)
(* only the newest finds itself current when its player work runs.         *)
Due(e) == {s \in e.pending \cap begun : s > e.applied}

Newest(S) == CHOOSE s \in S : \A x \in S : x <= s

TakesOver(e, due) ==
  LET moved == [e EXCEPT !.applied = Newest(due), !.pending = @ \ begun,
                         !.intended = IF @.seq = 0 /\ ~(due \subseteq e.mine) THEN NoCmd ELSE @]
  IN  RoomMediaChanged(moved, \E s \in due : room[s].media # Anchor(e).media)

Drain ==
  LET e == TakesOver(me, Due(me))
  IN  /\ Settled /\ me.clock /\ me.status = "joined"
      /\ Due(me) # {}
      /\ me' = IF OnRoomMedia(e) /\ e.acq \in {"guarded", "steady"} THEN Queue(e, "apply") ELSE e
      /\ UNCHANGED <<serverVars, linkVars, el, touched, left>>

(* applyCorrection: a seek to where the room is.  Nudges touch no state    *)
(* modelled here.                                                          *)
Correct ==
  /\ Settled /\ me.status = "joined" /\ Happens
  /\ OnRoomMedia(me) /\ me.clock
  /\ ~me.blocked => me.acq \notin {"detached", "conforming"}
  /\ me' = Queue(me, "correct")
  /\ UNCHANGED <<serverVars, linkVars, el, touched>>

-----------------------------------------------------------------------------
(* The head of the chain, up to its seek, its press, and its play().       *)

Begin ==
  LET j == Head(me.chain)
      ok == Current(me, j) /\ (j.kind = "hold" => Anchor(me).paused)
      rest == [me EXCEPT !.chain = Tail(@), !.retry = @ \/ j.kind = "gesture"]
  IN  /\ me.chain # <<>> /\ j.phase = "queued"
      /\ \/ /\ ~ok
            /\ me' = AfterConform(rest, j, FALSE)
         \/ /\ ok
            /\ \E seeks \in BOOLEAN :
                 /\ j.kind = "correct" => seeks
                 /\ me' = [me EXCEPT !.chain[1] = [@ EXCEPT !.phase = IF seeks THEN "seeking" ELSE "aimed",
                                                           !.sought = seeks,
                                                           !.paused = Anchor(me).paused],
                                     !.pressed = IF @ = "fresh" THEN "earlier" ELSE @]
      /\ UNCHANGED <<serverVars, linkVars, el, touched, left>>

(* The seek landed, landed elsewhere, stalled out, or lost its element.    *)
SeekEnds ==
  /\ me.chain # <<>> /\ Head(me.chain).phase = "seeking"
  /\ me' = [me EXCEPT !.chain[1].phase = "aimed"]
  /\ UNCHANGED <<serverVars, linkVars, el, touched, left>>

Ends(j, done) ==
  /\ me' = Finish(me, j, el'.paused, done)
  /\ touched' = "no"

Land ==
  LET j == Head(me.chain)
  IN  /\ me.chain # <<>> /\ j.phase = "aimed"
      /\ \/ /\ ~Current(me, j) \/ j.kind = "correct"
            /\ UNCHANGED <<el, left>>
            /\ Ends(j, FALSE)
         \/ /\ Current(me, j) /\ j.kind # "correct" /\ j.paused
            /\ el' = [el EXCEPT !.paused = TRUE]
            /\ Ends(j, TRUE)
            /\ UNCHANGED left
         \/ /\ Current(me, j) /\ j.kind # "correct" /\ ~j.paused
            /\ el' = [el EXCEPT !.paused = FALSE]
            /\ me' = [me EXCEPT !.chain[1].phase = "playing"]
            /\ UNCHANGED <<touched, left>>
         \/ /\ Current(me, j) /\ j.kind # "correct" /\ ~j.paused /\ el.paused
            /\ Happens                       \* the browser refuses, or it fails
            /\ UNCHANGED el
            /\ \E refused \in BOOLEAN :
                 me' = [Finish(me, j, TRUE, TRUE) EXCEPT !.blocked = @ \/ refused]
            /\ touched' = "no"
      /\ UNCHANGED <<serverVars, linkVars>>

(* play() was answered, rejected, or PLAY_WAIT_MS is over. *)
PlaySettles ==
  LET j == Head(me.chain)
  IN  /\ me.chain # <<>> /\ j.phase = "playing"
      /\ UNCHANGED el
      /\ \E answered \in BOOLEAN :
           me' = [Finish(me, j, el.paused, Current(me, j)) EXCEPT !.blocked = @ /\ ~answered]
      /\ touched' = "no"
      /\ UNCHANGED <<serverVars, linkVars, left>>

(* The timer of a conform that waits for its anchor. *)
TimerFires ==
  /\ Settled /\ me.timer # NoTimer /\ me.timer.seq \in begun
  /\ me' = [me EXCEPT !.timer = NoTimer,
                      !.chain = Append(@, [Job("conform", me) EXCEPT !.seq = me.timer.seq,
                                                                     !.live = me.timer.live])]
  /\ UNCHANGED <<serverVars, linkVars, el, touched, left>>

-----------------------------------------------------------------------------
(* evaluate, stage by stage. *)

NoticeUnblocked(e) == IF e.blocked /\ ~el.paused THEN [e EXCEPT !.blocked = FALSE, !.retry = FALSE]
                      ELSE e

(* together: the player runs where a playing room does. *)
AdvanceAcquisition(e, together) ==
  IF ~e.clock \/ ~OnRoomMedia(e) THEN e
  ELSE CASE e.acq = "detached" /\ el.ready -> Conform([e EXCEPT !.acq = "conforming"])
         [] e.acq = "guarded" /\ ~e.conforming
            /\ (e.settled \/ (together /\ ~Anchor(e).paused /\ ~el.paused /\ el.ready))
              -> [e EXCEPT !.acq = "steady"]
         [] OTHER -> e

(* resumeAfterGesture: a click to sync; without a session it is remembered. *)
ResumeAfterGesture(e) ==
  CASE ~e.blocked -> [e EXCEPT !.retry = FALSE]
    [] e.blocked /\ Anchor(e).paused -> [e EXCEPT !.blocked = FALSE, !.retry = FALSE]
    [] e.blocked /\ ~Anchor(e).paused /\ ~CanAim(e, TRUE) -> [e EXCEPT !.retry = TRUE]
    [] OTHER -> Queue([e EXCEPT !.retry = FALSE], "gesture")

RetryGesture(e) == IF e.retry /\ CanAim(e, TRUE) THEN ResumeAfterGesture(e) ELSE e

(* A play state seen while the element is unready under a seek of ours, and *)
(* not pressed since that began, is the site's answer to the seek.          *)
UnderOwnSeek(e, unready) == unready /\ Head(e.chain).sought /\ e.pressed # "fresh"

OwnEffect(e, unready) ==
  Running(e) /\ (el.paused = Head(e.chain).paused \/ UnderOwnSeek(e, unready))

(* A press within the gesture window and since the media epoch began, be it *)
(* "fresh" or "earlier" than the running transition.                        *)
Intent(e) == e.pressed # "no"

Send(e) ==
  [e EXCEPT !.sent = @ + 1,
            !.intended = IF e.clock THEN [id |-> e.sent + 1, seq |-> 0, paused |-> el.paused]
                         ELSE NoCmd]

(* act: the member's own change is sent; a play waits for the room.        *)
Act(e, unready) ==
  IF el.paused # RoomAnchor(e).paused /\ ~OwnEffect(e, unready)
  THEN IF el.paused THEN Send(e) ELSE Queue(Send(e), "hold")
  ELSE IF ~el.paused /\ ~Running(e) /\ Anchor(e).paused THEN Queue(e, "hold") ELSE e

IsEcho(e, unready) ==
  \/ el.paused = Anchor(e).paused /\ (Intent(e) => el.paused = RoomAnchor(e).paused)
  \/ OwnEffect(e, unready)

(* Whose change it is. *)
Classify(e, unready) ==
  CASE e.acq = "steady" -> Act(e, unready)
    [] e.acq # "steady" /\ Intent(e) /\ (e.acq = "fought" \/ ~IsEcho(e, unready))
         -> Act([e EXCEPT !.acq = "steady"], unready)
    [] e.acq = "guarded" /\ ~Intent(e) /\ ~IsEcho(e, unready) /\ ~Running(e) /\ ~e.conforming
         -> IF e.reconforms = MaxReconforms THEN [e EXCEPT !.acq = "fought"]
            ELSE Conform([e EXCEPT !.reconforms = @ + 1])
    [] OTHER -> e

Observe(e, unready) ==
  LET seen == e.base \notin {"unknown", State(el.paused)}
      now  == [e EXCEPT !.base = State(el.paused)]
  IN  IF seen /\ ~e.blocked /\ OnRoomMedia(e) THEN Classify(now, unready) ELSE now

(* The anchor is truth, including about being paused. *)
Reconcile(e) ==
  IF Running(e) THEN e
  ELSE IF ~(e.clock /\ OnRoomMedia(e) /\ ~e.blocked /\ e.acq = "steady"
            /\ el.paused # Anchor(e).paused)
       THEN [e EXCEPT !.wait = "none"]
       ELSE CASE e.wait = "none" -> [e EXCEPT !.wait = "some"]
              [] e.wait = "some" -> e
              [] e.wait = "over" -> Queue([e EXCEPT !.wait = "none"], "reconcile")

Evaluate(together, unready) ==
  /\ Settled /\ me.status = "joined"
  /\ me' = Reconcile(Observe(RetryGesture(AdvanceAcquisition(NoticeUnblocked(me), together)),
                             unready))
  /\ up' = IF me'.sent > me.sent THEN Append(up, [id |-> me'.sent, paused |-> el.paused]) ELSE up
  /\ touched' = "no"
  /\ UNCHANGED <<serverVars, wire, el, left>>

-----------------------------------------------------------------------------
(* The waits.  A change of the player is evaluated within milliseconds of  *)
(* its event, so none of them, hundreds of milliseconds long, ends between *)
(* the two.                                                                *)

Seen == me.status = "joined" => me.base \in {"unknown", State(el.paused)}

(* reconcileAfterMs is longer than any lead. *)
Lasts ==
  /\ Settled /\ Seen /\ me.wait = "some" /\ (me.applied = 0 \/ me.applied \in begun)
  /\ me' = [me EXCEPT !.wait = "over"]
  /\ UNCHANGED <<serverVars, linkVars, el, touched, left>>

Settles ==
  /\ Settled /\ Seen /\ me.acq = "guarded" /\ ~me.settled
  /\ me' = [me EXCEPT !.settled = TRUE]
  /\ UNCHANGED <<serverVars, linkVars, el, touched, left>>

Unanswered ==
  /\ Settled /\ me.intended # NoCmd /\ me.intended.seq = 0
  /\ me' = [me EXCEPT !.intended = NoCmd]
  /\ UNCHANGED <<serverVars, linkVars, el, touched, left>>

Wanes ==
  /\ Settled /\ Seen /\ me.pressed # "no"
  /\ me' = [me EXCEPT !.pressed = "no"]
  /\ UNCHANGED <<serverVars, linkVars, el, touched, left>>

-----------------------------------------------------------------------------
(* The member, the page and the element. *)

Press ==
  /\ Settled /\ Happens
  /\ el' = [el EXCEPT !.paused = ~@]
  /\ me' = [me EXCEPT !.pressed = "fresh"]
  /\ touched' = IF me.status = "joined" THEN "here" ELSE "offline"
  /\ UNCHANGED <<serverVars, linkVars>>

Click ==
  /\ Settled /\ Happens /\ me.blocked
  /\ me' = ResumeAfterGesture(me)
  /\ UNCHANGED <<serverVars, linkVars, el, touched>>

(* A site sets up its player, until it has had the time for that.  What it *)
(* does within the gesture window counts as the member's (Intent), so here *)
(* it comes outside of it.                                                 *)
SiteMoves ==
  /\ Settled /\ Happens /\ me.acq # "steady" /\ ~me.settled /\ me.pressed = "no"
  /\ el' = [el EXCEPT !.paused = ~@]
  /\ touched' = IF me.status = "joined" THEN touched ELSE "offline"
  /\ UNCHANGED <<serverVars, linkVars, me>>

(* setLocalMediaKey *)
Navigate(key) ==
  /\ Settled /\ Happens /\ key # me.local
  /\ me' = NewMediaEpoch([me EXCEPT !.local = key])
  /\ touched' = "no"
  /\ UNCHANGED <<serverVars, linkVars, el>>

(* emptied, loadstart, elementreplaced *)
Reload ==
  /\ Settled /\ Happens
  /\ me' = NewMediaEpoch(me)
  /\ el' = [paused |-> TRUE, ready |-> FALSE]
  /\ touched' = "no"
  /\ UNCHANGED <<serverVars, linkVars>>

Loads ==
  /\ ~el.ready
  /\ el' = [el EXCEPT !.ready = TRUE]
  /\ UNCHANGED <<serverVars, linkVars, me, touched, left>>

-----------------------------------------------------------------------------
Server ==
  \/ \E paused \in BOOLEAN, k \in Media : Others(paused, k)
  \/ \E taken \in BOOLEAN : Serve(taken)
  \/ \E s \in 1 .. MaxSeq : Begins(s)
  \/ Resync

Outside ==
  \/ \E clean \in BOOLEAN : OnClose(clean)
  \/ Stop \/ Correct \/ Press \/ Click \/ SiteMoves \/ Reload
  \/ \E key \in Media \cup {NoMedia} : Navigate(key)

Evaluates == \E together, unready \in BOOLEAN : Evaluate(together, unready)

Next ==
  \/ Server \/ Outside
  \/ Connect \/ ClockSettles \/ Receive \/ Drain
  \/ Begin \/ SeekEnds \/ Land \/ PlaySettles \/ TimerFires
  \/ Evaluates
  \/ Lasts \/ Settles \/ Unanswered \/ Wanes \/ Loads

Spec == Init /\ [][Next]_vars

(* Time passes, timers fire, the network delivers, seeks and play() are    *)
(* answered or given up on, and media loads.  No link need come back and no *)
(* command need be answered: the property is about a member who is joined. *)
Fairness ==
  /\ WF_vars(ClockSettles) /\ WF_vars(Receive) /\ WF_vars(Drain)
  /\ WF_vars(Begin) /\ WF_vars(SeekEnds) /\ WF_vars(Land) /\ WF_vars(PlaySettles)
  /\ WF_vars(TimerFires) /\ WF_vars(Evaluates)
  /\ WF_vars(Lasts) /\ WF_vars(Settles) /\ WF_vars(Loads)
  /\ WF_vars(\E s \in 1 .. MaxSeq : Begins(s))

FairSpec == Spec /\ Fairness

-----------------------------------------------------------------------------
(* Types; and what is pending is ahead of what is applied or was overtaken, *)
(* a conform is in flight exactly while its epoch has a job or timer for    *)
(* it.                                                                      *)
Kinds == {"apply", "conform", "correct", "gesture", "hold", "reconcile"}

TypeOK ==
  /\ room \in Seq([paused : BOOLEAN, media : Media \cup {NoMedia}])
  /\ begun \subseteq 1 .. Len(room)
  /\ me.status \in {"away", "joining", "joined", "closed"}
  /\ me.applied \in 0 .. Len(room)
  /\ me.pending \subseteq 1 .. Len(room)
  /\ me.acq \in {"detached", "conforming", "guarded", "steady", "fought"}
  /\ me.wait \in {"none", "some", "over"}
  /\ \A i \in 1 .. Len(me.chain) : /\ me.chain[i].kind \in Kinds
                                   /\ i > 1 => me.chain[i].phase = "queued"
  /\ me.conforming <=> \/ me.timer # NoTimer
                       \/ \E i \in 1 .. Len(me.chain) : me.chain[i].kind = "conform" /\ me.chain[i].here
  /\ me.acq = "conforming" => me.conforming

EnginePresses == me.chain # <<>> /\ Head(me.chain).phase = "aimed" /\ el'.paused # el.paused

(* Nothing the engine queued presses play or pause outside a session, off   *)
(* the room's media, or in a later session than it was queued in, however   *)
(* long its seek took (canAim, asked again after the seek); and a room's    *)
(* command, a conform or a hold whose seq was overtaken while it waited or  *)
(* sought presses nothing (applyScheduled, conform, holdForRoom).           *)
NothingStalePresses ==
  [][EnginePresses =>
       /\ me.status = "joined" /\ me.clock /\ Head(me.chain).live
       /\ me.local = Anchor(me).media
       /\ Head(me.chain).kind \in {"apply", "conform", "hold"}
            => el'.paused = Anchor(me).paused]_vars

(* Neither a room's command nor the engine's putting the room's state onto  *)
(* a player starts it before the room's `when`, not even a player whose     *)
(* welcome came inside a play's lead (drain, conform's timer); nor does a   *)
(* hold.  A gesture's job and the reconciler's are left out: they do not    *)
(* look at `when`, and may press play inside the lead (NobodyStartsEarly).  *)
NoEarlyPlay ==
  [][EnginePresses /\ Head(me.chain).kind \in {"apply", "conform", "hold"} /\ ~el'.paused
       => me.applied \in begun]_vars

(* In a session the engine sends only what the member did: not what its own *)
(* transitions did to the player, nor what a site did while it set its     *)
(* player up (detector baseline, isEcho, classify).  One thing of the      *)
(* site's may be sent, and only against a command of the member's that is  *)
(* still on its way: that the player does what the room does now.  What    *)
(* was done outside of a session is NothingFromTheOutageIsSent's.          *)
OnlyTheMemberIsSent ==
  [][me'.sent > me.sent =>
       \/ touched # "no"
       \/ el.paused = Anchor(me).paused /\ el.paused # RoomAnchor(me).paused]_vars

(* engine.ts, isEcho: "A change with no gesture is not the member's, so our *)
(* pending command says nothing about it".  No run lists it, for it does   *)
(* not hold: a site that starts a guarded player where the room plays makes *)
(* it steady in the same evaluation (`together`), and the play is then     *)
(* judged as the member's, against the pause it has on its way.  It takes  *)
(* four Events: that pause, a reload, a refused play(), the site's.        *)
NothingOfTheSiteIsSent == [][me'.sent > me.sent => touched # "no"]_vars

(* engine.ts, evaluate: "Nothing the member did while the session was down  *)
(* is sent here: nothing is evaluated while not joined, and the detector is *)
(* reset with the connection, so it became the new baseline."  No run lists *)
(* it, for it does not hold: the finally block of a transition that was     *)
(* parked when the link dropped sets a baseline during the outage.          *)
NothingFromTheOutageIsSent == [][me'.sent > me.sent => touched # "offline"]_vars

(* Once the room and the world leave the member alone, its player is        *)
(* acquired and does what the room does: after any reconnect, reload,       *)
(* navigation, failed play() or dropped command (advanceAcquisition, the    *)
(* reconciler).                                                             *)
Follows == /\ me.status = "joined" /\ me.local = Latest.media /\ me.local # NoMedia
           /\ ~me.blocked /\ me.acq # "fought"

FollowsInTheEnd == <>[](Follows => me.acq = "steady" /\ el.paused = Latest.paused)

(* engine.ts, applyTransition: "whatever superseded this transition in that *)
(* time has its own work queued behind; pressing play or pause now would    *)
(* only be undone by it, after the member had seen it".  No run lists it,   *)
(* for it does not hold: a gesture's and the reconciler's jobs do not ask   *)
(* whether the seq they began under is still the room's (Current).          *)
NothingOvertakenPresses == [][EnginePresses => el'.paused = Anchor(me).paused]_vars

(* engine.ts, EngineConfig: "everyone must start moving at the same         *)
(* instant from the same position".  No run lists it, for it does not hold  *)
(* of a member who reconnects inside a play's lead: a click to sync presses *)
(* play at once (resumeAfterGesture), and so does the reconciler, whose     *)
(* wait goes on while the link is down (disagreeingSince).                  *)
NobodyStartsEarly == [][EnginePresses /\ ~el'.paused => me.applied \in begun]_vars
=============================================================================
