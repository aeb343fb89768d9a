-------------------------------- MODULE Room --------------------------------
(***************************************************************************)
(* One room: the owner of the timebase and the readiness gate              *)
(* (server/internal/room/room.go, with the entry points of hub/live.go and *)
(* hub/hub.go that drive it).                                              *)
(*                                                                         *)
(* Every handler runs under the room's mutex, so a handler is one action.  *)
(* What is not under it is the clock: the sweeper reads the clock before   *)
(* it takes the mutex (Hub.sweep), so Tick may run with an instant         *)
(* that other handlers have already passed.                                *)
(*                                                                         *)
(* Left out: what a corrector does to one member beyond asking for the     *)
(* gate (seeks, nudges, learned bias), time probes and chat, which touch   *)
(* no state modelled here, metrics, and the two control arms of the        *)
(* simulation (NoStaleResend, GateDisabled), which are off in a server.    *)
(***************************************************************************)
EXTENDS Timebase, Sequences

CONSTANTS
  Member,       \* connection ids
  Nobody,       \* no held command
  NoRtt,        \* a member that has not reported a round trip yet
  Always,       \* a media command without ifMediaKey
  Command,      \* the commands members may send
  Report,       \* the reports members may send
  MaxRtt,       \* bound on a reported round trip
  DelayFloor,   \* the clamp of CmdDelay: 500 ms ...
  DelayCap,     \* ... and 2000 ms
  GateTimeout,  \* GateTimeoutMs
  SweepLag,     \* bound on how stale the sweeper's clock reading can be
  MaxTime,      \* bound on the clock
  Quiet,        \* from here on members send nothing more (bounds a behaviour)
  MaxSeq        \* bound on the number of commands

CommandKind == {"play", "pause", "seek", "media"}

ASSUME CommandAssumption ==
  Command \subseteq [kind : CommandKind \cup {"other"}, pos : Int,
                     media : MediaKeys \cup {NoMedia},
                     ifMedia : MediaKeys \cup {NoMedia, Always}]

ASSUME ReportAssumption ==
  Report \subseteq [suspended : BOOLEAN, finished : BOOLEAN, acquiring : BOOLEAN,
                    ready : BOOLEAN, buffered : BOOLEAN, rtt : 0 .. MaxRtt]

ASSUME BoundsAssumption ==
  /\ MaxRtt \in Nat /\ GateTimeout \in Nat /\ SweepLag \in Nat
  /\ MaxTime \in Nat /\ Quiet \in Nat /\ MaxSeq \in Nat
  /\ DelayFloor \in Nat /\ DelayCap \in Nat /\ DelayFloor <= DelayCap

ASSUME SentinelAssumption ==
  /\ Nobody \notin Member
  /\ NoRtt \notin 0 .. MaxRtt
  /\ Always \notin MediaKeys \cup {NoMedia}

VARIABLES
  now,          \* the server clock
  members,      \* the ids in the room
  flags,        \* what the last reports said: sets of members, one per flag
  rtt,          \* Member.RTTMs, NoRtt before the first report
  gate,         \* who holds the room back, since when, and who was waived
  held,         \* who pressed the play the gate holds, or Nobody
  gateSig,      \* the gate frame last announced
  seq,          \* commands applied
  anchor,       \* the newest anchor, due or not
  committed,    \* the anchor the room is on ...
  upcoming,     \* ... and those it moves onto later
  lastCmdWhen,  \* when the newest command is due
  sent,         \* answers the last step put on the wire
  gateView,     \* per member: the last gate frame put in its outbox
  rosterView,   \* per member: the last roster put in its outbox
  unheard,      \* history: members gated by a media command that have not
                \* been judged on its seq since
  waiting       \* history: since when the room waits for a member, 0 if it
                \* does not

clockVars    == <<now>>
timebaseVars == <<seq, anchor, committed, upcoming, lastCmdWhen>>
memberVars   == <<members, flags, rtt>>
gateVars     == <<gate, held, gateSig>>
viewVars     == <<gateView, rosterView>>
historyVars  == <<unheard, waiting>>
vars == <<now, members, flags, rtt, gate, held, gateSig, seq, anchor, committed,
          upcoming, lastCmdWhen, sent, gateView, rosterView, unheard, waiting>>

-----------------------------------------------------------------------------
(* What a client is told. *)

NoFrame == [waiting |-> FALSE, on |-> {}]

GateFrame(g, h) == [waiting |-> h # Nobody, on |-> g.gated]

Roster(ms, f) == [here |-> ms, away |-> f.suspended, ready |-> ms \ (f.unready \cup f.acquiring)]

NoRoster == [here |-> {}, away |-> {}, ready |-> {}]

(* GateState: a join changes nothing about the gate, so the joiner is told. *)
MutNoSnapshot(g, h) == NoFrame
GateState(g, h) ==
  IF h = Nobody /\ g.gated = {} THEN NoFrame ELSE GateFrame(g, h)

(* announceGate: a frame to everyone when what it says has changed. *)
AnnounceGate(ms, g, h) ==
  /\ gateSig' = GateFrame(g, h)
  /\ gateView' = IF GateFrame(g, h) = gateSig
                 THEN [m \in Member |-> IF m \in ms THEN gateView[m] ELSE NoFrame]
                 ELSE [m \in Member |-> IF m \in ms THEN GateFrame(g, h) ELSE NoFrame]

-----------------------------------------------------------------------------
(* The readiness gate.  `since` is read only while the member is gated, and *)
(* is 0 otherwise.                                                          *)

Waive(g, ms) ==
  [gated |-> g.gated \ ms, waived |-> g.waived \cup ms,
   since |-> [m \in Member |-> IF m \in ms THEN 0 ELSE g.since[m]]]

Clear(g, m) ==
  [gated |-> g.gated \ {m}, waived |-> g.waived \ {m},
   since |-> [g.since EXCEPT ![m] = 0]]

MutNeverExpired(g, t) == {}
Expired(g, t) == {m \in g.gated : t - g.since[m] > GateTimeout}

(* markGated: enter the gate, unless waived; leave it when it takes too    *)
(* long.                                                                   *)
MutMarkForgetsWaiver(g, m, t) ==
  IF m \in g.gated
  THEN Waive(g, Expired(g, t) \cap {m})
  ELSE [g EXCEPT !.gated = @ \cup {m}, !.since[m] = t]
MarkGated(g, m, t) ==
  IF m \in g.gated
  THEN Waive(g, Expired(g, t) \cap {m})
  ELSE IF m \in g.waived THEN g
       ELSE [g EXCEPT !.gated = @ \cup {m}, !.since[m] = t]

(* A media command: nobody is ready for media nobody has loaded, except    *)
(* that a member who is away and has not finished is not waited for.       *)
Summoned(ms, f) == ms \ (f.suspended \ f.finished)

GateAll(g, ms, t) ==
  [gated |-> g.gated \cup ms, waived |-> g.waived \ ms,
   since |-> [m \in Member |-> IF m \in ms THEN t ELSE g.since[m]]]

-----------------------------------------------------------------------------
(* CmdDelay: how long a command waits for the members to be simultaneous.  *)

Alone(ms) == \A p, q \in ms : p = q

Measured(ms, rt) == {m \in ms : rt[m] # NoRtt}

Slowest(ms, rt) == CHOOSE m \in ms : \A k \in ms : rt[k] <= rt[m]

ThreeOrMore(ms) == \E p, q, r \in ms : p # q /\ q # r /\ p # r

(* With three members or more the worst one does not count. *)
DelayRtt(ms, rt) ==
  LET top == Slowest(ms, rt)
  IN  IF ThreeOrMore(ms) THEN rt[Slowest(ms \ {top}, rt)] ELSE rt[top]

CmdDelay(ms, rt) ==
  IF Alone(ms) THEN 0
  ELSE IF Measured(ms, rt) = {} THEN DelayFloor
  ELSE ClampI(2 * DelayRtt(Measured(ms, rt), rt), DelayFloor, DelayCap)

-----------------------------------------------------------------------------
(* The schedule: committed now, upcoming later. *)

(* The first upcoming anchor whose time has not come at t, as committedAt  *)
(* scans for it.                                                           *)
FirstPending(u, t) ==
  CHOOSE i \in 1 .. Len(u) + 1 :
    /\ \A j \in 1 .. i - 1 : u[j].at <= t
    /\ i <= Len(u) => u[i].at > t

CommittedAt(c, u, t) ==
  LET i == FirstPending(u, t) IN IF i = 1 THEN c ELSE u[i - 1].line

StillUpcoming(u, t) == SubSeq(u, FirstPending(u, t), Len(u))

(* commit: later commands are never due earlier than earlier ones, except  *)
(* one that replaces everything still pending.                             *)
MutCommitKeeps(u, at, line) == Append(u, [at |-> at, line |-> line])
Commit(u, at, line) ==
  Append(IF Len(u) > 0 /\ at <= u[1].at THEN <<>> ELSE u, [at |-> at, line |-> line])

(* Where the room stands at t. *)
Standing(t) == CommittedPosition(CommittedAt(committed, upcoming, t), t)

LeavesRoomStopped(kind) == kind \in {"pause", "media"} \/ (kind = "seek" /\ anchor.paused)

(* A command that leaves the room stopped is due at once; any other waits  *)
(* for its delay and for the command before it.                            *)
MutDueEarly(t, kind, ms, rt) ==
  IF LeavesRoomStopped(kind) THEN t ELSE t + CmdDelay(ms, rt)
DueAt(t, kind, ms, rt) ==
  IF LeavesRoomStopped(kind) THEN t ELSE Larger(t + CmdDelay(ms, rt), lastCmdWhen)

(* A pause inside another command's lead anchors on the schedule, since    *)
(* the sender's position is on a timeline the room is about to leave.      *)
MutPauseAtSender(cmd, t) == cmd.pos
PausePosition(cmd, t) == IF t < lastCmdWhen THEN Standing(t) ELSE cmd.pos

NextAnchor(cmd, t, when) ==
  CASE cmd.kind = "pause" -> Reanchor(anchor, PausePosition(cmd, t), when, TRUE)
    [] cmd.kind = "play"  -> [Advance(anchor, when) EXCEPT !.paused = FALSE]
    [] cmd.kind = "seek"  -> Reanchor(anchor, cmd.pos, when, anchor.paused)
    [] cmd.kind = "media" -> [pos |-> cmd.pos, at |-> when, paused |-> TRUE, media |-> cmd.media]

(* A play takes the room over when it is due; the others at once. *)
TakesOver(kind, t, when) == IF kind = "play" THEN when ELSE t

(* apply, for the members and round trips the handler has by now.  The     *)
(* gating a media command does is in ApplyCmd: no other kind gates.        *)
Apply(t, cmd, ms, rt) ==
  LET when == DueAt(t, cmd.kind, ms, rt)
      next == NextAnchor(cmd, t, when)
  IN  /\ seq' = seq + 1
      /\ anchor' = next
      /\ committed' = CommittedAt(committed, upcoming, t)
      /\ upcoming' = Commit(StillUpcoming(upcoming, t), TakesOver(cmd.kind, t, when), next)
      /\ lastCmdWhen' = when

(* releaseGate then announceGate: how every handler that can make a member *)
(* ready, or gone, ends.                                                   *)
HeldPlay == [kind |-> "play", pos |-> 0, media |-> NoMedia, ifMedia |-> Always]

ReleaseAndAnnounce(t, ms, rt, g, h, answers) ==
  IF h # Nobody /\ g.gated = {}
  THEN /\ Apply(t, HeldPlay, ms, rt)
       /\ held' = Nobody
       /\ sent' = answers \cup {"play"}
       /\ AnnounceGate(ms, g, Nobody)
  ELSE /\ held' = h
       /\ sent' = answers
       /\ AnnounceGate(ms, g, h)
       /\ UNCHANGED timebaseVars

(* History: a stay in the gate begins when a member enters it, or when a    *)
(* media command summons it anew.                                          *)
Watch ==
  waiting' = [m \in Member |->
                IF m \notin gate'.gated THEN 0
                ELSE IF m \in gate.gated /\ ~("media" \in sent' /\ m \in unheard')
                     THEN waiting[m] ELSE now]

-----------------------------------------------------------------------------
Init ==
  /\ now = 0
  /\ members = {}
  /\ flags = [suspended |-> {}, finished |-> {}, acquiring |-> {}, unready |-> {}]
  /\ rtt = [m \in Member |-> NoRtt]
  /\ gate = [gated |-> {}, waived |-> {}, since |-> [m \in Member |-> 0]]
  /\ held = Nobody
  /\ gateSig = NoFrame
  /\ seq = 0
  /\ \E k \in MediaKeys \cup {NoMedia} :
       anchor = [pos |-> 0, at |-> 0, paused |-> TRUE, media |-> k]
  /\ committed = [anchor EXCEPT !.media = NoMedia]   \* SetMedia names anchor only
  /\ upcoming = <<>>
  /\ lastCmdWhen = 0
  /\ sent = {}
  /\ gateView = [m \in Member |-> NoFrame]
  /\ rosterView = [m \in Member |-> NoRoster]
  /\ unheard = {}
  /\ waiting = [m \in Member |-> 0]

(* Live.join: the room, then the roster to everyone (the joiner's is in    *)
(* its welcome) and the gate snapshot to the joiner.                       *)
Join(m) ==
  /\ now < Quiet
  /\ m \notin members
  /\ members' = members \cup {m}
  /\ gateView' = [gateView EXCEPT ![m] = GateState(gate, held)]
  /\ rosterView' = [k \in Member |-> IF k \in members' THEN Roster(members', flags) ELSE NoRoster]
  /\ sent' = {}
  /\ UNCHANGED <<now, flags, rtt, gateVars, timebaseVars, historyVars>>

Forget(f, m) ==
  [suspended |-> f.suspended \ {m}, finished |-> f.finished \ {m},
   acquiring |-> f.acquiring \ {m}, unready |-> f.unready \ {m}]

(* Live.leave: a member who leaves counts as ready; when the last one goes *)
(* a held play goes with it.                                               *)
MutHeldAfter(ms) == held
HeldAfter(ms) == IF ms = {} THEN Nobody ELSE held

Leave(m) ==
  LET ms == members \ {m}
      f  == Forget(flags, m)
  IN  /\ m \in members
      /\ members' = ms
      /\ flags' = f
      /\ rtt' = [rtt EXCEPT ![m] = NoRtt]
      /\ gate' = Clear(gate, m)
      /\ ReleaseAndAnnounce(now, ms, rtt', gate', HeldAfter(ms), {})
      /\ rosterView' = [k \in Member |-> IF k \in ms THEN Roster(ms, f) ELSE NoRoster]
      /\ unheard' = unheard \ {m}
      /\ Watch
      /\ UNCHANGED now

-----------------------------------------------------------------------------
(* OnCmd.  The three outcomes of a command are three actions. *)

(* A member may have sent a negative position; it counts as 0. *)
Normalised(cmd) == [cmd EXCEPT !.pos = Larger(0, @)]

Refusals(cmd) ==
  CASE cmd.kind = "other" -> {"bad_kind"}
    [] cmd.kind = "media" /\ cmd.media = NoMedia -> {"bad_cmd"}
    [] cmd.kind = "media" /\ cmd.media # NoMedia
       /\ cmd.ifMedia \notin {Always, anchor.media} -> {"media_stale"}
    [] OTHER -> {}

Holds(cmd) == cmd.kind = "play" /\ gate.gated # {}

Commands(m) == m \in members /\ now < Quiet /\ seq < MaxSeq

RefuseCmd(m, cmd) ==
  /\ Commands(m)
  /\ Refusals(cmd) # {}
  /\ sent' = Refusals(cmd)
  /\ UNCHANGED <<now, memberVars, gateVars, timebaseVars, viewVars, historyVars>>

(* Only a play is held, and only the newest one. *)
HoldPlay(m, cmd) ==
  /\ Commands(m)
  /\ Refusals(cmd) = {}
  /\ Holds(cmd)
  /\ held' = m
  /\ AnnounceGate(members, gate, m)
  /\ sent' = {}
  /\ UNCHANGED <<now, memberVars, gate, timebaseVars, rosterView, historyVars>>

ApplyCmd(m, cmd) ==
  /\ Commands(m)
  /\ Refusals(cmd) = {}
  /\ ~Holds(cmd)
  /\ held' = Nobody
  /\ Apply(now, Normalised(cmd), members, rtt)
  /\ IF cmd.kind = "media"
     THEN /\ gate' = GateAll(gate, Summoned(members, flags), now)
          /\ unheard' = Summoned(members, flags)
     ELSE UNCHANGED <<gate, unheard>>
  /\ AnnounceGate(members, gate', Nobody)
  /\ sent' = {cmd.kind}
  /\ Watch
  /\ UNCHANGED <<now, memberVars, rosterView>>

-----------------------------------------------------------------------------
(* OnReport. *)

Absent(rep) == rep.suspended \/ rep.finished

Acquires(rep) == rep.acquiring /\ ~Absent(rep)

Flag(set, m, up) == IF up THEN set \cup {m} ELSE set \ {m}

Reported(f, m, rep) ==
  [suspended |-> Flag(f.suspended, m, Absent(rep)),
   finished  |-> Flag(f.finished, m, rep.finished),
   acquiring |-> Flag(f.acquiring, m, Acquires(rep)),
   unready   |-> Flag(f.unready, m, ~rep.ready)]

(* What the shipped corrector (ServoCorrector.Decide) asks of the gate: an *)
(* absent member is not buffering.                                         *)
AsksForGate(rep) == ~Absent(rep) /\ (~rep.ready \/ ~rep.buffered)

(* A report is judged once its member has the newest command and is on the *)
(* room's timeline; readiness clears the gate whatever else is asked.      *)
MutJudgedAnyway(rep, applied) == ~Acquires(rep)
Judged(rep, applied) == applied = seq /\ ~Acquires(rep)

AfterReport(g, m, rep, applied, t) ==
  LET marked == IF Acquires(rep) THEN MarkGated(g, m, t) ELSE g
  IN  IF ~Judged(rep, applied) THEN marked
      ELSE IF AsksForGate(rep) THEN MarkGated(marked, m, t) ELSE Clear(marked, m)

(* A member behind the newest command is told again, once that command has *)
(* had its own round trip to arrive.                                       *)
Resyncs(rep, applied, t) == applied < seq /\ t >= lastCmdWhen + rep.rtt

(* What matters of lastAppliedSeq is whether it is behind. *)
OnReport(m, rep, applied) ==
  LET f  == Reported(flags, m, rep)
      rt == [rtt EXCEPT ![m] = rep.rtt]
      g  == AfterReport(gate, m, rep, applied, now)
  IN  /\ now < Quiet
      /\ m \in members
      /\ flags' = f
      /\ rtt' = rt
      /\ gate' = g
      /\ rosterView' = IF Roster(members, f) = Roster(members, flags) THEN rosterView
                       ELSE [k \in Member |-> IF k \in members THEN Roster(members, f)
                                              ELSE NoRoster]
      /\ unheard' = IF applied = seq /\ ~Acquires(rep) THEN unheard \ {m} ELSE unheard
      /\ ReleaseAndAnnounce(now, members, rt, g, held,
                            IF Resyncs(rep, applied, now) THEN {"resync"} ELSE {})
      /\ Watch
      /\ UNCHANGED <<now, members>>

-----------------------------------------------------------------------------
(* Tick, for a room that is not empty.  t is what the sweeper read of the  *)
(* clock before it took the room's mutex.                                  *)
Tick(t) ==
  /\ members # {}
  /\ gate' = Waive(gate, Expired(gate, t))
  /\ ReleaseAndAnnounce(t, members, rtt, gate', held, {})
  /\ Watch
  /\ UNCHANGED <<now, memberVars, rosterView, unheard>>

Passes ==
  /\ now < MaxTime
  /\ now' = now + 1
  /\ sent' = {}
  /\ UNCHANGED <<memberVars, gateVars, timebaseVars, viewVars, historyVars>>

SweepReadings == {t \in 0 .. now : t + SweepLag >= now}

Next ==
  \/ Passes
  \/ \E m \in Member : Join(m) \/ Leave(m)
  \/ \E m \in Member, cmd \in Command : RefuseCmd(m, cmd)
  \/ \E m \in Member, cmd \in Command : HoldPlay(m, cmd)
  \/ \E m \in Member, cmd \in Command : ApplyCmd(m, cmd)
  \/ \E m \in Member, rep \in Report : \E applied \in {0, seq} : OnReport(m, rep, applied)
  \/ \E t \in SweepReadings : Tick(t)

Spec == Init /\ [][Next]_vars

(* The clock runs and the sweeper keeps coming round (Hub.loop); nothing   *)
(* is asked of the members.                                                *)
Fairness == WF_vars(Passes) /\ WF_vars(\E t \in SweepReadings : Tick(t))

FairSpec == Spec /\ Fairness

-----------------------------------------------------------------------------
(* Types of the state.  What the room knows of a connection is gone with    *)
(* it (Leave): nothing is said of a member who is not in the room.          *)
Line == [at : Int, line : Anchor]

TypeOK ==
  /\ now \in 0 .. MaxTime
  /\ members \subseteq Member
  /\ flags \in [suspended : SUBSET members, finished : SUBSET members,
                acquiring : SUBSET members, unready : SUBSET members]
  /\ rtt \in [Member -> 0 .. MaxRtt \cup {NoRtt}]
  /\ gate \in [gated : SUBSET Member, waived : SUBSET Member, since : [Member -> Int]]
  /\ held \in Member \cup {Nobody}
  /\ gateSig \in [waiting : BOOLEAN, on : SUBSET Member]
  /\ seq \in Nat
  /\ anchor \in Anchor
  /\ committed \in Anchor
  /\ upcoming \in Seq(Line)
  /\ lastCmdWhen \in Int
  /\ gateView \in [Member -> [waiting : BOOLEAN, on : SUBSET Member]]
  /\ rosterView \in [Member -> [here : SUBSET Member, away : SUBSET Member,
                                ready : SUBSET Member]]
  /\ unheard \subseteq members
  /\ waiting \in [Member -> Int]

(* No anchor the room holds or has scheduled names a position before the    *)
(* start of the media, and a running one never starts after the newest      *)
(* command is due: projecting it to a later command's instant therefore     *)
(* never goes backwards (apply's `when < r.lastCmdWhen` clamp).             *)
NeverBeforeStart ==
  /\ anchor.pos >= 0 /\ committed.pos >= 0
  /\ \A i \in 1 .. Len(upcoming) : upcoming[i].line.pos >= 0
  /\ ~anchor.paused => anchor.at <= lastCmdWhen

(* The schedule the room keeps beside its newest anchor: in order of        *)
(* `when`, nothing in it due after the newest command, and ending in the    *)
(* anchor everyone has been told (commit, committedAt).                     *)
ScheduleInOrder ==
  LET last == IF upcoming = <<>> THEN committed ELSE upcoming[Len(upcoming)].line
  IN  /\ [last EXCEPT !.media = anchor.media] = anchor
      /\ \A i, j \in 1 .. Len(upcoming) : i <= j => upcoming[i].at <= upcoming[j].at
      /\ \A i \in 1 .. Len(upcoming) : upcoming[i].at <= lastCmdWhen

(* A play is held only while somebody in the room is not ready: on every    *)
(* path a member stops being waited for -- ready, timed out, gone -- the    *)
(* play is applied or dropped in the same step (releaseGate's callers), and *)
(* it is never applied to a room everyone has left.                         *)
HeldOnlyForMembers ==
  /\ held # Nobody => gate.gated # {}
  /\ gate.gated \subseteq members
  /\ "play" \in sent => members # {}

(* Whatever order members join, leave and report in, every member's last    *)
(* gate frame says what the gate is and its last roster who is here, away   *)
(* and ready, although both are sent on change only (announceGate,          *)
(* GateState, OnReport's roster broadcast).                                 *)
ViewsAreCurrent ==
  \A m \in members : /\ gateView[m] = GateFrame(gate, held)
                     /\ rosterView[m] = Roster(members, flags)

(* After a media command a play starts only once every member it summoned   *)
(* has been judged on the new seq, has been waived by the timeout, or has   *)
(* left (docs/PROTOCOL.md section 3, "nobody is ready yet").                *)
PlayWaitsForNewMedia == [][("play" \in sent') => unheard' \subseteq gate'.waived]_vars

(* The waiver latches: a waived member is not waited for again until it     *)
(* has reported ready, another media command comes, or it left.             *)
WaiverLatches ==
  [][\A m \in gate.waived : m \in gate'.gated => sent' = {"media"}]_vars

(* Nobody is dropped from the gate before it has held the room for          *)
(* GateTimeout, counted from when that member entered it: not from an       *)
(* earlier stay, and not on a stale reading of the clock (Tick, markGated). *)
NoEarlyWaiver ==
  [][\A m \in gate'.waived \ gate.waived :
        m \in gate.gated /\ now - waiting[m] > GateTimeout]_vars

(* A held play ends -- applied, superseded or dropped -- even if the        *)
(* members it waits for never say anything again (Tick).                    *)
HeldPlayEnds == (held # Nobody) ~> (held = Nobody)

(* The room keeps the promises of Timeline. *)
AppliedKind == IF sent \cap CommandKind = {} THEN "none"
               ELSE CHOOSE k \in CommandKind : k \in sent

TL == INSTANCE Timeline WITH here <- Standing(now), due <- lastCmdWhen,
                             kind <- AppliedKind, Slack <- SweepLag

ImplementsTimeline == TL!Spec

(* docs/PROTOCOL.md section 6: "A suspended member is never in `waitingOn`  *)
(* -- they are absent, not buffering".  No run lists it, for it does not    *)
(* hold: a report that is behind on seq marks the member suspended and does *)
(* not reach the gate (OnReport).                                           *)
SuspendedNeverWaitedFor ==
  \A m \in gate.gated : m \in flags.suspended => m \in flags.finished
=============================================================================
