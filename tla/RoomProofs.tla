----------------------------- MODULE RoomProofs -----------------------------
(***************************************************************************)
(* What is proved of Room for every value of its constants: its types and  *)
(* its line of anchors, then the readiness gate and who is held by it,     *)
(* then its schedule, and that it keeps what Timeline promises.            *)
(***************************************************************************)
EXTENDS Room, TLAPS, SequenceTheorems, WellFoundedInduction

-----------------------------------------------------------------------------
(* The schedule. *)

(* Every non-empty set of naturals has a least element. *)
LEMMA LeastNatural ==
  ASSUME NEW T \in SUBSET Nat, T # {}
  PROVE  \E x \in T : \A y \in T : x <= y
<1>1. \E x \in T : \A y \in T : ~(<<y, x>> \in OpToRel(<, Nat))
  BY WFMin, NatLessThanWellFounded, Zenon
<1>2. PICK x \in T : \A y \in T : ~(<<y, x>> \in OpToRel(<, Nat))
  BY <1>1
<1>3. ASSUME NEW y \in T PROVE x <= y
  <2>1. ~(<<y, x>> \in {ss \in Nat \X Nat : ss[1] < ss[2]})
    BY <1>2 DEF OpToRel
  <2> QED BY <2>1
<1> QED BY <1>3

(* committedAt's scan finds the first upcoming anchor that is not due, or   *)
(* the end of the schedule.                                                 *)
LEMMA FirstPendingFound ==
  ASSUME NEW u \in Seq(Line), NEW t \in Int
  PROVE  /\ FirstPending(u, t) \in 1 .. Len(u) + 1
         /\ \A j \in 1 .. FirstPending(u, t) - 1 : u[j].at <= t
         /\ FirstPending(u, t) <= Len(u) => u[FirstPending(u, t)].at > t
<1> DEFINE T == {i \in 1 .. Len(u) + 1 : i <= Len(u) => u[i].at > t}
<1>0. Len(u) \in Nat /\ \A i \in 1 .. Len(u) : u[i].at \in Int
  <2>1. \A i \in 1 .. Len(u) : u[i] \in Line
    BY ElementOfSeq
  <2> QED BY <2>1, LenProperties DEF Line
<1>1. T \in SUBSET Nat /\ T # {}
  <2>1. Len(u) + 1 \in T
    BY <1>0
  <2> QED BY <2>1, <1>0
<1>2. PICK x \in T : \A y \in T : x <= y
  <2> HIDE DEF T
  <2> QED BY <1>1, LeastNatural
<1>3. \A j \in 1 .. x - 1 : u[j].at <= t
  <2> SUFFICES ASSUME NEW j \in 1 .. x - 1, ~(u[j].at <= t) PROVE FALSE
    OBVIOUS
  <2>1. j \in T
    BY <1>0, <1>2
  <2> QED BY <2>1, <1>2, <1>0
<1>4. \E i \in 1 .. Len(u) + 1 :
        /\ \A j \in 1 .. i - 1 : u[j].at <= t
        /\ i <= Len(u) => u[i].at > t
  BY <1>2, <1>3
<1> QED BY <1>4, Zenon DEF FirstPending

(* So what it lands on is an anchor the room had, with every property those *)
(* share, and what is left are the last of the upcoming ones.               *)
LEMMA CommittedAtIsOneOfThem ==
  ASSUME NEW c, NEW u \in Seq(Line), NEW t \in Int
  PROVE  \/ CommittedAt(c, u, t) = c
         \/ \E i \in 1 .. Len(u) : CommittedAt(c, u, t) = u[i].line
<1> DEFINE first == FirstPending(u, t)
<1>1. first \in 1 .. Len(u) + 1 /\ Len(u) \in Nat
  BY FirstPendingFound, LenProperties
<1>2. CommittedAt(c, u, t) = IF first = 1 THEN c ELSE u[first - 1].line
  BY DEF CommittedAt
<1> HIDE DEF first
<1>3. first # 1 => first - 1 \in 1 .. Len(u)
  BY <1>1
<1> QED BY <1>2, <1>3

LEMMA StillUpcomingIsASuffix ==
  ASSUME NEW u \in Seq(Line), NEW t \in Int
  PROVE  /\ StillUpcoming(u, t) \in Seq(Line)
         /\ \A i \in 1 .. Len(StillUpcoming(u, t)) :
              \E j \in 1 .. Len(u) : StillUpcoming(u, t)[i] = u[j]
<1> DEFINE first == FirstPending(u, t)
           rest == SubSeq(u, first, Len(u))
<1>1. /\ Len(u) \in Nat
      /\ first \in 1 .. Len(u) + 1
      /\ \A i \in 1 .. Len(u) : u[i] \in Line
  BY LenProperties, FirstPendingFound, ElementOfSeq
<1> HIDE DEF first
<1>2. /\ rest \in Seq(Line)
      /\ Len(rest) = IF first <= Len(u) THEN Len(u) - first + 1 ELSE 0
      /\ \A i \in 1 .. Len(u) - first + 1 : rest[i] = u[first + i - 1]
  <2>1. \A i \in first .. Len(u) : u[i] \in Line
    BY <1>1
  <2>2. first \in Int /\ Len(u) \in Int
    BY <1>1
  <2> QED BY <2>1, <2>2, SubSeqProperties
<1>3. StillUpcoming(u, t) = rest
  BY DEF StillUpcoming, first
<1>4. ASSUME NEW i \in 1 .. Len(rest)
      PROVE  \E j \in 1 .. Len(u) : rest[i] = u[j]
  <2>1. first + i - 1 \in 1 .. Len(u) /\ i \in 1 .. Len(u) - first + 1
    BY <1>1, <1>2
  <2> QED BY <2>1, <1>2
<1> QED BY <1>2, <1>3, <1>4

LEMMA CommitAppends ==
  ASSUME NEW u \in Seq(Line), NEW at \in Int, NEW line \in Anchor
  PROVE  /\ Commit(u, at, line) \in Seq(Line)
         /\ \A i \in 1 .. Len(Commit(u, at, line)) :
              \/ Commit(u, at, line)[i] = [at |-> at, line |-> line]
              \/ \E j \in 1 .. Len(u) : Commit(u, at, line)[i] = u[j]
<1> DEFINE entry == [at |-> at, line |-> line]
           kept == IF Len(u) > 0 /\ at <= u[1].at THEN <<>> ELSE u
<1>1. entry \in Line
  BY DEF Line
<1>2. kept \in Seq(Line) /\ (kept = <<>> \/ kept = u)
  BY EmptySeq
<1>3. Commit(u, at, line) = Append(kept, entry)
  BY DEF Commit
<1> HIDE DEF entry, kept
<1>4. /\ Append(kept, entry) \in Seq(Line)
      /\ Len(Append(kept, entry)) = Len(kept) + 1
      /\ \A i \in 1 .. Len(kept) : Append(kept, entry)[i] = kept[i]
      /\ Append(kept, entry)[Len(kept) + 1] = entry
  BY <1>1, <1>2, AppendProperties
<1>5. Len(kept) \in Nat
  BY <1>2, LenProperties
<1>6. ASSUME NEW i \in 1 .. Len(Append(kept, entry))
      PROVE  \/ Append(kept, entry)[i] = entry
             \/ \E j \in 1 .. Len(u) : Append(kept, entry)[i] = u[j]
  <2>1. CASE i = Len(kept) + 1
    BY <2>1, <1>4
  <2>2. CASE i \in 1 .. Len(kept)
    <3>1. kept = u
      BY <2>2, <1>2, <1>5, EmptySeq
    <3> QED BY <3>1, <2>2, <1>4
  <2> QED BY <2>1, <2>2, <1>4, <1>5
<1> QED BY <1>3, <1>4, <1>6 DEF entry

-----------------------------------------------------------------------------
(* The delay of a command. *)

RttMap == [Member -> 0 .. MaxRtt \cup {NoRtt}]

(* Among measured members one has the longest round trip. *)
LEMMA SlowestFound ==
  ASSUME NEW rt, NEW ms, ms # {}, \A m \in ms : rt[m] \in 0 .. MaxRtt
  PROVE  /\ Slowest(ms, rt) \in ms
         /\ \A k \in ms : rt[k] <= rt[Slowest(ms, rt)]
<1> DEFINE Gap == {MaxRtt - rt[m] : m \in ms}
<1>0. MaxRtt \in Nat
  BY BoundsAssumption
<1>1. Gap \in SUBSET Nat /\ Gap # {}
  BY <1>0
<1>2. PICK x \in Gap : \A y \in Gap : x <= y
  <2> HIDE DEF Gap
  <2> QED BY <1>1, LeastNatural
<1>3. PICK m \in ms : x = MaxRtt - rt[m]
  BY <1>2
<1>4. \A k \in ms : rt[k] <= rt[m]
  <2> SUFFICES ASSUME NEW k \in ms PROVE rt[k] <= rt[m]
    OBVIOUS
  <2>1. MaxRtt - rt[m] <= MaxRtt - rt[k]
    BY <1>2, <1>3
  <2> QED BY <2>1, <1>0
<1>5. \E j \in ms : \A k \in ms : rt[k] <= rt[j]
  BY <1>4
<1> QED BY <1>5, Zenon DEF Slowest

LEMMA DelayRttFound ==
  ASSUME NEW rt, NEW ms, ms # {}, \A m \in ms : rt[m] \in 0 .. MaxRtt
  PROVE  DelayRtt(ms, rt) \in 0 .. MaxRtt
<1> DEFINE top == Slowest(ms, rt)
<1>1. top \in ms
  BY SlowestFound
<1>2. CASE ThreeOrMore(ms)
  <2>1. ms \ {top} # {} /\ \A m \in ms \ {top} : rt[m] \in 0 .. MaxRtt
    BY <1>2 DEF ThreeOrMore
  <2>2. Slowest(ms \ {top}, rt) \in ms
    <3> HIDE DEF top
    <3> QED BY <2>1, SlowestFound
  <2> QED BY <1>2, <2>2 DEF DelayRtt
<1>3. CASE ~ThreeOrMore(ms)
  BY <1>1, <1>3 DEF DelayRtt
<1> QED BY <1>2, <1>3

(* A command waits either not at all or between the floor and the cap,      *)
(* whatever the members report (CmdDelay's clamp).                          *)
THEOREM CmdDelayBounded ==
  ASSUME NEW ms \in SUBSET Member, NEW rt \in RttMap
  PROVE  CmdDelay(ms, rt) \in {0} \cup DelayFloor .. DelayCap
<1> DEFINE known == Measured(ms, rt)
<1>0. DelayFloor \in Nat /\ DelayCap \in Nat /\ DelayFloor <= DelayCap /\ MaxRtt \in Nat
  BY BoundsAssumption
<1>1. \A m \in known : rt[m] \in 0 .. MaxRtt
  BY DEF Measured, RttMap
<1>2. CASE Alone(ms)
  BY <1>2 DEF CmdDelay
<1>3. CASE ~Alone(ms) /\ known = {}
  BY <1>0, <1>3 DEF CmdDelay
<1>4. CASE ~Alone(ms) /\ known # {}
  <2>1. DelayRtt(known, rt) \in Nat
    <3> HIDE DEF known
    <3> QED BY <1>0, <1>1, <1>4, DelayRttFound
  <2>2. CmdDelay(ms, rt) = ClampI(2 * DelayRtt(known, rt), DelayFloor, DelayCap)
    BY <1>4 DEF CmdDelay
  <2> HIDE DEF known
  <2> QED BY <1>0, <2>1, <2>2 DEF ClampI
<1> QED BY <1>2, <1>3, <1>4

(* With three measured members or more, the worst connection sets the delay *)
(* of nobody: however much longer its round trip gets, CmdDelay stays the   *)
(* same (the second-highest of room.go's CmdDelay, not the maximum).        *)
THEOREM OutlierDoesNotDominate ==
  ASSUME NEW ms \in SUBSET Member, NEW rt \in RttMap, NEW worst \in Measured(ms, rt),
         ThreeOrMore(Measured(ms, rt)),
         \A k \in Measured(ms, rt) \ {worst} : rt[k] < rt[worst],
         NEW longer \in rt[worst] .. MaxRtt
  PROVE  CmdDelay(ms, [rt EXCEPT ![worst] = longer]) = CmdDelay(ms, rt)
<1> DEFINE known == Measured(ms, rt)
           rt2 == [rt EXCEPT ![worst] = longer]
           rest == known \ {worst}
<1>0. MaxRtt \in Nat /\ NoRtt \notin 0 .. MaxRtt
  BY BoundsAssumption, SentinelAssumption
<1>1. known \in SUBSET Member /\ \A m \in known : rt[m] \in 0 .. MaxRtt
  BY DEF Measured, RttMap
<1>2. longer \in 0 .. MaxRtt /\ rt[worst] <= longer
  BY <1>0, <1>1
<1>3. /\ rt2 \in RttMap
      /\ rt2[worst] = longer
      /\ \A k \in Member \ {worst} : rt2[k] = rt[k]
  BY <1>1, <1>2 DEF RttMap
<1> HIDE DEF rt2
<1>4. Measured(ms, rt2) = known
  BY <1>0, <1>1, <1>2, <1>3 DEF Measured
<1>5. \A m \in known : rt2[m] \in 0 .. MaxRtt
  BY <1>1, <1>2, <1>3
<1>6. \A k \in rest : rt2[k] < rt2[worst]
  BY <1>0, <1>1, <1>2, <1>3
<1>7. Slowest(known, rt) = worst /\ Slowest(known, rt2) = worst
  <2> HIDE DEF known
  <2>0. worst \in known /\ \A k \in rest : rt[k] < rt[worst]
    BY DEF known
  <2>1. Slowest(known, rt) \in known /\ rt[worst] <= rt[Slowest(known, rt)]
    BY <1>1, <2>0, SlowestFound
  <2>2. Slowest(known, rt2) \in known /\ rt2[worst] <= rt2[Slowest(known, rt2)]
    BY <1>5, <2>0, SlowestFound
  <2>3. Slowest(known, rt) = worst
    BY <2>0, <2>1, <1>1, <1>0
  <2>4. Slowest(known, rt2) = worst
    BY <2>0, <2>2, <1>5, <1>6, <1>0
  <2> QED BY <2>3, <2>4
<1>8. rt2[Slowest(rest, rt2)] = rt[Slowest(rest, rt)]
  <2>1. Slowest(rest, rt2) = Slowest(rest, rt)
    BY <1>1, <1>3 DEF Slowest
  <2>2. rest # {} /\ \A m \in rest : rt[m] \in 0 .. MaxRtt
    BY <1>1 DEF ThreeOrMore
  <2>3. Slowest(rest, rt) \in rest
    <3> HIDE DEF rest
    <3> QED BY <2>2, SlowestFound
  <2> QED BY <2>1, <2>3, <1>1, <1>3
<1>9. DelayRtt(known, rt2) = DelayRtt(known, rt)
  BY <1>7, <1>8 DEF DelayRtt
<1> QED BY <1>4, <1>9 DEF CmdDelay, rt2

-----------------------------------------------------------------------------
(* What applying a command does to the timebase. *)

TimebaseType ==
  /\ seq \in Nat
  /\ anchor \in Anchor
  /\ committed \in Anchor
  /\ upcoming \in Seq(Line)
  /\ lastCmdWhen \in Int

Applicable(cmd) ==
  /\ cmd.kind \in CommandKind
  /\ cmd.pos \in Int
  /\ cmd.media \in MediaKeys \cup {NoMedia}

LEMMA AnchorArithmetic ==
  ASSUME NEW a \in Anchor, NEW t \in Int
  PROVE  /\ Expected(a, t) \in Int
         /\ Advance(a, t) \in Anchor
         /\ Advance(a, t).pos = Expected(a, t)
         /\ \A p \in Int, b \in BOOLEAN : Reanchor(a, p, t, b) \in Anchor
         /\ CommittedPosition(a, t) \in Int
         /\ a.pos >= 0 => CommittedPosition(a, t) >= 0
<1>1. a.pos \in Int /\ a.at \in Int /\ a.paused \in BOOLEAN
  BY DEF Anchor
<1>2. Expected(a, t) \in Int
  BY <1>1 DEF Expected
<1>3. \A p \in Int, b \in BOOLEAN : Reanchor(a, p, t, b) \in Anchor
  BY DEF Anchor, Reanchor
<1>4. Advance(a, t) \in Anchor /\ Advance(a, t).pos = Expected(a, t)
  BY <1>1, <1>2, <1>3 DEF Advance, Anchor, Reanchor
<1>5. CommittedPosition(a, t) \in Int /\ (a.pos >= 0 => CommittedPosition(a, t) >= 0)
  BY <1>1, <1>2 DEF CommittedPosition, Expected
<1> QED BY <1>2, <1>3, <1>4, <1>5

(* The anchor the room is on, at any instant, is one of those it holds. *)
LEMMA StandingIsPlaced ==
  ASSUME committed \in Anchor, upcoming \in Seq(Line), NEW t \in Int
  PROVE  /\ CommittedAt(committed, upcoming, t) \in Anchor
         /\ Standing(t) \in Int
         /\ NeverBeforeStart => CommittedAt(committed, upcoming, t).pos >= 0 /\ Standing(t) >= 0
<1> DEFINE on == CommittedAt(committed, upcoming, t)
<1>1. \A i \in 1 .. Len(upcoming) : upcoming[i].line \in Anchor
  <2>1. \A i \in 1 .. Len(upcoming) : upcoming[i] \in Line
    BY ElementOfSeq
  <2> QED BY <2>1 DEF Line
<1>2. on = committed \/ \E i \in 1 .. Len(upcoming) : on = upcoming[i].line
  BY CommittedAtIsOneOfThem
<1>3. on \in Anchor
  <2> HIDE DEF on
  <2> QED BY <1>1, <1>2
<1>4. NeverBeforeStart => on.pos >= 0
  <2> HIDE DEF on
  <2> QED BY <1>2 DEF NeverBeforeStart
<1>5. Standing(t) = CommittedPosition(on, t)
  BY DEF Standing
<1> HIDE DEF on
<1>6. Standing(t) \in Int /\ (on.pos >= 0 => Standing(t) >= 0)
  BY <1>3, <1>5, AnchorArithmetic
<1> QED BY <1>3, <1>4, <1>6 DEF on

LEMMA DueAtBounds ==
  ASSUME NEW t \in Int, NEW kind, NEW ms \in SUBSET Member, NEW rt \in RttMap,
         lastCmdWhen \in Int
  PROVE  /\ DueAt(t, kind, ms, rt) \in Int
         /\ DueAt(t, kind, ms, rt) >= t
         /\ ~LeavesRoomStopped(kind) => DueAt(t, kind, ms, rt) >= lastCmdWhen
<1>1. CmdDelay(ms, rt) \in Nat
  BY CmdDelayBounded, BoundsAssumption
<1> QED BY <1>1 DEF DueAt, Larger

LEMMA NextAnchorPlaced ==
  ASSUME TimebaseType, NEW cmd, Applicable(cmd), NEW t \in Int, NEW when \in Int
  PROVE  /\ NextAnchor(cmd, t, when) \in Anchor
         /\ NextAnchor(cmd, t, when).at = when
         /\ /\ NeverBeforeStart
            /\ cmd.pos >= 0
            /\ ~LeavesRoomStopped(cmd.kind) => when >= lastCmdWhen
            => NextAnchor(cmd, t, when).pos >= 0
<1> DEFINE next == NextAnchor(cmd, t, when)
<1>0. /\ anchor \in Anchor /\ anchor.pos \in Int /\ anchor.at \in Int
      /\ anchor.paused \in BOOLEAN /\ lastCmdWhen \in Int
      /\ cmd.pos \in Int /\ cmd.media \in MediaKeys \cup {NoMedia}
  BY DEF TimebaseType, Anchor, Applicable
<1>1. CASE cmd.kind = "pause"
  <2>1. PausePosition(cmd, t) \in Int
    BY <1>0, StandingIsPlaced DEF PausePosition, TimebaseType
  <2>2. NeverBeforeStart /\ cmd.pos >= 0 => PausePosition(cmd, t) >= 0
    BY StandingIsPlaced DEF PausePosition, TimebaseType
  <2>3. next = Reanchor(anchor, PausePosition(cmd, t), when, TRUE)
    BY <1>1 DEF NextAnchor
  <2> QED BY <1>0, <1>1, <2>1, <2>2, <2>3 DEF Reanchor, Anchor, LeavesRoomStopped
<1>2. CASE cmd.kind = "play"
  <2>1. next = [Advance(anchor, when) EXCEPT !.paused = FALSE]
    BY <1>2 DEF NextAnchor
  <2>2. Advance(anchor, when) \in Anchor /\ Advance(anchor, when).pos = Expected(anchor, when)
    BY <1>0, AnchorArithmetic
  <2>3. Advance(anchor, when).at = when
    BY <1>0 DEF Advance, Reanchor, Anchor
  <2>4. NeverBeforeStart /\ when >= lastCmdWhen => Expected(anchor, when) >= 0
    BY <1>0 DEF Expected, NeverBeforeStart
  <2>5. ~LeavesRoomStopped(cmd.kind)
    BY <1>2 DEF LeavesRoomStopped
  <2> QED BY <1>2, <2>1, <2>2, <2>3, <2>4, <2>5 DEF Anchor
<1>3. CASE cmd.kind = "seek"
  <2>1. next = Reanchor(anchor, cmd.pos, when, anchor.paused)
    BY <1>3 DEF NextAnchor
  <2> QED BY <1>0, <1>3, <2>1 DEF Reanchor, Anchor, LeavesRoomStopped
<1>4. CASE cmd.kind = "media"
  <2>1. next = [pos |-> cmd.pos, at |-> when, paused |-> TRUE, media |-> cmd.media]
    BY <1>4 DEF NextAnchor
  <2> QED BY <1>0, <1>4, <2>1 DEF Anchor, LeavesRoomStopped
<1>5. cmd.kind \in {"play", "pause", "seek", "media"}
  BY DEF Applicable, CommandKind
<1> QED BY <1>1, <1>2, <1>3, <1>4, <1>5, Zenon

(* Applying a command keeps the types of the timebase, and, for a command   *)
(* that names no position before the start, NeverBeforeStart.               *)
LEMMA ApplyKeeps ==
  ASSUME TimebaseType, NEW cmd, Applicable(cmd), NEW t \in Int,
         NEW ms \in SUBSET Member, NEW rt \in RttMap,
         Apply(t, cmd, ms, rt)
  PROVE  /\ TimebaseType'
         /\ NeverBeforeStart /\ cmd.pos >= 0 => NeverBeforeStart'
<1> DEFINE when == DueAt(t, cmd.kind, ms, rt)
           next == NextAnchor(cmd, t, when)
           rest == StillUpcoming(upcoming, t)
           over == TakesOver(cmd.kind, t, when)
<1>1. /\ when \in Int /\ when >= t
      /\ ~LeavesRoomStopped(cmd.kind) => when >= lastCmdWhen
  BY DueAtBounds DEF TimebaseType
<1> HIDE DEF when
<1>2. /\ next \in Anchor /\ next.at = when
      /\ NeverBeforeStart /\ cmd.pos >= 0 => next.pos >= 0
  BY <1>1, NextAnchorPlaced
<1>3. /\ rest \in Seq(Line)
      /\ \A i \in 1 .. Len(rest) : \E j \in 1 .. Len(upcoming) : rest[i] = upcoming[j]
  BY StillUpcomingIsASuffix DEF TimebaseType
<1>4. over \in Int
  BY <1>1 DEF TakesOver
<1>5. /\ seq' = seq + 1 /\ anchor' = next /\ lastCmdWhen' = when
      /\ committed' = CommittedAt(committed, upcoming, t)
      /\ upcoming' = Commit(rest, over, next)
  BY DEF Apply, when
<1>6. /\ committed' \in Anchor
      /\ NeverBeforeStart => committed'.pos >= 0
  BY <1>5, StandingIsPlaced DEF TimebaseType
<1> HIDE DEF next, rest, over
<1>7. /\ upcoming' \in Seq(Line)
      /\ \A i \in 1 .. Len(upcoming') :
           \/ upcoming'[i] = [at |-> over, line |-> next]
           \/ \E j \in 1 .. Len(rest) : upcoming'[i] = rest[j]
  BY <1>2, <1>3, <1>4, <1>5, CommitAppends
<1>8. TimebaseType'
  BY <1>1, <1>2, <1>5, <1>6, <1>7 DEF TimebaseType
<1>9. ASSUME NeverBeforeStart, cmd.pos >= 0
      PROVE  NeverBeforeStart'
  <2>1. \A i \in 1 .. Len(upcoming') : upcoming'[i].line.pos >= 0
    <3> SUFFICES ASSUME NEW i \in 1 .. Len(upcoming')
                 PROVE  upcoming'[i].line.pos >= 0
      OBVIOUS
    <3>1. CASE upcoming'[i] = [at |-> over, line |-> next]
      BY <1>2, <1>9, <3>1
    <3>2. CASE \E j \in 1 .. Len(rest) : upcoming'[i] = rest[j]
      BY <1>3, <1>9, <3>2 DEF NeverBeforeStart
    <3> QED BY <1>7, <3>1, <3>2
  <2>2. anchor'.pos >= 0 /\ committed'.pos >= 0
    BY <1>2, <1>5, <1>6, <1>9
  <2>3. anchor'.at <= lastCmdWhen'
    BY <1>1, <1>2, <1>5
  <2> QED BY <2>1, <2>2, <2>3 DEF NeverBeforeStart
<1> QED BY <1>8, <1>9

-----------------------------------------------------------------------------
(* Types. *)

GateType == [gated : SUBSET Member, waived : SUBSET Member, since : [Member -> Int]]

FrameType == [waiting : BOOLEAN, on : SUBSET Member]

FlagsType(ms) == [suspended : SUBSET ms, finished : SUBSET ms,
                  acquiring : SUBSET ms, unready : SUBSET ms]

LEMMA GateTypes ==
  ASSUME NEW g \in GateType, NEW ms \in SUBSET Member, NEW m \in Member, NEW t \in Int
  PROVE  /\ Waive(g, ms) \in GateType
         /\ Clear(g, m) \in GateType
         /\ GateAll(g, ms, t) \in GateType
         /\ MarkGated(g, m, t) \in GateType
         /\ Expired(g, t) \in SUBSET Member
<1>1. \A xs \in SUBSET Member : Waive(g, xs) \in GateType
  BY DEF Waive, GateType
<1>2. Clear(g, m) \in GateType
  BY DEF Clear, GateType
<1>3. GateAll(g, ms, t) \in GateType
  BY DEF GateAll, GateType
<1>4. Expired(g, t) \in SUBSET Member
  BY DEF Expired, GateType
<1>5. MarkGated(g, m, t) \in GateType
  <2>1. Waive(g, Expired(g, t) \cap {m}) \in GateType
    BY <1>1
  <2>2. [g EXCEPT !.gated = @ \cup {m}, !.since[m] = t] \in GateType
    BY DEF GateType
  <2> QED BY <2>1, <2>2 DEF MarkGated
<1> QED BY <1>1, <1>2, <1>3, <1>4, <1>5

LEMMA AfterReportType ==
  ASSUME NEW g \in GateType, NEW m \in Member, NEW rep, NEW applied, NEW t \in Int
  PROVE  AfterReport(g, m, rep, applied, t) \in GateType
<1> DEFINE marked == IF Acquires(rep) THEN MarkGated(g, m, t) ELSE g
<1>1. marked \in GateType
  BY GateTypes
<1>2. AfterReport(g, m, rep, applied, t)
        = IF ~Judged(rep, applied) THEN marked
          ELSE IF AsksForGate(rep) THEN MarkGated(marked, m, t) ELSE Clear(marked, m)
  BY DEF AfterReport
<1> HIDE DEF marked
<1> QED BY <1>1, <1>2, GateTypes

LEMMA AnnounceTypes ==
  ASSUME gateView \in [Member -> FrameType], NEW g \in GateType, NEW h, NEW ms,
         AnnounceGate(ms, g, h)
  PROVE  gateSig' \in FrameType /\ gateView' \in [Member -> FrameType]
<1>1. GateFrame(g, h) \in FrameType /\ NoFrame \in FrameType
  BY DEF GateFrame, NoFrame, FrameType, GateType
<1> QED BY <1>1 DEF AnnounceGate

(* The end of a handler, whatever the gate and the members are by then. *)
LEMMA ReleaseTypes ==
  ASSUME TimebaseType, gateView \in [Member -> FrameType],
         NEW t \in Int, NEW ms \in SUBSET Member, NEW rt \in RttMap,
         NEW g \in GateType, NEW h \in Member \cup {Nobody}, NEW answers,
         ReleaseAndAnnounce(t, ms, rt, g, h, answers)
  PROVE  /\ TimebaseType'
         /\ NeverBeforeStart => NeverBeforeStart'
         /\ held' \in Member \cup {Nobody}
         /\ gateSig' \in FrameType /\ gateView' \in [Member -> FrameType]
<1>1. Applicable(HeldPlay) /\ HeldPlay.pos >= 0
  BY DEF Applicable, HeldPlay, CommandKind
<1>2. CASE h # Nobody /\ g.gated = {}
  <2>1. Apply(t, HeldPlay, ms, rt) /\ held' = Nobody /\ AnnounceGate(ms, g, Nobody)
    BY <1>2 DEF ReleaseAndAnnounce
  <2> QED BY <1>1, <2>1, ApplyKeeps, AnnounceTypes
<1>3. CASE ~(h # Nobody /\ g.gated = {})
  <2>1. held' = h /\ AnnounceGate(ms, g, h) /\ UNCHANGED timebaseVars
    BY <1>3 DEF ReleaseAndAnnounce
  <2>2. TimebaseType' /\ (NeverBeforeStart => NeverBeforeStart')
    BY <2>1 DEF TimebaseType, timebaseVars, NeverBeforeStart
  <2> QED BY <2>1, <2>2, AnnounceTypes
<1> QED BY <1>2, <1>3

LEMMA TypeInit == Init => TypeOK /\ NeverBeforeStart
<1> SUFFICES ASSUME Init PROVE TypeOK /\ NeverBeforeStart
  OBVIOUS
<1>1. anchor \in Anchor /\ anchor.pos = 0 /\ anchor.paused
  BY DEF Init, Anchor
<1>2. committed \in Anchor /\ committed.pos = 0
  BY <1>1 DEF Init, Anchor
<1>3. upcoming \in Seq(Line) /\ Len(upcoming) = 0
  BY EmptySeq DEF Init
<1>4. NeverBeforeStart
  BY <1>1, <1>2, <1>3 DEF NeverBeforeStart
<1>5. now \in 0 .. MaxTime /\ seq \in Nat /\ lastCmdWhen \in Int
  BY BoundsAssumption DEF Init
<1>6. /\ members \subseteq Member
      /\ flags \in FlagsType(members)
      /\ rtt \in RttMap
      /\ gate \in GateType
      /\ held \in Member \cup {Nobody}
      /\ unheard \subseteq members
      /\ waiting \in [Member -> Int]
  BY DEF Init, FlagsType, RttMap, GateType
<1>7. gateSig \in FrameType /\ gateView \in [Member -> FrameType]
  BY DEF Init, NoFrame, FrameType
<1>8. rosterView \in [Member -> [here : SUBSET Member, away : SUBSET Member,
                                 ready : SUBSET Member]]
  BY DEF Init, NoRoster
<1> QED BY <1>1, <1>2, <1>3, <1>4, <1>5, <1>6, <1>7, <1>8
        DEF TypeOK, FlagsType, RttMap, GateType, FrameType

RosterType == [here : SUBSET Member, away : SUBSET Member, ready : SUBSET Member]

LEMMA RosterTypes ==
  ASSUME NEW ms \in SUBSET Member, NEW f \in FlagsType(Member)
  PROVE  Roster(ms, f) \in RosterType /\ NoRoster \in RosterType
BY DEF Roster, NoRoster, RosterType, FlagsType

(* TypeOK, by the names the proofs use. *)
Types ==
  /\ now \in 0 .. MaxTime
  /\ members \subseteq Member
  /\ flags \in FlagsType(members)
  /\ rtt \in RttMap
  /\ gate \in GateType
  /\ held \in Member \cup {Nobody}
  /\ gateSig \in FrameType
  /\ TimebaseType
  /\ gateView \in [Member -> FrameType]
  /\ rosterView \in [Member -> RosterType]
  /\ unheard \subseteq members
  /\ waiting \in [Member -> Int]

LEMMA TypesIsTypeOK == Types <=> TypeOK
BY DEF Types, TypeOK, FlagsType, RttMap, GateType, FrameType, RosterType, TimebaseType

LEMMA WatchType ==
  ASSUME Types, now' = now, Watch
  PROVE  waiting' \in [Member -> Int]
BY BoundsAssumption DEF Watch, Types

(* Every step keeps the types, and the promise of NeverBeforeStart. *)
LEMMA TypeStep ==
  ASSUME TypeOK, [Next]_vars
  PROVE  TypeOK' /\ (NeverBeforeStart => NeverBeforeStart')
<1>0. Types /\ now \in Int
  BY TypesIsTypeOK, BoundsAssumption DEF Types
<1> SUFFICES Types' /\ (NeverBeforeStart => NeverBeforeStart')
  BY TypesIsTypeOK DEF Types, TypeOK, FlagsType, RttMap, GateType, FrameType, RosterType,
                       TimebaseType
<1>1. ASSUME Passes
      PROVE  Types' /\ (NeverBeforeStart => NeverBeforeStart')
  <2>1. now' \in 0 .. MaxTime
    BY <1>0, <1>1, BoundsAssumption DEF Passes, Types
  <2> QED BY <1>0, <1>1, <2>1
          DEF Passes, Types, TimebaseType, memberVars, gateVars, timebaseVars, viewVars,
              historyVars, NeverBeforeStart, FlagsType
<1>2. ASSUME NEW m \in Member, Join(m)
      PROVE  Types' /\ (NeverBeforeStart => NeverBeforeStart')
  <2>1. members' \subseteq Member /\ members \subseteq members' /\ UNCHANGED flags
    BY <1>0, <1>2 DEF Join, Types
  <2>2. flags \in FlagsType(Member) /\ flags' \in FlagsType(members')
    BY <1>0, <2>1 DEF Types, FlagsType
  <2>3. GateState(gate, held) \in FrameType
    BY <1>0 DEF GateState, GateFrame, NoFrame, FrameType, GateType, Types
  <2>4. gateView' \in [Member -> FrameType]
    BY <1>0, <1>2, <2>3 DEF Join, Types
  <2>5. rosterView' \in [Member -> RosterType]
    BY <1>2, <2>1, <2>2, RosterTypes DEF Join
  <2> QED BY <1>0, <1>2, <2>1, <2>2, <2>4, <2>5
          DEF Join, Types, TimebaseType, gateVars, timebaseVars, historyVars, NeverBeforeStart
<1>3. ASSUME NEW m \in Member, Leave(m)
      PROVE  Types' /\ (NeverBeforeStart => NeverBeforeStart')
  <2> DEFINE ms == members \ {m}
             f == Forget(flags, m)
  <2>1. /\ members' = ms /\ flags' = f /\ gate' = Clear(gate, m)
        /\ rtt' = [rtt EXCEPT ![m] = NoRtt]
        /\ ReleaseAndAnnounce(now, ms, rtt', gate', HeldAfter(ms), {})
        /\ rosterView' = [k \in Member |-> IF k \in ms THEN Roster(ms, f) ELSE NoRoster]
        /\ unheard' = unheard \ {m} /\ now' = now /\ Watch
    BY <1>3 DEF Leave
  <2>2. ms \in SUBSET Member /\ f \in FlagsType(ms) /\ f \in FlagsType(Member)
    BY <1>0 DEF Types, Forget, FlagsType
  <2>3. rtt' \in RttMap /\ gate' \in GateType
    BY <1>0, <2>1, GateTypes DEF Types, RttMap
  <2>4. HeldAfter(ms) \in Member \cup {Nobody}
    BY <1>0 DEF HeldAfter, Types
  <2> HIDE DEF ms, f
  <2>5. /\ TimebaseType' /\ (NeverBeforeStart => NeverBeforeStart')
        /\ held' \in Member \cup {Nobody}
        /\ gateSig' \in FrameType /\ gateView' \in [Member -> FrameType]
    BY <1>0, <2>1, <2>2, <2>3, <2>4, ReleaseTypes DEF Types
  <2>6. rosterView' \in [Member -> RosterType]
    BY <2>1, <2>2, RosterTypes
  <2>7. waiting' \in [Member -> Int]
    BY <1>0, <2>1, WatchType
  <2>8. unheard' \subseteq members'
    BY <1>0, <2>1 DEF Types, ms
  <2> QED BY <1>0, <2>1, <2>2, <2>3, <2>5, <2>6, <2>7, <2>8 DEF Types
<1>4. ASSUME NEW m \in Member, NEW cmd \in Command, RefuseCmd(m, cmd)
      PROVE  Types' /\ (NeverBeforeStart => NeverBeforeStart')
  BY <1>0, <1>4 DEF RefuseCmd, Types, TimebaseType, memberVars, gateVars, timebaseVars,
                    viewVars, historyVars, NeverBeforeStart, FlagsType
<1>5. ASSUME NEW m \in Member, NEW cmd \in Command, HoldPlay(m, cmd)
      PROVE  Types' /\ (NeverBeforeStart => NeverBeforeStart')
  <2>1. AnnounceGate(members, gate, m)
    BY <1>5 DEF HoldPlay
  <2>2. gateSig' \in FrameType /\ gateView' \in [Member -> FrameType]
    BY <1>0, <2>1, AnnounceTypes DEF Types
  <2> QED BY <1>0, <1>5, <2>2
          DEF HoldPlay, Types, TimebaseType, memberVars, timebaseVars, historyVars,
              NeverBeforeStart, FlagsType
<1>6. ASSUME NEW m \in Member, NEW cmd \in Command, ApplyCmd(m, cmd)
      PROVE  Types' /\ (NeverBeforeStart => NeverBeforeStart')
  <2> DEFINE ncmd == Normalised(cmd)
  <2>1. Applicable(ncmd) /\ ncmd.pos >= 0
    <3>1. cmd \in [kind : CommandKind \cup {"other"}, pos : Int,
                   media : MediaKeys \cup {NoMedia},
                   ifMedia : MediaKeys \cup {NoMedia, Always}]
      BY CommandAssumption
    <3>2. cmd.kind # "other"
      BY <1>6 DEF ApplyCmd, Refusals
    <3> QED BY <3>1, <3>2 DEF Applicable, Normalised, Larger
  <2>2. Apply(now, ncmd, members, rtt)
    BY <1>6 DEF ApplyCmd
  <2> HIDE DEF ncmd
  <2>3. TimebaseType' /\ (NeverBeforeStart => NeverBeforeStart')
    BY <1>0, <2>1, <2>2, ApplyKeeps DEF Types
  <2>4. gate' \in GateType /\ unheard' \subseteq members
    <3>1. Summoned(members, flags) \subseteq members
      BY DEF Summoned
    <3>2. Summoned(members, flags) \in SUBSET Member
      BY <1>0, <3>1 DEF Types
    <3>3. GateAll(gate, Summoned(members, flags), now) \in GateType
      BY <1>0, <3>2, GateTypes DEF Types
    <3> QED BY <1>0, <1>6, <3>1, <3>3 DEF ApplyCmd, Types
  <2>5. AnnounceGate(members, gate', Nobody)
    BY <1>6 DEF ApplyCmd
  <2>6. gateSig' \in FrameType /\ gateView' \in [Member -> FrameType]
    BY <1>0, <2>4, <2>5, AnnounceTypes DEF Types
  <2>7. now' = now /\ UNCHANGED memberVars /\ UNCHANGED rosterView /\ held' = Nobody /\ Watch
    BY <1>6 DEF ApplyCmd
  <2>8. waiting' \in [Member -> Int]
    BY <1>0, <2>7, WatchType
  <2> QED BY <1>0, <2>3, <2>4, <2>6, <2>7, <2>8 DEF Types, memberVars
<1>7. ASSUME NEW m \in Member, NEW rep \in Report, NEW applied, OnReport(m, rep, applied)
      PROVE  Types' /\ (NeverBeforeStart => NeverBeforeStart')
  <2> DEFINE f == Reported(flags, m, rep)
             rt == [rtt EXCEPT ![m] = rep.rtt]
             g == AfterReport(gate, m, rep, applied, now)
             answers == IF Resyncs(rep, applied, now) THEN {"resync"} ELSE {}
  <2>1. /\ m \in members /\ flags' = f /\ rtt' = rt /\ gate' = g
        /\ rosterView' = IF Roster(members, f) = Roster(members, flags) THEN rosterView
                         ELSE [k \in Member |-> IF k \in members THEN Roster(members, f)
                                                ELSE NoRoster]
        /\ unheard' \subseteq unheard
        /\ ReleaseAndAnnounce(now, members, rt, g, held, answers)
        /\ now' = now /\ members' = members /\ Watch
    BY <1>7 DEF OnReport
  <2>2. rep.rtt \in 0 .. MaxRtt
    BY ReportAssumption
  <2>3. rt \in RttMap
    BY <1>0, <2>2 DEF Types, RttMap
  <2>4. g \in GateType
    BY <1>0, AfterReportType DEF Types
  <2>5. f \in FlagsType(members) /\ f \in FlagsType(Member)
    BY <1>0, <2>1 DEF Types, Reported, FlagsType, Flag
  <2> HIDE DEF f, rt, g, answers
  <2>6. /\ TimebaseType' /\ (NeverBeforeStart => NeverBeforeStart')
        /\ held' \in Member \cup {Nobody}
        /\ gateSig' \in FrameType /\ gateView' \in [Member -> FrameType]
    BY <1>0, <2>1, <2>3, <2>4, ReleaseTypes DEF Types
  <2>7. rosterView' \in [Member -> RosterType]
    BY <1>0, <2>1, <2>5, RosterTypes DEF Types
  <2>8. waiting' \in [Member -> Int]
    BY <1>0, <2>1, WatchType
  <2> QED BY <1>0, <2>1, <2>3, <2>4, <2>5, <2>6, <2>7, <2>8 DEF Types
<1>8. ASSUME NEW t \in SweepReadings, Tick(t)
      PROVE  Types' /\ (NeverBeforeStart => NeverBeforeStart')
  <2>1. /\ gate' = Waive(gate, Expired(gate, t))
        /\ ReleaseAndAnnounce(t, members, rtt, gate', held, {})
        /\ Watch /\ UNCHANGED now /\ UNCHANGED memberVars
        /\ UNCHANGED rosterView /\ UNCHANGED unheard
    BY <1>8 DEF Tick
  <2>2. t \in Int
    BY <1>0 DEF SweepReadings
  <2>3. Expired(gate, t) \in SUBSET Member
    BY <1>0 DEF Expired, GateType, Types
  <2>4. gate' \in GateType
    BY <1>0, <2>1, <2>3 DEF Waive, GateType, Types
  <2>5. /\ TimebaseType' /\ (NeverBeforeStart => NeverBeforeStart')
        /\ held' \in Member \cup {Nobody}
        /\ gateSig' \in FrameType /\ gateView' \in [Member -> FrameType]
    BY <1>0, <2>1, <2>2, <2>4, ReleaseTypes DEF Types
  <2>6. waiting' \in [Member -> Int]
    BY <1>0, <2>1, WatchType
  <2> QED BY <1>0, <2>1, <2>4, <2>5, <2>6 DEF Types, memberVars
<1>9. ASSUME UNCHANGED vars
      PROVE  Types' /\ (NeverBeforeStart => NeverBeforeStart')
  BY <1>0, <1>9 DEF vars, Types, TimebaseType, NeverBeforeStart, FlagsType
<1> QED BY <1>1, <1>2, <1>3, <1>4, <1>5, <1>6, <1>7, <1>8, <1>9 DEF Next

(* The state is typed, in every reachable state. *)
THEOREM TypeCorrect == Spec => []TypeOK
<1>1. Init => TypeOK
  BY TypeInit
<1>2. TypeOK /\ [Next]_vars => TypeOK'
  BY TypeStep
<1> QED BY <1>1, <1>2, PTL DEF Spec

(* No command, whatever it is, when it comes and in whatever lead it falls, *)
(* puts the room before the start of its media: room.go's clamp of a        *)
(* command's instant to that of the one before it is what carries this.     *)
THEOREM RoomNeverBeforeStart == Spec => []NeverBeforeStart
<1>1. Init => NeverBeforeStart
  BY TypeInit
<1>2. TypeOK /\ NeverBeforeStart /\ [Next]_vars => NeverBeforeStart'
  BY TypeStep
<1> QED BY <1>1, <1>2, TypeCorrect, PTL DEF Spec

-----------------------------------------------------------------------------
(* What members are told. *)

(* ViewsAreCurrent as it is kept: the frame last announced is what every    *)
(* member has last been sent, and it is what the gate says.                 *)
AllTold ==
  /\ gateSig = GateFrame(gate, held)
  /\ \A m \in members : gateView[m] = gateSig
  /\ \A m \in members : rosterView[m] = Roster(members, flags)

LEMMA AllToldIsEnough == AllTold => ViewsAreCurrent
BY DEF AllTold, ViewsAreCurrent

LEMMA AnnounceTellsAll ==
  ASSUME NEW ms \in SUBSET Member, NEW g, NEW h,
         \A m \in ms : gateView[m] = gateSig,
         AnnounceGate(ms, g, h)
  PROVE  gateSig' = GateFrame(g, h) /\ \A m \in ms : gateView'[m] = gateSig'
BY DEF AnnounceGate

LEMMA ReleaseTellsAll ==
  ASSUME NEW ms \in SUBSET Member, NEW rt, NEW g, NEW h, NEW t, NEW answers,
         \A m \in ms : gateView[m] = gateSig,
         ReleaseAndAnnounce(t, ms, rt, g, h, answers)
  PROVE  gateSig' = GateFrame(g, held') /\ \A m \in ms : gateView'[m] = gateSig'
BY AnnounceTellsAll DEF ReleaseAndAnnounce

LEMMA AllToldStep ==
  ASSUME TypeOK, AllTold, [Next]_vars
  PROVE  AllTold'
<1>0. members \subseteq Member
  BY DEF TypeOK
<1>1. ASSUME Passes PROVE AllTold'
  BY <1>1 DEF Passes, AllTold, memberVars, gateVars, viewVars
<1>2. ASSUME NEW m \in Member, Join(m) PROVE AllTold'
  <2>1. GateState(gate, held) = GateFrame(gate, held)
    BY DEF GateState, GateFrame, NoFrame
  <2>2. /\ members' = members \cup {m} /\ UNCHANGED <<gateVars, flags>>
        /\ gateView' = [gateView EXCEPT ![m] = GateState(gate, held)]
        /\ rosterView' = [k \in Member |-> IF k \in members' THEN Roster(members', flags)
                                           ELSE NoRoster]
    BY <1>2 DEF Join
  <2>3. \A k \in members' : gateView'[k] = gateSig
    BY <1>0, <2>1, <2>2 DEF AllTold, TypeOK
  <2> QED BY <1>0, <2>2, <2>3 DEF AllTold, gateVars
<1>3. ASSUME NEW m \in Member, Leave(m) PROVE AllTold'
  <2> DEFINE ms == members \ {m}
  <2>1. /\ members' = ms
        /\ ReleaseAndAnnounce(now, ms, rtt', gate', HeldAfter(ms), {})
        /\ rosterView' = [k \in Member |-> IF k \in ms THEN Roster(ms, flags') ELSE NoRoster]
    BY <1>3 DEF Leave
  <2>2. ms \in SUBSET Member /\ \A k \in ms : gateView[k] = gateSig
    BY <1>0 DEF AllTold
  <2> HIDE DEF ms
  <2>3. gateSig' = GateFrame(gate', held') /\ \A k \in ms : gateView'[k] = gateSig'
    BY <2>1, <2>2, ReleaseTellsAll
  <2> QED BY <2>1, <2>2, <2>3 DEF AllTold
<1>4. ASSUME NEW m \in Member, NEW cmd \in Command, RefuseCmd(m, cmd) PROVE AllTold'
  BY <1>4 DEF RefuseCmd, AllTold, memberVars, gateVars, viewVars
<1>5. ASSUME NEW m \in Member, NEW cmd \in Command, HoldPlay(m, cmd) PROVE AllTold'
  <2>1. AnnounceGate(members, gate, m) /\ held' = m /\ UNCHANGED <<memberVars, gate, rosterView>>
    BY <1>5 DEF HoldPlay
  <2>2. gateSig' = GateFrame(gate, m) /\ \A k \in members : gateView'[k] = gateSig'
    BY <1>0, <2>1, AnnounceTellsAll DEF AllTold
  <2> QED BY <2>1, <2>2 DEF AllTold, memberVars
<1>6. ASSUME NEW m \in Member, NEW cmd \in Command, ApplyCmd(m, cmd) PROVE AllTold'
  <2>1. AnnounceGate(members, gate', Nobody) /\ held' = Nobody /\ UNCHANGED <<memberVars, rosterView>>
    BY <1>6 DEF ApplyCmd
  <2>2. gateSig' = GateFrame(gate', Nobody) /\ \A k \in members : gateView'[k] = gateSig'
    BY <1>0, <2>1, AnnounceTellsAll DEF AllTold
  <2> QED BY <2>1, <2>2 DEF AllTold, memberVars
<1>7. ASSUME NEW m \in Member, NEW rep \in Report, NEW applied, OnReport(m, rep, applied)
      PROVE  AllTold'
  <2> DEFINE rt == [rtt EXCEPT ![m] = rep.rtt]
             answers == IF Resyncs(rep, applied, now) THEN {"resync"} ELSE {}
  <2>1. /\ UNCHANGED members
        /\ ReleaseAndAnnounce(now, members, rt, gate', held, answers)
        /\ rosterView' = IF Roster(members, flags') = Roster(members, flags) THEN rosterView
                         ELSE [k \in Member |-> IF k \in members THEN Roster(members, flags')
                                                ELSE NoRoster]
    BY <1>7 DEF OnReport
  <2> HIDE DEF rt, answers
  <2>2. gateSig' = GateFrame(gate', held') /\ \A k \in members : gateView'[k] = gateSig'
    BY <1>0, <2>1, ReleaseTellsAll DEF AllTold
  <2>3. \A k \in members : rosterView'[k] = Roster(members, flags')
    BY <1>0, <2>1 DEF AllTold
  <2> QED BY <2>1, <2>2, <2>3 DEF AllTold
<1>8. ASSUME NEW t \in SweepReadings, Tick(t) PROVE AllTold'
  <2>1. ReleaseAndAnnounce(t, members, rtt, gate', held, {}) /\ UNCHANGED <<memberVars, rosterView>>
    BY <1>8 DEF Tick
  <2>2. gateSig' = GateFrame(gate', held') /\ \A k \in members : gateView'[k] = gateSig'
    BY <1>0, <2>1, ReleaseTellsAll DEF AllTold
  <2> QED BY <2>1, <2>2 DEF AllTold, memberVars
<1>9. ASSUME UNCHANGED vars PROVE AllTold'
  BY <1>9 DEF vars, AllTold
<1> QED BY <1>1, <1>2, <1>3, <1>4, <1>5, <1>6, <1>7, <1>8, <1>9 DEF Next

(* However members join, leave, report and press, and although gate frames  *)
(* and rosters are sent on change only, nobody is left with a stale one.    *)
THEOREM RoomViewsAreCurrent == Spec => []ViewsAreCurrent
<1>1. Init => AllTold
  <2> SUFFICES ASSUME Init PROVE AllTold
    OBVIOUS
  <2>1. gate.gated = {} /\ held = Nobody /\ members = {} /\ gateSig = NoFrame
    BY DEF Init
  <2>2. GateFrame(gate, held) = NoFrame
    BY <2>1 DEF GateFrame, NoFrame
  <2> QED BY <2>1, <2>2 DEF AllTold
<1>2. TypeOK /\ AllTold /\ [Next]_vars => AllTold'
  BY AllToldStep
<1> QED BY <1>1, <1>2, TypeCorrect, AllToldIsEnough, PTL DEF Spec

-----------------------------------------------------------------------------
(* A held play. *)

LEMMA ReleaseHolds ==
  ASSUME NEW ms \in SUBSET Member, NEW rt, NEW g, NEW h, NEW t, NEW answers,
         "play" \notin answers, h # Nobody => ms # {},
         ReleaseAndAnnounce(t, ms, rt, g, h, answers)
  PROVE  /\ held' # Nobody => g.gated # {}
         /\ "play" \in sent' => ms # {} /\ g.gated = {}
BY DEF ReleaseAndAnnounce

LEMMA GatedStays ==
  ASSUME NEW g \in GateType, NEW ms \in SUBSET Member, g.gated \subseteq ms,
         NEW m \in ms, NEW t
  PROVE  /\ MarkGated(g, m, t).gated \subseteq ms
         /\ Clear(g, m).gated \subseteq ms \ {m}
         /\ \A rep, applied : AfterReport(g, m, rep, applied, t).gated \subseteq ms
<1>1. \A x \in GateType : x.gated \subseteq ms => MarkGated(x, m, t).gated \subseteq ms
  BY DEF MarkGated, Waive, GateType
<1>2. \A x \in GateType : x.gated \subseteq ms => Clear(x, m).gated \subseteq ms \ {m}
  BY DEF Clear, GateType
<1>3. MarkGated(g, m, t).gated \subseteq ms
  BY <1>1
<1>4. ASSUME NEW rep, NEW applied
      PROVE  AfterReport(g, m, rep, applied, t).gated \subseteq ms
  <2>1. CASE Acquires(rep)
    <3>1. AfterReport(g, m, rep, applied, t) = MarkGated(g, m, t)
      BY <2>1 DEF AfterReport, Judged
    <3> QED BY <3>1, <1>3
  <2>2. CASE ~Acquires(rep)
    BY <2>2, <1>1, <1>2 DEF AfterReport
  <2> QED BY <2>1, <2>2
<1> QED BY <1>2, <1>3, <1>4

LEMMA HeldStep ==
  ASSUME TypeOK, HeldOnlyForMembers, [Next]_vars
  PROVE  HeldOnlyForMembers'
<1>0. members \in SUBSET Member /\ gate \in GateType /\ gate.gated \subseteq members
  BY DEF TypeOK, GateType, HeldOnlyForMembers
<1>a. held # Nobody => members # {}
  BY DEF HeldOnlyForMembers
<1>1. ASSUME Passes PROVE HeldOnlyForMembers'
  BY <1>1 DEF Passes, HeldOnlyForMembers, memberVars, gateVars
<1>2. ASSUME NEW m \in Member, Join(m) PROVE HeldOnlyForMembers'
  BY <1>2 DEF Join, HeldOnlyForMembers, gateVars
<1>3. ASSUME NEW m \in Member, Leave(m) PROVE HeldOnlyForMembers'
  <2> DEFINE ms == members \ {m}
  <2>1. /\ members' = ms /\ m \in members /\ gate' = Clear(gate, m)
        /\ ReleaseAndAnnounce(now, ms, rtt', gate', HeldAfter(ms), {})
    BY <1>3 DEF Leave
  <2>2. HeldAfter(ms) # Nobody => ms # {}
    BY DEF HeldAfter
  <2>3. gate'.gated \subseteq ms
    BY <1>0, <2>1, GatedStays
  <2>4. ms \in SUBSET Member
    BY <1>0
  <2> HIDE DEF ms
  <2>5. (held' # Nobody => gate'.gated # {}) /\ ("play" \in sent' => ms # {})
    BY <2>1, <2>2, <2>4, ReleaseHolds
  <2> QED BY <2>1, <2>3, <2>5 DEF HeldOnlyForMembers
<1>4. ASSUME NEW m \in Member, NEW cmd \in Command, RefuseCmd(m, cmd) PROVE HeldOnlyForMembers'
  <2>1. "play" \notin sent'
    BY <1>4 DEF RefuseCmd, Refusals
  <2> QED BY <1>4, <2>1 DEF RefuseCmd, HeldOnlyForMembers, memberVars, gateVars
<1>5. ASSUME NEW m \in Member, NEW cmd \in Command, HoldPlay(m, cmd) PROVE HeldOnlyForMembers'
  BY <1>5 DEF HoldPlay, Holds, HeldOnlyForMembers, memberVars
<1>6. ASSUME NEW m \in Member, NEW cmd \in Command, ApplyCmd(m, cmd) PROVE HeldOnlyForMembers'
  <2>1. /\ m \in members /\ held' = Nobody /\ members' = members
        /\ gate' = gate \/ gate' = GateAll(gate, Summoned(members, flags), now)
    BY <1>6 DEF ApplyCmd, Commands, memberVars
  <2>2. gate'.gated \subseteq members
    BY <1>0, <2>1 DEF GateAll, Summoned
  <2> QED BY <2>1, <2>2 DEF HeldOnlyForMembers
<1>7. ASSUME NEW m \in Member, NEW rep \in Report, NEW applied, OnReport(m, rep, applied)
      PROVE  HeldOnlyForMembers'
  <2> DEFINE rt == [rtt EXCEPT ![m] = rep.rtt]
             answers == IF Resyncs(rep, applied, now) THEN {"resync"} ELSE {}
  <2>1. /\ m \in members /\ members' = members
        /\ gate' = AfterReport(gate, m, rep, applied, now)
        /\ ReleaseAndAnnounce(now, members, rt, gate', held, answers)
    BY <1>7 DEF OnReport
  <2>2. gate'.gated \subseteq members
    BY <1>0, <2>1, GatedStays
  <2>3. "play" \notin answers
    OBVIOUS
  <2> HIDE DEF rt, answers
  <2>4. held' # Nobody => gate'.gated # {}
    BY <1>0, <1>a, <2>1, <2>3, ReleaseHolds
  <2> QED BY <2>1, <2>2, <2>4 DEF HeldOnlyForMembers
<1>8. ASSUME NEW t \in SweepReadings, Tick(t) PROVE HeldOnlyForMembers'
  <2>1. /\ gate' = Waive(gate, Expired(gate, t)) /\ members # {} /\ members' = members
        /\ ReleaseAndAnnounce(t, members, rtt, gate', held, {})
    BY <1>8 DEF Tick, memberVars
  <2>2. gate'.gated \subseteq members
    BY <1>0, <2>1 DEF Waive
  <2>3. held' # Nobody => gate'.gated # {}
    BY <1>0, <1>a, <2>1, ReleaseHolds
  <2> QED BY <2>1, <2>2, <2>3 DEF HeldOnlyForMembers
<1>9. ASSUME UNCHANGED vars PROVE HeldOnlyForMembers'
  BY <1>9 DEF vars, HeldOnlyForMembers
<1> QED BY <1>1, <1>2, <1>3, <1>4, <1>5, <1>6, <1>7, <1>8, <1>9 DEF Next

(* A play is held only while a member of the room is not ready, and never   *)
(* applied to an empty room.                                                *)
THEOREM RoomHoldsOnlyForMembers == Spec => []HeldOnlyForMembers
<1>1. Init => HeldOnlyForMembers
  BY DEF Init, HeldOnlyForMembers
<1>2. TypeOK /\ HeldOnlyForMembers /\ [Next]_vars => HeldOnlyForMembers'
  BY HeldStep
<1> QED BY <1>1, <1>2, TypeCorrect, PTL DEF Spec

-----------------------------------------------------------------------------
(* A play that starts new media. *)

(* A member summoned to new media and not judged on it since is in the      *)
(* gate, or was waived by the timeout: nothing else lets go of it.          *)
UnheardIsWaitedFor == unheard \subseteq gate.gated \cup gate.waived

LEMMA OnlyReadinessLetsGo ==
  ASSUME NEW g \in GateType, NEW m \in Member, NEW rep, NEW applied, NEW t
  PROVE  LET after == AfterReport(g, m, rep, applied, t)
         IN  /\ g.gated \cup g.waived \subseteq after.gated \cup after.waived \cup {m}
             /\ ~Judged(rep, applied) =>
                  g.gated \cup g.waived \subseteq after.gated \cup after.waived
<1> DEFINE Keeps(x) == g.gated \cup g.waived \subseteq x.gated \cup x.waived
           marked == IF Acquires(rep) THEN MarkGated(g, m, t) ELSE g
<1>1. Keeps(MarkGated(g, m, t))
  BY DEF MarkGated, Waive, GateType
<1>2. Keeps(marked)
  BY <1>1
<1>3. CASE ~Judged(rep, applied)
  BY <1>2, <1>3 DEF AfterReport
<1>4. CASE Judged(rep, applied)
  <2>1. ~Acquires(rep)
    BY <1>4 DEF Judged
  <2>2. g.gated \cup g.waived \subseteq Clear(g, m).gated \cup Clear(g, m).waived \cup {m}
    BY DEF Clear, GateType
  <2> QED BY <1>1, <1>4, <2>1, <2>2 DEF AfterReport
<1> QED BY <1>3, <1>4

LEMMA PlayOnlyWhenOpen ==
  ASSUME NEW ms, NEW rt, NEW g, NEW h, NEW t, NEW answers,
         "play" \notin answers, ReleaseAndAnnounce(t, ms, rt, g, h, answers)
  PROVE  "play" \in sent' => g.gated = {}
BY DEF ReleaseAndAnnounce

LEMMA NewMediaStep ==
  ASSUME TypeOK, UnheardIsWaitedFor, [Next]_vars
  PROVE  /\ UnheardIsWaitedFor'
         /\ UNCHANGED vars \/ ("play" \in sent' => gate'.gated = {})
<1> DEFINE Goal == /\ UnheardIsWaitedFor'
                   /\ UNCHANGED vars \/ ("play" \in sent' => gate'.gated = {})
<1>0. gate \in GateType /\ members \subseteq Member
  BY DEF TypeOK, GateType
<1>1. ASSUME Passes PROVE Goal
  BY <1>1 DEF Passes, UnheardIsWaitedFor, gateVars, historyVars
<1>2. ASSUME NEW m \in Member, Join(m) PROVE Goal
  BY <1>2 DEF Join, UnheardIsWaitedFor, gateVars, historyVars
<1>3. ASSUME NEW m \in Member, Leave(m) PROVE Goal
  <2> DEFINE ms == members \ {m}
  <2>1. /\ gate' = Clear(gate, m) /\ unheard' = unheard \ {m}
        /\ ReleaseAndAnnounce(now, ms, rtt', gate', HeldAfter(ms), {})
    BY <1>3 DEF Leave
  <2>2. UnheardIsWaitedFor'
    BY <1>0, <2>1 DEF UnheardIsWaitedFor, Clear, GateType
  <2> HIDE DEF ms
  <2>3. "play" \in sent' => gate'.gated = {}
    BY <2>1, PlayOnlyWhenOpen
  <2> QED BY <2>2, <2>3
<1>4. ASSUME NEW m \in Member, NEW cmd \in Command, RefuseCmd(m, cmd) PROVE Goal
  <2>1. "play" \notin sent'
    BY <1>4 DEF RefuseCmd, Refusals
  <2> QED BY <1>4, <2>1 DEF RefuseCmd, UnheardIsWaitedFor, gateVars, historyVars
<1>5. ASSUME NEW m \in Member, NEW cmd \in Command, HoldPlay(m, cmd) PROVE Goal
  BY <1>5 DEF HoldPlay, UnheardIsWaitedFor, historyVars
<1>6. ASSUME NEW m \in Member, NEW cmd \in Command, ApplyCmd(m, cmd) PROVE Goal
  <2>1. CASE cmd.kind = "media"
    <3>1. /\ gate' = GateAll(gate, Summoned(members, flags), now)
          /\ unheard' = Summoned(members, flags) /\ sent' = {"media"}
      BY <1>6, <2>1 DEF ApplyCmd
    <3> QED BY <3>1 DEF UnheardIsWaitedFor, GateAll
  <2>2. CASE cmd.kind # "media"
    <3>1. UNCHANGED <<gate, unheard>> /\ sent' = {cmd.kind} /\ ~Holds(cmd)
      BY <1>6, <2>2 DEF ApplyCmd
    <3> QED BY <3>1 DEF UnheardIsWaitedFor, Holds
  <2> QED BY <2>1, <2>2
<1>7. ASSUME NEW m \in Member, NEW rep \in Report, NEW applied, OnReport(m, rep, applied)
      PROVE  Goal
  <2> DEFINE rt == [rtt EXCEPT ![m] = rep.rtt]
             answers == IF Resyncs(rep, applied, now) THEN {"resync"} ELSE {}
  <2>1. /\ gate' = AfterReport(gate, m, rep, applied, now)
        /\ unheard' = IF applied = seq /\ ~Acquires(rep) THEN unheard \ {m} ELSE unheard
        /\ ReleaseAndAnnounce(now, members, rt, gate', held, answers)
    BY <1>7 DEF OnReport
  <2>2. "play" \notin answers
    OBVIOUS
  <2>3. UnheardIsWaitedFor'
    BY <1>0, <2>1, OnlyReadinessLetsGo DEF UnheardIsWaitedFor, Judged
  <2> HIDE DEF rt, answers
  <2>4. "play" \in sent' => gate'.gated = {}
    BY <2>1, <2>2, PlayOnlyWhenOpen
  <2> QED BY <2>3, <2>4
<1>8. ASSUME NEW t \in SweepReadings, Tick(t) PROVE Goal
  <2>1. /\ gate' = Waive(gate, Expired(gate, t)) /\ UNCHANGED unheard
        /\ ReleaseAndAnnounce(t, members, rtt, gate', held, {})
    BY <1>8 DEF Tick
  <2>2. UnheardIsWaitedFor'
    BY <1>0, <2>1 DEF UnheardIsWaitedFor, Waive, GateType
  <2>3. "play" \in sent' => gate'.gated = {}
    BY <2>1, PlayOnlyWhenOpen
  <2> QED BY <2>2, <2>3
<1>9. ASSUME UNCHANGED vars PROVE Goal
  BY <1>9 DEF vars, UnheardIsWaitedFor
<1> QED BY <1>1, <1>2, <1>3, <1>4, <1>5, <1>6, <1>7, <1>8, <1>9 DEF Next

(* After a media command no play starts before every member it summoned has *)
(* been judged on it, was waived by the timeout, or left.                   *)
THEOREM RoomPlayWaitsForNewMedia == Spec => PlayWaitsForNewMedia
<1>1. Init => UnheardIsWaitedFor
  BY DEF Init, UnheardIsWaitedFor
<1>2. TypeOK /\ UnheardIsWaitedFor /\ [Next]_vars => UnheardIsWaitedFor'
  BY NewMediaStep
<1>3. TypeOK /\ UnheardIsWaitedFor /\ [Next]_vars
        => [("play" \in sent') => unheard' \subseteq gate'.waived]_vars
  <2> SUFFICES ASSUME TypeOK, UnheardIsWaitedFor, [Next]_vars, ~UNCHANGED vars,
                      "play" \in sent'
               PROVE  unheard' \subseteq gate'.waived
    OBVIOUS
  <2>1. UnheardIsWaitedFor'
    BY NewMediaStep
  <2>2. gate'.gated = {}
    BY NewMediaStep
  <2> QED BY <2>1, <2>2 DEF UnheardIsWaitedFor
<1> QED BY <1>1, <1>2, <1>3, TypeCorrect, PTL DEF Spec, PlayWaitsForNewMedia

-----------------------------------------------------------------------------
(* The timeout. *)

(* Nobody is both waited for and waived, and since says when each stay in   *)
(* the gate began.                                                          *)
GateConsistent ==
  /\ gate.gated \cap gate.waived = {}
  /\ \A m \in gate.gated : gate.since[m] = waiting[m]

(* What MarkGated makes of a gate, member by member. *)
LEMMA MarkGatedEffect ==
  ASSUME NEW g \in GateType, g.gated \cap g.waived = {}, NEW m \in Member, NEW t \in Int
  PROVE  LET h == MarkGated(g, m, t)
         IN  /\ h.gated \cap h.waived = {}
             /\ \A k \in h.gated : IF k \in g.gated THEN h.since[k] = g.since[k]
                                   ELSE h.since[k] = t
             /\ h.gated \cap g.waived = {}
             /\ \A k \in h.waived \ g.waived : k \in g.gated /\ t - g.since[k] > GateTimeout
<1>1. CASE m \in g.gated
  <2>1. MarkGated(g, m, t) = Waive(g, Expired(g, t) \cap {m})
    BY <1>1 DEF MarkGated
  <2> QED BY <2>1 DEF Waive, Expired, GateType
<1>2. CASE m \notin g.gated /\ m \in g.waived
  BY <1>2 DEF MarkGated
<1>3. CASE m \notin g.gated /\ m \notin g.waived
  <2> DEFINE h == [g EXCEPT !.gated = @ \cup {m}, !.since[m] = t]
  <2>1. MarkGated(g, m, t) = h
    BY <1>3 DEF MarkGated
  <2>2. /\ h.gated = g.gated \cup {m} /\ h.waived = g.waived
        /\ h.since = [g.since EXCEPT ![m] = t]
    BY DEF GateType
  <2>3. \A k \in Member : h.since[k] = IF k = m THEN t ELSE g.since[k]
    BY <2>2 DEF GateType
  <2> HIDE DEF h
  <2>4. g.gated \subseteq Member
    BY DEF GateType
  <2>5. h.gated \cap h.waived = {} /\ h.gated \cap g.waived = {} /\ h.waived \ g.waived = {}
    BY <1>3, <2>2
  <2>6. \A k \in h.gated : IF k \in g.gated THEN h.since[k] = g.since[k] ELSE h.since[k] = t
    BY <1>3, <2>2, <2>3, <2>4
  <2> QED BY <2>1, <2>5, <2>6
<1> QED BY <1>1, <1>2, <1>3

LEMMA AfterReportEffect ==
  ASSUME NEW g \in GateType, g.gated \cap g.waived = {}, NEW m \in Member, NEW t \in Int,
         NEW rep, NEW applied
  PROVE  LET h == AfterReport(g, m, rep, applied, t)
         IN  /\ h.gated \cap h.waived = {}
             /\ \A k \in h.gated : IF k \in g.gated THEN h.since[k] = g.since[k]
                                   ELSE h.since[k] = t
             /\ h.gated \cap g.waived = {}
             /\ \A k \in h.waived \ g.waived : k \in g.gated /\ t - g.since[k] > GateTimeout
<1> DEFINE h == AfterReport(g, m, rep, applied, t)
<1>1. h = MarkGated(g, m, t) \/ h = g \/ h = Clear(g, m)
  BY DEF AfterReport, Judged
<1>2. CASE h = MarkGated(g, m, t)
  BY <1>2, MarkGatedEffect
<1>3. CASE h = g
  BY <1>3
<1>4. CASE h = Clear(g, m)
  BY <1>4 DEF Clear, GateType
<1> QED BY <1>1, <1>2, <1>3, <1>4

(* What a step does to the gate, as the two timeout properties need it. *)
Latches == \A m \in gate.waived : m \in gate'.gated => sent' = {"media"}

Patient == \A m \in gate'.waived \ gate.waived :
              m \in gate.gated /\ now - waiting[m] > GateTimeout

LEMMA NoMediaInRelease ==
  ASSUME NEW ms, NEW rt, NEW g, NEW h, NEW t, NEW answers, "media" \notin answers,
         ReleaseAndAnnounce(t, ms, rt, g, h, answers)
  PROVE  "media" \notin sent'
BY DEF ReleaseAndAnnounce

LEMMA TimeoutStep ==
  ASSUME TypeOK, GateConsistent, [Next]_vars
  PROVE  GateConsistent' /\ Latches /\ Patient
<1> DEFINE Goal == GateConsistent' /\ Latches /\ Patient
<1>0. gate \in GateType /\ members \subseteq Member /\ now \in Int
  BY BoundsAssumption DEF TypeOK, GateType
<1>1. ASSUME UNCHANGED <<gate, waiting>> PROVE Goal
  BY <1>1 DEF GateConsistent, Latches, Patient
<1>2. ASSUME NEW m \in Member, Leave(m) PROVE Goal
  <2> DEFINE ms == members \ {m}
  <2>1. /\ gate' = Clear(gate, m) /\ Watch
        /\ ReleaseAndAnnounce(now, ms, rtt', gate', HeldAfter(ms), {})
    BY <1>2 DEF Leave
  <2> HIDE DEF ms
  <2>2. "media" \notin sent'
    BY <2>1, NoMediaInRelease
  <2>3. /\ gate'.gated = gate.gated \ {m} /\ gate'.waived = gate.waived \ {m}
        /\ \A k \in gate'.gated : gate'.since[k] = gate.since[k]
    BY <1>0, <2>1 DEF Clear, GateType
  <2>4. \A k \in gate'.gated : waiting'[k] = waiting[k]
    BY <1>0, <2>1, <2>2, <2>3 DEF Watch, GateType
  <2> QED BY <2>3, <2>4 DEF GateConsistent, Latches, Patient
<1>3. ASSUME NEW m \in Member, NEW cmd \in Command, ApplyCmd(m, cmd) PROVE Goal
  <2>1. CASE cmd.kind = "media"
    <3> DEFINE called == Summoned(members, flags)
    <3>1. /\ gate' = GateAll(gate, called, now) /\ unheard' = called
          /\ sent' = {"media"} /\ Watch
      BY <1>3, <2>1 DEF ApplyCmd
    <3>2. called \subseteq Member
      BY <1>0 DEF Summoned
    <3> HIDE DEF called
    <3>3. /\ gate'.gated = gate.gated \cup called /\ gate'.waived = gate.waived \ called
          /\ \A k \in Member : gate'.since[k] = IF k \in called THEN now ELSE gate.since[k]
      BY <3>1 DEF GateAll
    <3>4. \A k \in gate'.gated :
            waiting'[k] = IF k \in gate.gated /\ k \notin called THEN waiting[k] ELSE now
      BY <1>0, <3>1, <3>2, <3>3 DEF Watch, GateType
    <3>5. gate'.gated \subseteq Member
      BY <1>0, <3>2, <3>3 DEF GateType
    <3> QED BY <3>1, <3>3, <3>4, <3>5 DEF GateConsistent, Latches, Patient
  <2>2. CASE cmd.kind # "media"
    <3>1. gate' = gate /\ "media" \notin sent' /\ Watch
      BY <1>3, <2>2 DEF ApplyCmd
    <3>2. \A k \in gate'.gated : waiting'[k] = waiting[k]
      BY <1>0, <3>1 DEF Watch, GateType
    <3> QED BY <3>1, <3>2 DEF GateConsistent, Latches, Patient
  <2> QED BY <2>1, <2>2
<1>4. ASSUME NEW m \in Member, NEW rep \in Report, NEW applied, OnReport(m, rep, applied)
      PROVE  Goal
  <2> DEFINE answers == IF Resyncs(rep, applied, now) THEN {"resync"} ELSE {}
             rt == [rtt EXCEPT ![m] = rep.rtt]
  <2>1. /\ gate' = AfterReport(gate, m, rep, applied, now) /\ Watch
        /\ ReleaseAndAnnounce(now, members, rt, gate', held, answers)
    BY <1>4 DEF OnReport
  <2>2. "media" \notin answers
    OBVIOUS
  <2> HIDE DEF answers, rt
  <2>3. "media" \notin sent'
    BY <2>1, <2>2, NoMediaInRelease
  <2>4. /\ gate'.gated \cap gate'.waived = {}
        /\ \A k \in gate'.gated : IF k \in gate.gated THEN gate'.since[k] = gate.since[k]
                                  ELSE gate'.since[k] = now
        /\ gate'.gated \cap gate.waived = {}
        /\ \A k \in gate'.waived \ gate.waived : k \in gate.gated /\ now - gate.since[k] > GateTimeout
    BY <1>0, <2>1, AfterReportEffect DEF GateConsistent
  <2>5. gate' \in GateType
    BY <1>0, <2>1, AfterReportType
  <2>6. \A k \in gate'.gated : waiting'[k] = IF k \in gate.gated THEN waiting[k] ELSE now
    BY <2>1, <2>3, <2>5 DEF Watch, GateType
  <2> QED BY <2>4, <2>6 DEF GateConsistent, Latches, Patient
<1>5. ASSUME NEW t \in SweepReadings, Tick(t) PROVE Goal
  <2>1. /\ gate' = Waive(gate, Expired(gate, t)) /\ Watch
        /\ ReleaseAndAnnounce(t, members, rtt, gate', held, {})
    BY <1>5 DEF Tick
  <2>2. t \in Int /\ t <= now
    BY <1>0 DEF SweepReadings
  <2>3. "media" \notin sent'
    BY <2>1, NoMediaInRelease
  <2>4. /\ gate'.gated = gate.gated \ Expired(gate, t)
        /\ gate'.waived = gate.waived \cup Expired(gate, t)
        /\ \A k \in gate'.gated : gate'.since[k] = gate.since[k]
    BY <1>0, <2>1 DEF Waive, GateType
  <2>5. \A k \in gate'.gated : waiting'[k] = waiting[k]
    BY <1>0, <2>1, <2>3, <2>4 DEF Watch, GateType
  <2>6. \A k \in Expired(gate, t) : k \in gate.gated /\ now - gate.since[k] > GateTimeout
    BY <1>0, <2>2, BoundsAssumption DEF Expired, GateType
  <2> QED BY <2>4, <2>5, <2>6 DEF GateConsistent, Latches, Patient
<1>6. Next => \/ UNCHANGED <<gate, waiting>>
              \/ \E m \in Member : Leave(m)
              \/ \E m \in Member, cmd \in Command : ApplyCmd(m, cmd)
              \/ \E m \in Member, rep \in Report : \E applied \in {0, seq} : OnReport(m, rep, applied)
              \/ \E t \in SweepReadings : Tick(t)
  BY DEF Next, Passes, Join, RefuseCmd, HoldPlay, gateVars, historyVars
<1>7. UNCHANGED vars => UNCHANGED <<gate, waiting>>
  BY DEF vars
<1> QED BY <1>1, <1>2, <1>3, <1>4, <1>5, <1>6, <1>7

LEMMA GateStartsConsistent == Init => GateConsistent
BY DEF Init, GateConsistent

(* Once waived, a member is not waited for again before it has been ready,  *)
(* other media has come, or it has left.                                    *)
THEOREM RoomWaiverLatches == Spec => WaiverLatches
<1>1. TypeOK /\ GateConsistent /\ [Next]_vars => GateConsistent' /\ Latches
  BY TimeoutStep
<1>2. TypeOK /\ GateConsistent /\ [Next]_vars
        => [\A m \in gate.waived : m \in gate'.gated => sent' = {"media"}]_vars
  BY TimeoutStep DEF Latches
<1> QED BY <1>1, <1>2, TypeCorrect, GateStartsConsistent, PTL DEF Spec, WaiverLatches

(* Nobody is waived before the room has waited GateTimeout for that stay,   *)
(* however stale the sweeper's reading of the clock.                        *)
THEOREM RoomNoEarlyWaiver == Spec => NoEarlyWaiver
<1>1. TypeOK /\ GateConsistent /\ [Next]_vars => GateConsistent'
  BY TimeoutStep
<1>2. TypeOK /\ GateConsistent /\ [Next]_vars
        => [\A m \in gate'.waived \ gate.waived :
              m \in gate.gated /\ now - waiting[m] > GateTimeout]_vars
  BY TimeoutStep DEF Patient
<1> QED BY <1>1, <1>2, TypeCorrect, GateStartsConsistent, PTL DEF Spec, NoEarlyWaiver

-----------------------------------------------------------------------------
(* The schedule: the anchor the room is on and those it moves onto later    *)
(* agree with the one everybody has been told.                              *)

(* ScheduleInOrder by its parts. *)
LastLine(c, u) == IF u = <<>> THEN c ELSE u[Len(u)].line

InOrder(u) == \A i, j \in 1 .. Len(u) : i <= j => u[i].at <= u[j].at

DueBy(u, t) == \A i \in 1 .. Len(u) : u[i].at <= t

LEMMA ScheduleInOrderParts ==
  ScheduleInOrder <=> /\ [LastLine(committed, upcoming) EXCEPT !.media = anchor.media] = anchor
                      /\ InOrder(upcoming)
                      /\ DueBy(upcoming, lastCmdWhen)
BY DEF ScheduleInOrder, LastLine, InOrder, DueBy

LEMMA StillUpcomingInOrder ==
  ASSUME NEW u \in Seq(Line), NEW t \in Int, NEW due \in Int, InOrder(u), DueBy(u, due)
  PROVE  /\ InOrder(StillUpcoming(u, t))
         /\ DueBy(StillUpcoming(u, t), due)
         /\ \A i \in 1 .. Len(StillUpcoming(u, t)) : StillUpcoming(u, t)[i].at > t
<1> DEFINE first == FirstPending(u, t)
           rest == SubSeq(u, first, Len(u))
<1>1. /\ Len(u) \in Nat
      /\ first \in 1 .. Len(u) + 1
      /\ first <= Len(u) => u[first].at > t
      /\ \A i \in 1 .. Len(u) : u[i] \in Line
  BY LenProperties, FirstPendingFound, ElementOfSeq
<1>2. \A i \in 1 .. Len(u) : u[i].at \in Int
  BY <1>1 DEF Line
<1>3. StillUpcoming(u, t) = rest
  BY DEF StillUpcoming
<1> HIDE DEF first
<1>4. /\ Len(rest) = IF first <= Len(u) THEN Len(u) - first + 1 ELSE 0
      /\ \A i \in 1 .. Len(u) - first + 1 : rest[i] = u[first + i - 1]
  <2>1. \A i \in first .. Len(u) : u[i] \in Line
    BY <1>1
  <2> QED BY <1>1, <2>1, SubSeqProperties
<1> HIDE DEF rest
<1>5. \A i \in 1 .. Len(rest) : /\ i \in Nat /\ first <= Len(u)
                                  /\ first + i - 1 \in 1 .. Len(u) /\ first <= first + i - 1
                                  /\ rest[i] = u[first + i - 1]
  BY <1>1, <1>4
<1>6. InOrder(rest)
  <2> SUFFICES ASSUME NEW i \in 1 .. Len(rest), NEW j \in 1 .. Len(rest), i <= j
               PROVE  rest[i].at <= rest[j].at
    BY DEF InOrder
  <2>1. /\ first + i - 1 \in 1 .. Len(u) /\ first + j - 1 \in 1 .. Len(u)
        /\ first + i - 1 <= first + j - 1
    BY <1>1, <1>5
  <2> QED BY <1>5, <2>1 DEF InOrder
<1>7. DueBy(rest, due)
  BY <1>1, <1>5 DEF DueBy
<1>8. ASSUME NEW i \in 1 .. Len(rest) PROVE rest[i].at > t
  <2>1. /\ first \in 1 .. Len(u) /\ first + i - 1 \in 1 .. Len(u) /\ first <= first + i - 1
        /\ rest[i] = u[first + i - 1]
    BY <1>1, <1>5
  <2>2. u[first].at <= u[first + i - 1].at
    BY <2>1 DEF InOrder
  <2>3. u[first].at > t /\ u[first].at \in Int /\ u[first + i - 1].at \in Int
    BY <1>1, <1>2, <2>1
  <2> QED BY <2>1, <2>2, <2>3
<1> QED BY <1>3, <1>6, <1>7, <1>8

(* commit keeps the order although it never sorts: what it appends is due   *)
(* no earlier than what it keeps, since it drops what would come after.     *)
LEMMA CommitInOrder ==
  ASSUME NEW u \in Seq(Line), InOrder(u), NEW at \in Int, NEW line \in Anchor,
         \/ DueBy(u, at)
         \/ \A i \in 1 .. Len(u) : u[i].at > at
  PROVE  /\ InOrder(Commit(u, at, line))
         /\ DueBy(Commit(u, at, line), at)
         /\ Commit(u, at, line) # <<>>
         /\ Commit(u, at, line)[Len(Commit(u, at, line))].line = line
<1> DEFINE entry == [at |-> at, line |-> line]
           kept == IF Len(u) > 0 /\ at <= u[1].at THEN <<>> ELSE u
           all == Append(kept, entry)
<1>1. Len(u) \in Nat /\ \A i \in 1 .. Len(u) : u[i].at \in Int
  <2>1. \A i \in 1 .. Len(u) : u[i] \in Line
    BY ElementOfSeq
  <2> QED BY <2>1, LenProperties DEF Line
<1>2. entry \in Line /\ entry.at = at /\ entry.line = line
  BY DEF Line
<1>3. kept \in Seq(Line) /\ InOrder(kept) /\ DueBy(kept, at) /\ Len(kept) \in Nat
  <2>1. CASE Len(u) > 0 /\ at <= u[1].at
    BY <2>1, EmptySeq DEF InOrder, DueBy
  <2>2. CASE ~(Len(u) > 0 /\ at <= u[1].at)
    <3>1. DueBy(u, at)
      BY <1>1, <2>2 DEF DueBy
    <3> QED BY <2>2, <3>1, <1>1
  <2> QED BY <2>1, <2>2
<1>4. Commit(u, at, line) = all
  BY DEF Commit
<1> HIDE DEF kept, entry
<1>5. /\ all \in Seq(Line)
      /\ all # <<>>
      /\ Len(all) = Len(kept) + 1
      /\ \A i \in 1 .. Len(kept) : all[i] = kept[i]
      /\ all[Len(kept) + 1] = entry
  BY <1>2, <1>3, AppendProperties
<1> HIDE DEF all
<1>6. \A i \in 1 .. Len(all) : i \in 1 .. Len(kept) \/ i = Len(kept) + 1
  BY <1>3, <1>5
<1>7. DueBy(all, at)
  BY <1>2, <1>3, <1>5, <1>6 DEF DueBy
<1>8. InOrder(all)
  <2> SUFFICES ASSUME NEW i \in 1 .. Len(all), NEW j \in 1 .. Len(all), i <= j
               PROVE  all[i].at <= all[j].at
    BY DEF InOrder
  <2>1. CASE j = Len(kept) + 1
    BY <1>2, <1>5, <1>7, <2>1 DEF DueBy
  <2>2. CASE j \in 1 .. Len(kept)
    <3>1. i \in 1 .. Len(kept)
      BY <1>3, <2>2
    <3> QED BY <1>3, <1>5, <2>2, <3>1 DEF InOrder
  <2> QED BY <1>6, <2>1, <2>2
<1> QED BY <1>2, <1>4, <1>5, <1>7, <1>8

LEMMA ApplyInOrder ==
  ASSUME TimebaseType, ScheduleInOrder, NEW cmd, Applicable(cmd), NEW t \in Int,
         NEW ms \in SUBSET Member, NEW rt \in RttMap,
         Apply(t, cmd, ms, rt)
  PROVE  ScheduleInOrder'
<1> DEFINE when == DueAt(t, cmd.kind, ms, rt)
           next == NextAnchor(cmd, t, when)
           rest == StillUpcoming(upcoming, t)
           over == TakesOver(cmd.kind, t, when)
<1>1. /\ when \in Int /\ when >= t
      /\ ~LeavesRoomStopped(cmd.kind) => when >= lastCmdWhen
  BY DueAtBounds DEF TimebaseType
<1>2. cmd.kind = "play" => ~LeavesRoomStopped(cmd.kind)
  BY DEF LeavesRoomStopped
<1> HIDE DEF when
<1>3. over \in Int /\ over <= when /\ (over = t \/ over >= lastCmdWhen)
  BY <1>1, <1>2 DEF TakesOver, TimebaseType
<1>4. next \in Anchor
  BY <1>1, NextAnchorPlaced
<1>5. /\ rest \in Seq(Line) /\ InOrder(rest) /\ DueBy(rest, lastCmdWhen)
      /\ \A i \in 1 .. Len(rest) : rest[i].at > t
  BY StillUpcomingIsASuffix, StillUpcomingInOrder, ScheduleInOrderParts DEF TimebaseType
<1>6. anchor' = next /\ lastCmdWhen' = when /\ upcoming' = Commit(rest, over, next)
  BY DEF Apply, when
<1> HIDE DEF next, rest, over
<1>7. DueBy(rest, over) \/ \A i \in 1 .. Len(rest) : rest[i].at > over
  <2>1. CASE over = t
    BY <1>5, <2>1
  <2>2. CASE over >= lastCmdWhen
    <3>1. \A i \in 1 .. Len(rest) : rest[i].at \in Int
      <4>1. \A i \in 1 .. Len(rest) : rest[i] \in Line
        BY <1>5, ElementOfSeq
      <4> QED BY <4>1 DEF Line
    <3> QED BY <1>3, <1>5, <2>2, <3>1 DEF DueBy, TimebaseType
  <2> QED BY <1>3, <2>1, <2>2
<1>8. /\ InOrder(upcoming') /\ DueBy(upcoming', over)
      /\ upcoming' # <<>> /\ upcoming'[Len(upcoming')].line = next
  BY <1>3, <1>4, <1>5, <1>6, <1>7, CommitInOrder
<1>9. DueBy(upcoming', when)
  <2>1. upcoming' \in Seq(Line)
    BY <1>3, <1>4, <1>5, <1>6, CommitAppends
  <2>2. \A i \in 1 .. Len(upcoming') : upcoming'[i].at \in Int
    <3>1. \A i \in 1 .. Len(upcoming') : upcoming'[i] \in Line
      BY <2>1, ElementOfSeq
    <3> QED BY <3>1 DEF Line
  <2> QED BY <1>1, <1>3, <1>8, <2>2 DEF DueBy
<1>10. [LastLine(committed', upcoming') EXCEPT !.media = anchor'.media] = anchor'
  <2>1. LastLine(committed', upcoming') = next
    BY <1>8 DEF LastLine
  <2> QED BY <1>4, <1>6, <2>1 DEF Anchor
<1> QED BY <1>6, <1>8, <1>9, <1>10 DEF ScheduleInOrder, LastLine, InOrder, DueBy

LEMMA ReleaseInOrder ==
  ASSUME TimebaseType, ScheduleInOrder, NEW t \in Int, NEW ms \in SUBSET Member,
         NEW rt \in RttMap, NEW g, NEW h, NEW answers,
         ReleaseAndAnnounce(t, ms, rt, g, h, answers)
  PROVE  ScheduleInOrder'
<1>1. Applicable(HeldPlay)
  BY DEF Applicable, HeldPlay, CommandKind
<1>2. CASE Apply(t, HeldPlay, ms, rt)
  BY <1>1, <1>2, ApplyInOrder
<1>3. CASE UNCHANGED timebaseVars
  BY <1>3 DEF timebaseVars, ScheduleInOrder
<1> QED BY <1>2, <1>3 DEF ReleaseAndAnnounce

LEMMA ScheduleStep ==
  ASSUME TypeOK, ScheduleInOrder, [Next]_vars
  PROVE  ScheduleInOrder'
<1>0. Types /\ TimebaseType /\ now \in Int
  BY TypesIsTypeOK, BoundsAssumption DEF Types
<1>1. ASSUME UNCHANGED timebaseVars PROVE ScheduleInOrder'
  BY <1>1 DEF timebaseVars, ScheduleInOrder
<1>2. ASSUME NEW m \in Member, Leave(m) PROVE ScheduleInOrder'
  <2> DEFINE ms == members \ {m}
  <2>1. /\ ReleaseAndAnnounce(now, ms, rtt', gate', HeldAfter(ms), {})
        /\ rtt' = [rtt EXCEPT ![m] = NoRtt]
    BY <1>2 DEF Leave
  <2>2. ms \in SUBSET Member /\ rtt' \in RttMap
    BY <1>0, <2>1 DEF Types, RttMap
  <2> HIDE DEF ms
  <2> QED BY <1>0, <2>1, <2>2, ReleaseInOrder
<1>3. ASSUME NEW m \in Member, NEW cmd \in Command, ApplyCmd(m, cmd) PROVE ScheduleInOrder'
  <2> DEFINE ncmd == Normalised(cmd)
  <2>1. Applicable(ncmd)
    <3>1. cmd \in [kind : CommandKind \cup {"other"}, pos : Int,
                   media : MediaKeys \cup {NoMedia},
                   ifMedia : MediaKeys \cup {NoMedia, Always}]
      BY CommandAssumption
    <3>2. cmd.kind # "other"
      BY <1>3 DEF ApplyCmd, Refusals
    <3> QED BY <3>1, <3>2 DEF Applicable, Normalised, Larger
  <2>2. Apply(now, ncmd, members, rtt)
    BY <1>3 DEF ApplyCmd
  <2> HIDE DEF ncmd
  <2> QED BY <1>0, <2>1, <2>2, ApplyInOrder DEF Types
<1>4. ASSUME NEW m \in Member, NEW rep \in Report, NEW applied, OnReport(m, rep, applied)
      PROVE  ScheduleInOrder'
  <2> DEFINE answers == IF Resyncs(rep, applied, now) THEN {"resync"} ELSE {}
  <2>1. ReleaseAndAnnounce(now, members, rtt', gate', held, answers)
    BY <1>4 DEF OnReport
  <2>2. rtt' = [rtt EXCEPT ![m] = rep.rtt] /\ rep.rtt \in 0 .. MaxRtt
    BY <1>4, ReportAssumption DEF OnReport
  <2>3. rtt' \in RttMap
    BY <1>0, <2>2 DEF Types, RttMap
  <2> HIDE DEF answers
  <2> QED BY <1>0, <2>1, <2>3, ReleaseInOrder DEF Types
<1>5. ASSUME NEW t \in SweepReadings, Tick(t) PROVE ScheduleInOrder'
  <2>1. ReleaseAndAnnounce(t, members, rtt, gate', held, {}) /\ t \in Int
    BY <1>0, <1>5 DEF Tick, SweepReadings
  <2> QED BY <1>0, <2>1, ReleaseInOrder DEF Types
<1>6. Next => \/ UNCHANGED timebaseVars
              \/ \E m \in Member : Leave(m)
              \/ \E m \in Member, cmd \in Command : ApplyCmd(m, cmd)
              \/ \E m \in Member, rep \in Report : \E applied \in {0, seq} : OnReport(m, rep, applied)
              \/ \E t \in SweepReadings : Tick(t)
  BY DEF Next, Passes, Join, RefuseCmd, HoldPlay
<1>7. UNCHANGED vars => UNCHANGED timebaseVars
  BY DEF vars, timebaseVars
<1> QED BY <1>1, <1>2, <1>3, <1>4, <1>5, <1>6, <1>7

(* The schedule is ordered, nothing in it is due after the newest command,  *)
(* and it ends where everybody has been told the room will be.              *)
THEOREM RoomScheduleInOrder == Spec => []ScheduleInOrder
<1>1. Init => ScheduleInOrder
  <2> SUFFICES ASSUME Init PROVE ScheduleInOrder
    OBVIOUS
  <2>1. upcoming = <<>> /\ Len(upcoming) = 0
    BY EmptySeq DEF Init
  <2>2. [committed EXCEPT !.media = anchor.media] = anchor
    <3>1. anchor \in Anchor /\ committed = [anchor EXCEPT !.media = NoMedia]
      BY TypeInit DEF Init, TypeOK
    <3> QED BY <3>1 DEF Anchor
  <2> QED BY <2>1, <2>2 DEF ScheduleInOrder
<1>2. TypeOK /\ ScheduleInOrder /\ [Next]_vars => ScheduleInOrder'
  BY ScheduleStep
<1> QED BY <1>1, <1>2, TypeCorrect, PTL DEF Spec

-----------------------------------------------------------------------------
(***************************************************************************)
(* That the room implements Timeline.  The invariant this takes: a line    *)
(* the room has yet to move onto is a play's.  It starts where the line    *)
(* before it will be by then, and lines due at one instant agree; so       *)
(* moving onto it, or onto several at once, takes the room nowhere.        *)
(***************************************************************************)
LineBefore(c, u, i) == IF i = 1 THEN c ELSE u[i - 1].line

Joined(c, u, t) ==
  \A i \in 1 .. Len(u) : u[i].at > t =>
    /\ u[i].line.at = u[i].at /\ ~u[i].line.paused
    /\ u[i].line.pos = CommittedPosition(LineBefore(c, u, i), u[i].at)

Agreeing(u, t) ==
  \A i, j \in 1 .. Len(u) : u[i].at > t /\ u[i].at = u[j].at => u[i].line.pos = u[j].line.pos

Seamless == Joined(committed, upcoming, now) /\ Agreeing(upcoming, now)

LEMMA Lines ==
  ASSUME NEW u \in Seq(Line)
  PROVE  /\ Len(u) \in Nat
         /\ \A i \in 1 .. Len(u) : /\ u[i] \in Line /\ u[i].at \in Int /\ u[i].line \in Anchor
                                  /\ u[i].line.pos \in Int /\ u[i].line.at \in Int
<1>1. \A i \in 1 .. Len(u) : u[i] \in Line
  BY ElementOfSeq
<1> QED BY <1>1, LenProperties DEF Line, Anchor

LEMMA FirstPendingIs ==
  ASSUME NEW u \in Seq(Line), NEW t \in Int, NEW i \in 1 .. Len(u) + 1,
         \A j \in 1 .. i - 1 : u[j].at <= t,
         i <= Len(u) => u[i].at > t
  PROVE  FirstPending(u, t) = i
<1> DEFINE f == FirstPending(u, t)
<1>1. /\ f \in 1 .. Len(u) + 1
      /\ \A j \in 1 .. f - 1 : u[j].at <= t
      /\ f <= Len(u) => u[f].at > t
  BY FirstPendingFound
<1> HIDE DEF f
<1>2. Len(u) \in Nat /\ \A j \in 1 .. Len(u) : u[j].at \in Int
  BY Lines
<1>3. ~(f < i)
  <2> SUFFICES ASSUME f < i PROVE FALSE
    OBVIOUS
  <2>1. f \in 1 .. i - 1 /\ f \in 1 .. Len(u)
    BY <1>1, <1>2
  <2> QED BY <1>1, <1>2, <2>1
<1>4. ~(i < f)
  <2> SUFFICES ASSUME i < f PROVE FALSE
    OBVIOUS
  <2>1. i \in 1 .. f - 1 /\ i \in 1 .. Len(u)
    BY <1>1, <1>2
  <2> QED BY <1>1, <1>2, <2>1
<1> QED BY <1>1, <1>2, <1>3, <1>4 DEF f

LEMMA StillUpcomingIndex ==
  ASSUME NEW u \in Seq(Line), NEW t \in Int
  PROVE  LET f == FirstPending(u, t)
             rest == StillUpcoming(u, t)
         IN  /\ Len(rest) = Len(u) + 1 - f
             /\ \A i \in 1 .. Len(rest) : f + i - 1 \in 1 .. Len(u) /\ rest[i] = u[f + i - 1]
<1> DEFINE first == FirstPending(u, t)
           rest == SubSeq(u, first, Len(u))
<1>1. /\ Len(u) \in Nat /\ first \in 1 .. Len(u) + 1
      /\ \A i \in 1 .. Len(u) : u[i] \in Line
  BY Lines, FirstPendingFound
<1>2. StillUpcoming(u, t) = rest
  BY DEF StillUpcoming
<1> HIDE DEF first
<1>3. /\ Len(rest) = IF first <= Len(u) THEN Len(u) - first + 1 ELSE 0
      /\ \A i \in 1 .. Len(u) - first + 1 : rest[i] = u[first + i - 1]
  <2>1. \A i \in first .. Len(u) : u[i] \in Line
    BY <1>1
  <2> QED BY <1>1, <2>1, SubSeqProperties
<1> HIDE DEF rest
<1>4. Len(rest) = Len(u) + 1 - first
  BY <1>1, <1>3
<1>5. \A i \in 1 .. Len(rest) : first + i - 1 \in 1 .. Len(u) /\ rest[i] = u[first + i - 1]
  BY <1>1, <1>3, <1>4
<1> QED BY <1>2, <1>4, <1>5 DEF first

(* Catching up in two steps is catching up in one. *)
LEMMA CommittedLater ==
  ASSUME NEW c, NEW u \in Seq(Line), NEW t \in Int, NEW T \in Int, t <= T
  PROVE  CommittedAt(CommittedAt(c, u, t), StillUpcoming(u, t), T) = CommittedAt(c, u, T)
<1> DEFINE f == FirstPending(u, t)
           g == FirstPending(u, T)
           rest == StillUpcoming(u, t)
           on == CommittedAt(c, u, t)
<1>1. /\ Len(u) \in Nat /\ \A j \in 1 .. Len(u) : u[j].at \in Int
      /\ f \in 1 .. Len(u) + 1 /\ (\A j \in 1 .. f - 1 : u[j].at <= t)
      /\ g \in 1 .. Len(u) + 1 /\ (\A j \in 1 .. g - 1 : u[j].at <= T)
      /\ g <= Len(u) => u[g].at > T
  BY Lines, FirstPendingFound
<1>2. /\ rest \in Seq(Line) /\ Len(rest) = Len(u) + 1 - f
      /\ \A i \in 1 .. Len(rest) : f + i - 1 \in 1 .. Len(u) /\ rest[i] = u[f + i - 1]
  BY StillUpcomingIsASuffix, StillUpcomingIndex
<1>3. on = (IF f = 1 THEN c ELSE u[f - 1].line)
      /\ CommittedAt(c, u, T) = (IF g = 1 THEN c ELSE u[g - 1].line)
  BY DEF CommittedAt
<1> HIDE DEF f, g, rest, on
<1>4. f <= g
  <2> SUFFICES ASSUME g < f PROVE FALSE
    BY <1>1
  <2>1. g \in 1 .. f - 1 /\ g \in 1 .. Len(u)
    BY <1>1
  <2> QED BY <1>1, <2>1
<1> DEFINE i == g - f + 1
<1>5. FirstPending(rest, T) = i
  <2>1. i \in 1 .. Len(rest) + 1
    BY <1>1, <1>2, <1>4
  <2>2. ASSUME NEW j \in 1 .. i - 1 PROVE rest[j].at <= T
    <3>1. j \in 1 .. Len(rest) /\ f + j - 1 \in 1 .. g - 1
      BY <1>1, <1>2, <1>4
    <3> QED BY <1>1, <1>2, <3>1
  <2>3. i <= Len(rest) => rest[i].at > T
    <3>1. i <= Len(rest) => i \in 1 .. Len(rest) /\ f + i - 1 = g /\ g <= Len(u)
      BY <1>1, <1>2, <1>4
    <3> QED BY <1>1, <1>2, <3>1
  <2> HIDE DEF i
  <2> QED BY <1>2, <2>1, <2>2, <2>3, FirstPendingIs
<1>6. CommittedAt(on, rest, T) = IF i = 1 THEN on ELSE rest[i - 1].line
  BY <1>5 DEF CommittedAt
<1>7. CASE f = g
  <2>1. i = 1
    BY <1>1, <1>7
  <2> QED BY <1>3, <1>6, <1>7, <2>1 DEF on, rest
<1>8. CASE f < g
  <2>0. i - 1 = g - f /\ g - f >= 1 /\ g - f <= Len(rest) /\ g # 1 /\ g - f \in Int
    BY <1>1, <1>2, <1>8
  <2>1. i # 1 /\ i - 1 \in 1 .. Len(rest) /\ f + (i - 1) - 1 = g - 1
    BY <1>1, <1>8, <2>0
  <2>2. rest[i - 1] = u[g - 1]
    BY <1>2, <2>1
  <2> QED BY <1>3, <1>6, <2>0, <2>1, <2>2 DEF on, rest
<1> QED BY <1>1, <1>4, <1>7, <1>8

LEMMA SeamlessLater ==
  ASSUME NEW c, NEW u \in Seq(Line), NEW t \in Int, NEW T \in Int,
         Joined(c, u, T), Agreeing(u, T)
  PROVE  /\ Joined(CommittedAt(c, u, t), StillUpcoming(u, t), T)
         /\ Agreeing(StillUpcoming(u, t), T)
<1> DEFINE f == FirstPending(u, t)
           rest == StillUpcoming(u, t)
           on == CommittedAt(c, u, t)
<1>1. Len(u) \in Nat /\ f \in 1 .. Len(u) + 1
  BY Lines, FirstPendingFound
<1>2. /\ rest \in Seq(Line) /\ Len(rest) = Len(u) + 1 - f
      /\ \A i \in 1 .. Len(rest) : f + i - 1 \in 1 .. Len(u) /\ rest[i] = u[f + i - 1]
  BY StillUpcomingIsASuffix, StillUpcomingIndex
<1>3. on = IF f = 1 THEN c ELSE u[f - 1].line
  BY DEF CommittedAt
<1> HIDE DEF f, rest, on
<1>4. ASSUME NEW i \in 1 .. Len(rest) PROVE LineBefore(on, rest, i) = LineBefore(c, u, f + i - 1)
  <2>1. CASE i = 1
    BY <1>1, <1>3, <2>1 DEF LineBefore
  <2>2. CASE i # 1
    <3>1. i - 1 \in 1 .. Len(rest) /\ f + (i - 1) - 1 = (f + i - 1) - 1 /\ f + i - 1 # 1
      BY <1>1, <1>2, <2>2
    <3> QED BY <1>2, <2>2, <3>1 DEF LineBefore
  <2> QED BY <2>1, <2>2
<1>5. Joined(on, rest, T)
  BY <1>2, <1>4 DEF Joined
<1>6. Agreeing(rest, T)
  <2> SUFFICES ASSUME NEW i \in 1 .. Len(rest), NEW j \in 1 .. Len(rest),
                      rest[i].at > T, rest[i].at = rest[j].at
               PROVE  rest[i].line.pos = rest[j].line.pos
    BY DEF Agreeing
  <2>1. /\ rest[i] = u[f + i - 1] /\ f + i - 1 \in 1 .. Len(u)
        /\ rest[j] = u[f + j - 1] /\ f + j - 1 \in 1 .. Len(u)
    BY <1>2
  <2> QED BY <2>1 DEF Agreeing
<1> QED BY <1>5, <1>6 DEF on, rest

(* On one line, time takes nobody backwards and nobody ahead of itself. *)
LEMMA LineFlows ==
  ASSUME NEW a \in Anchor, NEW t \in Int
  PROVE  CommittedPosition(a, t + 1) \in CommittedPosition(a, t) .. CommittedPosition(a, t) + 1
<1>1. a.pos \in Int /\ a.at \in Int
  BY DEF Anchor
<1> QED BY <1>1 DEF CommittedPosition, Expected

LEMMA TimeFlows ==
  ASSUME committed \in Anchor, upcoming \in Seq(Line), now \in Int, Seamless, InOrder(upcoming)
  PROVE  Standing(now + 1) \in Standing(now) .. Standing(now) + 1
<1> DEFINE u == upcoming
           f == FirstPending(u, now)
           g == FirstPending(u, now + 1)
           on == CommittedAt(committed, u, now)
           to == CommittedAt(committed, u, now + 1)
<1>1. /\ Len(u) \in Nat
      /\ \A j \in 1 .. Len(u) : u[j].at \in Int /\ u[j].line.pos \in Int
      /\ f \in 1 .. Len(u) + 1 /\ (\A j \in 1 .. f - 1 : u[j].at <= now)
      /\ f <= Len(u) => u[f].at > now
      /\ g \in 1 .. Len(u) + 1 /\ (\A j \in 1 .. g - 1 : u[j].at <= now + 1)
      /\ g <= Len(u) => u[g].at > now + 1
  <2>1. now + 1 \in Int
    OBVIOUS
  <2>2. /\ Len(u) \in Nat
        /\ \A j \in 1 .. Len(u) : u[j].at \in Int /\ u[j].line.pos \in Int
    BY Lines
  <2>3. /\ f \in 1 .. Len(u) + 1 /\ (\A j \in 1 .. f - 1 : u[j].at <= now)
        /\ f <= Len(u) => u[f].at > now
    BY FirstPendingFound
  <2>4. /\ g \in 1 .. Len(u) + 1 /\ (\A j \in 1 .. g - 1 : u[j].at <= now + 1)
        /\ g <= Len(u) => u[g].at > now + 1
    BY <2>1, FirstPendingFound
  <2> QED BY <2>2, <2>3, <2>4
<1>2. /\ on = LineBefore(committed, u, f) /\ to = LineBefore(committed, u, g)
      /\ on \in Anchor
      /\ Standing(now) = CommittedPosition(on, now)
      /\ Standing(now + 1) = CommittedPosition(to, now + 1)
  BY StandingIsPlaced DEF CommittedAt, LineBefore, Standing
<1> HIDE DEF f, g, on, to, u
<1>3. CommittedPosition(to, now + 1) = CommittedPosition(on, now + 1)
  <2>1. CASE f = g
    BY <1>2, <2>1
  <2>2. CASE g < f
    <3>1. g \in 1 .. f - 1 /\ g \in 1 .. Len(u)
      BY <1>1, <2>2
    <3>2. u[g].at <= now /\ u[g].at > now + 1 /\ u[g].at \in Int
      BY <1>1, <3>1
    <3> QED BY <3>2
  <2>3. CASE f < g
    <3>1. /\ f \in 1 .. g - 1 /\ f \in 1 .. Len(u)
          /\ g - 1 \in 1 .. g - 1 /\ g - 1 \in 1 .. Len(u) /\ f <= g - 1 /\ g # 1
      BY <1>1, <2>3
    <3>2. u[f].at = now + 1
      BY <1>1, <3>1
    <3>3. u[g - 1].at = now + 1
      <4>1. u[f].at <= u[g - 1].at
        BY <3>1 DEF InOrder, u
      <4> QED BY <1>1, <3>1, <3>2, <4>1
    <3>4. u[g - 1].line.at = now + 1 /\ u[g - 1].line.pos = u[f].line.pos
      BY <3>1, <3>2, <3>3 DEF Seamless, Joined, Agreeing, u
    <3>5. u[f].line.pos = CommittedPosition(on, now + 1)
      BY <1>2, <3>1, <3>2 DEF Seamless, Joined, u
    <3>6. to = u[g - 1].line
      BY <1>2, <3>1 DEF LineBefore
    <3>7. CommittedPosition(to, now + 1) = u[g - 1].line.pos
      BY <1>1, <3>1, <3>4, <3>6 DEF CommittedPosition, Expected
    <3> QED BY <3>4, <3>5, <3>7
  <2> QED BY <1>1, <2>1, <2>2, <2>3
<1> QED BY <1>2, <1>3, LineFlows

(* A play joins the schedule without a seam: it is due last, and starts     *)
(* where the room will be by then.                                          *)
LEMMA PlayJoins ==
  ASSUME NEW c \in Anchor, NEW u \in Seq(Line), NEW T \in Int, NEW when \in Int,
         Joined(c, u, T), Agreeing(u, T), InOrder(u), DueBy(u, when),
         NEW next \in Anchor, next.at = when, ~next.paused,
         next.pos = Expected(LastLine(c, u), when),
         ~LastLine(c, u).paused => LastLine(c, u).at <= when
  PROVE  LET after == Commit(u, when, next)
         IN  /\ Joined(c, after, T) /\ Agreeing(after, T)
             /\ when > T => CommittedAt(c, after, T) = CommittedAt(c, u, T)
             /\ when <= T => /\ CommittedAt(c, after, T) = next
                            /\ CommittedAt(c, u, T) = LastLine(c, u)
<1> DEFINE e == [at |-> when, line |-> next]
           last == LastLine(c, u)
           n == Len(u)
           after == Commit(u, when, next)
<1>1. /\ n \in Nat
      /\ \A j \in 1 .. n : /\ u[j].at \in Int /\ u[j].line \in Anchor
                          /\ u[j].line.pos \in Int /\ u[j].line.at \in Int
      /\ n = 0 <=> u = <<>>
  BY Lines, EmptySeq
<1>2. e \in Line /\ e.at = when /\ e.line = next
  BY DEF Line
<1>3. /\ last = LineBefore(c, u, n + 1) /\ last \in Anchor
      /\ last.pos \in Int /\ last.at \in Int /\ last.paused \in BOOLEAN
      /\ n > 0 => last = u[n].line
  BY <1>1 DEF LastLine, LineBefore, Anchor
<1>4. next.pos = CommittedPosition(last, when)
  BY <1>3 DEF CommittedPosition, Expected
<1>5. when <= T => CommittedAt(c, u, T) = last
  <2> SUFFICES ASSUME when <= T PROVE CommittedAt(c, u, T) = last
    OBVIOUS
  <2>1. \A j \in 1 .. n : u[j].at <= T
    BY <1>1 DEF DueBy
  <2>2. n + 1 \in 1 .. n + 1 /\ ~(n + 1 <= n) /\ (n + 1) - 1 = n
    BY <1>1
  <2>3. FirstPending(u, T) = n + 1
    BY <2>1, <2>2, FirstPendingIs
  <2> QED BY <1>1, <1>3, <2>2, <2>3 DEF CommittedAt, LineBefore
<1>6. CASE n > 0 /\ when <= u[1].at
  <2>1. after = <<e>> /\ after \in Seq(Line) /\ Len(after) = 1 /\ after[1] = e
    <3>1. after = Append(<<>>, e)
      BY <1>6 DEF Commit
    <3> QED BY <1>2, <3>1
  <2>2. \A j \in 1 .. n : u[j].at = when
    <3> SUFFICES ASSUME NEW j \in 1 .. n PROVE u[j].at = when
      OBVIOUS
    <3>1. 1 \in 1 .. n /\ 1 <= j
      BY <1>1
    <3>2. u[1].at <= u[j].at /\ u[j].at <= when
      BY <3>1 DEF InOrder, DueBy
    <3> QED BY <1>1, <1>6, <3>1, <3>2
  <2>3. ASSUME when > T PROVE next.pos = CommittedPosition(c, when)
    <3>1. 1 \in 1 .. n /\ n \in 1 .. n /\ last = u[n].line
      BY <1>1, <1>3, <1>6
    <3>2. /\ u[n].line.at = when
          /\ u[n].line.pos = u[1].line.pos
          /\ u[1].line.pos = CommittedPosition(c, when)
      BY <2>2, <2>3, <3>1 DEF Joined, Agreeing, LineBefore
    <3>3. CommittedPosition(last, when) = last.pos
      BY <1>3, <3>1, <3>2 DEF CommittedPosition, Expected
    <3> QED BY <1>4, <3>1, <3>2, <3>3
  <2> HIDE DEF after, e, n
  <2>4. \A i \in 1 .. Len(after) : i = 1
    BY <2>1
  <2>5. Joined(c, after, T) /\ Agreeing(after, T)
    BY <1>2, <2>1, <2>3, <2>4 DEF Joined, Agreeing, LineBefore
  <2>6. ASSUME when > T PROVE CommittedAt(c, after, T) = c /\ CommittedAt(c, u, T) = c
    <3>1. FirstPending(after, T) = 1
      <4>1. 1 \in 1 .. Len(after) + 1 /\ (\A j \in 1 .. 1 - 1 : after[j].at <= T)
        BY <2>1
      <4>2. after[1].at > T
        BY <1>2, <2>1, <2>6
      <4> QED BY <2>1, <4>1, <4>2, FirstPendingIs
    <3>2. 1 \in 1 .. n + 1 /\ 1 \in 1 .. n
      BY <1>1, <1>6
    <3>3. FirstPending(u, T) = 1
      BY <2>2, <2>6, <3>2, FirstPendingIs DEF n
    <3> QED BY <3>1, <3>3 DEF CommittedAt
  <2>7. ASSUME when <= T PROVE CommittedAt(c, after, T) = next
    <3>1. FirstPending(after, T) = 2
      <4>1. 2 \in 1 .. Len(after) + 1 /\ ~(2 <= Len(after)) /\ (\A j \in 1 .. 2 - 1 : j = 1)
        BY <2>1
      <4>2. \A j \in 1 .. 2 - 1 : after[j].at <= T
        BY <1>2, <2>1, <2>7, <4>1
      <4> QED BY <2>1, <4>1, <4>2, FirstPendingIs
    <3> QED BY <1>2, <2>1, <3>1 DEF CommittedAt
  <2> QED BY <1>5, <2>5, <2>6, <2>7 DEF after
<1>7. CASE ~(n > 0 /\ when <= u[1].at)
  <2>1. /\ after = Append(u, e) /\ after \in Seq(Line) /\ Len(after) = n + 1
        /\ \A j \in 1 .. n : after[j] = u[j]
        /\ after[n + 1] = e
    <3>1. after = Append(u, e)
      BY <1>7 DEF Commit
    <3> QED BY <1>2, <3>1, AppendProperties
  <2> HIDE DEF after, e
  <2>2. \A j \in 1 .. n + 1 : j \in 1 .. n \/ j = n + 1
    BY <1>1
  <2>3. \A j \in 1 .. n + 1 : LineBefore(c, after, j) = LineBefore(c, u, j)
    <3> SUFFICES ASSUME NEW j \in 1 .. n + 1 PROVE LineBefore(c, after, j) = LineBefore(c, u, j)
      OBVIOUS
    <3>1. j # 1 => j - 1 \in 1 .. n
      BY <1>1
    <3> QED BY <2>1, <3>1 DEF LineBefore
  <2>4. Joined(c, after, T)
    <3> SUFFICES ASSUME NEW j \in 1 .. n + 1, after[j].at > T
                 PROVE  /\ after[j].line.at = after[j].at /\ ~after[j].line.paused
                        /\ after[j].line.pos = CommittedPosition(LineBefore(c, after, j), after[j].at)
      BY <2>1 DEF Joined
    <3>1. CASE j \in 1 .. n
      BY <2>1, <2>3, <3>1 DEF Joined
    <3>2. CASE j = n + 1
      BY <1>2, <1>3, <1>4, <2>1, <2>3, <3>2
    <3> QED BY <2>2, <3>1, <3>2
  <2>5. ASSUME NEW j \in 1 .. n, u[j].at > T, u[j].at = when
        PROVE  u[j].line.pos = next.pos
    <3>1. n \in 1 .. n /\ j <= n
      BY <1>1
    <3>2. u[n].at = when
      <4>1. u[j].at <= u[n].at /\ u[n].at <= when
        BY <3>1 DEF InOrder, DueBy
      <4> QED BY <1>1, <2>5, <3>1, <4>1
    <3>3. u[j].line.pos = u[n].line.pos /\ u[n].line.at = when /\ last = u[n].line
      BY <1>1, <1>3, <2>5, <3>1, <3>2 DEF Joined, Agreeing
    <3>4. CommittedPosition(last, when) = last.pos
      BY <1>3, <3>3 DEF CommittedPosition, Expected
    <3> QED BY <1>4, <3>3, <3>4
  <2>6. Agreeing(after, T)
    <3> SUFFICES ASSUME NEW i \in 1 .. n + 1, NEW j \in 1 .. n + 1,
                        after[i].at > T, after[i].at = after[j].at
                 PROVE  after[i].line.pos = after[j].line.pos
      BY <2>1 DEF Agreeing
    <3>1. CASE i \in 1 .. n /\ j \in 1 .. n
      BY <2>1, <3>1 DEF Agreeing
    <3>2. CASE i = n + 1 /\ j = n + 1
      BY <3>2
    <3>3. CASE i \in 1 .. n /\ j = n + 1
      BY <1>2, <2>1, <2>5, <3>3
    <3>4. CASE i = n + 1 /\ j \in 1 .. n
      BY <1>2, <2>1, <2>5, <3>4
    <3> QED BY <2>2, <3>1, <3>2, <3>3, <3>4
  <2>7. ASSUME when > T PROVE CommittedAt(c, after, T) = CommittedAt(c, u, T)
    <3> DEFINE g == FirstPending(u, T)
    <3>1. /\ g \in 1 .. n + 1 /\ (\A j \in 1 .. g - 1 : u[j].at <= T)
          /\ g <= n => u[g].at > T
      BY FirstPendingFound
    <3>2. CommittedAt(c, u, T) = LineBefore(c, u, g)
      BY DEF CommittedAt, LineBefore
    <3> HIDE DEF g, n
    <3>3. FirstPending(after, T) = g
      <4>1. g \in 1 .. Len(after) + 1
        BY <1>1, <2>1, <3>1
      <4>2. \A j \in 1 .. g - 1 : after[j].at <= T
        <5>1. \A j \in 1 .. g - 1 : j \in 1 .. n
          BY <1>1, <3>1
        <5> QED BY <2>1, <3>1, <5>1
      <4>3. after[g].at > T
        BY <1>1, <1>2, <2>1, <2>2, <2>7, <3>1
      <4> QED BY <2>1, <4>1, <4>2, <4>3, FirstPendingIs
    <3> QED BY <2>3, <3>1, <3>2, <3>3 DEF CommittedAt, LineBefore
  <2>8. ASSUME when <= T PROVE CommittedAt(c, after, T) = next
    <3>1. FirstPending(after, T) = n + 2
      <4>1. \A j \in 1 .. n + 1 : after[j].at <= T
        BY <1>1, <1>2, <2>1, <2>2, <2>8 DEF DueBy
      <4>2. n + 2 \in 1 .. Len(after) + 1 /\ (n + 2) - 1 = n + 1 /\ ~(n + 2 <= Len(after))
        BY <1>1, <2>1
      <4> HIDE DEF n
      <4> QED BY <2>1, <4>1, <4>2, FirstPendingIs
    <3>2. n + 2 # 1 /\ (n + 2) - 1 = n + 1
      BY <1>1
    <3> QED BY <1>2, <2>1, <3>1, <3>2 DEF CommittedAt
  <2> QED BY <1>5, <2>4, <2>6, <2>7, <2>8 DEF after
<1> QED BY <1>6, <1>7

LEMMA LastLineKept ==
  ASSUME NEW c, NEW u \in Seq(Line), NEW t \in Int
  PROVE  LastLine(CommittedAt(c, u, t), StillUpcoming(u, t)) = LastLine(c, u)
<1> DEFINE f == FirstPending(u, t)
           rest == StillUpcoming(u, t)
           on == CommittedAt(c, u, t)
<1>1. /\ Len(u) \in Nat /\ f \in 1 .. Len(u) + 1
      /\ (u = <<>> <=> Len(u) = 0)
  BY Lines, FirstPendingFound, EmptySeq
<1>2. /\ rest \in Seq(Line) /\ Len(rest) = Len(u) + 1 - f
      /\ \A i \in 1 .. Len(rest) : f + i - 1 \in 1 .. Len(u) /\ rest[i] = u[f + i - 1]
  BY StillUpcomingIsASuffix, StillUpcomingIndex
<1>3. rest = <<>> <=> Len(rest) = 0
  BY <1>2, EmptySeq
<1>4. on = IF f = 1 THEN c ELSE u[f - 1].line
  BY DEF CommittedAt
<1> HIDE DEF f, rest, on
<1>5. CASE f = Len(u) + 1
  <2>1. rest = <<>> /\ f - 1 = Len(u) /\ (f = 1 <=> u = <<>>)
    BY <1>1, <1>2, <1>3, <1>5
  <2> QED BY <1>4, <2>1 DEF LastLine, on, rest
<1>6. CASE f # Len(u) + 1
  <2>1. /\ Len(rest) \in 1 .. Len(rest) /\ f + Len(rest) - 1 = Len(u)
        /\ rest # <<>> /\ u # <<>>
    BY <1>1, <1>2, <1>3, <1>6
  <2>2. rest[Len(rest)] = u[Len(u)]
    BY <1>2, <2>1
  <2> QED BY <2>1, <2>2 DEF LastLine, on, rest
<1> QED BY <1>5, <1>6

(* A play, applied at an instant no further back than a sweep's reading of  *)
(* the clock may be.                                                        *)
LEMMA PlayApplied ==
  ASSUME TimebaseType, NeverBeforeStart, ScheduleInOrder, Seamless, now \in Int, now' = now,
         NEW cmd, cmd.kind = "play", NEW t \in Int, t <= now, now <= t + SweepLag,
         NEW ms \in SUBSET Member, NEW rt \in RttMap, Apply(t, cmd, ms, rt)
  PROVE  /\ Seamless'
         /\ Standing(now)' \in Standing(now) .. Standing(now) + SweepLag
         /\ lastCmdWhen' >= lastCmdWhen
<1> DEFINE when == DueAt(t, cmd.kind, ms, rt)
           next == NextAnchor(cmd, t, when)
           on == CommittedAt(committed, upcoming, t)
           rest == StillUpcoming(upcoming, t)
           last == LastLine(on, rest)
<1>0. SweepLag \in Nat
  BY BoundsAssumption
<1>1. when \in Int /\ when >= t /\ when >= lastCmdWhen
  BY DueAtBounds DEF LeavesRoomStopped, TimebaseType
<1> HIDE DEF when
<1>2. next = [Advance(anchor, when) EXCEPT !.paused = FALSE]
  BY DEF NextAnchor
<1>3. /\ anchor \in Anchor /\ anchor.pos \in Int /\ anchor.at \in Int
      /\ anchor.paused \in BOOLEAN /\ Expected(anchor, when) \in Int
      /\ lastCmdWhen \in Int
  BY <1>1, AnchorArithmetic DEF TimebaseType, Anchor
<1>4. /\ next \in Anchor /\ next.at = when /\ ~next.paused
      /\ next.pos = Expected(anchor, when)
  BY <1>1, <1>2, <1>3 DEF Advance, Reanchor, Anchor
<1>5. /\ anchor' = next /\ lastCmdWhen' = when /\ committed' = on
      /\ upcoming' = Commit(rest, when, next)
  BY DEF Apply, when, TakesOver
<1> HIDE DEF next
<1>6. /\ on \in Anchor /\ rest \in Seq(Line)
      /\ InOrder(rest) /\ DueBy(rest, lastCmdWhen)
      /\ Joined(on, rest, now) /\ Agreeing(rest, now)
      /\ last = LastLine(committed, upcoming)
  BY StandingIsPlaced, StillUpcomingIsASuffix, StillUpcomingInOrder, ScheduleInOrderParts,
     SeamlessLater, LastLineKept DEF TimebaseType, Seamless
<1>7. Standing(now) = CommittedPosition(CommittedAt(on, rest, now), now)
  BY CommittedLater DEF Standing, TimebaseType
<1>8. last \in Anchor
  <2>1. LastLine(on, rest) = IF rest = <<>> THEN on ELSE rest[Len(rest)].line
    BY DEF LastLine
  <2>2. Len(rest) \in Nat /\ (rest = <<>> <=> Len(rest) = 0)
        /\ \A i \in 1 .. Len(rest) : rest[i].line \in Anchor
    BY <1>6, Lines, EmptySeq
  <2> HIDE DEF on, rest
  <2>3. rest # <<>> => Len(rest) \in 1 .. Len(rest)
    BY <2>2
  <2> QED BY <1>6, <2>1, <2>2, <2>3
<1>9. last.pos = anchor.pos /\ last.at = anchor.at /\ last.paused = anchor.paused
  <2>1. [last EXCEPT !.media = anchor.media] = anchor
    BY <1>6, ScheduleInOrderParts
  <2> HIDE DEF last
  <2> QED BY <1>3, <1>8, <2>1 DEF Anchor
<1> HIDE DEF on, rest, last
<1>10. \A i \in 1 .. Len(rest) : rest[i].at \in Int
  BY <1>6, Lines
<1>11. DueBy(rest, when)
  BY <1>1, <1>3, <1>6, <1>10 DEF DueBy
<1>12. Expected(last, when) = Expected(anchor, when)
  BY <1>9 DEF Expected
<1>13. ~last.paused => last.at <= when
  BY <1>1, <1>3, <1>9 DEF NeverBeforeStart
<1>14. LET after == Commit(rest, when, next)
       IN  /\ Joined(on, after, now) /\ Agreeing(after, now)
           /\ when > now => CommittedAt(on, after, now) = CommittedAt(on, rest, now)
           /\ when <= now => /\ CommittedAt(on, after, now) = next
                             /\ CommittedAt(on, rest, now) = last
  BY <1>1, <1>4, <1>6, <1>11, <1>12, <1>13, PlayJoins DEF last
<1>15. Seamless'
  BY <1>5, <1>14 DEF Seamless, Joined, Agreeing
<1>16. Standing(now)' = CommittedPosition(CommittedAt(on, Commit(rest, when, next), now), now)
  BY <1>5 DEF Standing
<1>17. Standing(now) \in Int
  BY StandingIsPlaced DEF TimebaseType
<1>18. Standing(now)' \in Standing(now) .. Standing(now) + SweepLag
  <2>1. CASE when > now
    BY <1>0, <1>7, <1>14, <1>16, <1>17, <2>1
  <2>2. CASE when <= now
    <3>1. Standing(now)' = CommittedPosition(next, now) /\ Standing(now) = CommittedPosition(last, now)
      BY <1>7, <1>14, <1>16, <2>2
    <3>2. Standing(now)' = Expected(anchor, when) + (now - when)
      BY <1>1, <1>3, <1>4, <2>2, <3>1 DEF CommittedPosition, Expected
    <3>3. CASE anchor.paused
      <4>1. Standing(now) = anchor.pos /\ Expected(anchor, when) = anchor.pos
        BY <1>9, <3>1, <3>3 DEF CommittedPosition, Expected
      <4> QED BY <1>0, <1>1, <1>3, <2>2, <3>2, <4>1
    <3>4. CASE ~anchor.paused
      <4>1. anchor.at <= now
        BY <1>1, <1>3, <2>2, <3>4 DEF NeverBeforeStart
      <4>2. /\ Standing(now) = anchor.pos + (now - anchor.at)
            /\ Expected(anchor, when) = anchor.pos + (when - anchor.at)
        BY <1>3, <1>9, <3>1, <3>4, <4>1 DEF CommittedPosition, Expected
      <4> QED BY <1>0, <1>1, <1>3, <3>2, <4>2
    <3> QED BY <3>3, <3>4
  <2> QED BY <1>1, <2>1, <2>2
<1> QED BY <1>1, <1>5, <1>15, <1>18

(* Any other command takes the room over at once, from its own position. *)
LEMMA OtherApplied ==
  ASSUME TimebaseType, ScheduleInOrder, now \in Int, now' = now,
         NEW cmd, Applicable(cmd), cmd.kind # "play",
         NEW ms \in SUBSET Member, NEW rt \in RttMap, Apply(now, cmd, ms, rt)
  PROVE  /\ Seamless'
         /\ Standing(now)' = anchor'.pos
         /\ cmd.kind # "pause" => anchor'.pos = cmd.pos
         /\ cmd.kind = "pause" => anchor'.pos = PausePosition(cmd, now) /\ lastCmdWhen' = now
         /\ lastCmdWhen' = now \/ lastCmdWhen' >= lastCmdWhen
<1> DEFINE when == DueAt(now, cmd.kind, ms, rt)
           next == NextAnchor(cmd, now, when)
           on == CommittedAt(committed, upcoming, now)
           rest == StillUpcoming(upcoming, now)
           entry == [at |-> now, line |-> next]
<1>1. /\ when \in Int /\ when >= now
      /\ ~LeavesRoomStopped(cmd.kind) => when >= lastCmdWhen
      /\ LeavesRoomStopped(cmd.kind) => when = now
  BY DueAtBounds DEF TimebaseType, DueAt
<1> HIDE DEF when
<1>2. next \in Anchor
  BY <1>1, NextAnchorPlaced
<1>3. /\ next.at = when
      /\ cmd.kind # "pause" => next.pos = cmd.pos
      /\ cmd.kind = "pause" => next.pos = PausePosition(cmd, now)
  <2>1. anchor \in Anchor /\ PausePosition(cmd, now) \in Int /\ cmd.pos \in Int
    BY StandingIsPlaced DEF TimebaseType, PausePosition, Applicable
  <2>2. cmd.kind \in {"pause", "seek", "media"}
    BY DEF Applicable, CommandKind
  <2> QED BY <1>1, <2>1, <2>2 DEF NextAnchor, Reanchor, Anchor
<1>4. /\ anchor' = next /\ lastCmdWhen' = when /\ committed' = on
      /\ upcoming' = Commit(rest, now, next)
  BY DEF Apply, when, TakesOver
<1> HIDE DEF next
<1>5. upcoming' = <<entry>>
  <2>1. rest \in Seq(Line) /\ \A i \in 1 .. Len(rest) : rest[i].at > now
    BY StillUpcomingIsASuffix, StillUpcomingInOrder, ScheduleInOrderParts DEF TimebaseType
  <2>2. Len(rest) \in Nat /\ (Len(rest) = 0 => rest = <<>>)
        /\ \A i \in 1 .. Len(rest) : rest[i].at \in Int
    BY <2>1, Lines, EmptySeq
  <2> HIDE DEF rest
  <2>3. Len(rest) > 0 => now <= rest[1].at
    <3>1. Len(rest) > 0 => 1 \in 1 .. Len(rest)
      BY <2>2
    <3> QED BY <2>1, <2>2, <3>1
  <2>4. Commit(rest, now, next) = Append(<<>>, entry)
    <3>1. (IF Len(rest) > 0 /\ now <= rest[1].at THEN <<>> ELSE rest) = <<>>
      BY <2>2, <2>3
    <3> QED BY <3>1, Zenon DEF Commit
  <2> QED BY <1>4, <2>4
<1>6. /\ entry.at = now /\ entry.line = next
      /\ <<entry>> \in Seq(Line) /\ Len(<<entry>>) = 1 /\ <<entry>>[1] = entry
  BY <1>2 DEF Line
<1> HIDE DEF entry
<1>7. Seamless'
  <2>1. \A i \in 1 .. Len(upcoming') : ~(upcoming'[i].at > now')
    <3>1. \A i \in 1 .. 1 : i = 1
      OBVIOUS
    <3>2. ~(now > now)
      OBVIOUS
    <3> QED BY <1>5, <1>6, <3>1, <3>2
  <2> QED BY <2>1 DEF Seamless, Joined, Agreeing
<1>8. FirstPending(<<entry>>, now) = 2
  <2>1. 2 \in 1 .. Len(<<entry>>) + 1 /\ ~(2 <= Len(<<entry>>)) /\ (\A j \in 1 .. 2 - 1 : j = 1)
    BY <1>6
  <2>2. \A j \in 1 .. 2 - 1 : <<entry>>[j].at <= now
    BY <1>6, <2>1
  <2> QED BY <1>6, <2>1, <2>2, FirstPendingIs
<1>9. Standing(now)' = CommittedPosition(next, now)
  BY <1>5, <1>6, <1>8 DEF Standing, CommittedAt
<1>10. CommittedPosition(next, now) = next.pos
  BY <1>1, <1>2, <1>3 DEF CommittedPosition, Expected, Anchor
<1> QED BY <1>1, <1>3, <1>4, <1>7, <1>9, <1>10 DEF LeavesRoomStopped

LEMMA SeamlessInit == Init => Seamless /\ Standing(now) = 0
<1> SUFFICES ASSUME Init PROVE Seamless /\ Standing(now) = 0
  OBVIOUS
<1>1. /\ upcoming = <<>> /\ Len(upcoming) = 0 /\ now = 0 /\ now \in Int
      /\ committed.pos = 0 /\ committed.at = 0 /\ committed.paused
      /\ upcoming \in Seq(Line)
  <2>1. \E k \in MediaKeys \cup {NoMedia} :
           anchor = [pos |-> 0, at |-> 0, paused |-> TRUE, media |-> k]
    BY DEF Init
  <2> QED BY <2>1, EmptySeq DEF Init
<1>2. FirstPending(upcoming, now) = 1
  <2>1. 1 \in 1 .. Len(upcoming) + 1 /\ ~(1 <= Len(upcoming))
        /\ \A j \in 1 .. 1 - 1 : upcoming[j].at <= now
    BY <1>1
  <2> QED BY <1>1, <2>1, FirstPendingIs
<1>3. Standing(now) = 0
  BY <1>1, <1>2 DEF Standing, CommittedAt, CommittedPosition, Expected
<1>4. Seamless
  BY <1>1 DEF Seamless, Joined, Agreeing
<1> QED BY <1>3, <1>4

(* The kind of the command among the answers of a step. *)
KindOf(answers) == IF answers \cap CommandKind = {} THEN "none"
                   ELSE CHOOSE k \in CommandKind : k \in answers

LEMMA KindApplied ==
  ASSUME NEW answers
  PROVE  /\ answers \cap CommandKind = {} => KindOf(answers) = "none"
         /\ \A k \in CommandKind : answers \cap CommandKind = {k} => KindOf(answers) = k
<1>1. ASSUME NEW k \in CommandKind, answers \cap CommandKind = {k} PROVE KindOf(answers) = k
  <2>1. answers \cap CommandKind # {} /\ k \in answers
        /\ \A j \in CommandKind : j \in answers => j = k
    BY <1>1
  <2>2. (CHOOSE j \in CommandKind : j \in answers) = k
    BY <2>1, Zenon
  <2> QED BY <2>1, <2>2 DEF KindOf
<1> QED BY <1>1 DEF KindOf

(* A step that applies no command leaves the timeline alone. *)
LEMMA OthersLeaveIt ==
  ASSUME Seamless, UNCHANGED timebaseVars, now' = now, sent' \cap CommandKind = {}
  PROVE  Seamless' /\ TL!Next
<1>1. /\ seq' = seq /\ committed' = committed /\ upcoming' = upcoming
      /\ lastCmdWhen' = lastCmdWhen
  BY DEF timebaseVars
<1>2. Seamless' /\ Standing(now)' = Standing(now)
  BY <1>1 DEF Seamless, Joined, Agreeing, Standing
<1>3. AppliedKind' = "none"
  BY KindApplied DEF AppliedKind, KindOf
<1> QED BY <1>1, <1>2, <1>3 DEF TL!Next, TL!Other

LEMMA PlayImplements ==
  ASSUME TimebaseType, NeverBeforeStart, ScheduleInOrder, Seamless, now \in Int, now' = now,
         NEW cmd, cmd.kind = "play", NEW t \in Int, t <= now, now <= t + SweepLag,
         NEW ms \in SUBSET Member, NEW rt \in RttMap, Apply(t, cmd, ms, rt),
         sent' \cap CommandKind = {"play"}
  PROVE  Seamless' /\ TL!Next
<1>1. /\ Seamless'
      /\ Standing(now)' \in Standing(now) .. Standing(now) + SweepLag
      /\ lastCmdWhen' >= lastCmdWhen
  BY PlayApplied
<1>2. seq' = seq + 1
  BY DEF Apply
<1>3. AppliedKind' = "play"
  <2>1. "play" \in CommandKind
    BY DEF CommandKind
  <2> QED BY <2>1, KindApplied DEF AppliedKind, KindOf
<1> QED BY <1>1, <1>2, <1>3 DEF TL!Next, TL!Commanded, TL!Play

LEMMA ReleaseImplements ==
  ASSUME TimebaseType, NeverBeforeStart, ScheduleInOrder, Seamless, now \in Int, now' = now,
         NEW t \in Int, t <= now, now <= t + SweepLag,
         NEW ms \in SUBSET Member, NEW rt \in RttMap, NEW g, NEW h,
         NEW answers \in SUBSET {"resync"},
         ReleaseAndAnnounce(t, ms, rt, g, h, answers)
  PROVE  Seamless' /\ TL!Next
<1>1. CASE /\ Apply(t, HeldPlay, ms, rt)
           /\ sent' = answers \cup {"play"}
  <2>1. HeldPlay.kind = "play" /\ sent' \cap CommandKind = {"play"}
    BY <1>1 DEF HeldPlay, CommandKind
  <2> QED BY <1>1, <2>1, PlayImplements
<1>2. CASE sent' = answers /\ UNCHANGED timebaseVars
  <2>1. sent' \cap CommandKind = {}
    BY <1>2 DEF CommandKind
  <2> QED BY <1>2, <2>1, OthersLeaveIt
<1> QED BY <1>1, <1>2 DEF ReleaseAndAnnounce

(* A command from the wire takes the room over under Timeline's rules. *)
LEMMA CmdImplements ==
  ASSUME TypeOK, NeverBeforeStart, ScheduleInOrder, Seamless,
         NEW m \in Member, NEW cmd \in Command, ApplyCmd(m, cmd)
  PROVE  Seamless' /\ TL!Next
<1> DEFINE ncmd == Normalised(cmd)
<1>0. /\ Types /\ TimebaseType /\ now \in Int /\ SweepLag \in Nat
      /\ members \in SUBSET Member /\ rtt \in RttMap
  BY TypesIsTypeOK, BoundsAssumption DEF Types
<1>1. /\ Apply(now, ncmd, members, rtt)
      /\ sent' = {cmd.kind} /\ now' = now /\ cmd.kind \in CommandKind
  <2>1. cmd.kind \in CommandKind \cup {"other"}
    BY CommandAssumption
  <2> QED BY <2>1 DEF ApplyCmd, Refusals
<1>2. Applicable(ncmd) /\ ncmd.kind = cmd.kind /\ ncmd.pos \in Nat
  <2>1. cmd \in [kind : CommandKind \cup {"other"}, pos : Int,
                 media : MediaKeys \cup {NoMedia},
                 ifMedia : MediaKeys \cup {NoMedia, Always}]
    BY CommandAssumption
  <2> QED BY <1>1, <2>1 DEF Applicable, Normalised, Larger
<1> HIDE DEF ncmd
<1>3. sent' \cap CommandKind = {cmd.kind}
  BY <1>1
<1>4. CASE cmd.kind = "play"
  BY <1>0, <1>1, <1>2, <1>3, <1>4, PlayImplements
<1>5. CASE cmd.kind # "play"
  <2>1. /\ Seamless'
        /\ Standing(now)' = anchor'.pos
        /\ ncmd.kind # "pause" => anchor'.pos = ncmd.pos
        /\ ncmd.kind = "pause" => anchor'.pos = PausePosition(ncmd, now) /\ lastCmdWhen' = now
        /\ lastCmdWhen' = now \/ lastCmdWhen' >= lastCmdWhen
    BY <1>0, <1>1, <1>2, <1>5, OtherApplied
  <2>2. seq' = seq + 1
    BY <1>1 DEF Apply
  <2>3. AppliedKind' = cmd.kind
    BY <1>1, <1>3, KindApplied DEF AppliedKind, KindOf
  <2>4. CASE cmd.kind = "pause"
    <3>1. IF now < lastCmdWhen THEN Standing(now)' = Standing(now) ELSE Standing(now)' \in Nat
      BY <1>2, <2>1, <2>4 DEF PausePosition
    <3> QED BY <1>1, <1>2, <2>1, <2>2, <2>3, <2>4, <3>1 DEF TL!Next, TL!Commanded, TL!Pause
  <2>5. CASE cmd.kind \in {"seek", "media"}
    BY <1>1, <1>2, <2>1, <2>2, <2>3, <2>5 DEF TL!Next, TL!Commanded, TL!Jump
  <2> QED BY <1>1, <1>5, <2>4, <2>5 DEF CommandKind
<1> QED BY <1>4, <1>5

LEMMA TimelineStep ==
  ASSUME TypeOK, NeverBeforeStart, ScheduleInOrder, Seamless, [Next]_vars
  PROVE  Seamless' /\ [TL!Next]_TL!vars
<1>0. /\ Types /\ TimebaseType /\ now \in Int /\ SweepLag \in Nat
      /\ members \in SUBSET Member /\ rtt \in RttMap
  BY TypesIsTypeOK, BoundsAssumption DEF Types
<1>1. ASSUME Passes PROVE Seamless' /\ TL!Next
  <2>1. /\ committed' = committed /\ upcoming' = upcoming /\ now' = now + 1
        /\ seq' = seq /\ lastCmdWhen' = lastCmdWhen /\ sent' = {}
    BY <1>1 DEF Passes, timebaseVars
  <2>2. Standing(now)' = Standing(now + 1)
    BY <2>1 DEF Standing
  <2>3. InOrder(upcoming)
    BY ScheduleInOrderParts
  <2>4. Standing(now)' \in Standing(now) .. Standing(now) + 1
    BY <1>0, <2>2, <2>3, TimeFlows DEF TimebaseType
  <2>5. Seamless'
    <3>1. \A i \in 1 .. Len(upcoming) : upcoming[i].at > now + 1 => upcoming[i].at > now
      <4>1. \A i \in 1 .. Len(upcoming) : upcoming[i].at \in Int
        BY <1>0, Lines DEF TimebaseType
      <4> QED BY <1>0, <4>1
    <3> QED BY <2>1, <3>1 DEF Seamless, Joined, Agreeing
  <2>6. AppliedKind' = "none"
    BY <2>1, KindApplied DEF AppliedKind, KindOf
  <2>7. now' > now /\ Standing(now)' \in Standing(now) .. Standing(now) + (now' - now)
    BY <1>0, <2>1, <2>4
  <2> QED BY <2>1, <2>5, <2>6, <2>7 DEF TL!Next, TL!Flow
<1>2. ASSUME NEW m \in Member, Join(m) PROVE Seamless' /\ TL!Next
  BY <1>2, OthersLeaveIt DEF Join
<1>3. ASSUME NEW m \in Member, Leave(m) PROVE Seamless' /\ TL!Next
  <2> DEFINE ms == members \ {m}
  <2>1. /\ ReleaseAndAnnounce(now, ms, rtt', gate', HeldAfter(ms), {})
        /\ rtt' = [rtt EXCEPT ![m] = NoRtt] /\ now' = now
    BY <1>3 DEF Leave
  <2>2. ms \in SUBSET Member /\ rtt' \in RttMap /\ {} \in SUBSET {"resync"} /\ now <= now + SweepLag
    BY <1>0, <2>1 DEF RttMap
  <2> HIDE DEF ms
  <2> QED BY <1>0, <2>1, <2>2, ReleaseImplements
<1>4. ASSUME NEW m \in Member, NEW cmd \in Command, RefuseCmd(m, cmd) PROVE Seamless' /\ TL!Next
  <2>1. sent' \cap CommandKind = {}
    BY <1>4 DEF RefuseCmd, Refusals, CommandKind
  <2> QED BY <1>4, <2>1, OthersLeaveIt DEF RefuseCmd
<1>5. ASSUME NEW m \in Member, NEW cmd \in Command, HoldPlay(m, cmd) PROVE Seamless' /\ TL!Next
  BY <1>5, OthersLeaveIt DEF HoldPlay
<1>6. ASSUME NEW m \in Member, NEW cmd \in Command, ApplyCmd(m, cmd) PROVE Seamless' /\ TL!Next
  BY <1>6, CmdImplements
<1>7. ASSUME NEW m \in Member, NEW rep \in Report, NEW applied, OnReport(m, rep, applied)
      PROVE  Seamless' /\ TL!Next
  <2> DEFINE answers == IF Resyncs(rep, applied, now) THEN {"resync"} ELSE {}
  <2>1. ReleaseAndAnnounce(now, members, rtt', gate', held, answers) /\ now' = now
    BY <1>7 DEF OnReport
  <2>2. rtt' = [rtt EXCEPT ![m] = rep.rtt] /\ rep.rtt \in 0 .. MaxRtt
    BY <1>7, ReportAssumption DEF OnReport
  <2>3. rtt' \in RttMap /\ answers \in SUBSET {"resync"} /\ now <= now + SweepLag
    BY <1>0, <2>2 DEF RttMap
  <2> HIDE DEF answers
  <2> QED BY <1>0, <2>1, <2>3, ReleaseImplements
<1>8. ASSUME NEW t \in SweepReadings, Tick(t) PROVE Seamless' /\ TL!Next
  <2>1. /\ ReleaseAndAnnounce(t, members, rtt, gate', held, {}) /\ now' = now
        /\ {} \in SUBSET {"resync"}
    BY <1>8 DEF Tick
  <2>2. t \in Int /\ t <= now /\ now <= t + SweepLag
    BY <1>0 DEF SweepReadings
  <2> QED BY <1>0, <2>1, <2>2, ReleaseImplements
<1>9. CASE Next
  BY <1>1, <1>2, <1>3, <1>4, <1>5, <1>6, <1>7, <1>8, <1>9 DEF Next
<1>10. CASE UNCHANGED vars
  <2>1. /\ now' = now /\ seq' = seq /\ committed' = committed /\ upcoming' = upcoming
        /\ lastCmdWhen' = lastCmdWhen /\ sent' = sent
    BY <1>10 DEF vars
  <2>2. Standing(now)' = Standing(now) /\ AppliedKind' = AppliedKind
    BY <2>1 DEF Standing, AppliedKind
  <2> QED BY <2>1, <2>2 DEF TL!vars, Seamless, Joined, Agreeing
<1> QED BY <1>9, <1>10

(* The room implements Timeline: every command takes one seq at one         *)
(* instant; a play moves nobody, a pause stops everybody where they are, a  *)
(* seek and a media command land at once; between commands the room stands  *)
(* still or runs, and never jumps, however many lines it moves onto (apply, *)
(* commit, committedAt, committedPosition).                                 *)
THEOREM RoomImplementsTimeline == Spec => ImplementsTimeline
<1>1. Init => Seamless /\ TL!Init
  <2> SUFFICES ASSUME Init PROVE Seamless /\ TL!Init
    OBVIOUS
  <2>1. Seamless /\ Standing(now) = 0
    BY SeamlessInit
  <2>2. now = 0 /\ seq = 0 /\ lastCmdWhen = 0 /\ sent = {}
    BY DEF Init
  <2>3. AppliedKind = "none"
    BY <2>2, KindApplied DEF AppliedKind, KindOf
  <2> QED BY <2>1, <2>2, <2>3 DEF TL!Init
<1>2. TypeOK /\ NeverBeforeStart /\ ScheduleInOrder /\ Seamless /\ [Next]_vars => Seamless'
  BY TimelineStep
<1>3. TypeOK /\ NeverBeforeStart /\ ScheduleInOrder /\ Seamless /\ [Next]_vars
        => [TL!Next]_TL!vars
  BY TimelineStep
<1>4. Spec => []Seamless
  BY <1>1, <1>2, TypeCorrect, RoomNeverBeforeStart, RoomScheduleInOrder, PTL DEF Spec
<1> QED BY <1>1, <1>3, <1>4, TypeCorrect, RoomNeverBeforeStart, RoomScheduleInOrder, PTL
        DEF Spec, ImplementsTimeline, TL!Spec
=============================================================================
