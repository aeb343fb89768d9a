-------------------------- MODULE ConnectionProofs --------------------------
(***************************************************************************)
(* What is proved of a connection's two ends.                              *)
(*                                                                         *)
(* Of the registry (Hub), for any number of rooms, visitors and secrets,   *)
(* every TTL and every reading of the clock a sweep works with: nobody is  *)
(* in a room that cannot be found, nobody enters on an old link or into a  *)
(* full room, and a room goes only when its time is over.                  *)
(*                                                                         *)
(* Of an engine's session (Link), for any number of ports, faults and      *)
(* silent probes: the extension's port and worker implement what an engine *)
(* counts on from a transport, and nothing starts after stop().            *)
(*                                                                         *)
(* Of the estimate of the server's clock (Clock), for any samples: it      *)
(* never steps without the offset moving, and finds out when it has.       *)
(***************************************************************************)
EXTENDS Hub, Link, Clock, FiniteSetTheorems, SequenceTheorems, WellFoundedInduction, TLAPS

(***************************************************************************)
(* The inductive invariant.  The sweeper judges a room by what it finds    *)
(* under the room's mutex when it deletes (StillDoomed), so nothing need   *)
(* be said of what it saw before.  What it takes is that being in a room   *)
(* and being counted there are the same; that a room which was ever made   *)
(* is in the registry or marked dead, and never both; and that whoever is  *)
(* on the way into a room holds one that was made.                         *)
(***************************************************************************)
HoldsARoom ==
  \A v \in Visitor : visit[v].at # "outside" =>
    visit[v].room \in RoomId /\ visit[v].room \in rooms \cup dead

InItsRoomOnly ==
  \A v \in Visitor, r \in RoomId :
    v \in conns[r] <=> visit[v].at = "joined" /\ visit[v].room = r

Accounted ==
  /\ \A r \in RoomId : r \in rooms \cup dead => secret[r] # 0
  /\ rooms \cap dead = {}

Countable == \A r \in RoomId : IsFiniteSet(conns[r])

HubInv == /\ TypeOK /\ HoldsARoom /\ InItsRoomOnly /\ Accounted /\ Countable
          /\ NoGhostRoom

LEMMA HubInit == Init => HubInv
<1> SUFFICES ASSUME Init PROVE HubInv
  OBVIOUS
<1> USE DEF Init
<1>1. TypeOK
  BY HubAssumption DEF TypeOK, Outside, Idle
<1>2. HoldsARoom /\ InItsRoomOnly /\ NoGhostRoom
  BY DEF HoldsARoom, InItsRoomOnly, NoGhostRoom, Outside
<1>3. Accounted
  BY DEF Accounted
<1>4. Countable
  BY FS_EmptySet DEF Countable
<1> QED BY <1>1, <1>2, <1>3, <1>4 DEF HubInv

(***************************************************************************)
(* Types.                                                                  *)
(***************************************************************************)
LEMMA HubTypes == TypeOK /\ HoldsARoom /\ [Next]_vars => TypeOK'
<1> SUFFICES ASSUME TypeOK, HoldsARoom, [Next]_vars PROVE TypeOK'
  OBVIOUS
<1> USE HubAssumption DEF TypeOK, roomVars
<1>1. CASE Passes
  BY <1>1 DEF Passes
<1>2. ASSUME NEW r \in RoomId, Create(r) PROVE TypeOK'
  BY <1>2 DEF Create
<1>3. ASSUME NEW v \in Visitor, NEW r \in RoomId, NEW s \in 1 .. MaxSecret, Find(v, r, s)
      PROVE  TypeOK'
  BY <1>3 DEF Find
<1>4. ASSUME NEW v \in Visitor, CheckSecret(v) PROVE TypeOK'
  BY <1>4 DEF CheckSecret, Outside
<1>5. ASSUME NEW v \in Visitor, Join(v) PROVE TypeOK'
  <2>1. visit[v].room \in RoomId
    BY <1>5 DEF Join, HoldsARoom
  <2> QED BY <1>5, <2>1 DEF Join
<1>6. ASSUME NEW v \in Visitor, Refused(v) PROVE TypeOK'
  BY <1>6 DEF Refused, Outside
<1>7. ASSUME NEW v \in Visitor, Leave(v) PROVE TypeOK'
  <2>1. visit[v].room \in RoomId
    BY <1>7 DEF Leave, HoldsARoom
  <2> QED BY <1>7, <2>1 DEF Leave, EmptySince, Outside
<1>8. ASSUME NEW v \in Visitor, Rotate(v) PROVE TypeOK'
  <2>1. visit[v].room \in RoomId
    BY <1>8 DEF Rotate, HoldsARoom
  <2> QED BY <1>8, <2>1 DEF Rotate
<1>9. CASE Sweeper
  <2>1. CASE SweepRead
    <3>1. sweep' = [phase |-> "read", read |-> now, todo |-> {}, doomed |-> {}]
      BY <2>1 DEF SweepRead, Idle
    <3> QED BY <2>1, <3>1 DEF SweepRead
  <2>2. CASE SweepCollect
    BY <2>2 DEF SweepCollect
  <2>3. CASE SweepLooked
    <3>1. \/ sweep' = Idle
          \/ sweep' = [phase |-> "deleting", read |-> sweep.read, todo |-> sweep.doomed,
                       doomed |-> {}]
      BY <2>3 DEF SweepLooked
    <3> QED BY <2>3, <3>1 DEF SweepLooked, Idle
  <2>4. CASE SweepDone
    BY <2>4 DEF SweepDone, Idle
  <2>5. ASSUME NEW r \in RoomId, SweepLook(r) PROVE TypeOK'
    BY <2>5 DEF SweepLook
  <2>6. ASSUME NEW r \in RoomId, SweepDelete(r) PROVE TypeOK'
    BY <2>6 DEF SweepDelete
  <2> QED BY <1>9, <2>1, <2>2, <2>3, <2>4, <2>5, <2>6 DEF Sweeper
<1>10. CASE UNCHANGED vars
  BY <1>10 DEF vars
<1> QED
  BY <1>1, <1>2, <1>3, <1>4, <1>5, <1>6, <1>7, <1>8, <1>9, <1>10 DEF Next

(***************************************************************************)
(* The rest of the invariant.  Only six kinds of step touch what it speaks *)
(* of: a room is made, found, entered, left or deleted, or its secret is   *)
(* replaced; every other step leaves registry and visitors alone.          *)
(***************************************************************************)
LEMMA HubStep == HubInv /\ [Next]_vars => HubInv'
<1> SUFFICES ASSUME HubInv, [Next]_vars PROVE HubInv'
  OBVIOUS
<1> DEFINE Rest == HoldsARoom /\ InItsRoomOnly /\ Accounted /\ Countable /\ NoGhostRoom
<1>0. TypeOK /\ HoldsARoom /\ InItsRoomOnly /\ Accounted /\ Countable /\ NoGhostRoom
  BY DEF HubInv
<1>t. TypeOK'
  BY <1>0, HubTypes
<1>v. /\ visit \in [Visitor -> [at : {"outside", "found", "checked", "joined"},
                               room : RoomId \cup {Nowhere}, secret : 0 .. MaxSecret]]
      /\ conns \in [RoomId -> SUBSET Visitor]
      /\ secret \in [RoomId -> 0 .. MaxSecret]
      /\ rooms \subseteq RoomId /\ dead \subseteq RoomId
  BY <1>0 DEF TypeOK
<1>k. ASSUME UNCHANGED <<rooms, dead, conns, visit>>, \A r \in RoomId : secret[r] # 0 => secret'[r] # 0
      PROVE  Rest'
  BY <1>0, <1>k, <1>v DEF HoldsARoom, InItsRoomOnly, Accounted, Countable, NoGhostRoom
<1>1. ASSUME NEW r \in RoomId, Create(r) PROVE Rest'
  <2>1. /\ rooms' = rooms \cup {r} /\ UNCHANGED <<dead, conns, visit>>
        /\ secret[r] = 0 /\ secret' = [secret EXCEPT ![r] = 1]
    BY <1>1 DEF Create
  <2>2. r \notin dead
    BY <1>0, <2>1 DEF Accounted
  <2> QED
    BY <1>0, <1>v, <2>1, <2>2 DEF HoldsARoom, InItsRoomOnly, Accounted, Countable, NoGhostRoom
(* A visitor outside comes to hold a room of the registry; or one on its   *)
(* way is turned away, or has its secret accepted.                         *)
<1>2. ASSUME NEW v \in Visitor, \A u \in Visitor \ {v} : visit'[u] = visit[u],
             UNCHANGED <<rooms, dead, conns, secret>>,
             visit[v].at # "joined", visit'[v].at # "joined",
             visit'[v].at # "outside" =>
               \/ visit'[v].room \in rooms
               \/ visit[v].at # "outside" /\ visit'[v].room = visit[v].room
      PROVE  Rest'
  <2>1. Countable' /\ Accounted'
    BY <1>0, <1>2, <1>v DEF Accounted, Countable
  <2>2. HoldsARoom'
    BY <1>0, <1>2, <1>v DEF HoldsARoom
  <2>3. InItsRoomOnly' /\ NoGhostRoom'
    BY <1>0, <1>2, <1>v DEF InItsRoomOnly, NoGhostRoom
  <2> QED BY <2>1, <2>2, <2>3
<1>3. ASSUME NEW v \in Visitor, NEW r \in RoomId, NEW s \in 1 .. MaxSecret, Find(v, r, s)
      PROVE  Rest'
  <2>1. /\ visit[v].at = "outside"
        /\ visit' = [visit EXCEPT ![v] = [at |-> "found", room |-> r, secret |-> s]]
        /\ r \in rooms /\ UNCHANGED <<rooms, dead, conns, secret>>
    BY <1>3 DEF Find, roomVars, Outside
  <2>2. visit'[v].at = "found" /\ visit'[v].room = r
    BY <1>v, <2>1
  <2> QED BY <1>2, <1>v, <2>1, <2>2
<1>4. ASSUME NEW v \in Visitor, CheckSecret(v) PROVE Rest'
  <2>1. /\ visit[v].at = "found"
        /\ visit'[v].at # "joined"
        /\ visit'[v].at # "outside" => visit'[v].room = visit[v].room
        /\ \A u \in Visitor \ {v} : visit'[u] = visit[u]
    BY <1>4, <1>v DEF CheckSecret, Outside
  <2> QED BY <1>2, <1>4, <2>1 DEF CheckSecret, roomVars
<1>5. ASSUME NEW v \in Visitor, Refused(v) PROVE Rest'
  <2>1. /\ visit[v].at = "checked" /\ visit'[v].at = "outside"
        /\ \A u \in Visitor \ {v} : visit'[u] = visit[u]
    BY <1>5, <1>v DEF Refused, Outside
  <2> QED BY <1>2, <1>5, <2>1 DEF Refused, roomVars
<1>6. ASSUME NEW v \in Visitor, Join(v) PROVE Rest'
  <2> DEFINE r == visit[v].room
  <2>1. /\ r \in RoomId /\ r \in rooms
        /\ visit[v].at = "checked"
        /\ conns' = [conns EXCEPT ![r] = @ \cup {v}]
        /\ visit' = [visit EXCEPT ![v].at = "joined"]
        /\ UNCHANGED <<rooms, dead, secret>>
    BY <1>0, <1>6 DEF Join, Admits, HoldsARoom
  <2> HIDE DEF r
  <2>2. IsFiniteSet(conns[r] \cup {v})
    BY <1>0, <2>1, FS_AddElement DEF Countable
  <2>3. visit'[v].at = "joined" /\ visit'[v].room = r
    BY <1>v, <2>1 DEF r
  <2>4. Countable' /\ Accounted'
    BY <1>0, <1>v, <2>1, <2>2 DEF Countable, Accounted
  <2>5. HoldsARoom' /\ NoGhostRoom' /\ InItsRoomOnly'
    BY <1>0, <1>v, <2>1, <2>3 DEF HoldsARoom, InItsRoomOnly, NoGhostRoom
  <2> QED BY <2>4, <2>5
<1>7. ASSUME NEW v \in Visitor, Leave(v) PROVE Rest'
  <2> DEFINE r == visit[v].room
  <2>1. /\ r \in RoomId
        /\ conns' = [conns EXCEPT ![r] = @ \ {v}]
        /\ visit' = [visit EXCEPT ![v] = Outside]
        /\ visit[v].at = "joined"
        /\ UNCHANGED <<rooms, dead, secret>>
    BY <1>0, <1>7 DEF Leave, HoldsARoom
  <2> HIDE DEF r
  <2>2. IsFiniteSet(conns[r] \ {v})
    BY <1>0, <2>1, FS_RemoveElement DEF Countable
  <2>3. visit'[v].at = "outside" /\ visit[v].room = r
    BY <1>v, <2>1 DEF Outside, r
  <2>4. Countable' /\ Accounted'
    BY <1>0, <1>v, <2>1, <2>2 DEF Countable, Accounted
  <2>5. HoldsARoom' /\ NoGhostRoom' /\ InItsRoomOnly'
    BY <1>0, <1>v, <2>1, <2>3 DEF HoldsARoom, InItsRoomOnly, NoGhostRoom
  <2> QED BY <2>4, <2>5
<1>8. ASSUME NEW v \in Visitor, Rotate(v) PROVE Rest'
  <2>1. visit[v].room \in RoomId
    BY <1>0, <1>8 DEF Rotate, HoldsARoom
  <2>2. \A r \in RoomId : secret[r] # 0 => secret'[r] # 0
    BY <1>8, <1>v, <2>1 DEF Rotate
  <2> QED BY <1>8, <1>k, <2>2 DEF Rotate
<1>9. ASSUME NEW r \in RoomId, SweepDelete(r) PROVE Rest'
  <2>1. CASE r \in rooms /\ StillDoomed(r)
    <3>1. /\ dead' = dead \cup {r} /\ rooms' = rooms \ {r}
          /\ UNCHANGED <<conns, visit, secret>> /\ conns[r] = {}
      BY <1>9, <2>1 DEF SweepDelete, StillDoomed, IdleTooLong
    <3>2. \A v \in Visitor : visit[v].at = "joined" => visit[v].room # r
      BY <1>0, <3>1 DEF InItsRoomOnly
    <3> QED
      BY <1>0, <1>v, <2>1, <3>1, <3>2
      DEF HoldsARoom, InItsRoomOnly, Accounted, Countable, NoGhostRoom
  <2>2. CASE ~(r \in rooms /\ StillDoomed(r))
    BY <1>9, <1>k, <2>2 DEF SweepDelete
  <2> QED BY <2>1, <2>2
<1>10. ASSUME \/ Passes \/ SweepRead \/ SweepCollect \/ SweepLooked \/ SweepDone
              \/ \E r \in RoomId : SweepLook(r)
       PROVE  Rest'
  <2>1. UNCHANGED roomVars /\ UNCHANGED visit
    BY <1>10 DEF Passes, SweepRead, SweepCollect, SweepLooked, SweepDone, SweepLook
  <2> QED BY <1>k, <2>1 DEF roomVars
<1>11. ASSUME UNCHANGED vars PROVE Rest'
  BY <1>k, <1>11 DEF vars
<1> QED
  <2>1. Rest'
    BY <1>1, <1>3, <1>4, <1>5, <1>6, <1>7, <1>8, <1>9, <1>10, <1>11 DEF Next, Sweeper
  <2> QED BY <1>t, <2>1 DEF HubInv

LEMMA HubCorrect == Spec => []HubInv
BY HubInit, HubStep, PTL DEF Spec

(* Nobody is in a room that others can no longer find, whatever the sweeper *)
(* did while they were on their way in (Live.dead, asked again by join).   *)
THEOREM HubNoGhostRoom == Spec => []NoGhostRoom
<1>1. HubInv => NoGhostRoom
  BY DEF HubInv
<1> QED BY <1>1, HubCorrect, PTL

(* Whoever enters a room enters on its secret of that moment, and no room  *)
(* ever holds more than MaxMembers who entered it so (join).               *)
THEOREM HubAdmittedAsOfNow == Spec => AdmittedAsOfNow
<1> DEFINE A == \A v \in Visitor : visit'[v].at = "joined" /\ visit[v].at # "joined" =>
                  /\ visit[v].secret = secret[visit[v].room]
                  /\ Cardinality(conns'[visit[v].room]) <= MaxMembers
<1>1. HubInv /\ [Next]_vars => [A]_vars
  <2> SUFFICES ASSUME HubInv, Next, NEW v \in Visitor,
                      visit'[v].at = "joined", visit[v].at # "joined"
               PROVE  /\ visit[v].secret = secret[visit[v].room]
                      /\ Cardinality(conns'[visit[v].room]) <= MaxMembers
    OBVIOUS
  <2> DEFINE r == visit[v].room
  <2>0. /\ visit \in [Visitor -> [at : {"outside", "found", "checked", "joined"},
                                  room : RoomId \cup {Nowhere}, secret : 0 .. MaxSecret]]
        /\ HoldsARoom /\ Countable /\ conns \in [RoomId -> SUBSET Visitor]
    BY DEF HubInv, TypeOK
  (* Only its own join takes a visitor in. *)
  <2>1. Join(v)
    <3>1. ASSUME NEW w \in Visitor, NEW q \in RoomId, NEW s \in 1 .. MaxSecret, Find(w, q, s)
          PROVE  FALSE
      BY <2>0, <3>1 DEF Find
    <3>2. ASSUME NEW w \in Visitor, CheckSecret(w) \/ Refused(w) \/ Leave(w)
          PROVE  FALSE
      BY <2>0, <3>2 DEF CheckSecret, Refused, Leave, Outside
    <3>3. ASSUME NEW w \in Visitor, Join(w) PROVE w = v
      BY <2>0, <3>3 DEF Join
    <3>4. ASSUME NEW w \in Visitor, Rotate(w) PROVE FALSE
      BY <2>0, <3>4 DEF Rotate
    <3>5. ASSUME NEW q \in RoomId, Create(q) \/ SweepLook(q) \/ SweepDelete(q) PROVE FALSE
      BY <2>0, <3>5 DEF Create, SweepLook, SweepDelete
    <3>6. ~(Passes \/ SweepRead \/ SweepCollect \/ SweepLooked \/ SweepDone)
      BY <2>0 DEF Passes, SweepRead, SweepCollect, SweepLooked, SweepDone
    <3> QED BY <3>1, <3>2, <3>3, <3>4, <3>5, <3>6 DEF Next, Sweeper
  <2>2. /\ r \in RoomId /\ secret[r] = visit[v].secret
        /\ ~(Cardinality(conns[r]) >= MaxMembers)
        /\ conns'[r] = conns[r] \cup {v}
    BY <2>0, <2>1 DEF Join, Admits, Full, HoldsARoom
  <2> HIDE DEF r
  <2>3. IsFiniteSet(conns[r])
    BY <2>0, <2>2 DEF Countable
  <2>4. Cardinality(conns[r]) \in Nat
    BY <2>3, FS_CardinalityType
  <2>5. \/ Cardinality(conns'[r]) = Cardinality(conns[r])
        \/ Cardinality(conns'[r]) = Cardinality(conns[r]) + 1
    BY <2>2, <2>3, FS_AddElement
  <2> QED BY <2>2, <2>4, <2>5, HubAssumption DEF r
<1>2. []HubInv /\ [][Next]_vars => [][A]_vars
  BY <1>1, PTL
<1> QED BY <1>2, HubCorrect, PTL DEF Spec, AdmittedAsOfNow

(* A room leaves the registry only when it has stood empty for longer than *)
(* IdleTTL by the clock of that moment, however old the reading that the   *)
(* sweep judges by (hub.go sweep).                                         *)
THEOREM HubKeptForTheTTL == Spec => KeptForTheTTL
<1> DEFINE A == \A r \in rooms \ rooms' : conns[r] = {} /\ now - empty[r] > IdleTTL
<1>1. HubInv /\ [Next]_vars => [A]_vars
  <2> SUFFICES ASSUME HubInv, Next, NEW r \in rooms \ rooms'
               PROVE  conns[r] = {} /\ now - empty[r] > IdleTTL
    OBVIOUS
  <2>0. /\ now \in Nat /\ r \in RoomId
        /\ empty[r] \in Nat /\ sweep.read \in 0 .. now
    BY HubAssumption DEF HubInv, TypeOK
  <2>1. SweepDelete(r) /\ StillDoomed(r)
    <3>1. ASSUME NEW q \in RoomId, SweepDelete(q) PROVE q = r /\ StillDoomed(q)
      BY <3>1 DEF SweepDelete
    <3>2. ASSUME NEW q \in RoomId, Create(q) \/ SweepLook(q) PROVE FALSE
      BY <3>2 DEF Create, SweepLook, roomVars
    <3>3. ASSUME NEW v \in Visitor, NEW q \in RoomId, NEW s \in 1 .. MaxSecret, Find(v, q, s)
          PROVE  FALSE
      BY <3>3 DEF Find, roomVars
    <3>4. ASSUME NEW v \in Visitor,
                 CheckSecret(v) \/ Join(v) \/ Refused(v) \/ Leave(v) \/ Rotate(v)
          PROVE  FALSE
      BY <3>4 DEF CheckSecret, Join, Refused, Leave, Rotate, roomVars
    <3>5. CASE Passes \/ SweepRead \/ SweepCollect \/ SweepLooked \/ SweepDone
      BY <3>5 DEF Passes, SweepRead, SweepCollect, SweepLooked, SweepDone, roomVars
    <3> QED BY <3>1, <3>2, <3>3, <3>4, <3>5 DEF Next, Sweeper
  <2>2. conns[r] = {} /\ sweep.read - empty[r] > IdleTTL
    BY <2>1 DEF StillDoomed, IdleTooLong
  <2> QED BY <2>0, <2>2, HubAssumption
<1>2. []HubInv /\ [][Next]_vars => [][A]_vars
  BY <1>1, PTL
<1> QED BY <1>2, HubCorrect, PTL DEF Spec, KeptForTheTTL

-----------------------------------------------------------------------------
(***************************************************************************)
(* What the port that PortTransport holds has on its way to the engine,    *)
(* which was told `at`: it opens once, frames come after that, and a       *)
(* socket that is open has said so.  "open" is taken by the worker before  *)
(* there is a socket.                                                      *)
(***************************************************************************)
Frames == {"welcome", "time.reply", "refused"}
Opens(d) == \E i \in 1..Len(d) : d[i] = "open.ok"

FramesFollow(d, at) ==
  \A i \in 1..Len(d) : d[i] \in Frames => at = "open" \/ \E j \in 1..(i - 1) : d[j] = "open.ok"
OpensOnce(d, at) ==
  \A i \in 1..Len(d) : d[i] = "open.ok" =>
    at = "opening" /\ \A j \in 1..Len(d) : d[j] = "open.ok" => j = i
SocketSays(d, at, ws) ==
  /\ ws \in {"none", "opening"} => at = "opening" /\ ~Opens(d)
  /\ ws = "open" => at = "open" \/ Opens(d)
OpenComesFirst(u, ws) == \A i \in 1..Len(u) : u[i] = "open" => i = 1 /\ ws = "none"

Carries(x, at) ==
  /\ x.tab = "open"
  /\ FramesFollow(x.down, at) /\ OpensOnce(x.down, at) /\ SocketSays(x.down, at, x.ws)
  /\ OpenComesFirst(x.up, x.ws)

(* Where the transport is in use the engine has been told of a connection. *)
PortsFit(pipes, t, at) ==
  /\ pipes \in [Port -> Pipe]
  /\ t \in [port : Port \cup {NoPort}, closing : BOOLEAN]
  /\ at \in {"idle", "opening", "open"}
  /\ \A p \in Port : pipes[p].tab = "none" => pipes[p] = Unmade
  /\ t.port # NoPort => at # "idle" /\ Carries(pipes[t.port], at)

(* While it is, the engine does not connect: no attempt is armed, and the  *)
(* request for the newest one is over.                                     *)
Session ==
  [status : Statuses, running : BOOLEAN, gen : Nat, retry : BOOLEAN, timer : BOOLEAN,
   silent : 0..SilentProbes]
Asks == [Attempt -> {"none", "asked", "slow", "late", "over"}]

Pending(e, as) == e.running /\ e.gen \in Attempt /\ as[e.gen] \in {"asked", "slow"}
EngineFits(e, as, at) ==
  /\ e \in Session /\ as \in Asks
  /\ e.retry => at = "idle"
  /\ e.timer => at = "open"
  /\ Pending(e, as) => at = "idle" /\ ~e.retry
  /\ \A g \in Attempt : g > e.gen => as[g] = "none"

Stopped(e, t) == ~e.running => t.port = NoPort /\ ~e.retry /\ ~e.timer /\ e.status = "closed"

LinkInv ==
  /\ PortsFit(pipe, tr, heard.at) /\ EngineFits(eng, asks, heard.at) /\ Stopped(eng, tr)

-----------------------------------------------------------------------------
(* Messages on their way. *)

LEMMA PipeFields ==
  ASSUME NEW x \in Pipe
  PROVE  /\ x.up \in Seq(ToWorker) /\ x.down \in Seq(FromWorker)
         /\ x.tab \in {"none", "open", "gone"} /\ x.worker \in {"open", "gone"}
         /\ x.ws \in {"none", "opening", "open", "let go"} /\ x.dark \in BOOLEAN
         /\ x = [tab |-> x.tab, worker |-> x.worker, up |-> x.up, down |-> x.down,
                 ws |-> x.ws, dark |-> x.dark]
BY DEF Pipe

(* What follows on d, when no socket opens by it. *)
LEMMA FollowsOn ==
  ASSUME NEW d \in Seq(FromWorker), NEW ms \in Seq(FromWorker), NEW at,
         FramesFollow(d, at), OpensOnce(d, at),
         \A i \in 1..Len(ms) : ms[i] # "open.ok",
         at = "open" \/ Opens(d) \/ \A i \in 1..Len(ms) : ms[i] \notin Frames
  PROVE  /\ FramesFollow(d \o ms, at) /\ OpensOnce(d \o ms, at)
         /\ Opens(d \o ms) <=> Opens(d)
<1> DEFINE e == d \o ms
<1>1. /\ Len(e) = Len(d) + Len(ms) /\ Len(d) \in Nat /\ Len(ms) \in Nat
      /\ \A i \in 1..Len(e) : e[i] = IF i <= Len(d) THEN d[i] ELSE ms[i - Len(d)]
  BY ConcatProperties, LenProperties
<1> HIDE DEF e
<1>2. /\ \A i \in 1..Len(d) : i \in 1..Len(e) /\ e[i] = d[i]
      /\ \A i \in 1..Len(e) : i \in 1..Len(d) \/ (i - Len(d) \in 1..Len(ms) /\ e[i] = ms[i - Len(d)])
  BY <1>1
<1>3. \A i \in 1..Len(e) : e[i] = "open.ok" => i \in 1..Len(d) /\ d[i] = "open.ok"
  BY <1>2
<1>4. FramesFollow(e, at)
  <2> SUFFICES ASSUME NEW i \in 1..Len(e), e[i] \in Frames, at # "open"
               PROVE  \E j \in 1..(i - 1) : e[j] = "open.ok"
    BY DEF FramesFollow
  <2>1. CASE i \in 1..Len(d)
    <3>1. PICK j \in 1..(i - 1) : d[j] = "open.ok"
      BY <2>1, <1>2 DEF FramesFollow
    <3> QED BY <3>1, <2>1, <1>2, <1>1
  <2>2. CASE i \notin 1..Len(d)
    <3>1. PICK j \in 1..Len(d) : d[j] = "open.ok"
      BY <2>2, <1>2 DEF Opens
    <3> QED BY <3>1, <2>2, <1>2, <1>1
  <2> QED BY <2>1, <2>2
<1>5. OpensOnce(e, at)
  BY <1>2, <1>3 DEF OpensOnce
<1>6. Opens(e) <=> Opens(d)
  BY <1>2, <1>3 DEF Opens
<1> QED BY <1>4, <1>5, <1>6 DEF e

(* The socket opens, and says so. *)
LEMMA OpensNow ==
  ASSUME NEW d \in Seq(FromWorker), FramesFollow(d, "opening"), ~Opens(d)
  PROVE  LET e == d \o <<"open.ok">> IN
         FramesFollow(e, "opening") /\ OpensOnce(e, "opening") /\ Opens(e)
<1> DEFINE e == d \o <<"open.ok">>
<1>1. /\ Len(e) = Len(d) + 1 /\ Len(d) \in Nat
      /\ \A i \in 1..Len(e) : e[i] = IF i <= Len(d) THEN d[i] ELSE "open.ok"
  <2>1. <<"open.ok">> \in Seq(FromWorker) /\ Len(<<"open.ok">>) = 1
    BY DEF FromWorker
  <2>2. /\ Len(e) = Len(d) + Len(<<"open.ok">>)
        /\ \A i \in 1..(Len(d) + 1) : e[i] = IF i <= Len(d) THEN d[i] ELSE <<"open.ok">>[i - Len(d)]
    BY <2>1, ConcatProperties
  <2> QED BY <2>1, <2>2, LenProperties
<1> HIDE DEF e
<1>2. \A i \in 1..Len(e) : e[i] = "open.ok" <=> i = Len(d) + 1
  BY <1>1 DEF Opens
<1>3. FramesFollow(e, "opening")
  <2> SUFFICES ASSUME NEW i \in 1..Len(e), e[i] \in Frames
               PROVE  \E j \in 1..(i - 1) : e[j] = "open.ok"
    BY DEF FramesFollow
  <2>1. i \in 1..Len(d) /\ d[i] \in Frames
    BY <1>1, <1>2 DEF Frames
  <2>2. PICK j \in 1..(i - 1) : d[j] = "open.ok"
    BY <2>1 DEF FramesFollow
  <2> QED BY <2>1, <2>2, <1>1
<1>4. OpensOnce(e, "opening") /\ Opens(e)
  BY <1>1, <1>2 DEF OpensOnce, Opens
<1> QED BY <1>3, <1>4 DEF e

(* What is left when the engine has heard the first of d. *)
LEMMA HeardOne ==
  ASSUME NEW d \in Seq(FromWorker), d # <<>>, NEW at, NEW ws,
         FramesFollow(d, at), OpensOnce(d, at), SocketSays(d, at, ws)
  PROVE  /\ Head(d) \in FromWorker /\ Tail(d) \in Seq(FromWorker)
         /\ Head(d) = "open.ok" => at = "opening"
         /\ Head(d) \in Frames => at = "open"
         /\ Head(d) = "open.ok" \/ Head(d) \in Frames =>
              /\ FramesFollow(Tail(d), "open") /\ OpensOnce(Tail(d), "open")
              /\ SocketSays(Tail(d), "open", ws)
<1> DEFINE e == Tail(d)
<1>1. /\ Len(d) \in Nat /\ Len(d) > 0 /\ Len(e) = Len(d) - 1 /\ e \in Seq(FromWorker)
      /\ Head(d) = d[1] /\ d[1] \in FromWorker /\ \A i \in 1..Len(e) : e[i] = d[i + 1]
  BY HeadTailProperties, EmptySeq, LenProperties, ElementOfSeq
<1> HIDE DEF e
<1>2. d[1] = "open.ok" => at = "opening"
  BY <1>1 DEF OpensOnce
<1>3. d[1] \in Frames => at = "open"
  BY <1>1 DEF FramesFollow
<1>4. ASSUME d[1] = "open.ok" \/ d[1] \in Frames
      PROVE  /\ \A i \in 1..Len(e) : e[i] # "open.ok"
             /\ ws \notin {"none", "opening"}
  <2>1. CASE d[1] = "open.ok"
    <3>1. \A j \in 1..Len(d) : d[j] = "open.ok" => j = 1
      BY <2>1, <1>1 DEF OpensOnce
    <3> QED BY <3>1, <2>1, <1>1 DEF Opens, SocketSays
  <2>2. CASE d[1] \in Frames
    <3>1. \A j \in 1..Len(d) : d[j] # "open.ok"
      BY <2>2, <1>3 DEF OpensOnce
    <3> QED BY <3>1, <2>2, <1>1, <1>3 DEF SocketSays
  <2> QED BY <1>4, <2>1, <2>2
<1>5. d[1] = "open.ok" \/ d[1] \in Frames =>
        FramesFollow(e, "open") /\ OpensOnce(e, "open") /\ SocketSays(e, "open", ws)
  BY <1>4 DEF FramesFollow, OpensOnce, SocketSays
<1> QED BY <1>1, <1>2, <1>3, <1>5 DEF e

(* The messages of the tab's end: the worker takes the first, the tab adds *)
(* one.                                                                    *)
LEMMA TakenOne ==
  ASSUME NEW u \in Seq(ToWorker), u # <<>>, NEW ws, OpenComesFirst(u, ws)
  PROVE  /\ Head(u) \in ToWorker /\ Tail(u) \in Seq(ToWorker)
         /\ Head(u) = "open" => ws = "none"
         /\ \A w : OpenComesFirst(Tail(u), w)
<1> DEFINE e == Tail(u)
<1>1. /\ Len(u) \in Nat /\ Len(u) > 0 /\ Len(e) = Len(u) - 1 /\ e \in Seq(ToWorker)
      /\ Head(u) = u[1] /\ u[1] \in ToWorker /\ \A i \in 1..Len(e) : e[i] = u[i + 1]
  BY HeadTailProperties, EmptySeq, LenProperties, ElementOfSeq
<1> HIDE DEF e
<1>2. u[1] = "open" => ws = "none"
  BY <1>1 DEF OpenComesFirst
<1>3. \A i \in 1..Len(e) : e[i] # "open"
  BY <1>1 DEF OpenComesFirst
<1> QED BY <1>1, <1>2, <1>3 DEF e, OpenComesFirst

LEMMA AddedOne ==
  ASSUME NEW u \in Seq(ToWorker), NEW m \in ToWorker, m # "open", NEW ws, OpenComesFirst(u, ws)
  PROVE  Append(u, m) \in Seq(ToWorker) /\ OpenComesFirst(Append(u, m), ws)
<1> DEFINE e == Append(u, m)
<1>1. /\ Len(u) \in Nat /\ Len(e) = Len(u) + 1 /\ e \in Seq(ToWorker)
      /\ \A i \in 1..Len(u) : e[i] = u[i]
      /\ e[Len(u) + 1] = m
  BY AppendProperties, LenProperties
<1> HIDE DEF e
<1>2. \A i \in 1..Len(e) : e[i] = "open" => i \in 1..Len(u) /\ u[i] = "open"
  BY <1>1
<1> QED BY <1>1, <1>2 DEF e, OpenComesFirst

-----------------------------------------------------------------------------
(* The ports.                                                              *)

(* Only what pipe p is may have changed. *)
Changes(q, p) == q \in [Port -> Pipe] /\ \A r \in Port : r # p => q[r] = pipe[r]

(* g is f but for pipe p, whose parts these are. *)
Becomes(g, f, p, tab, worker, up, down, ws, dark) ==
  /\ g \in [Port -> Pipe] /\ \A r \in Port : r # p => g[r] = f[r]
  /\ g[p].tab = tab /\ g[p].worker = worker /\ g[p].up = up /\ g[p].down = down
  /\ g[p].ws = ws /\ g[p].dark = dark

(* The sets a pipe's parts are in, by name. *)
Tabs == {"none", "open", "gone"}
Ends == {"open", "gone"}
Ups == Seq(ToWorker)
Downs == Seq(FromWorker)
Sockets == {"none", "opening", "open", "let go"}

LEMMA Parts == Pipe = [tab : Tabs, worker : Ends, up : Ups, down : Downs, ws : Sockets, dark : BOOLEAN]
BY DEF Pipe, Tabs, Ends, Ups, Downs, Sockets

LEMMA UpSet ==
  ASSUME NEW f \in [Port -> Pipe], NEW p \in Port, NEW u \in Ups
  PROVE  Becomes([f EXCEPT ![p].up = u], f, p,
                 f[p].tab, f[p].worker, u, f[p].down, f[p].ws, f[p].dark)
BY Parts DEF Becomes

LEMMA DownSet ==
  ASSUME NEW f \in [Port -> Pipe], NEW p \in Port, NEW d \in Downs
  PROVE  Becomes([f EXCEPT ![p].down = d], f, p,
                 f[p].tab, f[p].worker, f[p].up, d, f[p].ws, f[p].dark)
BY Parts DEF Becomes

LEMMA DarkSet ==
  ASSUME NEW f \in [Port -> Pipe], NEW p \in Port, NEW k \in BOOLEAN
  PROVE  Becomes([f EXCEPT ![p].dark = k], f, p,
                 f[p].tab, f[p].worker, f[p].up, f[p].down, f[p].ws, k)
BY Parts DEF Becomes

LEMMA TabSet ==
  ASSUME NEW f \in [Port -> Pipe], NEW p \in Port, NEW t \in Tabs
  PROVE  Becomes([f EXCEPT ![p].tab = t], f, p,
                 t, f[p].worker, f[p].up, f[p].down, f[p].ws, f[p].dark)
BY Parts DEF Becomes

LEMMA TabUpSet ==
  ASSUME NEW f \in [Port -> Pipe], NEW p \in Port, NEW t \in Tabs, NEW u \in Ups
  PROVE  Becomes([f EXCEPT ![p].tab = t, ![p].up = u], f, p,
                 t, f[p].worker, u, f[p].down, f[p].ws, f[p].dark)
BY Parts DEF Becomes

LEMMA TabDownSet ==
  ASSUME NEW f \in [Port -> Pipe], NEW p \in Port, NEW t \in Tabs, NEW d \in Downs
  PROVE  Becomes([f EXCEPT ![p].tab = t, ![p].down = d], f, p,
                 t, f[p].worker, f[p].up, d, f[p].ws, f[p].dark)
BY Parts DEF Becomes

LEMMA SocketDownSet ==
  ASSUME NEW f \in [Port -> Pipe], NEW p \in Port, NEW s \in Sockets, NEW d \in Downs
  PROVE  Becomes([f EXCEPT ![p].ws = s, ![p].down = d], f, p,
                 f[p].tab, f[p].worker, f[p].up, d, s, f[p].dark)
BY Parts DEF Becomes

LEMMA UpTaken ==
  ASSUME NEW f \in [Port -> Pipe], NEW p \in Port, NEW u \in Ups
  PROVE  Becomes([f EXCEPT ![p] = [f[p] EXCEPT !.up = u]], f, p,
                 f[p].tab, f[p].worker, u, f[p].down, f[p].ws, f[p].dark)
BY Parts DEF Becomes

LEMMA UpTakenSocket ==
  ASSUME NEW f \in [Port -> Pipe], NEW p \in Port, NEW u \in Ups, NEW s \in Sockets
  PROVE  Becomes([f EXCEPT ![p] = [[f[p] EXCEPT !.up = u] EXCEPT !.ws = s]], f, p,
                 f[p].tab, f[p].worker, u, f[p].down, s, f[p].dark)
BY Parts DEF Becomes

LEMMA UpTakenAnswered ==
  ASSUME NEW f \in [Port -> Pipe], NEW p \in Port, NEW u \in Ups, NEW d \in Downs, NEW s \in Sockets
  PROVE  Becomes([f EXCEPT ![p] = [[f[p] EXCEPT !.up = u] EXCEPT !.down = d, !.ws = s]], f, p,
                 f[p].tab, f[p].worker, u, d, s, f[p].dark)
BY Parts DEF Becomes

LEMMA OnePipe ==
  ASSUME NEW t, NEW at, PortsFit(pipe, t, at), NEW p \in Port, NEW q, Changes(q, p),
         q[p].tab # "none",
         NEW t2 \in [port : Port \cup {NoPort}, closing : BOOLEAN],
         NEW at2 \in {"idle", "opening", "open"},
         t2.port = p => at2 # "idle" /\ Carries(q[p], at2),
         t2.port \notin {p, NoPort} => t2.port = t.port /\ at2 = at
  PROVE  PortsFit(q, t2, at2)
<1>1. t2.port \in Port \cup {NoPort}
  OBVIOUS
<1>2. \A r \in Port : q[r].tab = "none" => q[r] = Unmade
  BY DEF PortsFit, Changes
<1>3. t2.port # NoPort => at2 # "idle" /\ Carries(q[t2.port], at2)
  BY <1>1 DEF PortsFit, Changes
<1> QED BY <1>2, <1>3 DEF PortsFit, Changes

LEMMA PipeOf ==
  ASSUME NEW t, NEW at, PortsFit(pipe, t, at), NEW p \in Port
  PROVE  /\ pipe[p] \in Pipe /\ pipe \in [Port -> Pipe]
         /\ p # NoPort
         /\ t.port = p => at # "idle" /\ Carries(pipe[p], at)
         /\ t \in [port : Port \cup {NoPort}, closing : BOOLEAN] /\ at \in {"idle", "opening", "open"}
BY PortAssumption DEF PortsFit, NoPort

LEMMA LetGo ==
  ASSUME NEW q, NEW t, NEW at, PortsFit(q, t, at), NEW t2, t2.port = NoPort,
         t2 \in [port : Port \cup {NoPort}, closing : BOOLEAN],
         NEW at2 \in {"idle", "opening", "open"}
  PROVE  PortsFit(q, t2, at2)
BY DEF PortsFit

LEMMA ConnectFits ==
  ASSUME NEW at, PortsFit(pipe, tr, at), TrConnect
  PROVE  PortsFit(pipe', tr', heard'.at) /\ heard'.at = "opening"
<1>1. PICK p \in Unused :
        /\ pipe' = [pipe EXCEPT ![p].tab = "open", ![p].up = <<"open">>]
        /\ tr' = [port |-> p, closing |-> FALSE]
        /\ heard' = [at |-> "opening", last |-> "connect"]
  BY DEF TrConnect, Told
<1>2. p \in Port /\ pipe[p] = Unmade /\ pipe \in [Port -> Pipe] /\ p # NoPort
  BY <1>1, PipeOf DEF PortsFit, Unused
<1> DEFINE u == <<"open">>
<1>3. u \in Seq(ToWorker) /\ OpenComesFirst(u, "none")
  BY DEF ToWorker, OpenComesFirst
<1>4. pipe' = [pipe EXCEPT ![p].tab = "open", ![p].up = u]
  BY <1>1
<1> HIDE DEF u
<1> DEFINE x == pipe[p]
<1>5. Becomes(pipe', pipe, p, "open", x.worker, u, x.down, x.ws, x.dark)
  <2>1. "open" \in Tabs
    BY DEF Tabs
  <2> QED BY <1>2, <1>3, <1>4, <2>1, TabUpSet DEF Ups
<1>6. /\ Changes(pipe', p)
      /\ pipe'[p].tab = "open" /\ pipe'[p].up = u /\ pipe'[p].down = <<>> /\ pipe'[p].ws = "none"
  BY <1>2, <1>5 DEF Becomes, Changes, Unmade
<1>7. Carries(pipe'[p], "opening")
  BY <1>3, <1>6 DEF Carries, FramesFollow, OpensOnce, SocketSays, Opens
<1>8. tr' \in [port : Port \cup {NoPort}, closing : BOOLEAN] /\ tr'.port = p
  BY <1>1, <1>2
<1>9. PortsFit(pipe', tr', "opening")
  BY <1>2, <1>6, <1>7, <1>8, OnePipe
<1> QED BY <1>1, <1>9

(* Up: what the tab sends goes to a worker that is there. *)
LEMMA UpIs ==
  ASSUME pipe \in [Port -> Pipe], NEW p \in Port, NEW m \in ToWorker
  PROVE  /\ Changes(Up(p, m), p)
         /\ Up(p, m)[p].up = IF pipe[p].worker = "open" THEN Append(pipe[p].up, m) ELSE pipe[p].up
         /\ Up(p, m)[p].tab = pipe[p].tab /\ Up(p, m)[p].down = pipe[p].down
         /\ Up(p, m)[p].ws = pipe[p].ws /\ Up(p, m)[p].worker = pipe[p].worker
<1> DEFINE u == IF pipe[p].worker = "open" THEN Append(pipe[p].up, m) ELSE pipe[p].up
<1>1. pipe[p] \in Pipe
  OBVIOUS
<1>2. u \in Seq(ToWorker)
  BY <1>1, PipeFields, AppendProperties
<1>3. Up(p, m) = [pipe EXCEPT ![p].up = u]
  BY DEF Up
<1> HIDE DEF u
<1> DEFINE x == pipe[p]
<1>4. Becomes(Up(p, m), pipe, p, x.tab, x.worker, u, x.down, x.ws, x.dark)
  BY <1>2, <1>3, UpSet DEF Ups
<1> QED BY <1>4 DEF u, Becomes, Changes

LEMMA DisconnectedIs ==
  ASSUME pipe \in [Port -> Pipe], NEW p \in Port
  PROVE  Changes(Disconnected(p), p) /\ Disconnected(p)[p].tab = "gone"
<1> DEFINE q == Up(p, "disconnect")
           d == <<>>
<1>1. q \in [Port -> Pipe] /\ \A r \in Port : r # p => q[r] = pipe[r]
  BY UpIs DEF ToWorker, Changes
<1>2. Disconnected(p) = [q EXCEPT ![p].tab = "gone", ![p].down = d] /\ d \in Seq(FromWorker)
  BY DEF Disconnected
<1> HIDE DEF q, d
<1> DEFINE x == q[p]
<1>3. Becomes(Disconnected(p), q, p, "gone", x.worker, x.up, d, x.ws, x.dark)
  <2> DEFINE g == [q EXCEPT ![p].tab = "gone", ![p].down = d]
  <2>1. "gone" \in Tabs /\ d \in Downs /\ Disconnected(p) = g
    BY <1>2 DEF Tabs, Downs
  <2>2. Becomes(g, q, p, "gone", x.worker, x.up, d, x.ws, x.dark)
    <3> HIDE DEF x
    <3> QED BY <1>1, <2>1, TabDownSet DEF x
  <2> HIDE DEF g
  <2> QED BY <2>1, <2>2
<1> QED BY <1>1, <1>3 DEF Becomes, Changes

LEMMA CloseFits ==
  ASSUME NEW at, PortsFit(pipe, tr, at), TrClose
  PROVE  PortsFit(pipe', tr', heard'.at) /\ heard'.at = "idle" /\ tr'.port = NoPort
<1>1. /\ tr'.port = NoPort /\ tr' \in [port : Port \cup {NoPort}, closing : BOOLEAN]
      /\ heard' = [at |-> "idle", last |-> "close"]
  BY DEF TrClose, Told
<1>2. CASE tr.port = NoPort
  BY <1>1, <1>2, LetGo DEF TrClose
<1>3. CASE tr.port # NoPort
  <2> DEFINE p == tr.port
             q == Disconnected(p)
             u == IF pipe[p].worker = "open" THEN pipe[p].up \o <<"close", "disconnect">> ELSE q[p].up
  <2>1. p \in Port /\ pipe[p] \in Pipe /\ pipe \in [Port -> Pipe]
    BY <1>3, PipeOf DEF PortsFit
  <2>2. q \in [Port -> Pipe] /\ q[p].tab = "gone" /\ (\A r \in Port : r # p => q[r] = pipe[r])
    BY <2>1, DisconnectedIs DEF Changes
  <2>3. u \in Seq(ToWorker)
    <3>1. <<"close", "disconnect">> \in Seq(ToWorker)
      BY DEF ToWorker
    <3>2. pipe[p].up \in Seq(ToWorker) /\ q[p].up \in Seq(ToWorker)
      BY <2>1, <2>2, PipeFields
    <3> QED BY <3>1, <3>2, ConcatProperties
  <2>4. pipe' = [q EXCEPT ![p].up = u]
    BY <1>3 DEF TrClose
  <2> HIDE DEF p, q, u
  <2>5. Changes(pipe', p) /\ pipe'[p].tab = "gone"
    BY <2>1, <2>2, <2>3, <2>4 DEF Pipe, Changes
  <2>6. p # NoPort
    BY <2>1, PipeOf
  <2>7. PortsFit(pipe', tr', "idle")
    BY <1>1, <2>1, <2>5, <2>6, OnePipe
  <2> QED BY <1>1, <2>7
<1> QED BY <1>2, <1>3

(* post, and the port that is let go when its other end is gone. *)
LEMMA SendFits ==
  ASSUME NEW at, PortsFit(pipe, tr, at), NEW m \in {"hello", "time"}, Send(m)
  PROVE  PortsFit(pipe', tr', at) /\ tr'.port \in {tr.port, NoPort}
<1>1. CASE pipe' = pipe /\ tr' = tr
  BY <1>1
<1>2. CASE tr.port # NoPort /\ pipe' = pipe /\ tr' = [tr EXCEPT !.port = NoPort]
  <2>1. tr' \in [port : Port \cup {NoPort}, closing : BOOLEAN] /\ tr'.port = NoPort
    BY <1>2 DEF PortsFit
  <2>2. PortsFit(pipe, tr', at)
    BY <2>1, LetGo DEF PortsFit
  <2> QED BY <1>2, <2>1, <2>2
<1>3. CASE tr.port # NoPort /\ pipe' = Up(tr.port, m) /\ tr' = tr
  <2> DEFINE p == tr.port
  <2>1. p \in Port /\ pipe[p] \in Pipe /\ pipe \in [Port -> Pipe] /\ at # "idle" /\ Carries(pipe[p], at)
    BY <1>3, PipeOf DEF PortsFit
  <2>2. m \in ToWorker /\ m # "open" /\ pipe' = Up(p, m)
    BY <1>3 DEF ToWorker
  <2> HIDE DEF p
  <2>3. /\ Changes(pipe', p)
        /\ pipe'[p].up \in {Append(pipe[p].up, m), pipe[p].up}
        /\ pipe'[p].tab = "open" /\ pipe'[p].down = pipe[p].down /\ pipe'[p].ws = pipe[p].ws
    BY <2>1, <2>2, UpIs DEF Carries
  <2>4. OpenComesFirst(pipe'[p].up, pipe[p].ws)
    BY <2>1, <2>2, <2>3, PipeFields, AddedOne DEF Carries
  <2>5. Carries(pipe'[p], at)
    BY <2>1, <2>3, <2>4 DEF Carries
  <2>6. PortsFit(pipe', tr, at)
    <3>1. /\ tr \in [port : Port \cup {NoPort}, closing : BOOLEAN] /\ tr.port = p
          /\ at \in {"idle", "opening", "open"} /\ pipe'[p].tab # "none"
      BY <2>3 DEF PortsFit, p
    <3> QED BY <2>1, <2>3, <2>5, <3>1, OnePipe
  <2> QED BY <1>3, <2>6
<1> QED BY <1>1, <1>2, <1>3 DEF Send, Post

-----------------------------------------------------------------------------
(* The worker's steps, for the engine that has been told `at`. *)

LEMMA KeptFits ==
  ASSUME NEW at, PortsFit(pipe, tr, at), NEW p \in Port, pipe[p].tab # "none",
         NEW worker, NEW up, NEW down, NEW ws, NEW dark,
         Becomes(pipe', pipe, p, pipe[p].tab, worker, up, down, ws, dark), tr' = tr,
         tr.port = p => /\ FramesFollow(down, at) /\ OpensOnce(down, at)
                        /\ SocketSays(down, at, ws) /\ OpenComesFirst(up, ws)
  PROVE  PortsFit(pipe', tr', at)
<1>1. Changes(pipe', p) /\ pipe'[p].tab = pipe[p].tab
  BY DEF Becomes, Changes
<1>2. /\ tr' \in [port : Port \cup {NoPort}, closing : BOOLEAN]
      /\ at \in {"idle", "opening", "open"}
  BY DEF PortsFit
<1>3. tr.port = p => at # "idle" /\ pipe[p].tab = "open"
  BY PipeOf DEF Carries
<1>4. tr.port = p => Carries(pipe'[p], at)
  BY <1>3 DEF Carries, Becomes
<1> QED BY <1>1, <1>2, <1>3, <1>4, OnePipe

LEMMA DownIs ==
  ASSUME NEW p, pipe[p] \in Pipe, NEW ms \in Downs
  PROVE  /\ pipe[p].down \in Downs /\ Down(p, ms) \in Downs
         /\ Down(p, ms) \in {pipe[p].down \o ms, pipe[p].down}
         /\ pipe[p].tab = "open" => Down(p, ms) = pipe[p].down \o ms
BY PipeFields, ConcatProperties DEF Down, Downs

LEMMA AnswersAre ==
  ASSUME NEW m \in {"hello", "time"}, NEW a \in Answers(m)
  PROVE  a \in Downs /\ \A i \in 1..Len(a) : a[i] # "open.ok"
<1>1. a \in {<<"welcome">>, <<"refused", "closed">>, <<"time.reply">>}
  BY DEF Answers
<1>2. CASE a = <<"welcome">>
  BY <1>2 DEF Downs, FromWorker
<1>3. CASE a = <<"refused", "closed">>
  BY <1>3 DEF Downs, FromWorker
<1>4. CASE a = <<"time.reply">>
  BY <1>4 DEF Downs, FromWorker
<1> QED BY <1>1, <1>2, <1>3, <1>4

LEMMA WorkerTakesFits ==
  ASSUME NEW at, PortsFit(pipe, tr, at), NEW p \in Port, WorkerTakes(p)
  PROVE  PortsFit(pipe', tr', at)
<1> DEFINE x == pipe[p]
           m == Head(x.up)
           u == Tail(x.up)
           f == pipe
<1>1. /\ x \in Pipe /\ f \in [Port -> Pipe] /\ x.up \in Seq(ToWorker) /\ x.up # <<>>
      /\ x.down \in Seq(FromWorker) /\ x.ws \in Sockets /\ tr' = tr
  BY PipeOf, PipeFields DEF WorkerTakes, Sockets
<1>2. x.tab # "none"
  BY <1>1 DEF PortsFit, Unmade
<1>3. m \in ToWorker /\ u \in Ups
  BY <1>1, HeadTailProperties DEF Ups
<1>4. tr.port = p => /\ FramesFollow(x.down, at) /\ OpensOnce(x.down, at)
                     /\ SocketSays(x.down, at, x.ws) /\ OpenComesFirst(x.up, x.ws)
  BY PipeOf DEF Carries
<1>5. tr.port = p => (m = "open" => x.ws = "none") /\ \A w : OpenComesFirst(u, w)
  <2> HIDE DEF x
  <2> QED BY <1>1, <1>4, TakenOne
<1>6. CASE m = "open"
  <2>1. pipe' = [f EXCEPT ![p] = [[f[p] EXCEPT !.up = u] EXCEPT !.ws = "opening"]]
    BY <1>6 DEF WorkerTakes
  <2>2. Becomes(pipe', f, p, x.tab, x.worker, u, x.down, "opening", x.dark)
    <3>1. "opening" \in Sockets
      BY DEF Sockets
    <3> HIDE DEF f, u
    <3> QED BY <1>1, <1>3, <2>1, <3>1, UpTakenSocket DEF f
  <2>3. tr.port = p => SocketSays(x.down, at, "opening")
    BY <1>4, <1>5, <1>6 DEF SocketSays
  <2> QED BY <1>1, <1>2, <1>4, <1>5, <2>2, <2>3, KeptFits
<1>7. CASE m \in {"close", "disconnect"}
  <2> DEFINE s == IF x.ws = "none" THEN x.ws ELSE "let go"
  <2>1. pipe' = [f EXCEPT ![p] = [[f[p] EXCEPT !.up = u] EXCEPT !.ws = s]]
    BY <1>7 DEF WorkerTakes
  <2>2. Becomes(pipe', f, p, x.tab, x.worker, u, x.down, s, x.dark)
    <3>1. s \in Sockets
      BY DEF Sockets
    <3> HIDE DEF f, u, s
    <3> QED BY <1>1, <1>3, <2>1, <3>1, UpTakenSocket DEF f
  <2>3. tr.port = p => SocketSays(x.down, at, s)
    BY <1>4 DEF SocketSays
  <2> HIDE DEF s
  <2> QED BY <1>1, <1>2, <1>4, <1>5, <2>2, <2>3, KeptFits
<1>8. CASE m \in {"hello", "time"} /\ (x.ws # "open" \/ x.dark)
  <2>1. pipe' = [f EXCEPT ![p] = [f[p] EXCEPT !.up = u]]
    BY <1>8 DEF WorkerTakes
  <2>2. Becomes(pipe', f, p, x.tab, x.worker, u, x.down, x.ws, x.dark)
    <3> HIDE DEF f, u
    <3> QED BY <1>1, <1>3, <2>1, UpTaken DEF f
  <2> QED BY <1>1, <1>2, <1>4, <1>5, <2>2, KeptFits
<1>9. CASE m \in {"hello", "time"} /\ x.ws = "open" /\ ~x.dark
  <2> DEFINE rest == [f[p] EXCEPT !.up = u]
  <2>0. rest.ws = x.ws
    <3> HIDE DEF u
    <3> QED BY <1>1, <1>3, Parts
  <2>1. PICK a \in Answers(m) :
          pipe' = [f EXCEPT ![p] = [rest EXCEPT !.down = Down(p, a),
                                       !.ws = IF a[1] = "refused" THEN "let go" ELSE rest.ws]]
    <3>1. m # "open" /\ m \notin {"close", "disconnect"} /\ m \in {"hello", "time"}
      BY <1>9
    <3>2. ~(x.ws # "open" \/ x.dark)
      BY <1>9
    <3> QED BY <3>1, <3>2 DEF WorkerTakes
  <2>2. a \in Downs /\ \A i \in 1..Len(a) : a[i] # "open.ok"
    BY <1>9, AnswersAre
  <2> DEFINE s == IF a[1] = "refused" THEN "let go" ELSE x.ws
             d == Down(p, a)
  <2>3. /\ d \in Downs /\ d \in {x.down \o a, x.down} /\ s \in Sockets /\ s \in {"let go", "open"}
    BY <1>1, <1>9, <2>2, DownIs DEF Sockets
  <2>4. pipe' = [f EXCEPT ![p] = [[f[p] EXCEPT !.up = u] EXCEPT !.down = d, !.ws = s]]
    BY <2>0, <2>1
  <2> HIDE DEF s, d
  <2>5. Becomes(pipe', f, p, x.tab, x.worker, u, d, s, x.dark)
    <3> HIDE DEF f, u
    <3> QED BY <1>1, <1>3, <2>3, <2>4, UpTakenAnswered DEF f
  <2>6. tr.port = p => FramesFollow(d, at) /\ OpensOnce(d, at) /\ SocketSays(d, at, s)
    <3> SUFFICES ASSUME tr.port = p
                 PROVE  FramesFollow(d, at) /\ OpensOnce(d, at) /\ SocketSays(d, at, s)
      OBVIOUS
    <3>1. at = "open" \/ Opens(x.down)
      BY <1>4, <1>9 DEF SocketSays
    <3>2. /\ FramesFollow(x.down \o a, at) /\ OpensOnce(x.down \o a, at)
          /\ Opens(x.down \o a) <=> Opens(x.down)
      <4> HIDE DEF x
      <4> QED BY <1>1, <1>4, <2>2, <3>1, FollowsOn DEF Downs
    <3>3. FramesFollow(d, at) /\ OpensOnce(d, at) /\ (Opens(d) <=> Opens(x.down))
      BY <1>4, <2>3, <3>2
    <3> QED BY <2>3, <3>1, <3>3 DEF SocketSays
  <2> QED BY <1>1, <1>2, <1>5, <2>5, <2>6, KeptFits
<1> QED BY <1>3, <1>6, <1>7, <1>8, <1>9 DEF ToWorker

LEMMA SocketOpensFits ==
  ASSUME NEW at, PortsFit(pipe, tr, at), NEW p \in Port, SocketOpens(p)
  PROVE  PortsFit(pipe', tr', at)
<1> DEFINE x == pipe[p]
           f == pipe
           ms == <<"open.ok">>
           d == Down(p, ms)
<1>1. /\ x \in Pipe /\ f \in [Port -> Pipe] /\ x.down \in Seq(FromWorker)
      /\ x.ws = "opening" /\ tr' = tr
  BY PipeOf, PipeFields DEF SocketOpens
<1>2. x.tab # "none"
  BY <1>1 DEF PortsFit, Unmade
<1>3. /\ pipe' = [f EXCEPT ![p].ws = "open", ![p].down = d]
      /\ d \in Downs /\ "open" \in Sockets
      /\ x.tab = "open" => d = x.down \o ms
  <2>1. ms \in Downs
    BY DEF Downs, FromWorker
  <2>2. pipe' = [f EXCEPT ![p].ws = "open", ![p].down = d]
    BY DEF SocketOpens
  <2> HIDE DEF ms
  <2> QED BY <1>1, <2>1, <2>2, DownIs DEF Sockets
<1>4. Becomes(pipe', f, p, x.tab, x.worker, x.up, d, "open", x.dark)
  <2> HIDE DEF f, d
  <2> QED BY <1>1, <1>3, SocketDownSet DEF f
<1>5. tr.port = p => /\ FramesFollow(d, at) /\ OpensOnce(d, at)
                     /\ SocketSays(d, at, "open") /\ OpenComesFirst(x.up, "open")
  <2> SUFFICES ASSUME tr.port = p
               PROVE  /\ FramesFollow(d, at) /\ OpensOnce(d, at)
                      /\ SocketSays(d, at, "open") /\ OpenComesFirst(x.up, "open")
    OBVIOUS
  <2>1. Carries(x, at)
    BY PipeOf
  <2>2. at = "opening" /\ ~Opens(x.down) /\ FramesFollow(x.down, "opening") /\ d = x.down \o ms
    BY <1>1, <1>3, <2>1 DEF Carries, SocketSays
  <2>3. FramesFollow(d, "opening") /\ OpensOnce(d, "opening") /\ Opens(d)
    <3> HIDE DEF x, d
    <3> QED BY <1>1, <2>2, OpensNow
  <2>4. OpenComesFirst(x.up, "open")
    BY <1>1, <2>1 DEF Carries, OpenComesFirst
  <2> QED BY <2>2, <2>3, <2>4 DEF SocketSays
<1> QED BY <1>1, <1>2, <1>4, <1>5, KeptFits

(* Neither an opening nor a frame: what says that the socket is gone. *)
LEMMA GoneFollows ==
  ASSUME NEW at, NEW p, pipe[p] \in Pipe, NEW m \in {"closed", "gone"}, Carries(pipe[p], at)
  PROVE  LET d == Down(p, <<m>>) IN
         FramesFollow(d, at) /\ OpensOnce(d, at) /\ SocketSays(d, at, "let go")
         /\ (pipe[p].ws = "none" => SocketSays(d, at, "none"))
<1> DEFINE x == pipe[p]
           ms == <<m>>
           d == Down(p, ms)
<1>1. ms \in Downs /\ \A i \in 1..Len(ms) : ms[i] # "open.ok" /\ ms[i] \notin Frames
  BY DEF Downs, FromWorker, Frames
<1> HIDE DEF ms
<1>2. d = x.down \o ms /\ x.down \in Seq(FromWorker)
  <2>1. x.tab = "open"
    BY DEF Carries
  <2> QED BY <1>1, <2>1, DownIs DEF Downs
<1>3. /\ FramesFollow(x.down, at) /\ OpensOnce(x.down, at) /\ SocketSays(x.down, at, x.ws)
  BY DEF Carries
<1> HIDE DEF x, d
<1>4. /\ FramesFollow(x.down \o ms, at) /\ OpensOnce(x.down \o ms, at)
      /\ Opens(x.down \o ms) <=> Opens(x.down)
  BY <1>1, <1>2, <1>3, FollowsOn DEF Downs
<1> QED BY <1>2, <1>3, <1>4 DEF SocketSays, x, d, ms

LEMMA SocketClosesFits ==
  ASSUME NEW at, PortsFit(pipe, tr, at), NEW p \in Port, SocketCloses(p)
  PROVE  PortsFit(pipe', tr', at)
<1> DEFINE x == pipe[p]
           f == pipe
           ms == <<"closed">>
           d == Down(p, ms)
<1>1. /\ x \in Pipe /\ f \in [Port -> Pipe] /\ x.ws \in {"opening", "open"} /\ tr' = tr
  BY PipeOf DEF SocketCloses
<1>2. x.tab # "none"
  BY <1>1 DEF PortsFit, Unmade
<1>3. /\ pipe' = [f EXCEPT ![p].ws = "let go", ![p].down = d]
      /\ d \in Downs /\ "let go" \in Sockets
  <2>1. ms \in Downs
    BY DEF Downs, FromWorker
  <2>2. pipe' = [f EXCEPT ![p].ws = "let go", ![p].down = d]
    BY DEF SocketCloses
  <2> HIDE DEF ms
  <2> QED BY <1>1, <2>1, <2>2, DownIs DEF Sockets
<1>4. Becomes(pipe', f, p, x.tab, x.worker, x.up, d, "let go", x.dark)
  <2> HIDE DEF f, d
  <2> QED BY <1>1, <1>3, SocketDownSet DEF f
<1>5. tr.port = p => /\ FramesFollow(d, at) /\ OpensOnce(d, at)
                     /\ SocketSays(d, at, "let go") /\ OpenComesFirst(x.up, "let go")
  <2> SUFFICES ASSUME tr.port = p
               PROVE  /\ FramesFollow(d, at) /\ OpensOnce(d, at)
                      /\ SocketSays(d, at, "let go") /\ OpenComesFirst(x.up, "let go")
    OBVIOUS
  <2>1. Carries(x, at)
    BY PipeOf
  <2>2. FramesFollow(d, at) /\ OpensOnce(d, at) /\ SocketSays(d, at, "let go")
    BY <1>1, <2>1, GoneFollows
  <2>3. OpenComesFirst(x.up, "let go")
    BY <1>1, <2>1 DEF Carries, OpenComesFirst
  <2> QED BY <2>2, <2>3
<1> QED BY <1>1, <1>2, <1>4, <1>5, KeptFits

LEMMA GoesDarkFits ==
  ASSUME NEW at, PortsFit(pipe, tr, at), NEW p \in Port, GoesDark(p)
  PROVE  PortsFit(pipe', tr', at)
<1> DEFINE x == pipe[p]
           f == pipe
<1>1. /\ x \in Pipe /\ f \in [Port -> Pipe] /\ x.ws \in {"opening", "open"} /\ tr' = tr
  BY PipeOf DEF GoesDark
<1>2. x.tab # "none"
  BY <1>1 DEF PortsFit, Unmade
<1>3. pipe' = [f EXCEPT ![p].dark = TRUE]
  BY DEF GoesDark
<1>4. Becomes(pipe', f, p, x.tab, x.worker, x.up, x.down, x.ws, TRUE)
  <2> HIDE DEF f
  <2> QED BY <1>1, <1>3, DarkSet DEF f
<1>5. tr.port = p => /\ FramesFollow(x.down, at) /\ OpensOnce(x.down, at)
                     /\ SocketSays(x.down, at, x.ws) /\ OpenComesFirst(x.up, x.ws)
  BY PipeOf DEF Carries
<1> QED BY <1>1, <1>2, <1>4, <1>5, KeptFits

LEMMA WorkerDiesFits ==
  ASSUME NEW at, PortsFit(pipe, tr, at), WorkerDies
  PROVE  PortsFit(pipe', tr', at)
<1> DEFINE Died(p) ==
             [pipe[p] EXCEPT !.worker = "gone", !.up = <<>>,
                             !.ws = IF pipe[p].ws = "none" THEN pipe[p].ws ELSE "let go",
                             !.down = IF pipe[p].worker = "open" THEN Down(p, <<"gone">>)
                                      ELSE pipe[p].down]
<1>1. /\ tr' = tr
      /\ pipe' = [p \in Port |-> IF pipe[p].tab = "none" THEN pipe[p] ELSE Died(p)]
  BY DEF WorkerDies
<1>2. ASSUME NEW p \in Port, pipe[p].tab # "none"
      PROVE  /\ Died(p) \in Pipe /\ Died(p).tab = pipe[p].tab
             /\ Carries(pipe[p], at) => Carries(Died(p), at)
  <2> DEFINE x == pipe[p]
             w == "gone"
             u == <<>>
             s == IF x.ws = "none" THEN x.ws ELSE "let go"
             d == IF x.worker = "open" THEN Down(p, <<"gone">>) ELSE x.down
             y == [x EXCEPT !.worker = w, !.up = u, !.ws = s, !.down = d]
  <2>1. x \in Pipe /\ x.down \in Downs /\ x.ws \in Sockets
    BY PipeOf, PipeFields DEF Downs, Sockets
  <2>2. w \in Ends /\ u \in Ups /\ s \in Sockets
    <3>1. u \in Ups
      BY DEF Ups
    <3>2. w \in Ends
      BY DEF Ends
    <3>3. s \in Sockets
      <4>1. "let go" \in Sockets
        BY DEF Sockets
      <4> QED BY <2>1, <4>1
    <3> QED BY <3>1, <3>2, <3>3
  <2>3. d \in Downs
    <3>1. <<"gone">> \in Downs
      BY DEF Downs, FromWorker
    <3> QED BY <2>1, <3>1, DownIs
  <2>4. Died(p) = y
    OBVIOUS
  <2>5. /\ y \in Pipe /\ y.tab = x.tab /\ y.up = u /\ y.ws = s /\ y.down = d
    <3> HIDE DEF w, u, s, d, x
    <3> QED BY <2>1, <2>2, <2>3, Parts
  <2>6. ASSUME Carries(x, at)
        PROVE  /\ FramesFollow(d, at) /\ OpensOnce(d, at) /\ SocketSays(d, at, s)
               /\ OpenComesFirst(u, s) /\ x.tab = "open"
    <3>1. x.tab = "open" /\ FramesFollow(x.down, at) /\ OpensOnce(x.down, at) /\ SocketSays(x.down, at, x.ws)
      BY <2>6 DEF Carries
    <3>2. OpenComesFirst(u, s)
      BY DEF OpenComesFirst
    <3>3. CASE x.worker = "open"
      <4>1. d = Down(p, <<"gone">>)
        BY <3>3
      <4> QED BY <2>1, <2>6, <3>1, <3>2, <4>1, GoneFollows
    <3>4. CASE x.worker # "open"
      <4>1. d = x.down
        BY <3>4
      <4> QED BY <3>1, <3>2, <4>1 DEF SocketSays
    <3> QED BY <3>3, <3>4
  <2> HIDE DEF w, u, s, d, y, Died
  <2> QED BY <2>4, <2>5, <2>6 DEF Carries
<1> HIDE DEF Died
<1>3. pipe \in [Port -> Pipe] /\ \A p \in Port : pipe[p].tab = "none" => pipe[p] = Unmade
  BY DEF PortsFit
<1>4. \A p \in Port : pipe'[p] = IF pipe[p].tab = "none" THEN pipe[p] ELSE Died(p)
  BY <1>1
<1>5. pipe' \in [Port -> Pipe]
  BY <1>1, <1>2, <1>3
<1>6. \A p \in Port : pipe'[p].tab = "none" => pipe'[p] = Unmade
  BY <1>2, <1>3, <1>4
<1>7. tr.port # NoPort => at # "idle" /\ Carries(pipe'[tr.port], at)
  <2> SUFFICES ASSUME tr.port # NoPort
               PROVE  at # "idle" /\ Carries(pipe'[tr.port], at)
    OBVIOUS
  <2>1. tr.port \in Port /\ at # "idle" /\ Carries(pipe[tr.port], at)
    BY DEF PortsFit
  <2> QED BY <1>2, <1>4, <2>1 DEF Carries
<1> QED BY <1>1, <1>5, <1>6, <1>7 DEF PortsFit

-----------------------------------------------------------------------------
(* What the engine hears. *)

LEMMA HeardIs ==
  ASSUME pipe \in [Port -> Pipe], NEW p \in Port, pipe[p].down # <<>>
  PROVE  LET x == pipe[p] IN
         /\ x.down \in Seq(FromWorker) /\ Tail(x.down) \in Downs
         /\ Head(x.down) \in FromWorker
         /\ Becomes(Heard(p), pipe, p, x.tab, x.worker, x.up, Tail(x.down), x.ws, x.dark)
<1> DEFINE f == pipe
           d == Tail(f[p].down)
<1>1. f \in [Port -> Pipe] /\ f[p] \in Pipe /\ f[p].down \in Seq(FromWorker)
  BY PipeFields
<1>2. d \in Downs /\ Head(f[p].down) \in FromWorker
  BY <1>1, HeadTailProperties DEF Downs
<1>3. Heard(p) = [f EXCEPT ![p].down = d]
  BY DEF Heard
<1>4. Becomes(Heard(p), f, p, f[p].tab, f[p].worker, f[p].up, d, f[p].ws, f[p].dark)
  <2> DEFINE g == [f EXCEPT ![p].down = d]
  <2> HIDE DEF f, d
  <2>1. Becomes(g, f, p, f[p].tab, f[p].worker, f[p].up, d, f[p].ws, f[p].dark)
    BY <1>1, <1>2, DownSet
  <2> QED BY <1>3, <2>1
<1> QED BY <1>1, <1>2, <1>4

(* Of a port that the transport has let go: nothing. *)
LEMMA HearsOther ==
  ASSUME NEW at, PortsFit(pipe, tr, at), NEW p \in Port, Hears(p), tr.port # p
  PROVE  PortsFit(pipe', tr', at) /\ UNCHANGED <<tr, heard, eng>>
<1>1. pipe[p].tab = "open" /\ pipe[p].down # <<>> /\ pipe' = Heard(p) /\ UNCHANGED <<tr, heard, eng>>
  BY DEF Hears, Mine
<1>2. pipe \in [Port -> Pipe]
  BY DEF PortsFit
<1>3. PICK up, down, worker, ws, dark :
        Becomes(pipe', pipe, p, pipe[p].tab, worker, up, down, ws, dark)
  BY <1>1, <1>2, HeardIs
<1> QED BY <1>1, <1>3, KeptFits

(* What the engine comes to by a message of its own port. *)
HearsOpen(t) == heard.at = "opening" /\ heard' = [at |-> "open", last |-> "onOpen"]
                /\ t \in {tr, [tr EXCEPT !.port = NoPort]}
HearsFrame(m) == heard.at = "open" /\ heard' = [at |-> "open", last |-> "onFrame"] /\ OnFrame(m)
HearsClose(t) == heard.at # "idle" /\ heard' = [at |-> "idle", last |-> "onClose"]
                 /\ OnClose(tr.closing) /\ t = [tr EXCEPT !.port = NoPort]

LEMMA HearsOwn ==
  ASSUME PortsFit(pipe, tr, heard.at), NEW p \in Port, Hears(p), tr.port = p
  PROVE  /\ PortsFit(pipe', tr', heard'.at)
         /\ \/ HearsOpen(tr') /\ OnOpen
            \/ (\E m \in Frames : HearsFrame(m)) /\ tr' = tr
            \/ HearsClose(tr')
<1> DEFINE x == pipe[p]
           m == Head(x.down)
           d == Tail(x.down)
           h == Heard(p)
<1>1. /\ pipe \in [Port -> Pipe] /\ x \in Pipe /\ p # NoPort /\ x.down # <<>>
      /\ heard.at # "idle" /\ Carries(x, heard.at)
      /\ tr \in [port : Port \cup {NoPort}, closing : BOOLEAN]
  BY PipeOf DEF Hears
<1>2. /\ x.down \in Seq(FromWorker) /\ d \in Downs /\ m \in FromWorker
      /\ Becomes(h, pipe, p, x.tab, x.worker, x.up, d, x.ws, x.dark)
  BY <1>1, HeardIs
<1>3. /\ x.tab = "open" /\ x.tab # "none"
      /\ FramesFollow(x.down, heard.at) /\ OpensOnce(x.down, heard.at)
      /\ SocketSays(x.down, heard.at, x.ws) /\ OpenComesFirst(x.up, x.ws)
  BY <1>1 DEF Carries
<1>4. /\ m = "open.ok" => heard.at = "opening"
      /\ m \in Frames => heard.at = "open"
      /\ m = "open.ok" \/ m \in Frames =>
           FramesFollow(d, "open") /\ OpensOnce(d, "open") /\ SocketSays(d, "open", x.ws)
  <2> HIDE DEF x
  <2> QED BY <1>1, <1>2, <1>3, HeardOne
<1>5. \A t \in {tr, [tr EXCEPT !.port = NoPort]} : t \in [port : Port \cup {NoPort}, closing : BOOLEAN]
  BY <1>1
<1>6. CASE m = "open.ok"
  <2>1. OnOpen /\ heard' = [at |-> "open", last |-> "onOpen"]
    BY <1>6 DEF Hears, Mine, OnOpen, Told
  <2>2. CASE x.worker = "open" /\ tr' = tr /\ pipe' = [h EXCEPT ![p].up = Append(@, "hello")]
    <3> DEFINE u == Append(x.up, "hello")
    <3>1. u \in Ups /\ OpenComesFirst(u, x.ws)
      <4>1. x.up \in Seq(ToWorker) /\ "hello" \in ToWorker
        BY <1>1, PipeFields DEF ToWorker
      <4> HIDE DEF x
      <4> QED BY <4>1, <1>3, AddedOne DEF Ups
    <3>2. pipe' = [h EXCEPT ![p].up = u] /\ h \in [Port -> Pipe]
      BY <2>2, <1>2 DEF Becomes
    <3>3. Becomes(pipe', h, p, h[p].tab, h[p].worker, u, h[p].down, h[p].ws, h[p].dark)
      <4> HIDE DEF h, u
      <4> QED BY <3>1, <3>2, UpSet
    <3> HIDE DEF h, u
    <3>4. Becomes(pipe', pipe, p, x.tab, x.worker, u, d, x.ws, x.dark)
      BY <3>3, <1>2 DEF Becomes
    <3>5. Changes(pipe', p) /\ pipe'[p].tab # "none" /\ Carries(pipe'[p], "open")
      BY <1>3, <1>4, <1>6, <3>1, <3>4 DEF Becomes, Changes, Carries
    <3>6. PortsFit(pipe', tr', "open")
      <4>1. tr' \in [port : Port \cup {NoPort}, closing : BOOLEAN] /\ tr'.port = p
        BY <1>1, <2>2
      <4> QED BY <3>5, <4>1, OnePipe
    <3>7. HearsOpen(tr') /\ heard'.at = "open"
      BY <1>4, <1>6, <2>1, <2>2 DEF HearsOpen
    <3>8. PortsFit(pipe', tr', heard'.at)
      BY <3>6, <3>7
    <3> QED BY <2>1, <3>7, <3>8
  <2>3. CASE pipe' = h /\ tr' \in {tr, [tr EXCEPT !.port = NoPort]}
    <3> HIDE DEF h
    <3>1. Changes(pipe', p) /\ pipe'[p].tab # "none" /\ Carries(pipe'[p], "open")
      BY <1>2, <1>3, <1>4, <1>6, <2>3 DEF Becomes, Changes, Carries
    <3>2. tr' \in [port : Port \cup {NoPort}, closing : BOOLEAN] /\ tr'.port \in {p, NoPort}
      BY <1>1, <1>5, <2>3
    <3>3. PortsFit(pipe', tr', "open")
      BY <3>1, <3>2, OnePipe
    <3> QED BY <1>4, <1>6, <2>1, <2>3, <3>3 DEF HearsOpen
  <2> QED BY <1>6, <2>2, <2>3 DEF Hears, Mine
<1>7. CASE m \in Frames
  <2>1. OnFrame(m) /\ heard' = [at |-> "open", last |-> "onFrame"] /\ pipe' = h /\ tr' = tr
    BY <1>7 DEF Hears, Mine, OnFrame, Told, Frames
  <2> HIDE DEF h
  <2>2. Changes(pipe', p) /\ pipe'[p].tab # "none" /\ Carries(pipe'[p], "open")
    BY <1>2, <1>3, <1>4, <1>7, <2>1 DEF Becomes, Changes, Carries
  <2>3. PortsFit(pipe', tr', "open")
    BY <1>1, <2>1, <2>2, OnePipe
  <2> HIDE DEF m
  <2>4. HearsFrame(m)
    BY <1>4, <1>7, <2>1 DEF HearsFrame
  <2> QED BY <1>7, <2>1, <2>3, <2>4
<1>8. CASE m \in {"closed", "gone"}
  <2>1. /\ OnClose(tr.closing) /\ heard' = [at |-> "idle", last |-> "onClose"]
        /\ pipe' \in {Disconnected(p), [h EXCEPT ![p].tab = "gone"]}
        /\ tr' = [tr EXCEPT !.port = NoPort]
    BY <1>8 DEF Hears, Mine, OnClose, Told
  <2>2. tr' \in [port : Port \cup {NoPort}, closing : BOOLEAN] /\ tr'.port = NoPort
    BY <1>1, <2>1
  <2>3. Changes(pipe', p) /\ pipe'[p].tab # "none"
    <3>1. CASE pipe' = Disconnected(p)
      BY <1>1, <3>1, DisconnectedIs
    <3>2. CASE pipe' = [h EXCEPT ![p].tab = "gone"]
      <4>1. "gone" \in Tabs /\ h \in [Port -> Pipe]
        BY <1>2 DEF Tabs, Becomes
      <4>2. Becomes(pipe', h, p, "gone", h[p].worker, h[p].up, h[p].down, h[p].ws, h[p].dark)
        <5> HIDE DEF h
        <5> QED BY <3>2, <4>1, TabSet
      <4> HIDE DEF h
      <4> QED BY <1>2, <4>2 DEF Becomes, Changes
    <3> QED BY <2>1, <3>1, <3>2
  <2>4. PortsFit(pipe', tr', "idle")
    BY <1>1, <2>2, <2>3, OnePipe
  <2> QED BY <1>1, <2>1, <2>4 DEF HearsClose
<1> QED BY <1>2, <1>6, <1>7, <1>8 DEF FromWorker, Frames

-----------------------------------------------------------------------------
(* The engine's steps. *)
Steps == T!Next \/ UNCHANGED heard
Fits == PortsFit(pipe', tr', heard'.at) /\ Steps

LEMMA AfterCloseIs ==
  ASSUME NEW e \in Session, NEW clean
  PROVE  LET a == AfterClose(e, clean) IN
         a \in Session /\ a.running = e.running /\ a.gen = e.gen /\ ~a.timer
BY DEF AfterClose, Session, Statuses

(* With the transport idle and no request still wanted, anything may be armed. *)
LEMMA IdleFits ==
  ASSUME NEW e \in Session, NEW as \in Asks, ~e.timer, ~Pending(e, as),
         \A g \in Attempt : g > e.gen => as[g] = "none"
  PROVE  EngineFits(e, as, "idle")
BY DEF EngineFits

LEMMA OpenTransportFits ==
  ASSUME PortsFit(pipe, tr, heard.at), heard.at = "idle", NEW e \in Session, NEW as \in Asks,
         e.running, ~e.retry, ~e.timer, ~Pending(e, as),
         \A g \in Attempt : g > e.gen => as[g] = "none",
         OpenTransport(e)
  PROVE  Fits /\ EngineFits(eng', as, heard'.at) /\ Stopped(eng', tr')
<1>1. CASE TrConnect /\ eng' = e
  <2>1. PortsFit(pipe', tr', heard'.at) /\ heard'.at = "opening"
    BY <1>1, ConnectFits
  <2>2. T!Connect
    BY <1>1, <2>1 DEF T!Connect, TrConnect, Told
  <2>3. EngineFits(eng', as, "opening") /\ Stopped(eng', tr')
    BY <1>1 DEF EngineFits, Stopped
  <2> QED BY <2>1, <2>2, <2>3 DEF Fits, Steps, T!Next
<1>2. CASE eng' = AfterClose(e, FALSE) /\ UNCHANGED portVars
  <2>1. /\ eng' \in Session /\ eng'.running = e.running /\ eng'.gen = e.gen /\ ~eng'.timer
    BY <1>2, AfterCloseIs
  <2>2. EngineFits(eng', as, "idle") /\ Stopped(eng', tr')
    <3>1. ~Pending(eng', as)
      BY <2>1 DEF Pending
    <3> QED BY <2>1, <3>1, IdleFits DEF Stopped
  <2> QED BY <1>2, <2>2 DEF Fits, Steps, portVars
<1> QED BY <1>1, <1>2 DEF OpenTransport

LEMMA ReconnectFits ==
  ASSUME LinkInv, Reconnect
  PROVE  LinkInv' /\ Steps
<1> DEFINE n == [eng EXCEPT !.status = "connecting", !.retry = FALSE, !.gen = @ + 1]
<1>1. /\ eng \in Session /\ asks \in Asks /\ eng.running /\ heard.at = "idle" /\ ~eng.timer
      /\ \A g \in Attempt : g > eng.gen => asks[g] = "none"
      /\ eng.gen + 1 \in Attempt
  BY DEF LinkInv, EngineFits, Reconnect
<1>2. /\ n \in Session /\ n.running /\ ~n.retry /\ ~n.timer /\ n.gen = eng.gen + 1 /\ eng.gen \in Nat
  <2> DEFINE k == eng.gen + 1
             e == eng
  <2>1. e \in Session /\ eng.gen \in Nat /\ k \in Nat /\ n = [e EXCEPT !.status = "connecting", !.retry = FALSE, !.gen = k]
    BY <1>1 DEF Session
  <2>2. e.running /\ ~e.timer
    BY <1>1
  <2> HIDE DEF k, e, n
  <2>3. n \in Session /\ n.running = e.running /\ ~n.retry /\ n.timer = e.timer /\ n.gen = k
    BY <2>1 DEF Session, Statuses
  <2> QED BY <2>1, <2>2, <2>3 DEF k
<1> HIDE DEF n
<1>3. \A g \in Attempt : g \in Nat /\ (g > n.gen => asks[g] = "none")
  <2>1. Attempt \subseteq Nat
    BY PortAssumption DEF Attempt
  <2> QED BY <1>1, <1>2, <2>1
<1>4. asks[n.gen] = "none"
  BY <1>1, <1>2
<1>5. CASE OpenTransport(n) /\ UNCHANGED asks
  <2>1. ~Pending(n, asks)
    BY <1>4 DEF Pending
  <2>2. Fits /\ EngineFits(eng', asks, heard'.at) /\ Stopped(eng', tr')
    BY <1>1, <1>2, <1>3, <1>5, <2>1, OpenTransportFits DEF LinkInv
  <2> QED BY <1>5, <2>2 DEF LinkInv, Fits
<1>6. CASE eng' = n /\ UNCHANGED portVars /\ asks' \in {[asks EXCEPT ![n.gen] = "asked"], [asks EXCEPT ![n.gen] = "slow"]}
  <2>1. asks' \in Asks /\ \A g \in Attempt : g # n.gen => asks'[g] = asks[g]
    BY <1>1, <1>6 DEF Asks
  <2>2. EngineFits(n, asks', "idle")
    BY <1>2, <1>3, <2>1 DEF EngineFits
  <2>3. Stopped(n, tr')
    BY <1>2 DEF Stopped
  <2> QED BY <1>1, <1>6, <2>2, <2>3 DEF LinkInv, Steps, portVars
<1>7. Connect(eng)
  BY DEF Reconnect
<1> QED BY <1>5, <1>6, <1>7 DEF Connect, n

(* A request that is over, or late, is not pending. *)
LEMMA Answered ==
  ASSUME LinkInv, NEW g \in Attempt, NEW s \in {"late", "over"}, asks[g] \in {"asked", "slow", "late"},
         asks' = [asks EXCEPT ![g] = s]
  PROVE  /\ asks' \in Asks
         /\ \A h \in Attempt : h > eng.gen => asks'[h] = "none"
         /\ Wanted(g) => ~Pending(eng, asks')
         /\ Pending(eng, asks') => Pending(eng, asks)
         /\ Wanted(g) /\ asks[g] # "late" =>
              heard.at = "idle" /\ ~eng.retry /\ ~eng.timer /\ eng.running
<1>1. asks \in Asks /\ eng \in Session /\ \A h \in Attempt : h > eng.gen => asks[h] = "none"
  BY DEF LinkInv, EngineFits
<1>2. asks' \in Asks /\ asks'[g] = s /\ \A h \in Attempt : h # g => asks'[h] = asks[h]
  BY <1>1 DEF Asks
<1>3. Wanted(g) /\ asks[g] # "late" => Pending(eng, asks)
  BY DEF Wanted, Pending
<1>4. Pending(eng, asks) => heard.at = "idle" /\ ~eng.retry /\ ~eng.timer
  BY DEF LinkInv, EngineFits
<1> QED BY <1>1, <1>2, <1>3, <1>4 DEF Wanted, Pending

LEMMA NotWanted ==
  ASSUME LinkInv, NEW g \in Attempt, NEW s \in {"late", "over"}, asks[g] \in {"asked", "slow", "late"},
         asks' = [asks EXCEPT ![g] = s], UNCHANGED <<portVars, eng>>
  PROVE  LinkInv' /\ Steps
<1>1. EngineFits(eng, asks', heard.at)
  BY Answered DEF LinkInv, EngineFits
<1> QED BY <1>1 DEF LinkInv, Steps, portVars

LEMMA ClosedWanted ==
  ASSUME LinkInv, NEW g \in Attempt, NEW s \in {"late", "over"}, asks[g] \in {"asked", "slow"},
         asks' = [asks EXCEPT ![g] = s], Wanted(g), eng' = AfterClose(eng, FALSE), UNCHANGED portVars
  PROVE  LinkInv' /\ Steps
<1>1. eng \in Session /\ heard.at = "idle" /\ eng.running /\ asks' \in Asks
      /\ ~Pending(eng, asks') /\ \A h \in Attempt : h > eng.gen => asks'[h] = "none"
  BY Answered DEF LinkInv, EngineFits
<1>2. eng' \in Session /\ eng'.running = eng.running /\ eng'.gen = eng.gen /\ ~eng'.timer
  BY <1>1, AfterCloseIs
<1>3. ~Pending(eng', asks')
  BY <1>1, <1>2 DEF Pending
<1>4. EngineFits(eng', asks', "idle")
  BY <1>1, <1>2, <1>3, IdleFits
<1>5. Stopped(eng', tr')
  BY <1>1, <1>2 DEF Stopped
<1> QED BY <1>1, <1>4, <1>5 DEF LinkInv, Steps, portVars

LEMMA TicketFits ==
  ASSUME LinkInv, NEW g \in Attempt, Ticket(g)
  PROVE  LinkInv' /\ Steps
<1>1. asks[g] \in {"asked", "slow", "late"} /\ asks' = [asks EXCEPT ![g] = "over"]
  BY DEF Ticket
<1>2. CASE Settled(g) \/ ~Wanted(g)
  BY <1>1, <1>2, NotWanted DEF Ticket
<1>3. CASE ~Settled(g) /\ Wanted(g)
  <2>1. OpenTransport(eng)
    BY <1>3 DEF Ticket
  <2>2. /\ eng \in Session /\ asks' \in Asks /\ heard.at = "idle"
        /\ eng.running /\ ~eng.retry /\ ~eng.timer /\ ~Pending(eng, asks')
        /\ \A h \in Attempt : h > eng.gen => asks'[h] = "none"
    BY <1>1, <1>3, Answered DEF LinkInv, EngineFits, Settled
  <2>3. Fits /\ EngineFits(eng', asks', heard'.at) /\ Stopped(eng', tr')
    BY <2>1, <2>2, OpenTransportFits DEF LinkInv
  <2> QED BY <2>3 DEF LinkInv, Fits
<1> QED BY <1>2, <1>3

LEMMA TicketFailsFits ==
  ASSUME LinkInv, NEW g \in Attempt, TicketFails(g)
  PROVE  LinkInv' /\ Steps
<1>1. /\ asks[g] \in {"asked", "slow", "late"} /\ asks' = [asks EXCEPT ![g] = "over"]
      /\ UNCHANGED portVars
  BY DEF TicketFails
<1>2. CASE Settled(g) \/ ~Wanted(g)
  BY <1>1, <1>2, NotWanted DEF TicketFails
<1>3. CASE ~Settled(g) /\ Wanted(g)
  <2>1. CASE eng' = AfterClose(eng, FALSE)
    BY <1>1, <1>3, <2>1, ClosedWanted DEF Settled
  <2>2. CASE eng' = [eng EXCEPT !.status = "refused"]
    <3>1. /\ eng \in Session /\ asks' \in Asks /\ heard.at = "idle"
          /\ eng.running /\ ~eng.timer /\ ~Pending(eng, asks')
          /\ \A h \in Attempt : h > eng.gen => asks'[h] = "none"
      BY <1>1, <1>3, Answered DEF LinkInv, EngineFits, Settled
    <3>2. /\ eng' \in Session /\ eng'.running /\ ~eng'.timer /\ eng'.gen = eng.gen
      BY <2>2, <3>1 DEF Session, Statuses
    <3>3. ~Pending(eng', asks')
      BY <3>1, <3>2 DEF Pending
    <3>4. EngineFits(eng', asks', "idle")
      BY <3>1, <3>2, <3>3, IdleFits
    <3> QED BY <1>1, <3>1, <3>2, <3>4 DEF LinkInv, Steps, Stopped, portVars
  <2> QED BY <1>3, <2>1, <2>2 DEF TicketFails
<1> QED BY <1>2, <1>3

LEMMA DeadlineFits ==
  ASSUME LinkInv, NEW g \in Attempt, Deadline(g)
  PROVE  LinkInv' /\ Steps
BY NotWanted, ClosedWanted DEF Deadline

LEMMA CloseStep ==
  ASSUME PortsFit(pipe, tr, heard.at), TrClose
  PROVE  Fits /\ heard'.at = "idle" /\ tr'.port = NoPort
<1>1. PortsFit(pipe', tr', heard'.at) /\ heard'.at = "idle" /\ tr'.port = NoPort
  BY CloseFits
<1>2. T!Close
  BY DEF TrClose, Told, T!Close
<1> QED BY <1>1, <1>2 DEF Fits, Steps, T!Next

LEMMA TimeLoopFits ==
  ASSUME LinkInv, TimeLoop
  PROVE  LinkInv' /\ Steps
<1>1. /\ eng \in Session /\ asks \in Asks /\ heard.at = "open" /\ eng.running
      /\ ~Pending(eng, asks) /\ ~eng.retry /\ asks' = asks
      /\ \A g \in Attempt : g > eng.gen => asks[g] = "none"
  BY DEF LinkInv, EngineFits, Stopped, TimeLoop
<1>2. CASE Dead
  <2> DEFINE z == 0
             e == [eng EXCEPT !.silent = z]
  <2>1. e \in Session /\ e.running = eng.running /\ e.gen = eng.gen
    <3>1. z \in 0..SilentProbes
      BY LinkAssumption
    <3> HIDE DEF z
    <3> QED BY <1>1, <3>1 DEF Session
  <2>2. eng' = AfterClose(e, FALSE) /\ TrClose
    BY <1>2 DEF TimeLoop
  <2> HIDE DEF e
  <2>3. eng' \in Session /\ eng'.running = eng.running /\ eng'.gen = eng.gen /\ ~eng'.timer
    BY <2>1, <2>2, AfterCloseIs
  <2>4. ~Pending(eng', asks')
    BY <1>1, <2>3 DEF Pending
  <2>5. EngineFits(eng', asks', "idle") /\ Stopped(eng', tr')
    BY <1>1, <2>3, <2>4, IdleFits DEF Stopped
  <2>6. Fits /\ heard'.at = "idle"
    BY <2>2, CloseStep DEF LinkInv
  <2> QED BY <2>5, <2>6 DEF LinkInv, Fits
<1>3. CASE ~Dead
  <2> DEFINE z == IF eng.silent < SilentProbes THEN eng.silent + 1 ELSE eng.silent
             e == eng
  <2>1. e' = [e EXCEPT !.silent = z] /\ Send("time") /\ heard' = heard
    BY <1>3 DEF TimeLoop
  <2>2. z \in 0..SilentProbes
    BY <1>1, LinkAssumption DEF Session
  <2>3. /\ e' \in Session /\ e'.running = e.running /\ e'.gen = e.gen /\ e'.retry = e.retry
        /\ e'.timer = e.timer /\ e'.status = e.status
    <3> HIDE DEF z
    <3> QED BY <1>1, <2>1, <2>2 DEF Session
  <2>4. PortsFit(pipe', tr', heard.at) /\ tr'.port \in {tr.port, NoPort}
    BY <2>1, SendFits DEF LinkInv
  <2>5. EngineFits(eng', asks', heard.at)
    BY <1>1, <2>3 DEF EngineFits, Pending
  <2> QED BY <1>1, <2>1, <2>3, <2>4, <2>5 DEF LinkInv, Steps, Stopped
<1> QED BY <1>2, <1>3

LEMMA StopFits ==
  ASSUME LinkInv, Stop
  PROVE  LinkInv' /\ Steps
<1> DEFINE k == eng.gen + 1
           e == eng
<1>1. /\ e \in Session /\ k \in Nat /\ e.gen \in Nat /\ k > e.gen /\ asks \in Asks /\ asks' = asks
      /\ \A g \in Attempt : g > e.gen => asks[g] = "none"
      /\ TrClose
      /\ e' = [e EXCEPT !.running = FALSE, !.status = "closed", !.gen = k, !.retry = FALSE, !.timer = FALSE]
  BY DEF LinkInv, EngineFits, Stop, Session
<1>2. e' \in Session /\ ~e'.running /\ e'.gen = k /\ ~e'.retry /\ ~e'.timer /\ e'.status = "closed"
  <2> HIDE DEF k
  <2> QED BY <1>1 DEF Session, Statuses
<1>3. Fits /\ heard'.at = "idle" /\ tr'.port = NoPort
  BY <1>1, CloseStep DEF LinkInv
<1>4. \A g \in Attempt : g > e'.gen => asks'[g] = "none"
  <2>1. Attempt \subseteq Nat
    BY PortAssumption DEF Attempt
  <2> HIDE DEF k
  <2> QED BY <1>1, <1>2, <2>1
<1>5. EngineFits(eng', asks', "idle")
  BY <1>1, <1>2, <1>4, IdleFits DEF Pending
<1> QED BY <1>2, <1>3, <1>5 DEF LinkInv, Fits, Stopped

(* A message of the engine's port, while it runs. *)
LEMMA HearsFits ==
  ASSUME LinkInv, NEW p \in Port, Hears(p)
  PROVE  LinkInv' /\ Steps
<1>0. asks' = asks
  BY DEF Hears
<1>1. CASE tr.port # p
  <2>1. PortsFit(pipe', tr', heard.at) /\ UNCHANGED <<tr, heard, eng>>
    BY <1>1, HearsOther DEF LinkInv
  <2> QED BY <1>0, <2>1 DEF LinkInv, Steps
<1>2. CASE tr.port = p
  <2>1. /\ p # NoPort /\ eng \in Session /\ asks \in Asks /\ heard.at # "idle"
        /\ eng.running /\ ~eng.retry /\ ~Pending(eng, asks)
        /\ \A g \in Attempt : g > eng.gen => asks[g] = "none"
    BY <1>2, PipeOf DEF LinkInv, EngineFits, Stopped
  <2>2. PortsFit(pipe', tr', heard'.at)
    BY <1>2, HearsOwn DEF LinkInv
  <2>3. CASE HearsOpen(tr') /\ OnOpen
    <3> DEFINE z == 0
               e == eng
    <3>1. /\ e' = [e EXCEPT !.status = "joining", !.timer = TRUE, !.silent = z]
          /\ z \in 0..SilentProbes /\ heard'.at = "open"
      BY <2>3, LinkAssumption DEF OnOpen, HearsOpen
    <3>2. e' \in Session /\ e'.running = e.running /\ e'.gen = e.gen /\ e'.retry = e.retry
      <4> HIDE DEF z
      <4> QED BY <2>1, <3>1 DEF Session, Statuses
    <3>3. EngineFits(eng', asks', "open") /\ Stopped(eng', tr')
      BY <1>0, <2>1, <3>2 DEF EngineFits, Pending, Stopped
    <3>4. T!OnOpen
      BY <2>3 DEF HearsOpen, T!OnOpen
    <3> QED BY <2>2, <3>1, <3>3, <3>4 DEF LinkInv, Steps, T!Next
  <2>4. CASE (\E m \in Frames : HearsFrame(m)) /\ tr' = tr
    <3>1. PICK m \in Frames : HearsFrame(m)
      BY <2>4
    <3> DEFINE z == 0
               e == eng
               s == CASE m = "welcome" -> "joined" [] m = "refused" -> "refused" [] OTHER -> e.status
    <3>2. /\ e' = [e EXCEPT !.silent = z, !.status = s]
          /\ z \in 0..SilentProbes /\ heard'.at = "open" /\ s \in Statuses
      BY <2>1, <3>1, LinkAssumption DEF OnFrame, HearsFrame, Session, Statuses
    <3>3. e' \in Session /\ e'.running = e.running /\ e'.gen = e.gen /\ e'.retry = e.retry
      <4> HIDE DEF z, s
      <4> QED BY <2>1, <3>2 DEF Session
    <3>4. EngineFits(eng', asks', "open") /\ Stopped(eng', tr')
      BY <1>0, <2>1, <3>3 DEF EngineFits, Pending, Stopped
    <3>5. T!OnFrame
      BY <3>1 DEF HearsFrame, T!OnFrame
    <3> QED BY <2>2, <3>2, <3>4, <3>5 DEF LinkInv, Steps, T!Next
  <2>5. CASE HearsClose(tr')
    <3>1. eng' = AfterClose(eng, tr.closing) /\ heard'.at = "idle"
      BY <2>5 DEF HearsClose, OnClose
    <3>2. eng' \in Session /\ eng'.running = eng.running /\ eng'.gen = eng.gen /\ ~eng'.timer
      BY <2>1, <3>1, AfterCloseIs
    <3>3. ~Pending(eng', asks')
      BY <1>0, <2>1, <3>2 DEF Pending
    <3>4. EngineFits(eng', asks', "idle") /\ Stopped(eng', tr')
      BY <1>0, <2>1, <3>2, <3>3, IdleFits DEF Stopped
    <3>5. T!OnClose
      BY <2>5 DEF HearsClose, T!OnClose
    <3> QED BY <2>2, <3>1, <3>4, <3>5 DEF LinkInv, Steps, T!Next
  <2> QED BY <1>2, <2>3, <2>4, <2>5, HearsOwn DEF LinkInv
<1> QED BY <1>1, <1>2

LEMMA WorkerFits ==
  ASSUME LinkInv, NEW p \in Port, Worker(p)
  PROVE  LinkInv' /\ Steps
<1>1. UNCHANGED <<tr, heard, eng, asks>>
  BY DEF Worker, WorkerTakes, SocketOpens, SocketCloses, GoesDark
<1>2. PortsFit(pipe', tr', heard.at)
  BY WorkerTakesFits, SocketOpensFits, SocketClosesFits, GoesDarkFits DEF Worker, LinkInv
<1> QED BY <1>1, <1>2 DEF LinkInv, Steps

LEMMA TeardownFits ==
  ASSUME LinkInv, Teardown
  PROVE  LinkInv' /\ Steps
<1>1. UNCHANGED <<tr, heard, eng, asks>>
  BY DEF Teardown, WorkerDies
<1>2. PortsFit(pipe', tr', heard.at)
  BY WorkerDiesFits DEF Teardown, LinkInv
<1> QED BY <1>1, <1>2 DEF LinkInv, Steps

-----------------------------------------------------------------------------
LEMMA LinkInitFits == LinkInit => LinkInv /\ T!Init
<1> SUFFICES ASSUME LinkInit PROVE LinkInv /\ T!Init
  OBVIOUS
<1>1. PortsFit(pipe, tr, heard.at) /\ T!Init /\ heard.at = "idle" /\ tr.port = NoPort
  <2>1. Unmade \in Pipe
    <3>1. <<>> \in Seq(ToWorker) /\ <<>> \in Seq(FromWorker)
      OBVIOUS
    <3> QED BY <3>1 DEF Unmade, Pipe
  <2>2. pipe = [p \in Port |-> Unmade] /\ tr = [port |-> NoPort, closing |-> FALSE]
        /\ heard = [at |-> "idle", last |-> "none"]
    BY DEF LinkInit, PortInit
  <2> QED BY <2>1, <2>2 DEF PortsFit, T!Init
<1>2. EngineFits(eng, asks, "idle") /\ Stopped(eng, tr)
  <2>1. eng \in Session /\ eng.running /\ ~eng.timer
    <3>1. 0 \in 0..SilentProbes
      BY LinkAssumption
    <3> QED BY <3>1 DEF LinkInit, Session, Statuses
  <2>2. asks \in Asks /\ \A g \in Attempt : asks[g] = "none"
    BY DEF LinkInit, Asks
  <2> QED BY <2>1, <2>2 DEF EngineFits, Pending, Stopped
<1> QED BY <1>1, <1>2 DEF LinkInv

LEMMA LinkNextFits == LinkInv /\ [LinkNext]_linkVars => LinkInv' /\ Steps
<1> SUFFICES ASSUME LinkInv, [LinkNext]_linkVars PROVE LinkInv' /\ Steps
  OBVIOUS
<1>1. CASE UNCHANGED linkVars
  BY <1>1 DEF linkVars, portVars, LinkInv, Steps
<1>2. CASE LinkNext
  BY <1>2, ReconnectFits, TimeLoopFits, StopFits, TeardownFits, TicketFits, TicketFailsFits,
     DeadlineFits, HearsFits, WorkerFits
     DEF LinkNext
<1> QED BY <1>1, <1>2

LEMMA LinkHolds == LinkSpec => []LinkInv
BY LinkInitFits, LinkNextFits, PTL DEF LinkSpec

(* The port, the worker and the messages of earlier ports still on their   *)
(* way keep what a transport promises an engine, however many ports, and   *)
(* whatever is lost (porttransport.ts, sw.ts): it opens once, frames come  *)
(* only then, it closes once, and of a connection the engine closed it     *)
(* hears nothing more; and the engine never connects over a connection.    *)
THEOREM LinkImplementsTransport == LinkSpec => ImplementsTransport
<1>1. LinkInv /\ [LinkNext]_linkVars => [T!Next]_<<heard.at, heard.last>>
  BY LinkNextFits DEF Steps
<1>2. LinkInit => T!Init
  BY LinkInitFits
<1> QED BY <1>1, <1>2, LinkHolds, PTL DEF LinkSpec, ImplementsTransport, T!Spec

(* stop() is the end (engine.ts, connectGen): whatever ticket, deadline or *)
(* message of the transport comes later, no connection is made, and no     *)
(* timer is armed.                                                         *)
THEOREM LinkStopsForGood == LinkSpec => []StoppedForGood
<1>1. LinkInv => StoppedForGood
  BY DEF LinkInv, Stopped, StoppedForGood
<1> QED BY <1>1, LinkHolds, PTL

THEOREM LinkTypesHold == LinkSpec => []LinkTypes
<1>1. LinkInv => LinkTypes
  BY DEF LinkInv, PortsFit, EngineFits, LinkTypes, Session, Asks
<1> QED BY <1>1, LinkHolds, PTL

(***************************************************************************)
(* The clock (clock.ts), over whatever samples a session brings.           *)
(***************************************************************************)
Stamps == [t0 : Int, tRecv : Int, tSend : Int, t1 : Int]
Clocks == [offset : Int, best : Nat \cup {Infinite}, samples : Nat, steps : Nat]

(* The server's stamps are truncated to a millisecond, the member's are    *)
(* rounded when sent and exact when received.                              *)
Truncated(stamp, at) == at - Ms < stamp /\ stamp <= at
RoundedTo(stamp, at) == 2 * (stamp - at) <= Ms /\ 2 * (at - stamp) <= Ms

(* The four stamps of a probe sent at t, on the way for `out` and `back` and *)
(* held by the server for `hold`, while the server's clock is `by` ahead.  *)
Tells(s, by) ==
  \E t \in Int, out, hold, back \in Nat :
    /\ RoundedTo(s.t0, t)
    /\ Truncated(s.tRecv, t + by + out)
    /\ Truncated(s.tSend, t + by + out + hold)
    /\ s.t1 = t + out + hold + back

(* Wrong by no more than half the round trip and half the slack. *)
AsGood(offset, rtt, by) == 2 * (offset - by) <= rtt + Slack /\ 2 * (by - offset) <= rtt + Slack
Estimates(c, by) == Measured(c) => AsGood(c.offset, c.best, by)

USE ClockAssumption

LEMMA LeastNatural ==
  ASSUME NEW Bad \in SUBSET Nat, Bad # {}
  PROVE  \E x \in Bad : \A y \in Bad : x <= y
<1>1. \E x \in Bad : \A y \in Bad : ~(<<y, x>> \in OpToRel(<, Nat))
  BY WFMin, NatLessThanWellFounded, Zenon
<1>2. PICK x \in Bad : \A y \in Bad : ~(<<y, x>> \in OpToRel(<, Nat))
  BY <1>1
<1>3. ASSUME NEW y \in Bad PROVE x <= y
  <2>1. ~(<<y, x>> \in {ss \in Nat \X Nat : ss[1] < ss[2]})
    BY <1>2 DEF OpToRel
  <2> QED BY <2>1
<1> QED BY <1>3

(* What the model's integer division keeps of a sample. *)
LEMMA SampleFields ==
  ASSUME NEW s \in Stamps
  PROVE  /\ Rtt(s) \in Int /\ Rtt(s) = (s.t1 - s.t0) - (s.tSend - s.tRecv)
         /\ Offset(s) \in Int
         /\ LET sum == (s.tRecv - s.t0) + (s.tSend - s.t1)
            IN 2 * Offset(s) \in {sum, sum - 1}
<1>1. s.t0 \in Int /\ s.tRecv \in Int /\ s.tSend \in Int /\ s.t1 \in Int
  BY DEF Stamps
<1>2. \A n \in Int : n \div 2 \in Int /\ 2 * (n \div 2) \in {n, n - 1}
  OBVIOUS
<1>. QED
  BY <1>1, <1>2 DEF Rtt, Offset

(* The path's asymmetry and the rounding cost no more than that. *)
LEMMA SampleIsAsGood ==
  ASSUME NEW s \in Stamps, NEW by \in Int, Tells(s, by)
  PROVE  AsGood(Offset(s), Rtt(s), by)
<1>1. PICK t \in Int, out \in Nat, hold \in Nat, back \in Nat :
        /\ RoundedTo(s.t0, t)
        /\ Truncated(s.tRecv, t + by + out)
        /\ Truncated(s.tSend, t + by + out + hold)
        /\ s.t1 = t + out + hold + back
  BY DEF Tells
<1>2. s.t0 \in Int /\ s.tRecv \in Int /\ s.tSend \in Int /\ s.t1 \in Int
  BY DEF Stamps
<1>. QED
  BY <1>1, <1>2, SampleFields DEF AsGood, Slack, RoundedTo, Truncated

(* addSample, case by case. *)
LEMMA Added ==
  ASSUME NEW c \in Clocks, NEW s \in Stamps
  PROVE  LET d == AddSample(c, s)
         IN /\ d \in Clocks
            /\ Rtt(s) < 0 => d.offset = c.offset /\ d.best = c.best /\ d.steps = c.steps
            /\ Rtt(s) >= 0 /\ ~Contradicts(c, s) =>
                 /\ d.steps = c.steps
                 /\ \/ d.offset = c.offset /\ d.best = c.best /\ Measured(c)
                    \/ d.offset = Offset(s) /\ d.best = Rtt(s)
            /\ Rtt(s) >= 0 /\ Contradicts(c, s) =>
                 d.steps = c.steps + 1 /\ d.offset = Offset(s) /\ d.best = Rtt(s)
<1>. DEFINE d == AddSample(c, s)
            counted == [c EXCEPT !.samples = @ + 1]
            taken == [counted EXCEPT !.best = Rtt(s), !.offset = Offset(s)]
            stepped == [counted EXCEPT !.best = Rtt(s), !.offset = Offset(s), !.steps = @ + 1]
<1>1. Rtt(s) \in Int /\ Offset(s) \in Int /\ Measured(c) \in BOOLEAN
  BY SampleFields DEF Measured
<1>2. /\ counted \in Clocks /\ counted.offset = c.offset /\ counted.best = c.best
      /\ counted.steps = c.steps
  BY DEF Clocks
<1>. HIDE DEF counted
<1>3. ASSUME Rtt(s) >= 0
      PROVE  taken \in Clocks /\ taken.offset = Offset(s) /\ taken.best = Rtt(s) /\ taken.steps = c.steps
  <2>1. Rtt(s) \in Nat \cup {Infinite}
    BY <1>1, <1>3
  <2>. QED
    BY <1>1, <1>2, <2>1 DEF Clocks
<1>4. ASSUME Rtt(s) >= 0
      PROVE  stepped \in Clocks /\ stepped.offset = Offset(s) /\ stepped.best = Rtt(s)
             /\ stepped.steps = c.steps + 1
  <2>1. Rtt(s) \in Nat \cup {Infinite}
    BY <1>1, <1>4
  <2>2. counted.steps + 1 \in Nat
    BY <1>2 DEF Clocks
  <2>3. stepped \in Clocks
    BY <1>1, <1>2, <2>1, <2>2 DEF Clocks
  <2>4. stepped.offset = Offset(s) /\ stepped.best = Rtt(s) /\ stepped.steps = counted.steps + 1
    BY <1>2 DEF Clocks
  <2>. QED
    BY <1>2, <2>3, <2>4
<1>5. d = IF Rtt(s) < 0 THEN counted ELSE IF Contradicts(c, s) THEN stepped
          ELSE IF Measured(c) /\ Rtt(s) >= c.best THEN counted ELSE taken
  BY Zenon DEF AddSample, counted
<1>6. Rtt(s) >= 0 <=> ~(Rtt(s) < 0)
  BY <1>1
<1>. HIDE DEF d, counted, taken, stepped
<1>7. d \in {counted, taken, stepped} /\ d \in Clocks
  BY <1>2, <1>3, <1>4, <1>5, <1>6
<1>. QED
  BY <1>2, <1>3, <1>4, <1>5, <1>6, <1>7 DEF d

(* A sample of an offset that has not moved never contradicts an estimate of *)
(* it, whatever the path does (CONSISTENCY_SLACK_MS), and the estimate it  *)
(* leaves is again as good as it says.                                     *)
LEMMA OneOffsetNeverSteps ==
  ASSUME NEW by \in Int, NEW c \in Clocks, Estimates(c, by),
         NEW s \in Stamps, Tells(s, by)
  PROVE  /\ AddSample(c, s).steps = c.steps
         /\ Estimates(AddSample(c, s), by)
<1>. DEFINE d == AddSample(c, s)
<1>1. AsGood(Offset(s), Rtt(s), by)
  BY SampleIsAsGood
<1>2. Slack \in Int /\ c.offset \in Int /\ (Measured(c) => c.best \in Nat)
  BY DEF Clocks, Measured, Slack
<1>3. ~Contradicts(c, s)
  BY <1>1, <1>2, SampleFields DEF Contradicts, Estimates, AsGood
<1>. QED
  BY <1>1, <1>3, Added, SampleFields DEF Estimates, Measured

(* So no false step is ever counted, however long the session lasts.       *)
THEOREM NoFalseStepsEver ==
  ASSUME NEW by \in Int, NEW clock \in [Nat -> Clocks], NEW sample \in [Nat -> Stamps],
         ~Measured(clock[0]),
         \A n \in Nat : Tells(sample[n], by) /\ clock[n + 1] = AddSample(clock[n], sample[n])
  PROVE  \A n \in Nat : clock[n].steps = clock[0].steps /\ Estimates(clock[n], by)
<1>. DEFINE Good(n) == clock[n].steps = clock[0].steps /\ Estimates(clock[n], by)
            Bad == {n \in Nat : ~Good(n)}
<1>1. Good(0)
  BY DEF Estimates
<1>2. ASSUME NEW n \in Nat, Good(n) PROVE Good(n + 1)
  <2>1. clock[n] \in Clocks /\ sample[n] \in Stamps
    OBVIOUS
  <2>. QED
    BY <1>2, <2>1, OneOffsetNeverSteps
<1>. HIDE DEF Good
<1>3. CASE Bad # {}
  <2>1. PICK n \in Bad : \A m \in Bad : n <= m
    BY <1>3, LeastNatural
  <2>2. n # 0
    BY <1>1
  <2>3. n - 1 \in Nat /\ n - 1 \notin Bad /\ (n - 1) + 1 = n
    BY <2>1, <2>2
  <2>. QED
    BY <1>2, <2>3
<1>4. CASE Bad = {}
  BY <1>4 DEF Good
<1>. QED
  BY <1>3, <1>4

(* When the offset has moved, as it may while the machine sleeps, the next *)
(* sample leaves a good estimate of where it is now, or the old estimate is *)
(* not wrong by more than the two samples together allow: a best sample    *)
(* from before does not keep the clock wrong for good.                     *)
THEOREM MovedOffsetIsAlwaysFound ==
  ASSUME NEW by \in Int, NEW c \in Clocks, Measured(c),
         NEW s \in Stamps, Tells(s, by), Rtt(s) >= 0
  PROVE  LET d == AddSample(c, s)
         IN \/ Estimates(d, by)
            \/ /\ d.offset = c.offset /\ d.steps = c.steps
               /\ 2 * (d.offset - by) <= c.best + 2 * Rtt(s) + 3 * Slack
               /\ 2 * (by - d.offset) <= c.best + 2 * Rtt(s) + 3 * Slack
<1>1. AsGood(Offset(s), Rtt(s), by)
  BY SampleIsAsGood
<1>2. Slack \in Int /\ c.offset \in Int /\ c.best \in Nat
  BY DEF Clocks, Measured, Slack
<1>3. CASE Contradicts(c, s)
  BY <1>1, <1>3, Added DEF Estimates
<1>4. CASE ~Contradicts(c, s)
  <2>1. /\ 2 * (c.offset - by) <= c.best + 2 * Rtt(s) + 3 * Slack
        /\ 2 * (by - c.offset) <= c.best + 2 * Rtt(s) + 3 * Slack
    BY <1>1, <1>2, <1>4, SampleFields DEF Contradicts, AsGood
  <2>. QED
    BY <1>1, <1>4, <2>1, Added DEF Estimates
<1>. QED
  BY <1>3, <1>4
=============================================================================
