-------------------------------- MODULE Hub --------------------------------
(***************************************************************************)
(* The registry of rooms and the way into one (server/internal/hub/hub.go, *)
(* live.go's join, leave and rotate, http.go's serveWS).                   *)
(*                                                                         *)
(* Two kinds of mutex are at work, the hub's over the registry and each    *)
(* room's over what is in it, and nothing holds both on the way in: a      *)
(* connection finds its room, checks the secret, and joins in three steps, *)
(* with the sweeper or a rotation free to come between any two of them.    *)
(* Each step here is one critical section.                                 *)
(*                                                                         *)
(* Left out: the upgrade and hello that precede the first step, the ticket *)
(* (auth), the frames sent, and the room's own state (Room.tla).           *)
(***************************************************************************)
EXTENDS Integers, FiniteSets

CONSTANTS
  RoomId,       \* ids; each is given out once, as a random 128-bit id is
  Visitor,      \* connections
  Nowhere,      \* a visitor without a room
  MaxRooms,     \* Config.MaxRooms
  MaxMembers,   \* Config.MaxMembersPerRoom
  IdleTTL,      \* Config.IdleTTL
  MaxSecret,    \* bound on the number of secrets a room goes through
  MaxTime       \* bound on the clock

ASSUME HubAssumption ==
  /\ MaxRooms \in Nat /\ MaxMembers \in Nat /\ IdleTTL \in Nat
  /\ MaxSecret \in Nat \ {0} /\ MaxTime \in Nat
  /\ Nowhere \notin RoomId

VARIABLES
  now,      \* the server clock
  rooms,    \* the registry
  dead,     \* rooms the sweeper has removed
  secret,   \* per room: its current secret, 0 before it exists
  conns,    \* per room: who is in it
  empty,    \* per room: since when it is empty (emptySinceMs)
  visit,    \* per visitor: how far it is, the room it holds, its secret
  sweep     \* the sweeper: phase, its reading of the clock, rooms to look at

roomVars == <<rooms, dead, secret, conns, empty>>
vars == <<now, rooms, dead, secret, conns, empty, visit, sweep>>

Outside == [at |-> "outside", room |-> Nowhere, secret |-> 0]

Idle == [phase |-> "idle", read |-> 0, todo |-> {}, doomed |-> {}]

Init ==
  /\ now = 0
  /\ rooms = {} /\ dead = {}
  /\ secret = [r \in RoomId |-> 0]
  /\ conns = [r \in RoomId |-> {}]
  /\ empty = [r \in RoomId |-> 0]
  /\ visit = [v \in Visitor |-> Outside]
  /\ sweep = Idle

(* The sweeper holds the hub's mutex while it deletes. *)
RegistryFree == sweep.phase # "deleting"

Full(r) == Cardinality(conns[r]) >= MaxMembers

Create(r) ==
  /\ RegistryFree
  /\ secret[r] = 0
  /\ Cardinality(rooms) < MaxRooms
  /\ rooms' = rooms \cup {r}
  /\ secret' = [secret EXCEPT ![r] = 1]
  /\ empty' = [empty EXCEPT ![r] = now]
  /\ UNCHANGED <<now, dead, conns, visit, sweep>>

-----------------------------------------------------------------------------
(* serveWS: Lookup under the hub's mutex, Lookup under the room's, join. *)

(* A visitor comes with a secret some holder of the link once had. *)
Find(v, r, s) ==
  /\ RegistryFree
  /\ visit[v] = Outside
  /\ r \in rooms
  /\ visit' = [visit EXCEPT ![v] = [at |-> "found", room |-> r, secret |-> s]]
  /\ UNCHANGED <<now, roomVars, sweep>>

CheckSecret(v) ==
  LET r == visit[v].room
  IN  /\ visit[v].at = "found"
      /\ visit' = [visit EXCEPT ![v] = IF secret[r] = @.secret THEN [@ EXCEPT !.at = "checked"]
                                       ELSE Outside]
      /\ UNCHANGED <<now, roomVars, sweep>>

(* join checks again what may have changed since: the room may be gone, and *)
(* its secret another.                                                      *)
MutForgetsDead(v, r) == secret[r] = visit[v].secret /\ ~Full(r)
MutForgetsRotation(v, r) == r \notin dead /\ ~Full(r)
Admits(v, r) == r \notin dead /\ secret[r] = visit[v].secret /\ ~Full(r)

Join(v) ==
  LET r == visit[v].room
  IN  /\ visit[v].at = "checked"
      /\ Admits(v, r)
      /\ conns' = [conns EXCEPT ![r] = @ \cup {v}]
      /\ visit' = [visit EXCEPT ![v].at = "joined"]
      /\ UNCHANGED <<now, rooms, dead, secret, empty, sweep>>

Refused(v) ==
  /\ visit[v].at = "checked"
  /\ ~Admits(v, visit[v].room)
  /\ visit' = [visit EXCEPT ![v] = Outside]
  /\ UNCHANGED <<now, roomVars, sweep>>

EmptySince(r, left) == IF left = {} THEN [empty EXCEPT ![r] = now] ELSE empty

Leave(v) ==
  LET r    == visit[v].room
      left == conns[r] \ {v}
  IN  /\ visit[v].at = "joined"
      /\ conns' = [conns EXCEPT ![r] = left]
      /\ empty' = EmptySince(r, left)
      /\ visit' = [visit EXCEPT ![v] = Outside]
      /\ UNCHANGED <<now, rooms, dead, secret, sweep>>

(* A member replaces the secret; who is in stays in. *)
Rotate(v) ==
  LET r == visit[v].room
  IN  /\ visit[v].at = "joined"
      /\ secret[r] < MaxSecret
      /\ secret' = [secret EXCEPT ![r] = @ + 1]
      /\ UNCHANGED <<now, rooms, dead, conns, empty, visit, sweep>>

-----------------------------------------------------------------------------
(* sweep: the clock, the registry, each room, and then those found idle.   *)

SweepRead ==
  /\ sweep.phase = "idle"
  /\ sweep' = [Idle EXCEPT !.phase = "read", !.read = now]
  /\ UNCHANGED <<now, roomVars, visit>>

SweepCollect ==
  /\ sweep.phase = "read"
  /\ sweep' = [sweep EXCEPT !.phase = "looking", !.todo = rooms]
  /\ UNCHANGED <<now, roomVars, visit>>

MutSwappedClocks(r, t) == conns[r] = {} /\ empty[r] - t > IdleTTL
IdleTooLong(r, t) == conns[r] = {} /\ t - empty[r] > IdleTTL

(* A room with members is ticked instead (Room!Tick). *)
SweepLook(r) ==
  /\ sweep.phase = "looking"
  /\ r \in sweep.todo
  /\ sweep' = [sweep EXCEPT !.todo = @ \ {r},
                            !.doomed = IF IdleTooLong(r, sweep.read) THEN @ \cup {r} ELSE @]
  /\ UNCHANGED <<now, roomVars, visit>>

SweepLooked ==
  /\ sweep.phase = "looking" /\ sweep.todo = {}
  /\ sweep' = IF sweep.doomed = {} THEN Idle
              ELSE [sweep EXCEPT !.phase = "deleting", !.todo = sweep.doomed, !.doomed = {}]
  /\ UNCHANGED <<now, roomVars, visit>>

(* Someone may have come, and even gone again, since the room was looked at. *)
MutStillDoomed(r) == TRUE
StillDoomed(r) == IdleTooLong(r, sweep.read)

SweepDelete(r) ==
  /\ sweep.phase = "deleting"
  /\ r \in sweep.todo
  /\ sweep' = [sweep EXCEPT !.todo = @ \ {r}]
  /\ IF r \in rooms /\ StillDoomed(r)
     THEN dead' = dead \cup {r} /\ rooms' = rooms \ {r}
     ELSE UNCHANGED <<dead, rooms>>
  /\ UNCHANGED <<now, secret, conns, empty, visit>>

SweepDone ==
  /\ sweep.phase = "deleting" /\ sweep.todo = {}
  /\ sweep' = Idle
  /\ UNCHANGED <<now, roomVars, visit>>

Passes ==
  /\ now < MaxTime
  /\ now' = now + 1
  /\ UNCHANGED <<roomVars, visit, sweep>>

Sweeper ==
  \/ SweepRead \/ SweepCollect \/ SweepLooked \/ SweepDone
  \/ \E r \in RoomId : SweepLook(r) \/ SweepDelete(r)

Next ==
  \/ Passes
  \/ \E r \in RoomId : Create(r)
  \/ \E v \in Visitor, r \in RoomId : \E s \in 1 .. MaxSecret : Find(v, r, s)
  \/ \E v \in Visitor : CheckSecret(v) \/ Join(v) \/ Refused(v) \/ Leave(v) \/ Rotate(v)
  \/ Sweeper

Spec == Init /\ [][Next]_vars

(* The clock runs, and the sweeper's goroutine with it (Hub.loop). *)
FairSpec == Spec /\ WF_vars(Passes) /\ WF_vars(Sweeper)

-----------------------------------------------------------------------------
(* Types.  No instant the hub keeps lies ahead of its clock.               *)
TypeOK ==
  /\ now \in 0 .. MaxTime
  /\ rooms \subseteq RoomId /\ dead \subseteq RoomId
  /\ secret \in [RoomId -> 0 .. MaxSecret]
  /\ conns \in [RoomId -> SUBSET Visitor]
  /\ empty \in [RoomId -> 0 .. now]
  /\ visit \in [Visitor -> [at : {"outside", "found", "checked", "joined"},
                            room : RoomId \cup {Nowhere}, secret : 0 .. MaxSecret]]
  /\ sweep \in [phase : {"idle", "read", "looking", "deleting"}, read : 0 .. now,
                todo : SUBSET RoomId, doomed : SUBSET RoomId]

(* Nobody is in a room others can no longer find: a member's room is in the *)
(* registry, whatever the sweeper did while they were on their way in       *)
(* (Live.dead).                                                             *)
NoGhostRoom == \A v \in Visitor : visit[v].at = "joined" =>
                 visit[v].room \in rooms /\ v \in conns[visit[v].room]

(* Whoever enters does so on the secret of that moment and into a place     *)
(* that is free at that moment: a rotation, or other visitors, between the  *)
(* check of the link and the join shut the old link out (join).             *)
AdmittedAsOfNow ==
  [][\A v \in Visitor : visit'[v].at = "joined" /\ visit[v].at # "joined" =>
       /\ visit[v].secret = secret[visit[v].room]
       /\ Cardinality(conns'[visit[v].room]) <= MaxMembers]_vars

(* A room leaves the registry only after it has stood empty for IdleTTL     *)
(* without a break, although the sweeper's clock is from before it looked,  *)
(* and it looks and deletes at different times.                             *)
KeptForTheTTL ==
  [][\A r \in rooms \ rooms' : conns[r] = {} /\ now - empty[r] > IdleTTL]_vars

(* A room everybody has left goes, unless somebody comes back.              *)
EmptyRoomGoes ==
  \A r \in RoomId :
    (r \in rooms /\ conns[r] = {} /\ now + IdleTTL < MaxTime) ~> (r \notin rooms \/ conns[r] # {})
=============================================================================
