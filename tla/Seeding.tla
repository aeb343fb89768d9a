------------------------------- MODULE Seeding -------------------------------
(***************************************************************************)
(* What the engines tell a room without being asked to                     *)
(* (client/core/src/engine/engine.ts).  Three things are sent that no      *)
(* member pressed: the first member on media NAMES a room that names none; *)
(* the creator or the namer SEEDS it from its own player, once that has    *)
(* settled; and a member whose site moved on by itself at the end of the   *)
(* room's media CARRIES the room to the next episode, and starts it there. *)
(* Each is decided on what an engine last heard, and sent to a room that   *)
(* others move meanwhile.                                                  *)
(*                                                                         *)
(* Positions, the player and the schedule are left to Engine: a frame is   *)
(* heard and applied in the step that sends it, and acquiring is three     *)
(* steps (Acquire, Conformed, Settle) that take as long as they like.  The *)
(* readiness gate, which holds a play for a while, is Room's.  Time is     *)
(* what it is compared with: Wanes ends the continuation window, GrowsOld  *)
(* the time in which a continuation may start the room.  Commands take     *)
(* their time to the server; when a link goes they may still get there,    *)
(* unanswered, until the member is back.  Events bounds what members,      *)
(* sites and the network do; a hidden tab may always be shown.             *)
(***************************************************************************)
EXTENDS Integers, Sequences

CONSTANTS Member, Creator, Media, NoMedia,
          Continues,   \* the pairs of media a site moves on between by itself
          Events

ASSUME SeedingAssumption ==
    /\ Creator \in Member /\ NoMedia \notin Media
    /\ Continues \subseteq Media \X Media /\ Events \in Nat

VARIABLES room,   \* what the server has: the media, and whether it is stopped
          up,     \* the commands of each member on their way
          eng,    \* each member's engine, and whether its tab is hidden
          over,   \* history: who set out to seed the room, and somebody moved it since
          owed,   \* history: who carried a playing room and has not started it yet
          left    \* events left

seedingVars == <<room, up, eng, over, owed, left>>

Key == Media \cup {NoMedia}
Nobody == "nobody"
Null == "null"
NoFinish == [key |-> NoMedia, fresh |-> FALSE, here |-> FALSE]
NoHeld == [prev |-> NoMedia, key |-> NoMedia]
NoCont == [key |-> NoMedia, play |-> FALSE, old |-> FALSE]
Room == [media : Key, paused : BOOLEAN]

Engine ==
    [st : {"down", "joined"}, welcomed : BOOLEAN, clock : BOOLEAN, hidden : BOOLEAN,
     local : Key, view : Room, missed : BOOLEAN,
     acq : {"detached", "conforming", "guarded", "steady"}, job : {"none", "aimed", "overtaken"},
     adopt : Media \cup {Null}, foreign : BOOLEAN, named : Key,
     fin : [key : Key, fresh : BOOLEAN, here : BOOLEAN], held : [prev : Key, key : Key],
     cont : [key : Key, play : BOOLEAN, old : BOOLEAN]]

(* An engine that is joined has the room; one that names what the room is  *)
(* on is not still waiting to hear it.                                     *)
SeedingTypes ==
    /\ room \in Room
    /\ eng \in [Member -> Engine]
    /\ \A m \in Member : eng[m].st = "joined" => eng[m].view = room
    /\ over \in [Member -> BOOLEAN] /\ owed \in Member \cup {Nobody}
    /\ left \in 0..Events

-----------------------------------------------------------------------------
(* The room. *)

Anything == "anything"
Command(kind, why, media, if) == [kind |-> kind, why |-> why, media |-> media, if |-> if, play |-> FALSE]

(* The compare-and-set of a conditional media command. *)
Stale(c) == c.if # Anything /\ c.if # room.media

(* A media command stops the room; play and pause say which; a seek keeps. *)
After(c) ==
    [media |-> IF c.kind = "media" THEN c.media ELSE room.media,
     paused |-> CASE c.kind = "play" -> FALSE
                  [] c.kind = "seek" -> room.paused
                  [] OTHER -> TRUE]

-----------------------------------------------------------------------------
(* An engine. *)

OnRoomMedia(e) == e.local # NoMedia /\ e.local = e.view.media
CanAim(e) == e.st = "joined" /\ e.clock /\ OnRoomMedia(e)

NewMediaEpoch(e) == [e EXCEPT !.acq = "detached", !.job = "none", !.fin.here = FALSE]

(* setLocalMediaKey, but for what maybeContinue sends *)
Renamed(e, k) == [NewMediaEpoch(e) EXCEPT !.local = k, !.adopt = Null, !.fin = NoFinish, !.held = NoHeld]

MayContinue(e, f, prev, k) ==
    /\ e.st = "joined" /\ f.key = prev /\ prev = e.view.media /\ f.fresh
    /\ <<prev, k>> \in Continues

(* continueFrom: what it leaves, and what it sends *)
Carry(e, prev, k) ==
    IF e.hidden THEN [e |-> [e EXCEPT !.held = [prev |-> prev, key |-> k]], cmds |-> <<>>]
    ELSE [e |-> [e EXCEPT !.cont = [key |-> k, play |-> ~e.view.paused, old |-> FALSE]],
          cmds |-> <<[Command("media", "carry", k, prev) EXCEPT !.play = ~e.view.paused]>>]

(* The room becomes r: what is under way against the one before is overtaken *)
Moved(e, r) ==
    LET n == [e EXCEPT !.view = r, !.job = IF @ = "none" THEN @ ELSE "overtaken"]
    IN IF r.media # e.view.media THEN NewMediaEpoch(n) ELSE n

(* applyScheduled.  Somebody else's command is remembered by a member that *)
(* is to seed the room.                                                    *)
Taken(e, r, own) == Moved([e EXCEPT !.foreign = @ \/ (~own /\ e.adopt # Null)], r)

MutWelcome(e, r) ==
    LET n == [e EXCEPT !.st = "joined", !.missed = FALSE, !.welcomed = TRUE, !.named = NoMedia,
                       !.cont = IF @.key = r.media THEN @ ELSE NoCont]
    IN IF e.welcomed THEN Moved(n, r) ELSE [n EXCEPT !.view = r]
(* the first welcome is not a change of media *)
Welcome(e, r) ==
    LET n == [e EXCEPT !.st = "joined", !.missed = FALSE, !.welcomed = TRUE, !.named = NoMedia,
                       !.foreign = @ \/ (e.missed /\ e.adopt # Null),
                       !.cont = IF @.key = r.media THEN @ ELSE NoCont]
    IN IF e.welcomed THEN Moved(n, r) ELSE [n EXCEPT !.view = r]

(* startContinuation, from a conform that was done *)
Start(e) ==
    IF e.cont.old THEN [e |-> [e EXCEPT !.cont = NoCont], cmds |-> <<>>]
    ELSE IF e.cont = NoCont \/ e.cont.key # e.view.media THEN [e |-> e, cmds |-> <<>>]
    ELSE [e |-> [e EXCEPT !.cont = NoCont],
          cmds |-> IF e.cont.play THEN <<Command("play", "start", NoMedia, Anything)>> ELSE <<>>]

(* toSteady: a seed goes out now, the player being at rest or running *)
Seeds(e) == e.adopt # Null /\ e.adopt = e.view.media /\ OnRoomMedia(e) /\ e.clock
Seed(playing) ==
    <<Command("seek", "seed", NoMedia, Anything)>>
        \o IF playing THEN <<Command("play", "seed", NoMedia, Anything)>> ELSE <<>>
ToSteady(e, playing) ==
    LET s == [e EXCEPT !.acq = "steady"]
    IN IF ~Seeds(e) THEN [e |-> s, cmds |-> <<>>]
       ELSE [e |-> [s EXCEPT !.adopt = Null], cmds |-> IF e.foreign THEN <<>> ELSE Seed(playing)]

-----------------------------------------------------------------------------
(* Steps of the server and of one engine. *)

(* becomes next.e, and sends next.cmds *)
Becomes(m, next) ==
    /\ eng' = [eng EXCEPT ![m] = next.e]
    /\ up' = [up EXCEPT ![m] = @ \o next.cmds]
Silent(e) == [e |-> e, cmds |-> <<>>]
server == <<room, over, owed>>

(* a carrier that is still on the media it carries the room to *)
WaitsThere(e, k) == e.local = k /\ ~e.hidden /\ ~e.cont.old
(* ... and has not pressed "move the room here" too *)
Pressed(m) == \E i \in DOMAIN up[m] : up[m][i].why = "chosen"

(* The oldest command of m gets there: refused, or told to everybody. *)
Serve(m) ==
    LET c == Head(up[m])
        r == After(c)
    IN /\ up[m] # <<>>
       /\ up' = [up EXCEPT ![m] = Tail(@)]
       /\ IF Stale(c)
          THEN /\ eng' = [eng EXCEPT ![m] = IF @.st = "down" THEN @ ELSE [@ EXCEPT !.cont = NoCont]]
               /\ UNCHANGED server
          ELSE /\ room' = r
               /\ eng' = [n \in Member |-> IF eng[n].st = "down" THEN [eng[n] EXCEPT !.missed = TRUE]
                                           ELSE Taken(eng[n], r, n = m)]
               /\ over' = [n \in Member |-> over[n] \/ n # m]
               /\ owed' = IF c.play /\ WaitsThere(eng[m], c.media) /\ ~Pressed(m) THEN m ELSE Nobody
       /\ UNCHANGED left

Joins(m) ==
    /\ eng[m].st = "down"
    /\ eng' = [eng EXCEPT ![m] = Welcome(@, room)]
    /\ up' = [up EXCEPT ![m] = <<>>]
    /\ UNCHANGED <<server, left>>

ClockSettles(m) ==
    /\ eng[m].st = "joined" /\ ~eng[m].clock
    /\ Becomes(m, Silent([eng[m] EXCEPT !.clock = TRUE]))
    /\ UNCHANGED <<server, left>>

(* nameRoomIfUnnamed *)
Names(m) ==
    LET e == eng[m]
    IN /\ e.st = "joined" /\ e.clock /\ ~e.hidden
       /\ e.view.media = NoMedia /\ e.local # NoMedia /\ e.named # e.local
       /\ Becomes(m, [e |-> [e EXCEPT !.named = e.local, !.adopt = e.local, !.foreign = FALSE],
                      cmds |-> <<Command("media", "name", e.local, NoMedia)>>])
       /\ over' = [over EXCEPT ![m] = FALSE]
       /\ UNCHANGED <<room, owed, left>>

(* continueWhenShown *)
CarriesWhenShown(m) ==
    LET e == eng[m]
        h == [e EXCEPT !.held = NoHeld]
    IN /\ e.st = "joined" /\ e.held # NoHeld /\ ~e.hidden
       /\ Becomes(m, IF e.held.prev = e.view.media THEN Carry(h, e.held.prev, e.held.key) ELSE Silent(h))
       /\ UNCHANGED <<server, left>>

(* advanceAcquisition from `detached`: the element can be put somewhere *)
Acquire(m) ==
    LET e == eng[m]
        a == IF e.foreign THEN [e EXCEPT !.adopt = Null] ELSE e
    IN /\ CanAim(e) /\ ~e.hidden /\ e.acq = "detached"
       /\ Becomes(m, Silent(IF a.adopt # Null /\ a.adopt = a.view.media
                            THEN [a EXCEPT !.acq = "guarded"]
                            ELSE [a EXCEPT !.acq = "conforming", !.job = "aimed"]))
       /\ UNCHANGED <<server, left>>

(* queueConform's job is over: done, or overtaken *)
MutConformed(m) ==
    LET e == eng[m]
        r == [e EXCEPT !.job = "none"]
    IN /\ e.job # "none"
       /\ Becomes(m, Silent(IF e.acq # "conforming" THEN r
                            ELSE IF CanAim(e) /\ e.job = "aimed" THEN [r EXCEPT !.acq = "guarded"]
                            ELSE [r EXCEPT !.acq = "detached"]))
       /\ UNCHANGED <<server, left>>
Conformed(m) ==
    LET e == eng[m]
        r == [e EXCEPT !.job = "none"]
    IN /\ e.job # "none"
       /\ Becomes(m, IF CanAim(e) /\ e.job = "aimed"
                     THEN Start(IF e.acq = "conforming" THEN [r EXCEPT !.acq = "guarded"] ELSE r)
                     ELSE Silent(IF e.acq = "conforming" THEN [r EXCEPT !.acq = "detached"] ELSE r))
       /\ UNCHANGED <<server, left>>

(* guarded long enough; or steady since before the clock could seed *)
Settle(m) ==
    LET e == eng[m]
    IN /\ CanAim(e) /\ e.job = "none"
       /\ e.acq = "guarded" \/ (e.acq = "steady" /\ Seeds(e))
       /\ \E playing \in BOOLEAN : Becomes(m, ToSteady(e, playing))
       /\ UNCHANGED <<server, left>>

-----------------------------------------------------------------------------
(* What happens to it. *)

Happens == left > 0 /\ left' = left - 1
Unowed(m) == owed' = IF owed = m THEN Nobody ELSE owed

(* The element reaches the end of the room's media (trackFinish), which    *)
(* takes longer than a command does to be answered; or the member scrubs   *)
(* back from it.                                                           *)
Finishes(m) ==
    LET e == eng[m]
    IN /\ Happens
       /\ e.st = "joined" /\ OnRoomMedia(e) /\ ~e.fin.here /\ up[m] = <<>>
       /\ Becomes(m, Silent([e EXCEPT !.fin = [key |-> e.local, fresh |-> TRUE, here |-> TRUE]]))
       /\ UNCHANGED server

ScrubsBack(m) ==
    LET e == eng[m]
    IN /\ Happens
       /\ e.st = "joined" /\ OnRoomMedia(e) /\ e.fin.here
       /\ Becomes(m, Silent([e EXCEPT !.fin = NoFinish]))
       /\ UNCHANGED server

(* CONTINUATION_WINDOW_MS after a finish *)
Wanes(m) ==
    /\ eng[m].fin.fresh \/ eng[m].held # NoHeld
    /\ Becomes(m, Silent([eng[m] EXCEPT !.fin.fresh = FALSE, !.held = NoHeld]))
    /\ UNCHANGED <<server, left>>

(* CONTINUATION_START_MS after a continuation *)
GrowsOld(m) ==
    /\ eng[m].cont # NoCont /\ ~eng[m].cont.old
    /\ Becomes(m, Silent([eng[m] EXCEPT !.cont.old = TRUE]))
    /\ Unowed(m)
    /\ UNCHANGED <<room, over, left>>

(* The page names another media: by the site, or by the member. *)
Navigates(m, k) ==
    LET e == eng[m]
        n == Renamed(e, k)
    IN /\ k # e.local
       /\ Happens
       /\ Becomes(m, IF MayContinue(e, e.fin, e.local, k) THEN Carry(n, e.local, k) ELSE Silent(n))
       /\ Unowed(m)
       /\ UNCHANGED <<room, over>>

Hides(m) ==
    /\ ~eng[m].hidden /\ Happens
    /\ Becomes(m, Silent([eng[m] EXCEPT !.hidden = TRUE]))
    /\ Unowed(m)
    /\ UNCHANGED <<room, over>>
Shows(m) ==
    /\ eng[m].hidden
    /\ Becomes(m, Silent([eng[m] EXCEPT !.hidden = FALSE]))
    /\ UNCHANGED <<server, left>>

(* A press on the player; one that only agrees with the room is an echo.   *)
(* It ends acquiring, and a seeder's is carried by its seed.               *)
Presses(m, kind) ==
    LET e == eng[m]
        seeding == e.adopt # Null /\ e.adopt = e.view.media
        p == [e EXCEPT !.adopt = IF seeding /\ e.foreign THEN Null ELSE @]
        t == IF e.acq = "steady" THEN Silent(e) ELSE ToSteady(p, kind = "play")
    IN /\ e.st = "joined" /\ OnRoomMedia(e)
       /\ kind = "play" => e.view.paused
       /\ kind = "pause" => ~e.view.paused
       /\ Happens
       /\ Becomes(m, IF e.acq # "steady" /\ seeding /\ ~e.foreign THEN t
                     ELSE [t EXCEPT !.cmds = @ \o <<Command(kind, "pressed", NoMedia, Anything)>>])
       /\ UNCHANGED server

(* "move the room here": against the room on screen *)
MovesHere(m) ==
    LET e == eng[m]
    IN /\ e.st = "joined" /\ e.local # NoMedia /\ e.view.media \notin {NoMedia, e.local}
       /\ Happens
       /\ Becomes(m, [e |-> e, cmds |-> <<Command("media", "chosen", e.local, e.view.media)>>])
       /\ Unowed(m)
       /\ UNCHANGED <<room, over>>

(* The link goes.  A start of the room that was on its way may be lost,    *)
(* and is not sent again.                                                  *)
LosesLink(m) ==
    LET e == eng[m]
    IN /\ e.st = "joined"
       /\ Happens
       /\ Becomes(m, Silent([e EXCEPT !.st = "down", !.clock = FALSE,
                                      !.job = IF @ = "none" THEN @ ELSE "overtaken"]))
       /\ IF \E i \in DOMAIN up[m] : up[m][i].why = "start" THEN Unowed(m) ELSE UNCHANGED owed
       /\ UNCHANGED <<room, over>>

-----------------------------------------------------------------------------
(* Engines as they are made: the creator's is to seed the media the room   *)
(* was made with.                                                          *)
Engine0(k, adopt) ==
    [st |-> "down", welcomed |-> FALSE, clock |-> FALSE, hidden |-> FALSE, local |-> k,
     view |-> [media |-> NoMedia, paused |-> TRUE], missed |-> FALSE,
     acq |-> "detached", job |-> "none", adopt |-> adopt, foreign |-> FALSE, named |-> NoMedia,
     fin |-> NoFinish, held |-> NoHeld, cont |-> NoCont]

SeedingInit ==
    /\ \E at \in [Member -> Key] :
         /\ room = [media |-> at[Creator], paused |-> TRUE]
         /\ eng = [m \in Member |->
              Engine0(at[m], IF m = Creator /\ at[m] # NoMedia THEN at[m] ELSE Null)]
    /\ up = [m \in Member |-> <<>>]
    /\ over = [m \in Member |-> FALSE] /\ owed = Nobody /\ left = Events

Steps(m) ==
    \/ Serve(m) \/ Joins(m) \/ ClockSettles(m) \/ Names(m) \/ CarriesWhenShown(m)
    \/ Acquire(m) \/ Conformed(m) \/ Settle(m)
Outside(m) ==
    \/ Finishes(m) \/ ScrubsBack(m) \/ Wanes(m) \/ GrowsOld(m) \/ Hides(m) \/ Shows(m)
    \/ MovesHere(m) \/ LosesLink(m)
    \/ \E k \in Key : Navigates(m, k)
    \/ \E kind \in {"play", "pause", "seek"} : Presses(m, kind)

SeedingNext == \E m \in Member : Steps(m) \/ Outside(m)
SeedingSpec == SeedingInit /\ [][SeedingNext]_seedingVars

(* Commands arrive, a lost link is mended, timers fire, and the evaluation *)
(* loop runs ten times a second.                                           *)
SeedingFairness ==
    \A m \in Member :
        /\ WF_seedingVars(Serve(m)) /\ WF_seedingVars(Joins(m)) /\ WF_seedingVars(ClockSettles(m))
        /\ WF_seedingVars(Acquire(m)) /\ WF_seedingVars(Conformed(m))
SeedingFairSpec == SeedingSpec /\ SeedingFairness

-----------------------------------------------------------------------------
(* No seed over somebody else's move: a creator or namer does not seed a   *)
(* room that others have moved since it set out, once its engine has the   *)
(* room they moved it to -- whether it applied their commands or missed    *)
(* them all and was welcomed (foreignMove, toSteady).                      *)
SentSeed(m) == Len(up'[m]) > Len(up[m]) /\ up'[m][Len(up[m]) + 1].why = "seed"
NoSeedOverAMove == [][\A m \in Member : SentSeed(m) => ~over[m]]_seedingVars

(* A room that was playing when it was carried to the next episode is      *)
(* started there, unless somebody takes it in hand first or its carrier    *)
(* goes away (continueFrom, continueWhenShown, queueConform,               *)
(* startContinuation, and the welcome that keeps a continuation).  A       *)
(* carrier that presses "move the room here" as well has taken it in hand: *)
(* the refusal of that press drops the start (media_stale names no command). *)
CarriedRoomGoesOn == \A m \in Member : (owed = m) ~> (owed # m)
=============================================================================
