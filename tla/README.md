# videosync in TLA+

Models, checks and proofs for videosync: a Go server (`src/server`) and a
TypeScript client (`src/client`) that keep several people's video players on one
timeline. The specifications are translated from the source; `PROJECT.json` maps
every definition to the lines it stands for.

## The system

A **room** has an anchor (position, instant, paused, media). Where the room is at
any instant is a function of the anchor. A member's command (play, pause, seek,
media) is stamped with a sequence number and an instant `when`, a lead ahead, so
that everybody can move at once. A **readiness gate** holds a play back while a
member is buffering or still loading. Each member's **engine** follows: it turns
frames into seeks and presses on a player that the member and the site also
press, and turns what the member does, and nothing else, into commands. Around
the engine, the client's **application** carries a session from page to page and
signs in, its **providers** decide what a page's media is called, its
**transport** keeps a connection, and its **detector** and **adapters** stand
between the engine and a `<video>`.

| Part | State | Operations | What is hard |
|---|---|---|---|
| room (`server/internal/room`) | members, flags, rtts, anchor, pending schedule, gate, held play, waivers, dedupe signature | Join, Leave, OnCmd, OnReport, Tick | commands inside each other's lead; gate, waiver and leave in any order; frames sent on change only |
| sync (`server/internal/sync`) | none in a session but the corrector's | anchor arithmetic, Decide | clamps, stale reports |
| hub (`server/internal/hub`: hub, live, http) | registry, secrets, connections, emptiness, sweeper | Create, Lookup, join, leave, rotate, sweep | three critical sections on the way in, a sweeper with two phases and an old clock |
| command limit (`hub/live.go`, `ratelimit.go`) | bucket, kept commands, a timer | handle, deferCmd, retryCmd, leave | a timer that fired before it was stopped |
| connection (`hub/conn.go`, `ws`, `wire`) | outbox, die channel | Send, kill, read and write loops | overflow from under the room's lock |
| engine (`client/core/src/engine/engine.ts`) | session, anchor, pending commands, apply chain, acquisition, own command under way, seed, continuation, connect attempts | frames, timers, DOM events, promise jobs | a seek may be parked for ten seconds while all the rest changes |
| clock, transport (`engine/clock.ts`, `transport.ts`) | offset, best round trip | addSample, reset; connect, send, close | contradicting samples; callbacks of a connection that is over |
| detector (`detector/detector.ts`) | position and play-state reference, stall, buffers | evaluate, rebaseline, reset | stalls and held readings that look like seeks |
| adapters (`adapter/*.ts`) | the followed element, one seek, listeners | pickVideo, setTarget, seekTo | elements and their events that outlive each other |
| application (`app/bootstrap.ts`) | session, media action, follow under way, sign-in question | join, create, leave, follow, rejoin, the panel's actions | a document ends at any await |
| sign-in (`app/auth.ts`, `authfetch.ts`) | what servers need, attempts, device token | learn, ticket, browserSignIn, forget | answers that come after the member went elsewhere |
| shared store (`app/sharedstore.ts`) | caches over one area | load, save, read back | reads that overlap with writes of other tabs |
| providers (`providers/*.ts`) | pinned, own and built-in descriptors | compile, lookup, adopt, update, edit | who speaks for a host after any sequence of those |
| extension (`client/extension/src`) | ports, sockets, grants | port messages, storage, options page | the worker dies unannounced |
| userscript (`client/userscript/src`) | the same over GM_* | | |
| access control (`server/internal/auth`) | flows, OIDC states, tickets, limiters | begin, confirm, callback, poll, ticket | one result to one poller; time read before a wait |
| provider store (`server/internal/provider`) | directory listing and stamp | Reload, Watch | reloads that overlap |

They meet as follows. The hub lets a connection into a room and sweeps it; the
room's lock serialises join, leave, commands, reports and ticks; the command
limit stands between a connection and `OnCmd`; the engine receives `welcome`,
`state`, `ack`, `correct` and `gate` frames over its transport and answers with
commands and reports. The application makes and stops engines, gives them the
tickets they ask for and is told of the anchor; the providers turn a page into
the media key that the engine compares with the anchor's.

## Modules

| Module | Models | Extends or instantiates; checked by |
|---|---|---|
| `Timebase` | anchor arithmetic (`sync/anchor.go`, `committedPosition`, `ClampI`) | extended by `Room` |
| `Timeline` | abstract: what a room promises about its line | `Room` implements it |
| `Room` | the room under its lock: one action per operation | `MCRoom`; `RoomProofs` |
| `CmdQueue` | one member's rate-limited commands and their timers | `MCCmdQueue`; `CommandProofs` |
| `Hub` | the registry, the way in, rotation, the sweeper | `MCHub`; `ConnectionProofs` |
| `Engine` | one member's engine against a room that does what it likes | `MCEngine`; `EngineProofs` |
| `Seeding` | several engines that name, seed and carry one room | `MCSeeding`; `CommandProofs` |
| `Transport` | abstract: what an engine may count on from a transport | `Link` implements it |
| `Port` | the extension's transport: ports, worker, sockets | extended by `Link` |
| `Link` | an engine's tickets, connects, probes, reconnects, stop, over `Port` | `MCLink`; `ConnectionProofs` |
| `Clock` | the offset estimate | `MCLink`; `ConnectionProofs` |
| `Detector` | one look at the player after another | `MCDetector`; `PlayerProofs` |
| `Player` | the element that is followed and the seek waited for | `MCPlayer`; `PlayerProofs` |
| `SharedStore` | one key of the shared store, one context's side | extended by `Follow` |
| `Follow` | the session across documents | `MCFollow`; `FollowProofs` |
| `SignIn` | questions, tickets, logins, the device token | `MCSignIn`; `SignInProofs` |
| `Template` | host patterns, path and query templates | extended by `Provider`; `AdoptionProofs` (patterns) |
| `Provider` | one descriptor compiled: keys, watch URLs, continuations | extended by `MediaKey` |
| `MediaKey` | keys, shared links and followed links over a registry | `MCProvider`, `MCAdoption`; `AdoptionProofs` |
| `Registry` | who speaks for a host, what is widened, what is in force | extended by `Adoption` |
| `Adoption` | who changes the stored descriptors, and when | `MCAdoption`; `AdoptionProofs` |

### Room

Each action is a critical section: `Join`, `Leave`, `RefuseCmd`/`HoldPlay`/
`ApplyCmd` (the three ways through `OnCmd`), `OnReport`, `Tick`, and the clock.
`Tick` takes a reading of the clock that may be `SweepLag` old, because the
sweeper reads it before it takes the room's lock. `sent`, `gateView`,
`rosterView`, `unheard` and `waiting` are history: what the step applied, what
every member was last told, whom a media command summoned, and since when a
member has been in the gate.

`since` is normalised to 0 for members outside the gate, and round trips are at
most `MaxRtt`. Left out: time probes, chat, the corrector's verdicts, and the
research arms NoStaleResend and GateDisabled, which the shipped server does not
run. `Quiet` is the time after which members stop speaking. It is there because
the timeout is per member: two members who take turns being unready can hold a
play longer than `GateTimeout`, and the code means them to.

### CmdQueue and Hub

A command finds the limit open, or it is kept. What is kept is folded to at most
one media, one seek and one play or pause. A timer applies it. A timer that has
fired but waits for the lock cannot be stopped any more: `fired` holds those, and
`RetryCmd` is what they run. Time is in units in which the burst, interval and
cooldown keep their order.

In `Hub`, `Find`, `CheckSecret` and `Join` are three steps, with the sweeper's
`Read`, `Collect`, `Look` and `Delete` between them; `Rotate` may come at any
point. The rate limits of creation and hello are left out.

### Engine

JavaScript runs one task at a time, and the promise jobs a task leaves behind run
before the next task. So a handler is one action, and an action that is a task
waits for `Settled`. The apply chain is a sequence of jobs; its head is queued,
seeking, aimed (the seek is over, the press is not), or playing. Every job holds
what its closure captured: the seq, whether its session still lasts (`live`) and
whether its media epoch does (`here`).

Time is what it is compared with. `begun` holds the commands whose `when` has
come; each wait of the engine (reconcileAfterMs, settleMs, OWN_ACK_WAIT_MS, the
gesture window) has an action that ends it. Two relations between the waits are
assumed: reconcileAfterMs (3 s) is longer than any lead (at most 2 s), and a
change of the player is evaluated before any of them ends (`Seen`; the evaluation
runs on the DOM event and every 100 ms). A site moves the player outside the
gesture window, because inside it the code takes the site for the member by
design, and only until its player is set up. `touched` is history: whether the
member pressed the element since the detector last took its play state down, and
whether anything changed outside a session.

The model is an engine with gesture evidence in a visible tab and a room of two
or more, the shipped configuration. Positions are left out: that a transition has
to seek is a choice. Left out too: the member's own seeks, reports, nudges, and a
play() that is refused after PLAY_WAIT_MS.

### Seeding

What engines send unasked: the first member on media names a room, the creator or
the namer seeds it, a member whose site moved on at the end of the media carries
the room to the next episode and starts it there. Several engines send to one
room; each command takes its time, and one on a lost link may still get through.
The player, the schedule and the gate are `Engine`'s and `Room`'s, so a frame is
heard and applied in the step that sends it. `over` and `owed` are history: who
set out to seed a room that others have moved since, who owes a carried room its
start.

### Link, Port, Transport, Clock

`Port` is `porttransport.ts` and `sw.ts`: numbered ports that carry messages in
order each way, and may be disconnected by either end or lose the worker without
a word. `Link` is the engine's side: ticket requests with a deadline, connects,
hello, probes, and `stop()`. What the engine calls and hears maps to `Transport`,
translated from the interface's own contract. Backoff lengths, the content of a
ticket and the first probes' numbers are left out; a probe is answered or lost
before the next `timeLoop`; the round trip between worker and server is one step.
A post that throws because the worker is gone swallows the disconnect and is
found out by the silent probes, as in the code.

### Detector and Player

`Detector` counts time in ticks between two looks at an element that plays at
rate 1, stalls, holds its reading for a while, is sought by the member, moved by
the room and paused by the browser while hidden. A look is the whole of
`evaluate` and what `act` sends of it. A play or a pause sends an event, so it is
looked at before time goes on; anything else waits for the timer, which is at most
`Late`. The browser resumes a background-paused player in the step that shows the
tab. The reading may be held after the member's seek and after the room's own, from
the landing on, which is the case the detector was written for. `since` is history:
the time since the last look, a seek no baseline has taken in yet (`moved`), a lag
the reading already had when the detector was reset (`lag`), whether a held reading
has caught up (`caught`), and whose doing it is that the play state is not the one
taken down last (`by`).

Five definitions and fields say what the code cannot tell. The first four are the
exceptions of `NothingIsMadeUp`:

- `Forgotten`: a pause of the browser's seen once while the element has no data is
  not held for the browser's (detector.ts:287), so the browser's own play is sent
  when the tab is shown again.
- `Drifted`: what ran before a pause that falls between two looks is never added to
  the reference (detector.ts:235), so pauses move it, up to the threshold, and a
  seek may then be made up.
- `RanDry`: a held reading catches up with the picture and the element runs dry
  again before the next look, which then finds a stall at a position that playback
  since the last reading does not explain (detector.ts:186).
- `since.lag`: a detector that is reset while the reading is held takes the lagging
  reading for its first position (detector.ts:291), and what catches up is a jump.
- `Silent`, the exception of `PressIsHeard`: a hidden tab never heard, and the
  return from one.

Assumed of the browser: it holds the reading of a picture that runs, so the data do
not run out and nobody presses while it is held; and what a seek of the room's has to
load is there, or not, when the transition presses. A slow player, other rates, and
the baseline that follows the return of the member's own command are left out.

`Player` is a page of elements that are inserted, removed, loaded, robbed of
their media and written by the site; `Check` is the watcher's poll, `SeekTo` and
the events are the adapter's. Every element delivers the end of a seek as a task
of its own, some time later. A player may snap a seek to anywhere in its media, to a
keyframe, to the start of a segment, or back to where it was; `snapped` remembers
that it did so by more than the tolerance. A seek on an element whose media is
taken, or that is written before its metadata came, waits out its timeout
(`silent`).

### Follow, SharedStore, SignIn

`SharedStore` is the store's cache, outstanding writes, change events and
versioned read-back, as operators on one context's record; `Follow` gives every
document one. When a document goes, each write it still had out has landed before
that or never does: `Loads` drops what is outstanding, and `Land` may come before it.
Only what a follow has flushed is therefore sure to be there for the next document.
A write that lands after the next document has read is left out. Frames are heard in
the step that sends them. Expiry of a record and tabs of other origins are left out.

`SignIn` makes each await of the three files a pair of steps. A call remembers
which engine, session generation or login attempt it was made for (`mine`), as
its closure does; what a call finds when it comes back is whatever happened
meanwhile. `wish` is history: the presses after which the member still wants to
be where each would put them. A session vouched for by a proxy and the text of
the sign-in line are left out.

### Template, Provider, MediaKey, Registry, Adoption

The first three are pure: the template language on sequences of atoms, a
descriptor's compilation and evaluation, and what `mediakey.ts` does with a
registry. Characters are atoms chosen so that what the code tells apart (a slash,
a dot, a digit, an escape, an escape that decodes to nothing) is told apart.
`Registry` works on what the registry and adoption compare of a descriptor;
`MCAdoption` derives those from concrete descriptors with `Provider`, and an
assumption checks that the two agree on every page.

`Adoption` is the life of the list: pages where the user decides work on a copy
and write all of it, tabs that joined a server look, ask, look again and write
the pins, and a new version of the client may ship other built-ins. Left out:
declining an update, and the checks on field types and sizes, selectors, seek
hints, URL syntax and IDN labels.

## Runs

| Run | What it shows | Bounds and why they are enough |
|---|---|---|
| `room_gate` | a play is held only for members; every member's view is current; a play after a media command waits for all it summoned; waivers latch | two members (symmetric), every kind of command and refusal, every kind of report, two commands, four units of time, timeout 1: long enough to be gated, waived, ready and gated again |
| `room_flow` | the line never precedes the media's start; the schedule is in order; `Room` implements `Timeline`; a held play ends although members fall silent | three commands, leads of 1 and 2, so that two are pending when a third lands between them; commands off the line and before 0; members speak until `Quiet` 2, time runs to 4, timeout 1 |
| `cmd_queue` | nothing is lost, the sender's order is kept, the limit is kept, what is kept is applied | four commands, three timers (one armed, two fired and late), burst 1, at which four commands reach both the interval and the cooldown; four commands with burst 2 pass too, and the theorem is for every burst |
| `hub` | no ghost room; whoever enters does so on the secret and the room left at that moment; rooms are kept for the TTL and then go | one room and one member allowed, two wanted; two visitors; a TTL of 1 and time to 4 |
| `engine` | nothing presses from a past session, off the room's media or for an overtaken command; no command, hold or conform starts a player before the room does (a gesture and the reconciler may, see below); only the member's doing is sent, or what a site does against a command of the member's still on its way; the player ends up acquired and doing what the room does | two states of the room, two events (presses, clicks, lost links, navigations, reloads, site moves, corrections, refused plays), one media and none: enough to lose the link under a parked seek and come back to another state. The safety properties also hold with three events, the last also with four |
| `seeding` | no seed over a move the engine has heard of; a carried room is started | two members, two episodes, three events (presses, navigations, the end of the media, a hidden tab, lost links): enough to finish the media out of sight, move on and come back |
| `link` | `Port` and `Link` implement `Transport`; no unused socket lives on, nothing starts after `stop()`; a session comes back | two faults of any kind (late or failed tickets, lost links, dark paths, dead workers) and one attempt more than they can take; three faults also pass |
| `detector` | nothing is made up but in four named cases; a seek is seen; a press is heard | positions 0 to 8 in half seconds, the code's threshold of one second as 2, readings held for 2, looks late by 1, three events, jumps of -7 and +3, one beyond and one near what playback and a stall explain: enough to reach every exception but `Drifted`, which takes six (five presses between looks and a command) |
| `player` | nothing is waited for that will not come; a seek nobody disturbs and the player does not snap away holds; the evident feature is followed in the end | a preview, a feature and an ad as large; seeks inside and past the end, landing anywhere; three events |
| `follow` | who left is not taken back in; nobody joined is without a way to the room's media; nobody arrives outside the room without a word, although a document's unfinished writes are dropped with it | one tab (its successive documents are what interferes), two media and a page of none, two moves of the room or its secret, four acts, two follows |
| `sign_in` | a page is where the member last chose to be; a question is about the session there is; a refused hello is answered | one page, a guarded and an open server, two presses and one change of the server's rules, one token, two calls on their way |
| `adoption` | a pin gives pages only keys the user agreed to; a host a built-in describes never gets the generic key, nor a descriptor nobody agreed to put there; an update drops no decision taken meanwhile | two sites, two built-ins of which one ships later, two offers, one of them in three versions, a descriptor of the user's that takes a built-in's id; one server, page and tab |

`MaxTime`, `MaxSeq`, `MaxSent`, `MaxSecret`, `Events`, `Faults`, `Quiet`,
`Horizon`, `Moves`, `Acts`, `Passes`, `Presses`, `Changes`, `MaxTokens` and
`MaxCalls` bound the runs and stand for nothing in the code. Runs whose system
stops at such a bound do not check for deadlock.

What is a function of its inputs is stated as an `ASSUME` of an MC module, which
TLC evaluates whenever it runs that module:

- `MCProvider`: a pattern covered by another claims only what that claims and
  scores no lower; captures and template are inverse to each other, and slashes do
  not matter; a watch URL is on the descriptor's host, names the same media and is
  its own watch URL; a page with a key has one, unless its path would hold a dot
  segment; nothing continues itself.
- `MCAdoption`: `Registry` agrees with `Provider`; over the 64 registries these
  descriptors can form, a followed link names the room's media and stays on hosts
  the user granted, a built-in's, or the member's own; nothing continues on a host
  that no descriptor in force speaks for.
- `MCLink`: samples of one offset never contradict one another, for every short
  run of round trips and roundings; when the offset moves, the next sample finds
  out or the error stays inside what both samples allow.

### Fairness

- Room: the clock and the sweeper (`Hub.loop` ticks every room every second).
  Members owe nothing.
- CmdQueue: the clock, `time.AfterFunc` firing, and its function getting the lock.
- Hub: the clock and the sweeper's goroutine. Visitors owe nothing.
- Engine: timers fire, the network delivers, seeks and play() end (both have a
  timeout in the code), media load. That commands are answered and that a closed
  session reconnects is not needed. The member, the site and the rest of the room
  owe nothing.
- Seeding: the server serves what reaches it, joining and the clock's probes
  finish, an element is acquired and conformed. Members, sites and links owe
  nothing.
- Link: timers fire, a ticket request is answered unless the deadline comes, a
  port's end delivers, the worker does its work, sockets open or close. Faults
  are never fair, and a path may stay dark.
- SignIn: a request and a hello are answered or time out.
- Player: the watcher polls, and elements load and finish their seeks.

`adoption`, `follow` and `detector` state no liveness and assume no fairness.

Every property of a run has a mutant in `PROJECT.json`: a change to one
definition, as a plausible bug would make it, under which TLC finds the property
violated.

## Disagreements seen

Each is a definition of its module that a comment or document states and that the
code does not keep. No run lists it; adding it to the named cfg shows the case.

| Definition | Statement | What happens |
|---|---|---|
| `SuspendedNeverWaitedFor` (`RoomGate.cfg`) | PROTOCOL.md:507, "A suspended member is never in `waitingOn`" | a gated member's report that says it is away is behind on seq, is not judged (room.go:667), and the gate goes on naming it |
| `NothingFromTheOutageIsSent` (`Engine.cfg`) | engine.ts:1712, nothing done while the session was down is sent | a transition parked when the link dropped ends during the outage and sets a detector baseline (engine.ts:1486); a press after that is sent after the next welcome |
| `NothingOvertakenPresses` (`Engine.cfg`) | engine.ts:1444, whatever superseded the transition has its own work queued, and pressing now would only be undone | a gesture's (1603) and the reconciler's (1766) transition do not compare the seq, and press play in a room that was paused during the seek |
| `NobodyStartsEarly` (`Engine.cfg` with `Events = 3`) | engine.ts:88, "everyone must start moving at the same instant from the same position" | inside a play's lead a gesture resumes a blocked player (engine.ts:1591), and after a reconnect the reconciler, whose clock ran through the outage, conforms one (engine.ts:1754): neither asks whether `when` has come, and both press play |
| `NothingOfTheSiteIsSent` (`Engine.cfg` with `Events = 4`) | engine.ts:1987, "A change with no gesture is not the member's, so our pending command says nothing about it" | with a pause of the member's on its way, a reload and a refused play(), a site that starts the guarded player where the room plays makes it steady in the same evaluation (engine.ts:2151); the play is then compared with the pause and sent (engine.ts:2061) |
| `FreshTokenSurvives` (`SignIn.cfg`) | authfetch.ts:182, only the token that was refused is forgotten | the comparison and the clearing have an await between them |
| `BuiltinsYieldToConsent` (`Adoption.cfg`) | adoption.ts:35, a pin replaces a built-in that the user saw and chose it over | `replaceBuiltin` is kept with the pin, not with what it replaced, and covers built-ins a later version brings for the same hosts |
| `ResolvedHasLanded` (`Player.cfg`) | html5.ts, seekTo: a stale `seeked` finds `seeking` set and is ignored | the position reads as the target at once and is asked first, so the stale event ends the wait early |

Smaller ones, which the models contain and the properties exempt where they say
so:

- A rejoin record that a page before the one the member left on had written
  survives the leave (`LeftIsLeft`); two tabs that follow at once overwrite each
  other's record; a move of the room to here that is lost with the socket leaves
  no action.
- Leaving does not wait for the erasure of the record (bootstrap.ts:525), which is
  dropped when the document goes first: a follow that has written its record, a
  press on leave and a reload to the media the record names take the member back
  into the room they left. `LeftIsLeft` exempts a leave whose erasure was dropped.
  The same goes for the rewrite with a rotated secret (bootstrap.ts:545, `void
  flush`): dropped, the next page joins with the old secret and is refused, which
  that function's comment says it prevents; `NeverLostSilently` then asks only that
  the member arrives in a session.
- The client drops a creation's sign-in question when it learns that joining
  needs one too, and a session refused while a creation is asking is not tried
  again if that creation fails.
- A welcome compares only the newest seq with the engine's own. `media_stale`
  ends a continuation also when it refuses another command (`CarriedRoomGoesOn`);
  a start lost with the socket is not sent again.
- A pause and a seek seen in one look report the seek only. A pause explained as
  the browser's while the element has no data is reported when the data are back. A
  press on a player the detector holds for suspended, or before the first look after
  its tab is shown, is swallowed (`Silent`). A press between the end of a transition
  and its DOM event is taken for the transition's own, by design of the rebaseline,
  and `PressIsHeard` exempts it (`apply.on`). The four things `NothingIsMadeUp`
  exempts are described with the model; where they are seeks, detector.ts:69, "Any
  increase here is a bug: a stall or suspension read as user intent", says they
  ought not to be.
- A player that snaps a seek farther than the tolerance ends the wait as if somebody
  else had sought (html5.ts:179 says so): the transition goes on from where the
  player went.

## Proofs

Eight modules hold proofs: `RoomProofs`, `ConnectionProofs` (Hub, Link, Clock),
`CommandProofs` (CmdQueue, Seeding), `EngineProofs`, `PlayerProofs` (Player,
Detector), `SignInProofs`, `FollowProofs`, and `AdoptionProofs` (Registry, Adoption,
links, host patterns). Every invariant and every action property that a run checks is
a theorem, and so are both refinements. Each is about a whole specification, for
every value of its constants: any number of members, tabs, timers, rooms, servers or
descriptors, and any value of the delays and bounds. What is assumed of the constants are the `ASSUME`s of the modules, which
TLC evaluates in every run: delays and bounds are naturals in order, a sentinel is
outside the set it extends, and in `Registry` what `Provider` and the shipped
parameters justify: some pattern scores best on a host, no pattern scores better on
a pattern's probe than that pattern, and of two that claim one host the one that
scores higher has a probe the other claims too. Two theorems have a hypothesis of
their own: `NothingIsEverMadeUp` takes twice `Late` to be at most the threshold (the
timer is 100 ms and the threshold 1 s; a hidden tab whose timers are slowed to a
second does not satisfy it), and `FollowNeverLostSilently` takes one tab, because two
overwrite each other's record and it is then false.

Where a property is not inductive, the strengthening says why the code is right:

**Room.** `TypeOK`, with that a running line never starts after the newest command
is due, gives `RoomNeverBeforeStart`, `RoomScheduleInOrder` and
`RoomHoldsOnlyForMembers`. `RoomViewsAreCurrent` needs that the signature is the
last frame of everybody in the room, since a frame is left out when it has not
changed; `RoomPlayWaitsForNewMedia` that whoever was summoned and not judged since
is in the gate or was waived; the two theorems on waivers that nobody is both
waited for and waived, and the second holds for every `SweepLag`.
`CmdDelayBounded` and `OutlierDoesNotDominate` are about the lead alone.

`RoomImplementsTimeline` is the refinement, step by step. Its invariant is
`Seamless`: a line the room has yet to move onto is a play's, starts where the line
before it will be by then, and agrees with any other due at the same instant. So
moving onto it, or onto several at once when a tick comes late, takes the room
nowhere, and a command is the only thing that does.

**Hub.** Counted in a room and being in it are the same; a room that was ever made
is in the registry or marked dead, never both; whoever is on the way in holds one
that was made. Nothing is needed of what the sweeper saw, because it judges again
under the room's mutex when it deletes.

**Link.** The engine connects only over a transport that is idle, which takes the
whole engine: a retry is armed only when idle, a liveness timer only when open, a
ticket asked for and still wanted means idle with no retry, and no request is numbered
above the newest attempt. Of the port: the messages on their way down are at most one
opening, frames only after it, and one closing at the end; a closing that the engine
asked for leaves nothing to hear. So every step of `Link` is a step of `Transport`, or
none (`LinkImplementsTransport`), and `LinkStopsForGood` is the same invariant once
`stop()` has been called.

**Clock.** A sample is wrong by at most half its round trip and 1.5 ms, whatever the
path's asymmetry; two such samples of one offset are closer than the test asks for. By
the least counterexample, no sequence of samples steps without cause
(`NoFalseStepsEver`). If the offset moves, the next sample either finds it, or the two
were so close that the old estimate is off by no more than both allow
(`MovedOffsetIsAlwaysFound`).

**CmdQueue.** What is kept is what was sent under its number, in order, one of a
group, and newer than all the room has heard; the bucket counts what it let
through. So the last of any `Burst` + 1 grants in a row comes an `Interval` or more
after the one before it, unless a rest longer than a `Cooldown` lies among them
(`CmdPaced`). That coalescing is the loop of the source, and loses nothing, is an
induction, done over sets of naturals. Any number of timers may have fired and be
waiting for the lock.

**Engine.** The invariant follows the jobs of the apply chain. What was queued for
an instant that has come stays due, since the room only grows. What waits behind a
seek holds what the room said at the seq it was aimed for. A media epoch has at
most one conform, as a job or as a timer, and the one that may be queued before its
instant, by an engine that has no clock, is at the head and is dropped before
anything else happens. `EngineSendsOnlyTheMembers` adds `Attributed`: as long as
nobody touched the player, its play state is the one the detector last took down,
or it is the engine's own play whose transition still runs, or a site's on a player
that is not steady.

**Seeding.** An engine that is to seed and whom somebody overtook since knows it
(`foreign`), or its link is down and what it missed will make it know (`Remembers`).
It seeds only when joined and not knowing of one, so `NobodySeedsOverAMove`.

**Detector.** The invariant (`DetectorInv`) says what explains the position as long as
nobody has sought: the last reading, what a held reading lags, the time since, and one
look's lateness once more after a stall. It holds as long as no lag was there at a
reset. That the bound is twice `Late` comes from a
look in which playback stops between two readings. `Blame` ties the play state the
detector took down to whose doing the present one is.

**Player.** Of the seek that is waited for: the element will still report it, or
has a timeout that will; and if nobody disturbed it and the player did not snap it
away, that it will stand within the tolerance then, wherever an older seek had
landed. An element without media has nothing to report. The best element
exists because the order of the pick is total on a finite page.

**SignIn.** Every call that is still its page's own agrees with what it was made
for: a ticket with the session's server, a creation with a press that still stands,
a login with the question that is open; of the logins of a page at most one is its
own. What is not its own may come back whenever it likes.

**Follow.** For any number of tabs over one record: a tab writes only records of its
own or none, and if the record in the area is its own, it is the one in its cache,
also across read-backs that overlap with writes. A follow not called off goes where
the room is, in a session; a document off the room's media has a way back, an
announcement, or a resume ahead of it. What a document has out is dropped when it
goes, so a carried session has to be in the area, not in the cache. With one tab, a
pass that has waited for its write has nothing out (`Flushed`), and from the moment
the document is sent off the record in the area, and every one still on its way
there, names the page it is sent to (`Carried`); without the wait in `followRoom`
neither holds.

**Adoption.** Every pin, in the store, in a page's copy or in an update on its way,
has an agreed text that gives every page the same key or a key where the pin gives
none; this is transitive along updates, which may narrow only. A pin that replaces
has a consent. An update on its way differs from the store only in what was decided
since it looked, because the number of changes between two lists of pins is a
distance. `AdoptionDescribedHostsAreKept` rests on the lookup: the best claim
exists, is unique under the registry's order, and a descriptor that claims what a
built-in claims shares a probe with it. The comparisons of scores that this counts on
are about names: of two patterns the one that claims less scores higher
(`NarrowerPatternsWin`), and trying a wildcard on one name under it is as good as
trying all (`CoveredClaimsNoMore`). `FollowedLinksArePlain` is about `followableUrl`
for any registry; it rests on the round trip that a watch URL must make, and on a path
whose trailing slashes are dropped having none left.

Proving found these things about the models, which are corrected: `CASE` arms in
`Engine` that overlapped; a property of `Engine` that is false beyond three events
(`NothingOfTheSiteIsSent` above), which `OnlyTheMemberIsSent` now states with its
exception; two properties of `Detector` that are false beyond two events, which its
run had not reached, and which now state `Forgotten`, `Drifted` and `Silent`; bounds
that had not been said to be naturals in `Player` and `Hub`; and
facts about scores and probes that `Registry` used without naming them.

Only model-checked:

- liveness (`HeldPlayEnds`, `KeptIsApplied`, `EmptyRoomGoes`, `FollowsInTheEnd`,
  `RefusalIsAnswered`, `CarriedRoomGoesOn`, `NothingLivesOn`, `ComesBack`,
  `FeatureIsFound`), which this prover cannot do under fairness;
- of `Follow`'s type invariant, how the secrets of records compare with the room's
  (`FollowCorrect` proves the rest; the type invariants of the other specifications
  are proved);
- of the pure functions, what a template captures and what a descriptor evaluates to,
  which are recursions over texts, and `continuesMedia`: the assumptions of the MC
  modules check them over concrete templates, descriptors and pages.

## Plan

What is left, in order of weight: the corrector's law of seeks and nudges and the
server's connections, which no module models; the reports an engine sends and nudges
it takes; the rest of `Follow`'s types. No module declares a RECURSIVE operator, so
any of them can carry theorems.

## Not modelled

- The server's access control (`internal/auth`): flows, tickets and their
  limiters; `SignIn` takes only the answers it may give.
- The server's connections (`hub/conn.go`) and provider store: `Room` and `Hub`
  take a frame as delivered in order.
- The corrector's law of seeks and nudges, and the experimental correctors.
- Parsing and formatting of frames, URLs and descriptors, cryptography, DOM
  layout, permissions and script registration of the two shims, the simulator and
  the browser harness.
