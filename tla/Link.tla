-------------------------------- MODULE Link --------------------------------
(***************************************************************************)
(* An engine's session with its server: tickets, connections, reconnects,  *)
(* the probes that notice a path gone dark, and the end                    *)
(* (client/core/src/engine/engine.ts, connect to timeLoop), over the       *)
(* extension's transport (Port).                                           *)
(*                                                                         *)
(* One engine, from start() on.  Backoff lengths are left out; a deadline  *)
(* is a step that only a request the server is slow with can take.  Faults *)
(* bounds what goes wrong.                                                 *)
(***************************************************************************)
EXTENDS Port

CONSTANTS SilentProbes,  \* SILENT_PROBES
          Faults

ASSUME LinkAssumption == SilentProbes \in Nat \ {0} /\ Faults \in Nat

VARIABLES eng,     \* the engine
          asks,    \* its ticket requests, by the connect they are for
          over,    \* history: the server refused it, so it may rest
          left     \* faults left

linkVars == <<portVars, eng, asks, over, left>>
Attempt == Port

Statuses == {"connecting", "joining", "joined", "refused", "closed"}
LinkTypes ==
    /\ pipe \in [Port -> Pipe]
    /\ tr \in [port : Port \cup {NoPort}, closing : BOOLEAN]
    /\ eng \in [status : Statuses, running : BOOLEAN, gen : Nat, retry : BOOLEAN,
                timer : BOOLEAN, silent : 0..SilentProbes]
    /\ asks \in [Attempt -> {"none", "asked", "slow", "late", "over"}]

Fault == left > 0 /\ left' = left - 1
Calm == left' = left

-----------------------------------------------------------------------------
(* onClose: the next attempt is armed, unless the session is over.         *)
AfterClose(e, clean) ==
    IF ~e.running \/ clean \/ e.status = "refused"
    THEN [e EXCEPT !.status = "closed", !.timer = FALSE]
    ELSE [e EXCEPT !.status = "connecting", !.timer = FALSE, !.retry = TRUE]

(* openTransport: opens, or chrome.runtime.connect() throws *)
OpenTransport(e) ==
    \/ TrConnect /\ eng' = e /\ Calm
    \/ eng' = AfterClose(e, FALSE) /\ UNCHANGED portVars /\ Fault

(* connect: with no ticket source, or an answer known without asking, it   *)
(* opens at once                                                           *)
Connect(e) ==
    LET n == [e EXCEPT !.status = "connecting", !.retry = FALSE, !.gen = @ + 1]
    IN \/ OpenTransport(n) /\ UNCHANGED asks
       \/ /\ eng' = n /\ UNCHANGED portVars
          /\ \/ asks' = [asks EXCEPT ![n.gen] = "asked"] /\ Calm
             \/ asks' = [asks EXCEPT ![n.gen] = "slow"] /\ Fault

(* the reconnect timer *)
Reconnect ==
    /\ eng.retry /\ eng.running
    /\ eng.gen + 1 \in Attempt
    /\ Connect(eng)
    /\ UNCHANGED over

(* Nobody has settled the request for g, and it is still the one wanted *)
MutSettled(g) == FALSE
Settled(g) == asks[g] = "late"
Wanted(g) == g = eng.gen /\ eng.running

(* A ticket *)
Ticket(g) ==
    /\ asks[g] \in {"asked", "slow", "late"}
    /\ asks' = [asks EXCEPT ![g] = "over"]
    /\ IF Settled(g) \/ ~Wanted(g) THEN UNCHANGED <<portVars, eng, left>>
       ELSE OpenTransport(eng)
    /\ UNCHANGED over

(* A failure that may pass, or auth_required *)
TicketFails(g) ==
    /\ asks[g] \in {"asked", "slow", "late"}
    /\ asks' = [asks EXCEPT ![g] = "over"]
    /\ UNCHANGED portVars
    /\ IF Settled(g) \/ ~Wanted(g) THEN UNCHANGED <<eng, over, left>>
       ELSE \/ eng' = AfterClose(eng, FALSE) /\ UNCHANGED over /\ Fault
            \/ eng' = [eng EXCEPT !.status = "refused"] /\ over' = TRUE /\ Calm

(* TICKET_TIMEOUT_MS without an answer *)
Deadline(g) ==
    /\ asks[g] = "slow"
    /\ asks' = [asks EXCEPT ![g] = "late"]
    /\ eng' = IF Wanted(g) THEN AfterClose(eng, FALSE) ELSE eng
    /\ UNCHANGED <<portVars, over, left>>

-----------------------------------------------------------------------------
(* What the tab hears on port p.  The handlers it reaches:                 *)

(* onOpen: hello, and the probes *)
OnOpen ==
    /\ eng' = [eng EXCEPT !.status = "joining", !.timer = TRUE, !.silent = 0]
    /\ Told("open", "onOpen")

(* onFrame *)
OnFrame(m) ==
    /\ eng' = [eng EXCEPT !.silent = 0,
                          !.status = CASE m = "welcome" -> "joined"
                                       [] m = "refused" -> "refused"
                                       [] OTHER -> @]
    /\ Told("open", "onFrame")

OnClose(clean) == eng' = AfterClose(eng, clean) /\ Told("idle", "onClose")

Heard(p) == [pipe EXCEPT ![p].down = Tail(@)]
Hears(p) ==
    LET m == Head(pipe[p].down)
    IN /\ pipe[p].tab = "open" /\ pipe[p].down # <<>>
       /\ CASE ~Mine(p) -> pipe' = Heard(p) /\ UNCHANGED <<tr, heard, eng>>
            [] Mine(p) /\ m = "open.ok" ->
                 /\ OnOpen
                 /\ \/ /\ pipe[p].worker = "open" /\ tr' = tr
                       /\ pipe' = [Heard(p) EXCEPT ![p].up = Append(@, "hello")]
                    \/ /\ pipe[p].worker = "gone" /\ pipe' = Heard(p)
                       /\ tr' \in {tr, [tr EXCEPT !.port = NoPort]}
            [] Mine(p) /\ m \in {"welcome", "time.reply", "refused"} ->
                 OnFrame(m) /\ pipe' = Heard(p) /\ tr' = tr
            [] Mine(p) /\ m = "closed" ->
                 /\ OnClose(tr.closing)
                 /\ pipe' = Disconnected(p) /\ tr' = [tr EXCEPT !.port = NoPort]
            [] Mine(p) /\ m = "gone" ->
                 /\ OnClose(tr.closing)
                 /\ pipe' = [Heard(p) EXCEPT ![p].tab = "gone"] /\ tr' = [tr EXCEPT !.port = NoPort]
       /\ over' = (over \/ (Mine(p) /\ m = "refused"))
       /\ UNCHANGED <<asks, left>>

-----------------------------------------------------------------------------
(* timeLoop, which a probe has had time to be answered before: nothing of  *)
(* the last one is on its way.                                             *)
Quiet(p) == p # NoPort => pipe[p].up = <<>> /\ pipe[p].down = <<>>

MutDead == FALSE
Dead == eng.silent >= SilentProbes

TimeLoop ==
    /\ eng.timer /\ Quiet(tr.port)
    /\ IF Dead
       THEN /\ eng' = AfterClose([eng EXCEPT !.silent = 0], FALSE)
            /\ TrClose
       ELSE /\ eng' = [eng EXCEPT !.silent = IF @ < SilentProbes THEN @ + 1 ELSE @]
            /\ Send("time") /\ UNCHANGED heard
    /\ UNCHANGED <<asks, over, left>>

Stop ==
    /\ eng.running
    /\ eng' = [eng EXCEPT !.running = FALSE, !.status = "closed", !.gen = @ + 1,
                          !.retry = FALSE, !.timer = FALSE]
    /\ TrClose
    /\ UNCHANGED <<asks, over, left>>

-----------------------------------------------------------------------------
(* start() *)
LinkInit ==
    /\ PortInit
    /\ eng = [status |-> "connecting", running |-> TRUE, gen |-> 0, retry |-> TRUE,
              timer |-> FALSE, silent |-> 0]
    /\ asks = [g \in Attempt |-> "none"]
    /\ over = FALSE /\ left = Faults

Worker(p) ==
    /\ \/ (WorkerTakes(p) \/ SocketOpens(p)) /\ Calm
       \/ SocketCloses(p) /\ (IF pipe[p].dark /\ pipe[p].ws = "opening" THEN Calm ELSE Fault)
       \/ GoesDark(p) /\ Fault
    /\ UNCHANGED <<eng, asks, over>>
Teardown == WorkerDies /\ Fault /\ UNCHANGED <<eng, asks, over>>

LinkNext ==
    \/ Reconnect \/ TimeLoop \/ Stop \/ Teardown
    \/ \E g \in Attempt : Ticket(g) \/ TicketFails(g) \/ Deadline(g)
    \/ \E p \in Port : Hears(p) \/ Worker(p)

LinkSpec == LinkInit /\ [][LinkNext]_linkVars

(* Timers fire; messages cross a port; a server answers the requests it is *)
(* not slow with; a connection is made, or given up by the browser.        *)
Fairness ==
    /\ WF_linkVars(Reconnect) /\ WF_linkVars(TimeLoop)
    /\ \A g \in Attempt :
        /\ WF_linkVars(Deadline(g))
        /\ WF_linkVars(asks[g] = "asked" /\ (Ticket(g) \/ TicketFails(g)))
    /\ \A p \in Port :
        /\ WF_linkVars(Hears(p))
        /\ WF_linkVars(WorkerTakes(p) /\ Calm /\ UNCHANGED <<eng, asks, over>>)
        /\ WF_linkVars((SocketOpens(p) \/ (pipe[p].dark /\ pipe[p].ws = "opening" /\ SocketCloses(p)))
                     /\ Calm /\ UNCHANGED <<eng, asks, over>>)
LinkFairSpec == LinkSpec /\ Fairness

-----------------------------------------------------------------------------
(* The port and the worker keep what a transport promises an engine, also  *)
(* with messages of earlier ports still on their way (porttransport.ts).   *)
T == INSTANCE Transport WITH at <- heard.at, last <- heard.last
ImplementsTransport == T!Spec

(* A socket that the engine no longer uses is closed, whatever order the   *)
(* tickets, deadlines, closes and worker teardowns come in: while it       *)
(* stays, the room waits for a member who is gone (sw.ts onDisconnect).    *)
(* And stop() is the end: no ticket still on its way and no timer starts   *)
(* anything again (connectGen).                                            *)
HasSocket(p) == pipe[p].ws \in {"opening", "open"}
StoppedForGood ==
    ~eng.running => tr.port = NoPort /\ ~eng.retry /\ ~eng.timer /\ eng.status = "closed"
NothingLivesOn ==
    /\ []StoppedForGood
    /\ \A p \in Port : (HasSocket(p) /\ tr.port # p) ~> ~HasSocket(p)

(* A session always comes back: whatever is lost, and whichever side       *)
(* fails to say so, a member is joined on a path that carries its frames   *)
(* again -- unless it was refused, or it left.                             *)
Connected ==
    /\ eng.status = "joined" /\ tr.port # NoPort
    /\ pipe[tr.port].ws = "open" /\ ~pipe[tr.port].dark
ComesBack == []<>(Connected \/ over \/ ~eng.running)
=============================================================================
