-------------------------------- MODULE Port --------------------------------
(***************************************************************************)
(* The extension's transport: a port to the service worker, which holds    *)
(* the socket (client/extension/src/porttransport.ts, sw.ts).              *)
(*                                                                         *)
(* Ports are numbered in the order the tab makes them.  A port carries     *)
(* messages in order, each way; either end may disconnect it, or be gone.  *)
(* What the operators below give is the next value of all the ports, and   *)
(* of the one PortTransport holds.                                         *)
(***************************************************************************)
EXTENDS Integers, Sequences

CONSTANT Port          \* as many as a run can come to, numbered from 1
ASSUME PortAssumption == Port \subseteq Nat \ {0}

VARIABLES pipe,        \* each port: its ends, its messages, its socket
          tr,          \* PortTransport: the port it holds, and `closing`
          heard        \* history: what the engine has called and been told
portVars == <<pipe, tr, heard>>

NoPort == 0
ToWorker == {"open", "hello", "time", "close", "disconnect"}
FromWorker == {"open.ok", "welcome", "time.reply", "refused", "closed", "gone"}
Pipe == [tab : {"none", "open", "gone"}, worker : {"open", "gone"},
         up : Seq(ToWorker), down : Seq(FromWorker),
         ws : {"none", "opening", "open", "let go"},
         dark : BOOLEAN]  \* nothing crosses the socket's path any more
Unmade == [tab |-> "none", worker |-> "open", up |-> <<>>, down |-> <<>>, ws |-> "none", dark |-> FALSE]

PortInit ==
    /\ pipe = [p \in Port |-> Unmade]
    /\ tr = [port |-> NoPort, closing |-> FALSE]
    /\ heard = [at |-> "idle", last |-> "none"]

Told(at, what) == heard' = [at |-> at, last |-> what]
Live(p) == p # NoPort /\ pipe[p].tab = "open"

-----------------------------------------------------------------------------
(* The tab's end. *)

Up(p, m) == [pipe EXCEPT ![p].up = IF pipe[p].worker = "open" THEN Append(@, m) ELSE @]

(* post: once the other end is gone it may throw, and the port is let go.  *)
Post(m) ==
    \/ pipe' = Up(tr.port, m) /\ tr' = tr
    \/ pipe[tr.port].worker = "gone" /\ pipe' = pipe /\ tr' = [tr EXCEPT !.port = NoPort]
Send(m) == IF tr.port = NoPort THEN UNCHANGED <<pipe, tr>> ELSE Post(m)

(* connect: a new port, and the message that opens its socket *)
Unused == {p \in Port : pipe[p].tab = "none"}
TrConnect ==
    \E p \in Unused :
        /\ \A q \in Unused : p <= q
        /\ pipe' = [pipe EXCEPT ![p].tab = "open", ![p].up = <<"open">>]
        /\ tr' = [port |-> p, closing |-> FALSE]
        /\ Told("opening", "connect")

(* Both ends of p hear that the tab has let go of it *)
Disconnected(p) == [Up(p, "disconnect") EXCEPT ![p].tab = "gone", ![p].down = <<>>]
TrClose ==
    /\ IF tr.port = NoPort THEN pipe' = pipe
       ELSE pipe' = [Disconnected(tr.port) EXCEPT ![tr.port].up =
                        IF pipe[tr.port].worker = "open" THEN pipe[tr.port].up \o <<"close", "disconnect">> ELSE @]
    /\ tr' = [port |-> NoPort, closing |-> TRUE]
    /\ Told("idle", "close")

(* A message for the transport: not of a port it has let go *)
MutMine(p) == TRUE
Mine(p) == tr.port = p

-----------------------------------------------------------------------------
(* The worker's end.  What the server makes of a frame, and its answer,    *)
(* are part of the step that sends it; on a dark path there is none.       *)

Down(p, ms) == IF pipe[p].tab = "open" THEN pipe[p].down \o ms ELSE pipe[p].down

Answers(m) ==
    CASE m = "hello" -> {<<"welcome">>, <<"refused", "closed">>}
      [] m = "time" -> {<<"time.reply">>}

(* port.onMessage, port.onDisconnect *)
WorkerTakes(p) ==
    LET m == Head(pipe[p].up)
        rest == [pipe[p] EXCEPT !.up = Tail(@)]
        becomes(n) == pipe' = [pipe EXCEPT ![p] = n]
    IN /\ pipe[p].worker = "open" /\ pipe[p].up # <<>>
       /\ CASE m = "open" -> becomes([rest EXCEPT !.ws = "opening"])
            [] m \in {"close", "disconnect"} ->
                 becomes([rest EXCEPT !.ws = IF @ = "none" THEN @ ELSE "let go"])
            [] m \in {"hello", "time"} ->
                 IF pipe[p].ws # "open" \/ pipe[p].dark THEN becomes(rest)
                 ELSE \E a \in Answers(m) :
                        becomes([rest EXCEPT !.down = Down(p, a),
                                             !.ws = IF a[1] = "refused" THEN "let go" ELSE @])
       /\ UNCHANGED <<tr, heard>>

(* ws open *)
SocketOpens(p) ==
    /\ pipe[p].ws = "opening" /\ ~pipe[p].dark /\ pipe[p].worker = "open"
    /\ pipe' = [pipe EXCEPT ![p].ws = "open", ![p].down = Down(p, <<"open.ok">>)]
    /\ UNCHANGED <<tr, heard>>

(* ws close, not by us: a connection that fails, or breaks *)
SocketCloses(p) ==
    /\ pipe[p].ws \in {"opening", "open"}
    /\ pipe' = [pipe EXCEPT ![p].ws = "let go", ![p].down = Down(p, <<"closed">>)]
    /\ UNCHANGED <<tr, heard>>

GoesDark(p) ==
    /\ pipe[p].ws \in {"opening", "open"} /\ ~pipe[p].dark
    /\ pipe' = [pipe EXCEPT ![p].dark = TRUE]
    /\ UNCHANGED <<tr, heard>>

(* The browser ends the worker: every socket with it, and every port. *)
WorkerDies ==
    /\ \E p \in Port : Live(p) /\ pipe[p].worker = "open"
    /\ pipe' = [p \in Port |->
         IF pipe[p].tab = "none" THEN pipe[p]
         ELSE [pipe[p] EXCEPT !.worker = "gone", !.up = <<>>,
                              !.ws = IF @ = "none" THEN @ ELSE "let go",
                              !.down = IF pipe[p].worker = "open" THEN Down(p, <<"gone">>) ELSE @]]
    /\ UNCHANGED <<tr, heard>>
=============================================================================
