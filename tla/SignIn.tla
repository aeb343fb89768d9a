------------------------------- MODULE SignIn -------------------------------
(***************************************************************************)
(* Signing in: what a page of the client does about a server with access   *)
(* control.  app/bootstrap.ts drives the session and asks for a sign-in,   *)
(* app/auth.ts learns what the server needs, fetches tickets and runs a    *)
(* browser login, and app/authfetch.ts, in the shim's background, is the   *)
(* only place that holds the device token.  Every `await` of these files   *)
(* is a pair of steps here: whatever else happened in between is seen by   *)
(* the answer.                                                             *)
(*                                                                         *)
(* A call that is on its way is a record of `calls`.  The code remembers   *)
(* at its start which engine, session generation or login attempt it was   *)
(* made for, and compares when it comes back; the record's `mine` says how *)
(* that comparison would come out, and is cleared by whatever replaces the *)
(* engine (join, leave), bumps sessionGen (leave) or loginAttempt          *)
(* (abandonLogin, browserSignIn).                                          *)
(*                                                                         *)
(* Guarded is the server with access control; every other server of Server *)
(* has none.  Presses bounds what the member presses, Changes what the     *)
(* server's operator does, MaxTokens the device tokens minted, MaxCalls    *)
(* the calls on their way.                                                 *)
(***************************************************************************)
EXTENDS Naturals, FiniteSets

CONSTANTS Page, Server, Guarded, Presses, Changes, MaxTokens, MaxCalls

ASSUME SignInAssumption ==
    /\ Guarded \in Server
    /\ Presses \in Nat /\ Changes \in Nat /\ MaxTokens \in Nat /\ MaxCalls \in Nat

VARIABLES scope,    \* what the guarded server really wants a ticket for
          valid,    \* the device tokens it accepts
          minted,   \* how many it has handed out
          token,    \* the device token the background holds, 0 for none
          needs,    \* ServerAuth.needs: what it is remembered to want
          info,     \* ServerAuth.infos, per page
          page,     \* the session and the sign-in of each page
          calls,    \* what is on its way
          pressed,  \* how often the member pressed a button of the panel
          wish,     \* the presses a page's session may stem from
          changed   \* how often the operator changed the server

vars == <<scope, valid, minted, token, needs, info, page, calls, pressed, wish, changed>>
server == <<scope, valid, minted, changed>>
member == <<pressed, wish>>

Scope == {"none", "create", "all"}
Rank == [s \in Scope |-> CASE s = "none" -> 0 [] s = "create" -> 1 [] s = "all" -> 2]
Unknown == "unknown"
Nothing == [srv |-> "nowhere", by |-> 0]
NoAsk == [srv |-> "nowhere", retry |-> "nothing", by |-> 0]

Session == [srv : Server, by : 1..Presses] \cup {Nothing}
Ask == [srv : Server, retry : {"join", "create"}, by : 1..Presses] \cup {NoAsk}
PageState == [session : Session,
              conn : {"off", "asking", "bare", "ticketed", "joined", "refused", "backoff"},
              sign : Ask, pending : BOOLEAN, retried : BOOLEAN]
Call == [page : Page, kind : {"ticket", "room", "learn", "methods", "login"}, srv : Server,
         ph : {"info", "get", "out", "check", "clear", "post", "posted", "learn",
               "begin", "wait", "poll", "store"},
         mine : BOOLEAN, live : BOOLEAN, by : 0..Presses, tok : 0..MaxTokens, again : BOOLEAN]

TypeOK ==
    /\ scope \in Scope /\ needs \in Scope
    /\ valid \subseteq 1..MaxTokens /\ minted \in 0..MaxTokens /\ token \in 0..MaxTokens
    /\ info \in [Page -> Scope \cup {Unknown}]
    /\ page \in [Page -> PageState]
    /\ calls \subseteq Call
    /\ pressed \in 0..Presses /\ wish \in [Page -> SUBSET (1..Presses)]
    /\ changed \in 0..Changes

-----------------------------------------------------------------------------
(* What the page knows about a server. *)

Needs(s) == IF s = Guarded THEN needs ELSE "none"
Wants(s) == IF s = Guarded THEN scope ELSE "none"
Known(p, s) == IF s = Guarded THEN info[p] ELSE "none"
(* whether ServerAuth.ticket asks for one, by the server's own word *)
Gates(sc, purpose) == sc = "all" \/ (sc = "create" /\ purpose = "room")
AtLeast(sc, floor) == IF Rank[sc] >= Rank[floor] THEN sc ELSE floor

NewCall(p, kind, s, ph, by) ==
    [page |-> p, kind |-> kind, srv |-> s, ph |-> ph, mine |-> TRUE, live |-> TRUE,
     by |-> by, tok |-> 0, again |-> FALSE]

(* Where a ticket request starts: at /healthz, unless that is cached. *)
TicketFrom(p, s, purpose) ==
    IF Known(p, s) = Unknown THEN "info"
    ELSE IF Gates(Known(p, s), purpose) THEN "get" ELSE "post"
RoomCall(p, s, by) ==
    NewCall(p, "room", s, IF Needs(s) = "none" THEN "post" ELSE TicketFrom(p, s, "room"), by)

-----------------------------------------------------------------------------
(* What changes hands.  Each takes the page's state and the calls, and     *)
(* gives them back.                                                        *)

Disowned(cs, p, kinds) ==
    {IF c.page = p /\ c.kind \in kinds THEN [c EXCEPT !.mine = FALSE] ELSE c : c \in cs}
(* abandonLogin and cancelBrowser: the answer of a login comes too late *)
Abandoned(cs, p) ==
    {IF c.page = p /\ c.kind = "login" THEN [c EXCEPT !.mine = FALSE, !.live = FALSE] ELSE c : c \in cs}
MutLeftBehind(cs, p, same) ==
    Disowned(Abandoned(cs, p), p, {"ticket", "learn", "methods"})
(* bootstrap.leave; `same` is its sameSession *)
LeftBehind(cs, p, same) ==
    Disowned(Abandoned(cs, p), p, {"ticket", "learn", "methods"} \cup IF same THEN {} ELSE {"room"})

(* engine.connect as joinTicket answers it: at once for a server not known *)
(* to gate joining, else a ticket is asked for.                            *)
Connected(pg, cs, p) ==
    LET s == pg.session.srv
    IN IF Needs(s) # "all" THEN [pg |-> [pg EXCEPT !.conn = "bare"], cs |-> cs]
       ELSE [pg |-> [pg EXCEPT !.conn = "asking"],
             cs |-> cs \cup {NewCall(p, "ticket", s, TicketFrom(p, s, "ticket"), 0)}]

(* bootstrap.join: leave, a session, an engine, and its first connect *)
Joined(pg, cs, p, s, by, internal) ==
    Connected([session |-> [srv |-> s, by |-> by], conn |-> "off", sign |-> NoAsk,
               pending |-> FALSE, retried |-> internal /\ pg.retried],
              LeftBehind(cs, p, internal), p)
JoinedAgain(pg, cs, p) ==
    IF pg.session = Nothing THEN [pg |-> pg, cs |-> cs]
    ELSE Joined(pg, cs, p, pg.session.srv, pg.session.by, TRUE)

(* askSignIn: the same sign-in for the newest request, or a new one *)
Asked(pg, cs, p, s, retry, by) ==
    LET ask == [srv |-> s, retry |-> retry, by |-> by]
    IN IF pg.sign # NoAsk /\ pg.sign.srv = s
       THEN [pg |-> [pg EXCEPT !.sign = ask], cs |-> cs]
       ELSE [pg |-> [pg EXCEPT !.sign = ask, !.pending = FALSE], cs |-> Abandoned(cs, p)]

(* finishSignIn of the login c *)
Finished(pg, cs, p, c, ok) ==
    LET done == [pg EXCEPT !.pending = FALSE, !.sign = NoAsk, !.retried = FALSE]
    IN IF ~c.mine THEN [pg |-> pg, cs |-> cs]
       ELSE IF ~ok THEN [pg |-> [pg EXCEPT !.pending = FALSE], cs |-> cs]
       ELSE IF pg.sign.retry = "join" THEN JoinedAgain(done, cs, p)
       ELSE [pg |-> done, cs |-> cs \cup {RoomCall(p, pg.sign.srv, pg.sign.by)}]

MutAuthRefused(pg, cs, p) ==
    LET s == pg.session.srv
        r == [pg EXCEPT !.conn = "refused"]
    IN IF pg.sign # NoAsk \/ pg.retried THEN [pg |-> r, cs |-> cs]
       ELSE [pg |-> [r EXCEPT !.retried = TRUE], cs |-> cs \cup {NewCall(p, "learn", s, "learn", 0)}]
(* onAuthRefused: ask what the server needs and try once more, then ask    *)
(* the member.                                                             *)
AuthRefused(pg, cs, p) ==
    LET s == pg.session.srv
        r == [pg EXCEPT !.conn = "refused"]
    IN IF pg.sign # NoAsk THEN [pg |-> r, cs |-> cs]
       ELSE IF ~pg.retried
       THEN [pg |-> [r EXCEPT !.retried = TRUE], cs |-> cs \cup {NewCall(p, "learn", s, "learn", 0)}]
       ELSE [pg |-> r, cs |-> cs \cup {NewCall(p, "methods", s, "info", 0)}]

Becomes(p, next) ==
    /\ page' = [page EXCEPT ![p] = next.pg]
    /\ calls' = next.cs
(* what starts a call without an older one ending *)
MayStart == Cardinality(calls) < MaxCalls
Others(c) == calls \ {c}
Moved(c, ph) == calls' = Others(c) \cup {[c EXCEPT !.ph = ph]}

-----------------------------------------------------------------------------
(* The member. *)

Press(p, w) ==
    /\ pressed < Presses /\ MayStart
    /\ pressed' = pressed + 1
    /\ wish' = [wish EXCEPT ![p] = w]

PressJoin(p, s) ==
    /\ Press(p, {pressed + 1})
    /\ Becomes(p, Joined(page[p], calls, p, s, pressed + 1, FALSE))
    /\ UNCHANGED <<server, token, needs, info>>

PressCreate(p, s) ==
    /\ Press(p, wish[p] \cup {pressed + 1})
    /\ Becomes(p, [pg |-> page[p], cs |-> calls \cup {RoomCall(p, s, pressed + 1)}])
    /\ UNCHANGED <<server, token, needs, info>>

PressLeave(p) ==
    /\ page[p].session # Nothing
    /\ Press(p, {})
    /\ Becomes(p, [pg |-> [session |-> Nothing, conn |-> "off", sign |-> NoAsk,
                           pending |-> FALSE, retried |-> page[p].retried],
                   cs |-> LeftBehind(calls, p, FALSE)])
    /\ UNCHANGED <<server, token, needs, info>>

(* browserSignIn; a second press replaces the login in progress *)
PressSignIn(p) ==
    /\ page[p].sign # NoAsk /\ MayStart
    /\ Becomes(p, [pg |-> [page[p] EXCEPT !.pending = TRUE],
                   cs |-> Abandoned(calls, p)
                            \cup {NewCall(p, "login", page[p].sign.srv, "begin", 0)}])
    /\ UNCHANGED <<server, token, needs, info, member>>

PressCancel(p) ==
    /\ page[p].pending
    /\ Becomes(p, [pg |-> [page[p] EXCEPT !.pending = FALSE], cs |-> Abandoned(calls, p)])
    /\ UNCHANGED <<server, token, needs, info, member>>

(* signOut: cancelBrowser, and the background forgets the token *)
PressSignOut(p) ==
    /\ token # 0
    /\ token' = 0
    /\ calls' = {IF c.page = p /\ c.kind = "login" THEN [c EXCEPT !.live = FALSE] ELSE c : c \in calls}
    /\ UNCHANGED <<server, needs, info, page, member>>

-----------------------------------------------------------------------------
(* /healthz, and what it teaches. *)

(* ServerAuth.info answered, in front of a ticket *)
InfoAnswered(c) ==
    /\ c.ph = "info" /\ c.kind \in {"ticket", "room"}
    /\ info' = [info EXCEPT ![c.page] = IF c.srv = Guarded THEN scope ELSE @]
    /\ needs' = IF c.srv = Guarded THEN scope ELSE needs
    /\ Moved(c, IF Gates(Wants(c.srv), c.kind) THEN "get" ELSE "post")
    /\ UNCHANGED <<server, token, page, member>>

(* the methods of onAuthRefused, cached or fetched: readable or not, they  *)
(* are put to the member                                                   *)
MethodsAnswered(c) ==
    /\ c.kind = "methods"
    /\ LET pg == page[c.page]
       IN Becomes(c.page,
            IF c.mine /\ pg.sign = NoAsk
            THEN Asked(pg, Others(c), c.page, c.srv, "join", pg.session.by)
            ELSE [pg |-> pg, cs |-> Others(c)])
    /\ \/ UNCHANGED <<needs, info>>
       \/ /\ c.srv = Guarded /\ info[c.page] = Unknown
          /\ info' = [info EXCEPT ![c.page] = scope]
          /\ needs' = scope
    /\ UNCHANGED <<server, token, member>>

(* learnRefusal: what the server says of itself, or what it just did,      *)
(* whichever asks for more.  `said` is "none" when it could not be read.   *)
Learnt(c, floor) ==
    \E said \in {"none", Wants(c.srv)} :
        /\ info' = [info EXCEPT ![c.page] = IF c.srv = Guarded THEN AtLeast(said, floor) ELSE @]
        /\ needs' = IF c.srv = Guarded THEN AtLeast(said, floor) ELSE needs

LearnAnswered(c) ==
    /\ c.kind = "learn"
    /\ Learnt(c, "all")
    /\ UNCHANGED <<server, token, member>>
    /\ IF c.mine
       THEN Becomes(c.page, LET pg == page[c.page]
                                again == [session |-> pg.session, conn |-> "asking", sign |-> NoAsk,
                                          pending |-> FALSE, retried |-> pg.retried]
                                cs == LeftBehind(Others(c), c.page, TRUE)
                                \* join again; by now the server is known to gate joining
                            IN [pg |-> again,
                                cs |-> cs \cup {NewCall(c.page, "ticket", c.srv, "get", 0)}])
       ELSE calls' = Others(c) /\ UNCHANGED page

RoomLearnt(c) ==
    /\ c.kind = "room" /\ c.ph = "learn"
    /\ Learnt(c, "create")
    /\ calls' = Others(c) \cup {[c EXCEPT !.ph = "get", !.again = TRUE]}
    /\ UNCHANGED <<server, token, page, member>>

-----------------------------------------------------------------------------
(* POST /api/ticket, with whatever token the background holds. *)

MutRequired(c) ==
    LET pg == page[c.page]
        cs == Others(c)
    IN IF c.kind = "room" THEN Asked(pg, cs, c.page, c.srv, "create", c.by)
       ELSE LET a == Asked(pg, cs, c.page, c.srv, "join", pg.session.by)
            IN IF c.live THEN [a EXCEPT !.pg.conn = "refused"] ELSE a
Required(c) ==
    \* AuthRequiredError, to whoever wanted the ticket
    LET pg == page[c.page]
        cs == Others(c)
    IN IF ~c.mine THEN [pg |-> pg, cs |-> cs]
       ELSE IF c.kind = "room" THEN Asked(pg, cs, c.page, c.srv, "create", c.by)
       ELSE LET a == Asked(pg, cs, c.page, c.srv, "join", pg.session.by)
            IN IF c.live THEN [a EXCEPT !.pg.conn = "refused"] ELSE a

TokenRead(c) ==
    /\ c.ph = "get"
    /\ calls' = Others(c) \cup {[c EXCEPT !.ph = "out", !.tok = token]}
    /\ UNCHANGED <<server, token, needs, info, page, member>>

TicketGranted(c) ==
    /\ c.ph = "out" /\ c.tok \in valid
    /\ IF c.kind = "room"
       THEN calls' = Others(c) \cup {[c EXCEPT !.ph = "posted", !.tok = 0]} /\ UNCHANGED page
       ELSE Becomes(c.page, [pg |-> IF c.mine /\ c.live THEN [page[c.page] EXCEPT !.conn = "ticketed"]
                                    ELSE page[c.page],
                             cs |-> Others(c)])
    /\ UNCHANGED <<server, token, needs, info, member>>

(* 401 from the server itself.  A token that was sent is compared with the *)
(* stored one first.                                                       *)
TicketRefused(c) ==
    /\ c.ph = "out" /\ c.tok \notin valid
    /\ IF c.tok # 0 THEN Moved(c, "check") /\ UNCHANGED page
       ELSE Becomes(c.page, Required(c))
    /\ UNCHANGED <<server, token, needs, info, member>>

TokenChecked(c) ==
    /\ c.ph = "check"
    /\ IF token = c.tok THEN Moved(c, "clear") /\ UNCHANGED page
       ELSE Becomes(c.page, Required(c))
    /\ UNCHANGED <<server, token, needs, info, member>>

TokenCleared(c) ==
    /\ c.ph = "clear"
    /\ token' = 0
    /\ Becomes(c.page, Required(c))
    /\ UNCHANGED <<server, needs, info, member>>

(* a gateway that wants a login: nothing is learnt about the token *)
GatewayRefused(c) ==
    /\ c.ph = "out"
    /\ Becomes(c.page, Required(c))
    /\ UNCHANGED <<server, token, needs, info, member>>

(* no answer, or one that is not a refusal: the server is asked afresh     *)
(* what it needs, and the engine backs off.                                *)
TicketFailed(c) ==
    /\ c.ph \in {"info", "out"} /\ c.kind \in {"ticket", "room"}
    /\ info' = [info EXCEPT ![c.page] = IF c.srv = Guarded THEN Unknown ELSE @]
    /\ Becomes(c.page, [pg |-> IF c.kind = "ticket" /\ c.mine /\ c.live
                               THEN [page[c.page] EXCEPT !.conn = "backoff"] ELSE page[c.page],
                        cs |-> Others(c)])
    /\ UNCHANGED <<server, token, needs, member>>

(* a ticket call that turns out to need none *)
TicketNotWanted(c) ==
    /\ c.kind = "ticket" /\ c.ph = "post"
    /\ Becomes(c.page, [pg |-> IF c.mine /\ c.live THEN [page[c.page] EXCEPT !.conn = "bare"]
                               ELSE page[c.page],
                        cs |-> Others(c)])
    /\ UNCHANGED <<server, token, needs, info, member>>

-----------------------------------------------------------------------------
(* POST /api/rooms. *)

RoomCreated(c) ==
    /\ c.kind = "room"
    /\ c.ph = "posted" \/ (c.ph = "post" /\ ~Gates(Wants(c.srv), "room"))
    /\ IF c.mine
       THEN /\ Becomes(c.page, Joined(page[c.page], Others(c), c.page, c.srv, c.by, FALSE))
            /\ wish' = [wish EXCEPT ![c.page] = @ \cap {c.by}]
       ELSE calls' = Others(c) /\ UNCHANGED <<page, wish>>
    /\ UNCHANGED <<server, token, needs, info, pressed>>

(* 401 for want of a ticket, or for one that expired on the way *)
RoomRefused(c) ==
    /\ c.kind = "room"
    /\ c.ph = "posted" \/ (c.ph = "post" /\ Gates(Wants(c.srv), "room"))
    /\ c.srv = Guarded
    /\ IF c.again THEN Becomes(c.page, Required(c))
       ELSE Moved(c, "learn") /\ UNCHANGED page
    /\ UNCHANGED <<server, token, needs, info, member>>

RoomFailed(c) ==
    /\ c.kind = "room" /\ c.ph \in {"post", "posted"}
    /\ calls' = Others(c)
    /\ UNCHANGED <<server, token, needs, info, page, member>>

-----------------------------------------------------------------------------
(* A login in a tab. *)

LoginBegun(c) ==
    /\ c.kind = "login" /\ c.ph = "begin" /\ c.live
    /\ Moved(c, "wait")
    /\ UNCHANGED <<server, token, needs, info, page, member>>

PollSent(c) ==
    /\ c.ph = "wait" /\ c.live
    /\ Moved(c, "poll")
    /\ UNCHANGED <<server, token, needs, info, page, member>>

(* not finished yet, rate limited, or a blip *)
PollPending(c) ==
    /\ c.ph = "poll" /\ c.live
    /\ Moved(c, "wait")
    /\ UNCHANGED <<server, token, needs, info, page, member>>

(* the login is done: the answer carries a token, which the background     *)
(* stores before anybody hears of it, cancelled or not                     *)
PollMinted(c) ==
    /\ c.ph = "poll" /\ c.srv = Guarded /\ minted < MaxTokens
    /\ minted' = minted + 1 /\ valid' = valid \cup {minted + 1}
    /\ calls' = Others(c) \cup {[c EXCEPT !.ph = "store", !.tok = minted + 1]}
    /\ UNCHANGED <<scope, changed, token, needs, info, page, member>>

TokenStored(c) ==
    /\ c.ph = "store"
    /\ token' = c.tok
    /\ Becomes(c.page, Finished(page[c.page], Others(c), c.page, c, c.live))
    /\ UNCHANGED <<server, needs, info, member>>

(* refused, expired, unsupported, or cancelled meanwhile *)
LoginEnded(c) ==
    /\ c.kind = "login" /\ c.ph \in {"begin", "wait", "poll"}
    /\ Becomes(c.page, Finished(page[c.page], Others(c), c.page, c, FALSE))
    /\ UNCHANGED <<server, token, needs, info, member>>

-----------------------------------------------------------------------------
(* The engine's connection, as far as signing in goes (Link.tla has it     *)
(* whole), and the server.                                                 *)

Welcomed(p) ==
    /\ \/ page[p].conn = "ticketed"
       \/ page[p].conn = "bare" /\ Wants(page[p].session.srv) # "all"
    /\ page' = [page EXCEPT ![p].conn = "joined", ![p].retried = FALSE]
    /\ UNCHANGED <<server, token, needs, info, calls, member>>

(* hello refused: no ticket, or one that expired or was spent *)
HelloRefused(p) ==
    /\ page[p].conn \in {"bare", "ticketed"} /\ Wants(page[p].session.srv) = "all"
    /\ Becomes(p, AuthRefused(page[p], calls, p))
    /\ UNCHANGED <<server, token, needs, info, member>>

(* the link fails, or the ticket took longer than TICKET_TIMEOUT_MS *)
ConnectionLost(p) ==
    /\ page[p].conn \in {"asking", "bare", "ticketed", "joined"}
    /\ page' = [page EXCEPT ![p].conn = "backoff"]
    /\ calls' = {IF c.page = p /\ c.kind = "ticket" THEN [c EXCEPT !.live = FALSE] ELSE c : c \in calls}
    /\ UNCHANGED <<server, token, needs, info, member>>

Reconnect(p) ==
    /\ page[p].conn = "backoff" /\ MayStart
    /\ Becomes(p, Connected(page[p], calls, p))
    /\ UNCHANGED <<server, token, needs, info, member>>

(* restarted with other flags, or with another key: no token counts *)
Restart ==
    /\ changed < Changes
    /\ changed' = changed + 1
    /\ \/ valid' = {} /\ UNCHANGED scope
       \/ scope' \in Scope \ {scope} /\ UNCHANGED valid
    /\ page' = [p \in Page |-> IF page[p].session.srv = Guarded /\ page[p].conn \in {"bare", "ticketed", "joined"}
                               THEN [page[p] EXCEPT !.conn = "backoff"] ELSE page[p]]
    /\ UNCHANGED <<minted, token, needs, info, calls, member>>

-----------------------------------------------------------------------------
Init ==
    /\ scope \in Scope /\ needs \in {"none", scope}
    /\ minted \in 0..1 /\ minted <= MaxTokens /\ valid = 1..minted /\ token = minted
    /\ info = [p \in Page |-> Unknown]
    /\ page = [p \in Page |-> [session |-> Nothing, conn |-> "off", sign |-> NoAsk,
                               pending |-> FALSE, retried |-> FALSE]]
    /\ calls = {} /\ pressed = 0 /\ wish = [p \in Page |-> {}] /\ changed = 0

Presses_(p) ==
    \/ \E s \in Server : PressJoin(p, s) \/ PressCreate(p, s)
    \/ PressLeave(p) \/ PressSignIn(p) \/ PressCancel(p) \/ PressSignOut(p)

TicketAnswers(c) ==
    \/ InfoAnswered(c) \/ TokenRead(c) \/ TicketGranted(c) \/ TicketRefused(c) \/ TokenChecked(c)
    \/ TokenCleared(c) \/ GatewayRefused(c) \/ TicketFailed(c) \/ TicketNotWanted(c)
Answers(c) ==
    \/ TicketAnswers(c) \/ MethodsAnswered(c) \/ LearnAnswered(c) \/ RoomLearnt(c)
    \/ RoomCreated(c) \/ RoomRefused(c) \/ RoomFailed(c)
Login(c) ==
    \/ LoginBegun(c) \/ PollSent(c) \/ PollPending(c) \/ PollMinted(c) \/ TokenStored(c) \/ LoginEnded(c)
Engine(p) == Welcomed(p) \/ HelloRefused(p) \/ ConnectionLost(p) \/ Reconnect(p)

Next ==
    \/ \E p \in Page : Presses_(p) \/ Engine(p)
    \/ \E c \in calls : Answers(c) \/ Login(c)
    \/ Restart

Spec == Init /\ [][Next]_vars

(* Every call is answered or times out (HTTP_TIMEOUT_MS), and so is a      *)
(* hello.  Nothing is assumed about what the member presses.               *)
FairSpec ==
    /\ Spec
    /\ WF_vars(\E c \in calls : LearnAnswered(c))
    /\ WF_vars(\E c \in calls : MethodsAnswered(c))
    /\ WF_vars(\E p \in Page : Welcomed(p) \/ HelloRefused(p))

-----------------------------------------------------------------------------
(* Wherever a page is in a room, the member's own press put it there, and  *)
(* nothing they pressed later says otherwise: no room creation, login,     *)
(* ticket or refusal that settles late takes a member out of where they    *)
(* have gone since, or back to where they left (createRoom's sessionGen,   *)
(* finishSignIn, joinTicket, onAuthRefused).                               *)
WhereTheyChose ==
    \A p \in Page : page[p].session # Nothing => page[p].session.by \in wish[p]

(* A sign-in asked for joining is about the session there is: on success   *)
(* joinAgain joins whatever that is, so a sign-in left over from another   *)
(* would tear the present one down (joinTicket's `engine === e`).          *)
AsksForTheSessionThereIs ==
    \A p \in Page : page[p].sign.retry = "join" =>
        page[p].session.srv = page[p].sign.srv /\ page[p].session.by = page[p].sign.by

(* A hello refused for want of a ticket ends in another attempt or in a    *)
(* question to the member, never in a session that is silently dead        *)
(* (onAuthRefused).                                                        *)
RefusalIsAnswered ==
    \A p \in Page : (page[p].conn \in {"bare", "ticketed"})
                     ~> (page[p].sign # NoAsk \/ page[p].conn \notin {"bare", "ticketed", "refused"})

(* authfetch.ts says of itself that a late 401 forgets only the token that *)
(* was refused and never signs out one the server accepts. It does not hold *)
(* of this module, and no run lists it: the tokens are compared before an  *)
(* await and the area is cleared after it, so that a sign-in of another    *)
(* tab in between is lost.                                                 *)
FreshTokenSurvives ==
    [][\A c \in calls : (c.ph = "clear" /\ TokenCleared(c)) => token \notin valid]_vars
=============================================================================
