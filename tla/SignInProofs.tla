---------------------------- MODULE SignInProofs ----------------------------
(***************************************************************************)
(* Proofs about SignIn: a member is only ever where they chose to be, and  *)
(* a sign-in asked for joining is about the session there is.  What a late *)
(* answer may still do is decided by the call's `mine`, so the invariant   *)
(* says what every call that is still its page's own agrees with: the      *)
(* session, the presses that session may stem from, or the sign-in that is *)
(* asked for.                                                              *)
(***************************************************************************)
EXTENDS SignIn, TLAPS

Somewhere == [srv : Server, by : 1..Presses]

(* A page whose session and sign-in stem from the presses W. *)
PageFits(pg, W) ==
  /\ pg \in PageState
  /\ pg.session # Nothing => pg.session.by \in W
  /\ pg.conn # "off" => pg.session # Nothing
  /\ pg.sign.retry = "join" => pg.session.srv = pg.sign.srv /\ pg.session.by = pg.sign.by
  /\ pg.sign.retry = "create" => pg.sign.by \in W

(* A call of page pg, and how far each kind of call can have got. *)
CallFits(c, pg, W) ==
  /\ c \in Call
  /\ c.kind = "login" <=> c.ph \in {"begin", "wait", "poll", "store"}
  /\ c.ph \in {"get", "out", "check", "clear"} => c.kind \in {"ticket", "room"}
  /\ c.kind = "room" => c.by # 0
  /\ c.mine /\ c.kind \in {"ticket", "learn", "methods"} =>
       pg.session # Nothing /\ pg.session.srv = c.srv
  /\ c.mine /\ c.kind = "room" => c.by \in W
  /\ c.mine /\ c.kind = "login" => pg.sign # NoAsk

(* Of the logins of a page at most one is the page's own. *)
OneLogin(cs) ==
  \A c, d \in cs : /\ c.kind = "login" /\ c.mine /\ d.kind = "login" /\ d.mine
                   /\ c.page = d.page
                   => c = d

(* With pg for page p, W for its wishes and cs for the calls all fits. *)
Sound(pg, cs, p, W) ==
  /\ PageFits(pg, W)
  /\ OneLogin(cs)
  /\ \A c \in cs : IF c.page = p THEN CallFits(c, pg, W)
                   ELSE CallFits(c, page[c.page], wish[c.page])

Figures ==
  /\ scope \in Scope /\ needs \in Scope
  /\ valid \subseteq 1..MaxTokens /\ minted \in 0..MaxTokens /\ token \in 0..MaxTokens
  /\ info \in [Page -> Scope \cup {Unknown}]
  /\ pressed \in 0..Presses /\ changed \in 0..Changes

Inv ==
  /\ Figures
  /\ page \in [Page -> PageState] /\ wish \in [Page -> SUBSET (1..Presses)]
  /\ \A p \in Page : PageFits(page[p], wish[p])
  /\ \A c \in calls : CallFits(c, page[c.page], wish[c.page])
  /\ OneLogin(calls)

-----------------------------------------------------------------------------
(* Calls.                                                                  *)

(* A call that is disowned or cancelled fits any page. *)
LEMMA DisownedFits ==
  ASSUME NEW c, NEW pg, NEW W, CallFits(c, pg, W)
  PROVE  LET d == [c EXCEPT !.mine = FALSE]
             e == [c EXCEPT !.mine = FALSE, !.live = FALSE]
         IN  /\ d.page = c.page /\ ~d.mine /\ \A qg, V : CallFits(d, qg, V)
             /\ e.page = c.page /\ ~e.mine /\ \A qg, V : CallFits(e, qg, V)
<1> DEFINE d == [c EXCEPT !.mine = FALSE]
           e == [c EXCEPT !.mine = FALSE, !.live = FALSE]
<1>1. c \in Call
  BY DEF CallFits
<1>2. d \in Call /\ d.page = c.page /\ d.kind = c.kind /\ d.ph = c.ph /\ d.by = c.by /\ ~d.mine
  BY <1>1 DEF Call
<1>3. e \in Call /\ e.page = c.page /\ e.kind = c.kind /\ e.ph = c.ph /\ e.by = c.by /\ ~e.mine
  BY <1>1 DEF Call
<1> HIDE DEF d, e
<1>4. \A qg, V : CallFits(d, qg, V) /\ CallFits(e, qg, V)
  BY <1>2, <1>3 DEF CallFits
<1> QED BY <1>2, <1>3, <1>4 DEF d, e

(* A call that is only cancelled fits where it did. *)
LEMMA CancelledFits ==
  ASSUME NEW c, NEW pg, NEW W, CallFits(c, pg, W)
  PROVE  LET d == [c EXCEPT !.live = FALSE]
         IN  /\ d.page = c.page /\ d.kind = c.kind /\ d.mine = c.mine
             /\ CallFits(d, pg, W)
<1> DEFINE d == [c EXCEPT !.live = FALSE]
<1>1. c \in Call
  BY DEF CallFits
<1>2. d \in Call /\ d.page = c.page /\ d.kind = c.kind /\ d.ph = c.ph /\ d.by = c.by
      /\ d.mine = c.mine /\ d.srv = c.srv
  BY <1>1 DEF Call
<1> HIDE DEF d
<1>3. CallFits(d, pg, W)
  BY <1>2 DEF CallFits
<1> QED BY <1>2, <1>3 DEF d

(* The calls left when p disowns its logins and the kinds ks: its other    *)
(* calls, and those of the other pages, are what they were.                *)
LEMMA DroppedSound ==
  ASSUME NEW p \in Page, NEW pg, NEW W, NEW cs, Sound(pg, cs, p, W), NEW ks,
         NEW ds, ds = Disowned(Abandoned(cs, p), p, ks)
  PROVE  /\ OneLogin(ds)
         /\ \A d \in ds : /\ d.page # p => CallFits(d, page[d.page], wish[d.page])
                          /\ d.page = p => CallFits(d, pg, W)
                          /\ d.page = p /\ d.mine => d \in cs /\ d.kind \notin ks \cup {"login"}
<1> DEFINE a(c) == IF c.page = p /\ c.kind = "login"
                   THEN [c EXCEPT !.mine = FALSE, !.live = FALSE] ELSE c
           b(c) == IF c.page = p /\ c.kind \in ks THEN [c EXCEPT !.mine = FALSE] ELSE c
<1>1. \A d \in ds : \E c \in cs : d = b(a(c))
  BY DEF Disowned, Abandoned
<1>2. \A c \in cs : /\ a(c).page = c.page
                    /\ c.page # p => a(c) = c /\ CallFits(c, page[c.page], wish[c.page])
                    /\ c.page = p => CallFits(a(c), pg, W)
                    /\ c.page = p /\ a(c).mine => a(c) = c /\ c.kind # "login"
  BY DisownedFits DEF Sound
<1> HIDE DEF a
<1>3. \A c \in cs : /\ b(a(c)).page = c.page
                    /\ c.page # p => b(a(c)) = c
                    /\ c.page = p => CallFits(b(a(c)), pg, W)
                    /\ c.page = p /\ b(a(c)).mine => b(a(c)) = c /\ c.kind \notin ks \cup {"login"}
  BY <1>2, DisownedFits
<1> HIDE DEF b
<1>4. \A d \in ds : /\ d.page # p => CallFits(d, page[d.page], wish[d.page]) /\ d \in cs
                    /\ d.page = p => CallFits(d, pg, W)
                    /\ d.page = p /\ d.mine => d \in cs /\ d.kind \notin ks \cup {"login"}
  BY <1>1, <1>2, <1>3
<1>5. OneLogin(ds)
  BY <1>4 DEF OneLogin, Sound
<1> QED BY <1>4, <1>5

LEMMA AbandonedSound ==
  ASSUME NEW p \in Page, NEW pg, NEW W, NEW cs, Sound(pg, cs, p, W)
  PROVE  /\ OneLogin(Abandoned(cs, p))
         /\ \A d \in Abandoned(cs, p) :
              /\ d.page # p => CallFits(d, page[d.page], wish[d.page])
              /\ d.page = p => CallFits(d, pg, W)
              /\ d.page = p /\ d.mine => d \in cs /\ d.kind # "login"
<1>1. Abandoned(cs, p) = Disowned(Abandoned(cs, p), p, {})
  BY DEF Disowned
<1> QED BY <1>1, DroppedSound

(* A new call is of its page, and fits it if what it is made for does. *)
LEMMA NewCallFits ==
  ASSUME NEW p \in Page, NEW s \in Server, NEW by \in 0..Presses, NEW kind, NEW ph, NEW pg, NEW W,
         \/ kind = "ticket" /\ ph \in {"info", "get", "post"}
         \/ kind = "room" /\ ph \in {"info", "get", "post"} /\ by # 0 /\ by \in W
         \/ kind = "login" /\ ph = "begin" /\ pg.sign # NoAsk
         \/ kind = "learn" /\ ph = "learn"
         \/ kind = "methods" /\ ph = "info",
         kind \in {"ticket", "learn", "methods"} => pg.session # Nothing /\ pg.session.srv = s
  PROVE  LET c == NewCall(p, kind, s, ph, by)
         IN  c.page = p /\ c.kind = kind /\ c.mine /\ CallFits(c, pg, W)
<1> DEFINE c == NewCall(p, kind, s, ph, by)
<1>1. c \in Call /\ c.page = p /\ c.kind = kind /\ c.ph = ph /\ c.by = by /\ c.mine /\ c.srv = s
  BY SignInAssumption DEF NewCall, Call
<1> HIDE DEF c
<1>2. CallFits(c, pg, W)
  BY <1>1 DEF CallFits
<1> QED BY <1>1, <1>2 DEF c

(* Another call that is no login may be added. *)
LEMMA AddedSound ==
  ASSUME NEW p \in Page, NEW pg, NEW W, NEW cs, Sound(pg, cs, p, W), NEW c,
         c.page = p, CallFits(c, pg, W), c.kind # "login"
  PROVE  Sound(pg, cs \cup {c}, p, W)
BY DEF Sound, OneLogin

LEMMA FewerSound ==
  ASSUME NEW p \in Page, NEW pg, NEW W, NEW cs, Sound(pg, cs, p, W), NEW ds, ds \subseteq cs
  PROVE  Sound(pg, ds, p, W)
BY DEF Sound, OneLogin

-----------------------------------------------------------------------------
(* What changes hands.                                                     *)

LEMMA TicketFromWhere ==
  ASSUME NEW p, NEW s, NEW purpose
  PROVE  TicketFrom(p, s, purpose) \in {"info", "get", "post"}
BY DEF TicketFrom

(* A session of the page's own, put in another state of connecting. *)
LEMMA ConnFits ==
  ASSUME NEW pg, NEW W, PageFits(pg, W), pg.session # Nothing,
         NEW k \in {"off", "asking", "bare", "ticketed", "joined", "refused", "backoff"},
         NEW retried \in BOOLEAN
  PROVE  LET x == [pg EXCEPT !.conn = k]
             y == [pg EXCEPT !.conn = k, !.retried = retried]
         IN  /\ PageFits(x, W) /\ x.session = pg.session /\ x.sign = pg.sign
             /\ PageFits(y, W) /\ y.session = pg.session /\ y.sign = pg.sign
<1> DEFINE x == [pg EXCEPT !.conn = k]
           y == [pg EXCEPT !.conn = k, !.retried = retried]
<1>1. pg \in PageState
  BY DEF PageFits
<1>2. x \in PageState /\ x.session = pg.session /\ x.sign = pg.sign
  BY <1>1 DEF PageState
<1>3. y \in PageState /\ y.session = pg.session /\ y.sign = pg.sign
  BY <1>1 DEF PageState
<1> HIDE DEF x, y
<1>4. PageFits(x, W) /\ PageFits(y, W)
  BY <1>2, <1>3 DEF PageFits
<1> QED BY <1>2, <1>3, <1>4 DEF x, y

(* What a call has to fit of its page is the session and the sign-in. *)
LEMMA SameFits ==
  ASSUME NEW p \in Page, NEW pg, NEW W, NEW cs, Sound(pg, cs, p, W),
         NEW x, PageFits(x, W), x.session = pg.session, x.sign = pg.sign
  PROVE  Sound(x, cs, p, W)
BY DEF Sound, CallFits

(* The server of a session is one there is. *)
LEMMA SessionIsSomewhere ==
  ASSUME NEW pg, NEW W, PageFits(pg, W), pg.session # Nothing
  PROVE  pg.session \in Somewhere /\ pg.session.srv \in Server /\ pg.session.by \in 1..Presses
<1>1. pg.session \in Session
  BY DEF PageFits, PageState
<1> QED BY <1>1 DEF Session, Somewhere

LEMMA ConnectedSound ==
  ASSUME Figures, NEW p \in Page, NEW pg, NEW W, NEW cs, Sound(pg, cs, p, W), pg.session # Nothing
  PROVE  LET n == Connected(pg, cs, p) IN Sound(n.pg, n.cs, p, W)
<1> DEFINE bare == [pg EXCEPT !.conn = "bare"]
           asking == [pg EXCEPT !.conn = "asking"]
           c == NewCall(p, "ticket", pg.session.srv, TicketFrom(p, pg.session.srv, "ticket"), 0)
<1>1. PageFits(pg, W) /\ pg.session.srv \in Server
  BY SessionIsSomewhere DEF Sound
<1>2. /\ PageFits(bare, W) /\ bare.session = pg.session /\ bare.sign = pg.sign
      /\ PageFits(asking, W) /\ asking.session = pg.session /\ asking.sign = pg.sign
  BY <1>1, ConnFits
<1> HIDE DEF bare, asking
<1>3. 0 \in 0..Presses
  BY SignInAssumption
<1>4. c.page = p /\ c.kind = "ticket" /\ CallFits(c, asking, W)
  BY <1>1, <1>2, <1>3, TicketFromWhere, NewCallFits
<1> HIDE DEF c
<1>5. Sound(bare, cs, p, W) /\ Sound(asking, cs, p, W)
  BY <1>2, SameFits
<1>6. Sound(asking, cs \cup {c}, p, W)
  BY <1>4, <1>5, AddedSound
<1>7. Connected(pg, cs, p) = IF Needs(pg.session.srv) # "all" THEN [pg |-> bare, cs |-> cs]
                             ELSE [pg |-> asking, cs |-> cs \cup {c}]
  BY DEF Connected, bare, asking, c
<1> QED BY <1>5, <1>6, <1>7

(* A page that leaves what it had behind, for a state without a sign-in:   *)
(* what is left of its calls of its own is room creations, and those only  *)
(* if it stays in its session.                                             *)
LEMMA LeftSound ==
  ASSUME NEW p \in Page, NEW pg, NEW W, NEW cs, Sound(pg, cs, p, W), NEW same \in BOOLEAN,
         NEW x, NEW V, PageFits(x, V), same => V = W
  PROVE  Sound(x, LeftBehind(cs, p, same), p, V)
<1> DEFINE ks == {"ticket", "learn", "methods"} \cup IF same THEN {} ELSE {"room"}
           ds == LeftBehind(cs, p, same)
<1>1. ds = Disowned(Abandoned(cs, p), p, ks)
  BY DEF LeftBehind
<1>2. {"ticket", "learn", "methods"} \subseteq ks /\ (same \/ "room" \in ks)
  OBVIOUS
<1> HIDE DEF ks, ds
<1>3. /\ OneLogin(ds)
      /\ \A d \in ds : /\ d.page # p => CallFits(d, page[d.page], wish[d.page])
                       /\ d.page = p => CallFits(d, pg, W)
                       /\ d.page = p /\ d.mine => d \in cs /\ d.kind \notin ks \cup {"login"}
  BY <1>1, DroppedSound
<1>4. ASSUME NEW d \in ds, d.page = p PROVE CallFits(d, x, V)
  BY <1>2, <1>3, <1>4 DEF CallFits
<1>5. Sound(x, ds, p, V)
  BY <1>3, <1>4 DEF Sound
<1> QED BY <1>5 DEF ds

LEMMA JoinedSound ==
  ASSUME Figures, NEW p \in Page, NEW pg, NEW W, NEW cs, Sound(pg, cs, p, W),
         NEW s \in Server, NEW by \in 1..Presses, NEW internal \in BOOLEAN,
         NEW V, by \in V, internal => V = W
  PROVE  LET n == Joined(pg, cs, p, s, by, internal) IN Sound(n.pg, n.cs, p, V)
<1> DEFINE r == internal /\ pg.retried
           here == [srv |-> s, by |-> by]
           x == [session |-> here, conn |-> "off", sign |-> NoAsk, pending |-> FALSE, retried |-> r]
           ds == LeftBehind(cs, p, internal)
<1>1. here \in Session /\ here # Nothing /\ here.by = by
  BY DEF Session, Nothing
<1>2. r \in BOOLEAN
  BY DEF Sound, PageFits, PageState
<1> HIDE DEF r, here
<1>3. NoAsk \in Ask /\ NoAsk.retry = "nothing"
  BY DEF Ask, NoAsk
<1>4. /\ x \in PageState /\ x.session = here /\ x.conn = "off" /\ x.sign.retry = "nothing"
  BY <1>1, <1>2, <1>3 DEF PageState
<1> HIDE DEF x
<1>5. PageFits(x, V)
  BY <1>1, <1>4 DEF PageFits
<1>6. Sound(x, ds, p, V)
  BY <1>5, LeftSound
<1> HIDE DEF ds
<1>7. Joined(pg, cs, p, s, by, internal) = Connected(x, ds, p)
  BY DEF Joined, x, ds, here, r
<1> QED BY <1>1, <1>4, <1>6, <1>7, ConnectedSound

LEMMA JoinedAgainSound ==
  ASSUME Figures, NEW p \in Page, NEW pg, NEW W, NEW cs, Sound(pg, cs, p, W)
  PROVE  LET n == JoinedAgain(pg, cs, p) IN Sound(n.pg, n.cs, p, W)
<1>1. CASE pg.session = Nothing
  BY <1>1 DEF JoinedAgain
<1>2. CASE pg.session # Nothing
  <2>1. PageFits(pg, W) /\ pg.session.srv \in Server /\ pg.session.by \in 1..Presses
    BY <1>2, SessionIsSomewhere DEF Sound
  <2>2. pg.session.by \in W
    BY <1>2, <2>1 DEF PageFits
  <2> DEFINE internal == TRUE
  <2>4. internal \in BOOLEAN /\ JoinedAgain(pg, cs, p) = Joined(pg, cs, p, pg.session.srv, pg.session.by, internal)
    BY <1>2 DEF JoinedAgain
  <2> HIDE DEF internal
  <2> QED BY <2>1, <2>2, <2>4, JoinedSound
<1> QED BY <1>1, <1>2

LEMMA RoomCallFits ==
  ASSUME NEW p \in Page, NEW s \in Server, NEW by \in 1..Presses, NEW pg, NEW W, by \in W
  PROVE  LET c == RoomCall(p, s, by)
         IN  c.page = p /\ c.kind = "room" /\ CallFits(c, pg, W)
<1> DEFINE ph == IF Needs(s) = "none" THEN "post" ELSE TicketFrom(p, s, "room")
<1>1. ph \in {"info", "get", "post"} /\ by \in 0..Presses /\ by # 0
  BY SignInAssumption, TicketFromWhere
<1> HIDE DEF ph
<1>2. RoomCall(p, s, by) = NewCall(p, "room", s, ph, by)
  BY DEF RoomCall, ph
<1> QED BY <1>1, <1>2, NewCallFits

LEMMA AskedSound ==
  ASSUME NEW p \in Page, NEW pg, NEW W, NEW cs, Sound(pg, cs, p, W),
         NEW s \in Server, NEW by \in 1..Presses, NEW retry \in {"join", "create"},
         retry = "join" => pg.session.srv = s /\ pg.session.by = by,
         retry = "create" => by \in W
  PROVE  LET n == Asked(pg, cs, p, s, retry, by)
         IN  Sound(n.pg, n.cs, p, W) /\ n.pg.session = pg.session
<1> DEFINE ask == [srv |-> s, retry |-> retry, by |-> by]
           x == [pg EXCEPT !.sign = ask]
           y == [pg EXCEPT !.sign = ask, !.pending = FALSE]
<1>1. ask \in Ask /\ ask # NoAsk /\ ask.srv = s /\ ask.retry = retry /\ ask.by = by
  BY DEF Ask, NoAsk
<1> HIDE DEF ask
<1>2. PageFits(pg, W) /\ pg \in PageState
  BY DEF Sound, PageFits
<1>3. x \in PageState /\ x.session = pg.session /\ x.sign = ask /\ x.conn = pg.conn
  BY <1>1, <1>2 DEF PageState
<1>4. y \in PageState /\ y.session = pg.session /\ y.sign = ask /\ y.conn = pg.conn
  BY <1>1, <1>2 DEF PageState
<1> HIDE DEF x, y
<1>5. PageFits(x, W) /\ PageFits(y, W)
  BY <1>1, <1>2, <1>3, <1>4 DEF PageFits
<1>6. Sound(x, cs, p, W)
  <2>1. ASSUME NEW c \in cs, CallFits(c, pg, W) PROVE CallFits(c, x, W)
    BY <1>1, <1>3, <2>1 DEF CallFits
  <2> QED BY <1>5, <2>1 DEF Sound
<1>7. Sound(y, Abandoned(cs, p), p, W)
  <2>1. ASSUME NEW c, CallFits(c, pg, W) PROVE CallFits(c, y, W)
    BY <1>1, <1>4, <2>1 DEF CallFits
  <2> QED BY <1>5, <2>1, AbandonedSound DEF Sound
<1>8. Asked(pg, cs, p, s, retry, by) =
        IF pg.sign # NoAsk /\ pg.sign.srv = s THEN [pg |-> x, cs |-> cs]
        ELSE [pg |-> y, cs |-> Abandoned(cs, p)]
  BY DEF Asked, x, y, ask
<1> QED BY <1>3, <1>4, <1>6, <1>7, <1>8

LEMMA FinishedSound ==
  ASSUME Figures, NEW p \in Page, NEW pg, NEW W, NEW cs, Sound(pg, cs, p, W), NEW ok \in BOOLEAN,
         NEW c, c.mine => /\ pg.sign # NoAsk
                          /\ \A d \in cs : ~(d.page = p /\ d.kind = "login" /\ d.mine)
  PROVE  LET n == Finished(pg, cs, p, c, ok) IN Sound(n.pg, n.cs, p, W)
<1> DEFINE x == [pg EXCEPT !.pending = FALSE]
           y == [pg EXCEPT !.pending = FALSE, !.sign = NoAsk, !.retried = FALSE]
           r == RoomCall(p, pg.sign.srv, pg.sign.by)
<1>1. PageFits(pg, W) /\ pg \in PageState /\ pg.sign \in Ask
  BY DEF Sound, PageFits, PageState
<1>2. x \in PageState /\ x.session = pg.session /\ x.sign = pg.sign /\ x.conn = pg.conn
  BY <1>1 DEF PageState
<1>3. NoAsk \in Ask /\ NoAsk.retry = "nothing"
  BY DEF Ask, NoAsk
<1>4. y \in PageState /\ y.session = pg.session /\ y.sign = NoAsk /\ y.conn = pg.conn
  BY <1>1, <1>3 DEF PageState
<1> HIDE DEF x, y, r
<1>5. PageFits(x, W) /\ PageFits(y, W)
  BY <1>1, <1>2, <1>3, <1>4 DEF PageFits
<1>6. Sound(x, cs, p, W)
  BY <1>2, <1>5, SameFits
<1>7. CASE ~c.mine
  BY <1>7 DEF Finished
<1>8. CASE c.mine /\ ~ok
  BY <1>6, <1>8 DEF Finished, x
<1>9. CASE c.mine /\ ok
  <2>1. ASSUME NEW d \in cs, d.page = p PROVE CallFits(d, y, W)
    BY <1>4, <1>9, <2>1 DEF CallFits, Sound
  <2>2. Sound(y, cs, p, W)
    BY <1>5, <2>1 DEF Sound
  <2>3. CASE pg.sign.retry = "join"
    <3>1. Finished(pg, cs, p, c, ok) = JoinedAgain(y, cs, p)
      BY <1>9, <2>3 DEF Finished, y
    <3> QED BY <2>2, <3>1, JoinedAgainSound
  <2>4. CASE pg.sign.retry # "join"
    <3>1. pg.sign.srv \in Server /\ pg.sign.by \in 1..Presses /\ pg.sign.retry = "create"
      BY <1>1, <1>9, <2>4 DEF Ask
    <3>2. pg.sign.by \in W
      BY <1>1, <3>1 DEF PageFits
    <3>3. r.page = p /\ r.kind = "room" /\ CallFits(r, y, W)
      BY <3>1, <3>2, RoomCallFits DEF r
    <3>4. Sound(y, cs \cup {r}, p, W)
      BY <2>2, <3>3, AddedSound
    <3>5. Finished(pg, cs, p, c, ok) = [pg |-> y, cs |-> cs \cup {r}]
      BY <1>9, <2>4 DEF Finished, y, r
    <3> QED BY <3>4, <3>5
  <2> QED BY <2>3, <2>4
<1> QED BY <1>7, <1>8, <1>9

LEMMA AuthRefusedSound ==
  ASSUME Figures, NEW p \in Page, NEW pg, NEW W, NEW cs, Sound(pg, cs, p, W), pg.session # Nothing
  PROVE  LET n == AuthRefused(pg, cs, p) IN Sound(n.pg, n.cs, p, W)
<1> DEFINE x == [pg EXCEPT !.conn = "refused"]
           y == [x EXCEPT !.retried = TRUE]
           learn == NewCall(p, "learn", pg.session.srv, "learn", 0)
           methods == NewCall(p, "methods", pg.session.srv, "info", 0)
<1>1. PageFits(pg, W) /\ pg.session.srv \in Server /\ 0 \in 0..Presses
  BY SignInAssumption, SessionIsSomewhere DEF Sound
<1>2. PageFits(x, W) /\ x.session = pg.session /\ x.sign = pg.sign /\ x \in PageState
  BY <1>1, ConnFits DEF PageFits
<1>3. PageFits(y, W) /\ y.session = pg.session /\ y.sign = pg.sign
  <2>1. TRUE \in BOOLEAN
    OBVIOUS
  <2>2. y \in PageState /\ y.session = x.session /\ y.sign = x.sign /\ y.conn = x.conn
    BY <1>2, <2>1 DEF PageState
  <2> HIDE DEF x, y
  <2> QED BY <1>2, <2>2 DEF PageFits
<1> HIDE DEF x, y
<1>4. Sound(x, cs, p, W) /\ Sound(y, cs, p, W)
  BY <1>2, <1>3, SameFits
<1>5. learn.page = p /\ learn.kind = "learn" /\ CallFits(learn, y, W)
  BY <1>1, <1>3, NewCallFits
<1>6. methods.page = p /\ methods.kind = "methods" /\ CallFits(methods, x, W)
  BY <1>1, <1>2, NewCallFits
<1> HIDE DEF learn, methods
<1>7. Sound(y, cs \cup {learn}, p, W) /\ Sound(x, cs \cup {methods}, p, W)
  BY <1>4, <1>5, <1>6, AddedSound
<1>8. AuthRefused(pg, cs, p) =
        IF pg.sign # NoAsk THEN [pg |-> x, cs |-> cs]
        ELSE IF ~pg.retried THEN [pg |-> y, cs |-> cs \cup {learn}]
        ELSE [pg |-> x, cs |-> cs \cup {methods}]
  BY DEF AuthRefused, x, y, learn, methods
<1> QED BY <1>4, <1>7, <1>8

-----------------------------------------------------------------------------
(* What a step shows of the invariant.                                     *)

LEMMA InvSound ==
  ASSUME Inv, NEW p \in Page
  PROVE  /\ Sound(page[p], calls, p, wish[p]) /\ page[p] \in PageState
         /\ wish[p] \subseteq 1..Presses
BY DEF Inv, Sound

LEMMA CallIs ==
  ASSUME Inv, NEW c \in calls
  PROVE  /\ c \in Call /\ c.page \in Page
         /\ CallFits(c, page[c.page], wish[c.page])
         /\ Sound(page[c.page], Others(c), c.page, wish[c.page])
<1>1. c \in Call /\ c.page \in Page /\ CallFits(c, page[c.page], wish[c.page])
  BY DEF Inv, CallFits, Call
<1>2. Sound(page[c.page], Others(c), c.page, wish[c.page])
  BY <1>1, InvSound, FewerSound DEF Others
<1> QED BY <1>1, <1>2

LEMMA BecomesInv ==
  ASSUME Inv, NEW p \in Page, NEW n, Becomes(p, n), NEW W \in SUBSET (1..Presses),
         wish' = [wish EXCEPT ![p] = W], Sound(n.pg, n.cs, p, W), Figures'
  PROVE  Inv'
<1>1. page' = [page EXCEPT ![p] = n.pg] /\ calls' = n.cs /\ n.pg \in PageState
  BY DEF Becomes, Sound, PageFits
<1>2. page' \in [Page -> PageState] /\ wish' \in [Page -> SUBSET (1..Presses)]
  BY <1>1 DEF Inv
<1>3. /\ page'[p] = n.pg /\ wish'[p] = W
      /\ \A q \in Page : q # p => page'[q] = page[q] /\ wish'[q] = wish[q]
  BY <1>1 DEF Inv
<1>4. \A q \in Page : PageFits(page'[q], wish'[q])
  BY <1>3 DEF Inv, Sound
<1>5. \A c \in n.cs : c.page \in Page
  BY DEF Sound, CallFits, Call
<1>6. \A c \in calls' : CallFits(c, page'[c.page], wish'[c.page])
  BY <1>1, <1>3, <1>5 DEF Sound
<1> QED BY <1>1, <1>2, <1>4, <1>6 DEF Inv, Sound

(* A step that turns nobody's wishes. *)
LEMMA BecomesAsWished ==
  ASSUME Inv, NEW p \in Page, NEW n, Becomes(p, n), wish' = wish,
         Sound(n.pg, n.cs, p, wish[p]), Figures'
  PROVE  Inv'
<1>1. wish' = [wish EXCEPT ![p] = wish[p]] /\ wish[p] \in SUBSET (1..Presses)
  BY DEF Inv
<1> QED BY <1>1, BecomesInv

(* A step that touches a page's calls only. *)
LEMMA CallsInv ==
  ASSUME Inv, NEW p \in Page, NEW cs, calls' = cs, UNCHANGED <<page, wish>>,
         Sound(page[p], cs, p, wish[p]), Figures'
  PROVE  Inv'
<1> DEFINE n == [pg |-> page[p], cs |-> cs]
<1>1. Becomes(p, n)
  BY DEF Becomes, Inv
<1>2. n.pg = page[p] /\ n.cs = cs
  OBVIOUS
<1> HIDE DEF n
<1> QED BY <1>1, <1>2, BecomesAsWished

(* A call that got further. *)
LEMMA MovedInv ==
  ASSUME Inv, NEW c \in calls, NEW d \in Call, calls' = Others(c) \cup {d}, UNCHANGED <<page, wish>>,
         Figures', d.page = c.page, d.kind = c.kind, d.mine = c.mine, d.srv = c.srv, d.by = c.by,
         c.kind = "login" <=> d.ph \in {"begin", "wait", "poll", "store"},
         d.ph \in {"get", "out", "check", "clear"} => c.kind \in {"ticket", "room"}
  PROVE  Inv'
<1>1. /\ c.page \in Page /\ CallFits(c, page[c.page], wish[c.page])
      /\ Sound(page[c.page], calls, c.page, wish[c.page])
  BY CallIs, InvSound
<1>2. CallFits(d, page[c.page], wish[c.page])
  BY <1>1 DEF CallFits
<1>3. OneLogin(Others(c) \cup {d})
  BY <1>1 DEF OneLogin, Others, Sound
<1>4. Sound(page[c.page], Others(c) \cup {d}, c.page, wish[c.page])
  BY <1>1, <1>2, <1>3 DEF Sound, Others
<1> QED BY <1>1, <1>4, CallsInv

(* A call that is gone. *)
LEMMA GoneInv ==
  ASSUME Inv, NEW c \in calls, calls' = Others(c), UNCHANGED <<page, wish>>, Figures'
  PROVE  Inv'
BY CallIs, CallsInv

(* A page that is the same but for its connection, and a call that is gone. *)
LEMMA ConnInv ==
  ASSUME Inv, NEW c \in calls, Figures', wish' = wish,
         NEW k \in {"bare", "ticketed", "backoff"},
         NEW touched, touched => page[c.page].session # Nothing,
         Becomes(c.page, [pg |-> IF touched THEN [page[c.page] EXCEPT !.conn = k] ELSE page[c.page],
                          cs |-> Others(c)])
  PROVE  Inv'
<1> DEFINE x == [page[c.page] EXCEPT !.conn = k]
           n == [pg |-> IF touched THEN x ELSE page[c.page], cs |-> Others(c)]
<1>1. Sound(page[c.page], Others(c), c.page, wish[c.page]) /\ c.page \in Page
  BY CallIs
<1>2. touched => PageFits(x, wish[c.page]) /\ x.session = page[c.page].session
                 /\ x.sign = page[c.page].sign
  <2>1. k \in {"off", "asking", "bare", "ticketed", "joined", "refused", "backoff"}
        /\ PageFits(page[c.page], wish[c.page])
    BY <1>1 DEF Sound
  <2>2. \E retried : retried \in BOOLEAN
    OBVIOUS
  <2> QED BY <2>1, <2>2, ConnFits, Zenon
<1>3. touched => Sound(x, Others(c), c.page, wish[c.page])
  BY <1>1, <1>2, SameFits
<1>4. Becomes(c.page, n)
  OBVIOUS
<1>5. n.pg = (IF touched THEN x ELSE page[c.page]) /\ n.cs = Others(c)
  OBVIOUS
<1> HIDE DEF x, n
<1>6. Sound(n.pg, n.cs, c.page, wish[c.page])
  BY <1>1, <1>3, <1>5
<1> QED BY <1>1, <1>4, <1>6, BecomesAsWished

LEMMA RequiredSound ==
  ASSUME Inv, NEW c \in calls, c.kind \in {"ticket", "room"}
  PROVE  Sound(Required(c).pg, Required(c).cs, c.page, wish[c.page])
<1> DEFINE pg == page[c.page]
           cs == Others(c)
           W == wish[c.page]
           a == Asked(pg, cs, c.page, c.srv, "join", pg.session.by)
           r == Asked(pg, cs, c.page, c.srv, "create", c.by)
           x == [a.pg EXCEPT !.conn = "refused"]
<1>1. c \in Call /\ c.page \in Page /\ CallFits(c, pg, W) /\ Sound(pg, cs, c.page, W) /\ c.srv \in Server
  BY CallIs DEF Call
<1>2. CASE ~c.mine
  BY <1>1, <1>2 DEF Required
<1>3. CASE c.mine /\ c.kind = "room"
  <2>1. c.by \in W /\ c.by \in 1..Presses
    BY <1>1, <1>3, InvSound DEF CallFits
  <2>2. Sound(r.pg, r.cs, c.page, W)
    BY <1>1, <2>1, AskedSound
  <2> QED BY <1>3, <2>2 DEF Required
<1>4. CASE c.mine /\ c.kind = "ticket"
  <2>1. pg.session # Nothing /\ pg.session.srv = c.srv
    BY <1>1, <1>4 DEF CallFits
  <2>2. pg.session.by \in 1..Presses
    BY <1>1, <2>1, SessionIsSomewhere DEF Sound
  <2>3. Sound(a.pg, a.cs, c.page, W) /\ a.pg.session = pg.session
    BY <1>1, <2>1, <2>2, AskedSound
  <2>4. a = [pg |-> a.pg, cs |-> a.cs]
    BY DEF Asked
  <2> HIDE DEF a, pg
  <2>5. PageFits(x, W) /\ x.session = a.pg.session /\ x.sign = a.pg.sign
    BY <2>1, <2>3, ConnFits DEF Sound
  <2>6. Sound(x, a.cs, c.page, W)
    BY <1>1, <2>3, <2>5, SameFits
  <2>7. [a EXCEPT !.pg.conn = "refused"].pg = x /\ [a EXCEPT !.pg.conn = "refused"].cs = a.cs
    BY <2>4
  <2>8. Required(c) = IF c.live THEN [a EXCEPT !.pg.conn = "refused"] ELSE a
    BY <1>4 DEF Required, a, pg
  <2> QED BY <2>3, <2>6, <2>7, <2>8
<1> QED BY <1>2, <1>3, <1>4

LEMMA RequiredInv ==
  ASSUME Inv, NEW c \in calls, c.kind \in {"ticket", "room"}, Becomes(c.page, Required(c)),
         wish' = wish, Figures'
  PROVE  Inv'
BY RequiredSound, CallIs, BecomesAsWished

-----------------------------------------------------------------------------
(* The steps.                                                              *)

LEMMA InitInv == Init => Inv
<1> SUFFICES ASSUME Init PROVE Inv
  OBVIOUS
<1> DEFINE x == [session |-> Nothing, conn |-> "off", sign |-> NoAsk, pending |-> FALSE,
                 retried |-> FALSE]
<1>1. 0 \in 0..Presses /\ 0 \in 0..Changes /\ 0 \in 0..MaxTokens
  BY SignInAssumption
<1>2. Figures
  BY <1>1, SignInAssumption DEF Init, Figures, Scope
<1>3. Nothing \in Session /\ NoAsk \in Ask /\ NoAsk.retry = "nothing"
  BY DEF Session, Ask, NoAsk
<1>4. x \in PageState /\ x.session = Nothing /\ x.conn = "off" /\ x.sign = NoAsk
  BY <1>3 DEF PageState
<1> HIDE DEF x
<1>5. PageFits(x, {})
  BY <1>3, <1>4 DEF PageFits
<1>6. page = [p \in Page |-> x] /\ calls = {} /\ wish = [p \in Page |-> {}]
  BY DEF Init, x
<1>7. \A p \in Page : page[p] = x /\ wish[p] = {}
  BY <1>6
<1> QED BY <1>2, <1>4, <1>5, <1>6, <1>7 DEF Inv, OneLogin

LEMMA PressesInv ==
  ASSUME Inv, NEW p \in Page, Presses_(p)
  PROVE  Inv'
<1> DEFINE pg == page[p]
           W == wish[p]
           one == pressed + 1
<1>1. Sound(pg, calls, p, W) /\ pg \in PageState /\ W \subseteq 1..Presses /\ PageFits(pg, W)
  BY InvSound DEF Sound
<1>2. Figures
  BY DEF Inv
<1>3. ASSUME NEW w, Press(p, w) PROVE one \in 1..Presses /\ pressed' = one /\ wish' = [wish EXCEPT ![p] = w]
  BY <1>2, <1>3, SignInAssumption DEF Press, Figures
<1> HIDE DEF one
<1>4. ASSUME NEW w, Press(p, w), UNCHANGED <<server, token, needs, info>> PROVE Figures'
  BY <1>2, <1>3, <1>4 DEF Figures, server
<1>5. ASSUME NEW s \in Server, PressJoin(p, s) PROVE Inv'
  <2> DEFINE internal == FALSE
             n == Joined(pg, calls, p, s, one, internal)
  <2>1. internal \in BOOLEAN /\ ~internal
    OBVIOUS
  <2>2. Press(p, {one}) /\ UNCHANGED <<server, token, needs, info>> /\ Becomes(p, n)
    BY <1>5 DEF PressJoin, one
  <2> HIDE DEF internal
  <2>3. one \in 1..Presses /\ {one} \in SUBSET (1..Presses) /\ wish' = [wish EXCEPT ![p] = {one}] /\ Figures'
    BY <1>3, <1>4, <2>2
  <2>4. one \in {one}
    OBVIOUS
  <2>5. Sound(n.pg, n.cs, p, {one})
    BY <1>1, <1>2, <2>1, <2>3, <2>4, JoinedSound
  <2> HIDE DEF n
  <2> QED BY <2>2, <2>3, <2>5, BecomesInv
<1>6. ASSUME NEW s \in Server, PressCreate(p, s) PROVE Inv'
  <2> DEFINE V == W \cup {one}
             r == RoomCall(p, s, one)
             n == [pg |-> pg, cs |-> calls \cup {r}]
  <2>1. Press(p, V) /\ UNCHANGED <<server, token, needs, info>> /\ Becomes(p, n)
    BY <1>6 DEF PressCreate, one
  <2>2. one \in 1..Presses /\ V \in SUBSET (1..Presses) /\ wish' = [wish EXCEPT ![p] = V] /\ Figures'
    BY <1>1, <1>3, <1>4, <2>1
  <2>3. Sound(pg, calls, p, V)
    BY <1>1 DEF Sound, PageFits, CallFits
  <2>4. r.page = p /\ r.kind = "room" /\ CallFits(r, pg, V)
    BY <2>2, RoomCallFits
  <2> HIDE DEF r
  <2>5. Sound(pg, calls \cup {r}, p, V)
    BY <2>3, <2>4, AddedSound
  <2>6. n.pg = pg /\ n.cs = calls \cup {r}
    OBVIOUS
  <2> HIDE DEF n, V
  <2> QED BY <2>1, <2>2, <2>5, <2>6, BecomesInv
<1>7. ASSUME PressLeave(p) PROVE Inv'
  <2> DEFINE same == FALSE
             x == [session |-> Nothing, conn |-> "off", sign |-> NoAsk, pending |-> FALSE,
                   retried |-> pg.retried]
             n == [pg |-> x, cs |-> LeftBehind(calls, p, same)]
  <2>1. same \in BOOLEAN /\ ~same
    OBVIOUS
  <2>2. Press(p, {}) /\ UNCHANGED <<server, token, needs, info>> /\ Becomes(p, n)
    BY <1>7 DEF PressLeave
  <2> HIDE DEF same
  <2>3. {} \in SUBSET (1..Presses) /\ wish' = [wish EXCEPT ![p] = {}] /\ Figures'
    BY <1>3, <1>4, <2>2
  <2>4. Nothing \in Session /\ NoAsk \in Ask /\ NoAsk.retry = "nothing"
    BY DEF Session, Ask, NoAsk
  <2>5. x \in PageState /\ x.session = Nothing /\ x.conn = "off" /\ x.sign = NoAsk
    BY <1>1, <2>4 DEF PageState
  <2>6. n.pg = x /\ n.cs = LeftBehind(calls, p, same)
    OBVIOUS
  <2> HIDE DEF x, n
  <2>7. PageFits(x, {})
    BY <2>4, <2>5 DEF PageFits
  <2>8. Sound(n.pg, n.cs, p, {})
    BY <1>1, <2>1, <2>6, <2>7, LeftSound
  <2> QED BY <2>2, <2>3, <2>8, BecomesInv
<1>8. ASSUME PressSignIn(p) PROVE Inv'
  <2> DEFINE c == NewCall(p, "login", pg.sign.srv, "begin", 0)
             x == [pg EXCEPT !.pending = TRUE]
             n == [pg |-> x, cs |-> Abandoned(calls, p) \cup {c}]
  <2>1. pg.sign # NoAsk /\ Becomes(p, n) /\ wish' = wish /\ Figures'
    BY <1>2, <1>8 DEF PressSignIn, member, server, Figures
  <2>2. TRUE \in BOOLEAN
    OBVIOUS
  <2>3. x \in PageState /\ x.session = pg.session /\ x.sign = pg.sign /\ x.conn = pg.conn
    BY <1>1, <2>2 DEF PageState
  <2> HIDE DEF x
  <2>4. PageFits(x, W)
    BY <1>1, <2>3 DEF PageFits
  <2>5. pg.sign.srv \in Server /\ 0 \in 0..Presses
    BY <1>1, <2>1, SignInAssumption DEF PageState, Ask
  <2>6. c.page = p /\ c.kind = "login" /\ c.mine /\ CallFits(c, x, W)
    BY <2>1, <2>3, <2>5, NewCallFits
  <2> HIDE DEF c
  <2>7. \A d \in Abandoned(calls, p) : d.page = p => CallFits(d, x, W)
    BY <1>1, <2>3, AbandonedSound DEF CallFits
  <2>8. Sound(x, Abandoned(calls, p) \cup {c}, p, W)
    BY <1>1, <2>4, <2>6, <2>7, AbandonedSound DEF Sound, OneLogin
  <2> QED BY <2>1, <2>8, BecomesAsWished
<1>9. ASSUME PressCancel(p) PROVE Inv'
  <2> DEFINE x == [pg EXCEPT !.pending = FALSE]
             n == [pg |-> x, cs |-> Abandoned(calls, p)]
  <2>1. Becomes(p, n) /\ wish' = wish /\ Figures'
    BY <1>2, <1>9 DEF PressCancel, member, server, Figures
  <2>2. FALSE \in BOOLEAN
    OBVIOUS
  <2>3. x \in PageState /\ x.session = pg.session /\ x.sign = pg.sign /\ x.conn = pg.conn
    BY <1>1, <2>2 DEF PageState
  <2> HIDE DEF x
  <2>4. PageFits(x, W)
    BY <1>1, <2>3 DEF PageFits
  <2>5. \A d \in Abandoned(calls, p) : d.page = p => CallFits(d, x, W)
    BY <1>1, <2>3, AbandonedSound DEF CallFits
  <2>6. Sound(x, Abandoned(calls, p), p, W)
    BY <1>1, <2>4, <2>5, AbandonedSound DEF Sound
  <2> QED BY <2>1, <2>6, BecomesAsWished
<1>10. ASSUME PressSignOut(p) PROVE Inv'
  <2> DEFINE t(c) == IF c.page = p /\ c.kind = "login" THEN [c EXCEPT !.live = FALSE] ELSE c
             cs == {t(c) : c \in calls}
  <2>1. calls' = cs /\ UNCHANGED <<page, wish>>
    BY <1>10 DEF PressSignOut, member
  <2>2. 0 \in 0..MaxTokens /\ Figures'
    BY <1>2, <1>10, SignInAssumption DEF PressSignOut, member, server, Figures
  <2>3. \A c \in calls : /\ t(c).page = c.page /\ t(c).kind = c.kind /\ t(c).mine = c.mine
                         /\ CallFits(t(c), page[c.page], wish[c.page])
    BY CancelledFits DEF Inv
  <2> HIDE DEF t
  <2>4. Sound(pg, cs, p, W)
    BY <1>1, <2>3 DEF Sound, OneLogin
  <2> QED BY <2>1, <2>2, <2>4, CallsInv
<1> QED BY <1>5, <1>6, <1>7, <1>8, <1>9, <1>10 DEF Presses_

LEMMA TicketAnswersInv ==
  ASSUME Inv, NEW c \in calls, TicketAnswers(c)
  PROVE  Inv'
<1> DEFINE p == c.page
           pg == page[p]
           W == wish[p]
<1>1. /\ c \in Call /\ p \in Page /\ CallFits(c, pg, W) /\ Sound(pg, Others(c), p, W)
  BY CallIs
<1>2. Figures
  BY DEF Inv
<1>3. c.mine /\ c.kind = "ticket" => pg.session # Nothing
  BY <1>1 DEF CallFits
<1>4. ASSUME UNCHANGED <<server, token, needs, info, member>> PROVE Figures' /\ wish' = wish
  BY <1>2, <1>4 DEF Figures, server, member
<1>5. ASSUME c.ph \in {"out", "check", "clear"} PROVE c.kind \in {"ticket", "room"}
  BY <1>1, <1>5 DEF CallFits
<1>6. CASE InfoAnswered(c)
  <2> DEFINE ph == IF Gates(Wants(c.srv), c.kind) THEN "get" ELSE "post"
             d == [c EXCEPT !.ph = ph]
  <2>1. c.kind \in {"ticket", "room"} /\ calls' = Others(c) \cup {d} /\ UNCHANGED <<page, wish>>
    BY <1>6 DEF InfoAnswered, Moved, member
  <2>2. info' \in [Page -> Scope \cup {Unknown}] /\ needs' \in Scope
    BY <1>2, <1>6 DEF InfoAnswered, Figures
  <2>3. Figures'
    BY <1>2, <1>6, <2>2 DEF InfoAnswered, Figures, server, member
  <2>4. ph \in {"get", "post"}
    OBVIOUS
  <2> HIDE DEF ph
  <2>5. d \in Call /\ d.page = c.page /\ d.kind = c.kind /\ d.mine = c.mine /\ d.srv = c.srv
        /\ d.by = c.by /\ d.ph = ph
    BY <1>1, <2>4 DEF Call
  <2> HIDE DEF d
  <2> QED BY <2>1, <2>3, <2>4, <2>5, MovedInv
<1>7. CASE TokenRead(c)
  <2> DEFINE d == [c EXCEPT !.ph = "out", !.tok = token]
  <2>1. calls' = Others(c) \cup {d} /\ UNCHANGED <<page, wish>> /\ Figures' /\ token \in 0..MaxTokens
    BY <1>2, <1>4, <1>7 DEF TokenRead, member, Figures
  <2>2. c.kind \in {"ticket", "room"}
    BY <1>1, <1>7 DEF TokenRead, CallFits
  <2>3. d \in Call /\ d.page = c.page /\ d.kind = c.kind /\ d.mine = c.mine /\ d.srv = c.srv
        /\ d.by = c.by /\ d.ph = "out"
    BY <1>1, <2>1 DEF Call
  <2> HIDE DEF d
  <2> QED BY <2>1, <2>2, <2>3, MovedInv
<1>8. CASE TicketGranted(c)
  <2>1. c.kind \in {"ticket", "room"} /\ Figures' /\ wish' = wish
    BY <1>4, <1>5, <1>8 DEF TicketGranted
  <2>2. CASE c.kind = "room"
    <3> DEFINE d == [c EXCEPT !.ph = "posted", !.tok = 0]
    <3>1. calls' = Others(c) \cup {d} /\ UNCHANGED <<page, wish>> /\ 0 \in 0..MaxTokens
      BY <1>8, <2>1, <2>2, SignInAssumption DEF TicketGranted
    <3>2. d \in Call /\ d.page = c.page /\ d.kind = c.kind /\ d.mine = c.mine /\ d.srv = c.srv
          /\ d.by = c.by /\ d.ph = "posted"
      BY <1>1, <3>1 DEF Call
    <3> HIDE DEF d
    <3> QED BY <2>1, <2>2, <3>1, <3>2, MovedInv
  <2>3. CASE c.kind = "ticket"
    <3> DEFINE touched == c.mine /\ c.live
    <3>1. Becomes(p, [pg |-> IF touched THEN [pg EXCEPT !.conn = "ticketed"] ELSE pg, cs |-> Others(c)])
      BY <1>8, <2>3 DEF TicketGranted
    <3>2. touched => pg.session # Nothing
      BY <1>3, <2>3
    <3> HIDE DEF touched
    <3> QED BY <2>1, <3>1, <3>2, ConnInv
  <2> QED BY <2>1, <2>2, <2>3
<1>9. ASSUME NEW ph \in {"check", "clear"}, c.ph \in {"out", "check"}, Moved(c, ph), Figures',
             UNCHANGED <<page, wish>>
      PROVE  Inv'
  <2> DEFINE d == [c EXCEPT !.ph = ph]
  <2>1. calls' = Others(c) \cup {d} /\ c.kind \in {"ticket", "room"}
    BY <1>5, <1>9 DEF Moved
  <2>2. d \in Call /\ d.page = c.page /\ d.kind = c.kind /\ d.mine = c.mine /\ d.srv = c.srv
        /\ d.by = c.by /\ d.ph = ph
    BY <1>1 DEF Call
  <2> HIDE DEF d
  <2> QED BY <1>9, <2>1, <2>2, MovedInv
<1>10. ASSUME c.ph \in {"out", "check", "clear"}, Becomes(p, Required(c)), Figures', wish' = wish
       PROVE  Inv'
  BY <1>5, <1>10, RequiredInv
<1>11. CASE TicketRefused(c)
  BY <1>4, <1>9, <1>10, <1>11 DEF TicketRefused
<1>12. CASE TokenChecked(c)
  BY <1>4, <1>9, <1>10, <1>12 DEF TokenChecked
<1>13. CASE TokenCleared(c)
  <2>1. 0 \in 0..MaxTokens
    BY SignInAssumption
  <2>2. Figures' /\ wish' = wish
    BY <1>2, <1>13, <2>1 DEF TokenCleared, Figures, server, member
  <2> QED BY <1>10, <1>13, <2>2 DEF TokenCleared
<1>14. CASE GatewayRefused(c)
  BY <1>4, <1>10, <1>14 DEF GatewayRefused
<1>15. CASE TicketFailed(c)
  <2> DEFINE touched == c.kind = "ticket" /\ c.mine /\ c.live
  <2>1. info' \in [Page -> Scope \cup {Unknown}]
    BY <1>2, <1>15 DEF TicketFailed, Figures
  <2>2. Figures' /\ wish' = wish
    BY <1>2, <1>15, <2>1 DEF TicketFailed, Figures, server, member
  <2>3. Becomes(p, [pg |-> IF touched THEN [pg EXCEPT !.conn = "backoff"] ELSE pg, cs |-> Others(c)])
    BY <1>15 DEF TicketFailed
  <2>4. touched => pg.session # Nothing
    BY <1>3
  <2> HIDE DEF touched
  <2> QED BY <2>2, <2>3, <2>4, ConnInv
<1>16. CASE TicketNotWanted(c)
  <2> DEFINE touched == c.mine /\ c.live
  <2>1. Figures' /\ wish' = wish
    BY <1>4, <1>16 DEF TicketNotWanted
  <2>2. Becomes(p, [pg |-> IF touched THEN [pg EXCEPT !.conn = "bare"] ELSE pg, cs |-> Others(c)])
    BY <1>16 DEF TicketNotWanted
  <2>3. touched => pg.session # Nothing
    BY <1>3, <1>16 DEF TicketNotWanted
  <2> HIDE DEF touched
  <2> QED BY <2>1, <2>2, <2>3, ConnInv
<1> QED BY <1>6, <1>7, <1>8, <1>11, <1>12, <1>13, <1>14, <1>15, <1>16 DEF TicketAnswers

LEMMA AnswersInv ==
  ASSUME Inv, NEW c \in calls, Answers(c)
  PROVE  Inv'
<1> DEFINE p == c.page
           pg == page[p]
           W == wish[p]
           cs == Others(c)
<1>1. /\ c \in Call /\ p \in Page /\ CallFits(c, pg, W) /\ Sound(pg, cs, p, W)
      /\ c.srv \in Server /\ PageFits(pg, W) /\ W \subseteq 1..Presses
  BY CallIs, InvSound DEF Call, Sound
<1>2. Figures /\ scope \in Scope
  BY DEF Inv, Figures
<1>3. ASSUME UNCHANGED <<server, token, needs, info>>, pressed' = pressed PROVE Figures'
  BY <1>2, <1>3 DEF Figures, server
<1>4. ASSUME UNCHANGED <<server, token, needs, info, member>> PROVE Figures' /\ wish' = wish
  BY <1>3, <1>4 DEF member
<1>5. ASSUME NEW floor \in Scope, Learnt(c, floor), UNCHANGED <<server, token, member>>
      PROVE  Figures' /\ wish' = wish
  <2>1. PICK said \in {"none", Wants(c.srv)} :
          /\ info' = [info EXCEPT ![c.page] = IF c.srv = Guarded THEN AtLeast(said, floor) ELSE @]
          /\ needs' = IF c.srv = Guarded THEN AtLeast(said, floor) ELSE needs
    BY <1>5 DEF Learnt
  <2>2. said \in Scope
    BY <1>2 DEF Wants, Scope
  <2>3. AtLeast(said, floor) \in Scope
    BY <1>5, <2>2 DEF AtLeast
  <2>4. info' \in [Page -> Scope \cup {Unknown}] /\ needs' \in Scope
    BY <1>2, <2>1, <2>3 DEF Figures
  <2> QED BY <1>2, <1>5, <2>4 DEF Figures, server, member
<1>6. CASE TicketAnswers(c)
  BY <1>6, TicketAnswersInv
<1>7. CASE MethodsAnswered(c)
  <2> DEFINE a == Asked(pg, cs, p, c.srv, "join", pg.session.by)
             n == IF c.mine /\ pg.sign = NoAsk THEN a ELSE [pg |-> pg, cs |-> cs]
  <2>1. Becomes(p, n) /\ wish' = wish
    BY <1>7 DEF MethodsAnswered, member
  <2>2. info' \in [Page -> Scope \cup {Unknown}] /\ needs' \in Scope
    BY <1>2, <1>7 DEF MethodsAnswered, Figures
  <2>3. Figures'
    BY <1>2, <1>7, <2>2 DEF MethodsAnswered, Figures, server, member
  <2>4. ASSUME c.mine PROVE Sound(a.pg, a.cs, p, W)
    <3>1. pg.session # Nothing /\ pg.session.srv = c.srv
      BY <1>1, <1>7, <2>4 DEF CallFits, MethodsAnswered
    <3>2. pg.session.by \in 1..Presses
      BY <1>1, <3>1, SessionIsSomewhere
    <3> QED BY <1>1, <3>1, <3>2, AskedSound
  <2> HIDE DEF a
  <2>5. Sound(n.pg, n.cs, p, W)
    BY <1>1, <2>4
  <2> HIDE DEF n
  <2> QED BY <1>1, <2>1, <2>3, <2>5, BecomesAsWished
<1>8. CASE LearnAnswered(c)
  <2>1. "all" \in Scope
    BY DEF Scope
  <2>2. Figures' /\ wish' = wish
    BY <1>5, <1>8, <2>1 DEF LearnAnswered
  <2>3. CASE ~c.mine
    <3>1. calls' = Others(c) /\ page' = page
      BY <1>8, <2>3 DEF LearnAnswered
    <3> QED BY <2>2, <3>1, GoneInv
  <2>4. CASE c.mine
    <3> DEFINE x == [session |-> pg.session, conn |-> "asking", sign |-> NoAsk, pending |-> FALSE,
                     retried |-> pg.retried]
               same == TRUE
               ds == LeftBehind(cs, p, same)
               d == NewCall(p, "ticket", c.srv, "get", 0)
               n == [pg |-> x, cs |-> ds \cup {d}]
    <3>1. Becomes(p, n)
      BY <1>8, <2>4 DEF LearnAnswered
    <3>2. pg.session # Nothing /\ pg.session.srv = c.srv
      BY <1>1, <1>8, <2>4 DEF CallFits, LearnAnswered
    <3>3. NoAsk \in Ask /\ NoAsk.retry = "nothing" /\ pg \in PageState
      BY <1>1 DEF Ask, NoAsk, PageFits
    <3>4. x \in PageState /\ x.session = pg.session /\ x.conn = "asking" /\ x.sign = NoAsk
      BY <3>3 DEF PageState
    <3>5. n.pg = x /\ n.cs = ds \cup {d}
      OBVIOUS
    <3>6. same \in BOOLEAN
      OBVIOUS
    <3> HIDE DEF x, n, same
    <3>7. PageFits(x, W)
      BY <1>1, <3>2, <3>3, <3>4 DEF PageFits
    <3>8. Sound(x, ds, p, W)
      BY <1>1, <3>6, <3>7, LeftSound
    <3> HIDE DEF ds
    <3>9. 0 \in 0..Presses /\ c.srv \in Server /\ x.session # Nothing /\ x.session.srv = c.srv
      BY <1>1, <3>2, <3>4, SignInAssumption
    <3>10. d.page = p /\ d.kind = "ticket" /\ CallFits(d, x, W)
      BY <1>1, <3>9, NewCallFits
    <3> HIDE DEF d
    <3>11. Sound(x, ds \cup {d}, p, W)
      BY <1>1, <3>8, <3>10, AddedSound
    <3>12. Sound(n.pg, n.cs, p, W)
      BY <3>5, <3>11
    <3> QED BY <1>1, <2>2, <3>1, <3>12, BecomesAsWished
  <2> QED BY <2>3, <2>4
<1>9. CASE RoomLearnt(c)
  <2> DEFINE d == [c EXCEPT !.ph = "get", !.again = TRUE]
  <2>1. "create" \in Scope /\ TRUE \in BOOLEAN
    BY DEF Scope
  <2>2. Figures' /\ UNCHANGED <<page, wish>>
    BY <1>5, <1>9, <2>1 DEF RoomLearnt
  <2>3. calls' = Others(c) \cup {d} /\ c.kind = "room"
    BY <1>9 DEF RoomLearnt
  <2>4. d \in Call /\ d.page = c.page /\ d.kind = c.kind /\ d.mine = c.mine /\ d.srv = c.srv
        /\ d.by = c.by /\ d.ph = "get"
    BY <1>1, <2>1 DEF Call
  <2> HIDE DEF d
  <2> QED BY <2>2, <2>3, <2>4, MovedInv
<1>10. CASE RoomCreated(c)
  <2>1. c.kind = "room" /\ Figures'
    BY <1>3, <1>10 DEF RoomCreated
  <2>2. CASE ~c.mine
    <3>1. calls' = Others(c) /\ UNCHANGED <<page, wish>>
      BY <1>10, <2>2 DEF RoomCreated
    <3> QED BY <2>1, <3>1, GoneInv
  <2>3. CASE c.mine
    <3> DEFINE internal == FALSE
               n == Joined(pg, cs, p, c.srv, c.by, internal)
               V == W \cap {c.by}
    <3>1. internal \in BOOLEAN /\ ~internal
      OBVIOUS
    <3>2. Becomes(p, n) /\ wish' = [wish EXCEPT ![p] = V]
      BY <1>10, <2>3 DEF RoomCreated
    <3> HIDE DEF internal
    <3>3. c.by \in W /\ c.by \in 1..Presses /\ c.by \in V /\ V \in SUBSET (1..Presses)
      BY <1>1, <2>1, <2>3 DEF CallFits
    <3> HIDE DEF V
    <3>4. Sound(n.pg, n.cs, p, V)
      BY <1>1, <1>2, <3>1, <3>3, JoinedSound
    <3> HIDE DEF n
    <3> QED BY <1>1, <2>1, <3>2, <3>3, <3>4, BecomesInv
  <2> QED BY <2>2, <2>3
<1>11. CASE RoomRefused(c)
  <2>1. c.kind = "room" /\ Figures' /\ wish' = wish
    BY <1>4, <1>11 DEF RoomRefused
  <2>2. CASE c.again
    BY <1>11, <2>1, <2>2, RequiredInv DEF RoomRefused
  <2>3. CASE ~c.again
    <3> DEFINE d == [c EXCEPT !.ph = "learn"]
    <3>1. calls' = Others(c) \cup {d} /\ page' = page
      BY <1>11, <2>3 DEF RoomRefused, Moved
    <3>2. d \in Call /\ d.page = c.page /\ d.kind = c.kind /\ d.mine = c.mine /\ d.srv = c.srv
          /\ d.by = c.by /\ d.ph = "learn"
      BY <1>1 DEF Call
    <3> HIDE DEF d
    <3> QED BY <2>1, <3>1, <3>2, MovedInv
  <2> QED BY <2>2, <2>3
<1>12. CASE RoomFailed(c)
  <2>1. Figures' /\ UNCHANGED <<page, wish>> /\ calls' = Others(c)
    BY <1>4, <1>12 DEF RoomFailed
  <2> QED BY <2>1, GoneInv
<1> QED BY <1>6, <1>7, <1>8, <1>9, <1>10, <1>11, <1>12 DEF Answers

LEMMA LoginInv ==
  ASSUME Inv, NEW c \in calls, Login(c)
  PROVE  Inv'
<1> DEFINE p == c.page
           pg == page[p]
           W == wish[p]
           cs == Others(c)
<1>1. c \in Call /\ p \in Page /\ CallFits(c, pg, W) /\ Sound(pg, cs, p, W)
  BY CallIs
<1>2. Figures
  BY DEF Inv
<1>3. c.kind = "login"
  BY <1>1 DEF CallFits, Login, LoginBegun, PollSent, PollPending, PollMinted, TokenStored, LoginEnded
<1>4. ASSUME UNCHANGED <<server, token, needs, info, member>> PROVE Figures' /\ wish' = wish
  BY <1>2, <1>4 DEF Figures, server, member
<1>5. ASSUME NEW ph \in {"wait", "poll"}, Moved(c, ph),
             UNCHANGED <<server, token, needs, info, page, member>>
      PROVE  Inv'
  <2> DEFINE d == [c EXCEPT !.ph = ph]
  <2>1. calls' = Others(c) \cup {d} /\ Figures' /\ UNCHANGED <<page, wish>>
    BY <1>4, <1>5 DEF Moved
  <2>2. d \in Call /\ d.page = c.page /\ d.kind = c.kind /\ d.mine = c.mine /\ d.srv = c.srv
        /\ d.by = c.by /\ d.ph = ph
    BY <1>1 DEF Call
  <2> HIDE DEF d
  <2> QED BY <1>3, <2>1, <2>2, MovedInv
<1>6. CASE LoginBegun(c)
  BY <1>5, <1>6 DEF LoginBegun
<1>7. CASE PollSent(c)
  BY <1>5, <1>7 DEF PollSent
<1>8. CASE PollPending(c)
  BY <1>5, <1>8 DEF PollPending
<1>9. CASE PollMinted(c)
  <2> DEFINE t == minted + 1
             d == [c EXCEPT !.ph = "store", !.tok = t]
  <2>1. t \in 0..MaxTokens /\ t \in 1..MaxTokens
    BY <1>2, <1>9, SignInAssumption DEF PollMinted, Figures
  <2>2. calls' = Others(c) \cup {d} /\ UNCHANGED <<page, wish>>
    BY <1>9 DEF PollMinted, member
  <2>3. valid' \subseteq 1..MaxTokens /\ minted' \in 0..MaxTokens
    BY <1>2, <1>9, <2>1 DEF PollMinted, Figures
  <2>4. Figures'
    BY <1>2, <1>9, <2>3 DEF PollMinted, Figures, member
  <2> HIDE DEF t
  <2>5. d \in Call /\ d.page = c.page /\ d.kind = c.kind /\ d.mine = c.mine /\ d.srv = c.srv
        /\ d.by = c.by /\ d.ph = "store"
    BY <1>1, <2>1 DEF Call
  <2> HIDE DEF d
  <2> QED BY <1>3, <2>2, <2>4, <2>5, MovedInv
<1>10. c.mine => /\ pg.sign # NoAsk
                 /\ \A d \in cs : ~(d.page = p /\ d.kind = "login" /\ d.mine)
  BY <1>1, <1>3 DEF CallFits, Inv, OneLogin, Others
<1>11. ASSUME NEW ok \in BOOLEAN, Becomes(p, Finished(pg, cs, p, c, ok)), Figures', wish' = wish
       PROVE  Inv'
  <2> DEFINE n == Finished(pg, cs, p, c, ok)
  <2>1. Sound(n.pg, n.cs, p, W)
    BY <1>1, <1>2, <1>10, FinishedSound
  <2> HIDE DEF n
  <2> QED BY <1>1, <1>11, <2>1, BecomesAsWished DEF n
<1>12. CASE TokenStored(c)
  <2>1. c.tok \in 0..MaxTokens /\ c.live \in BOOLEAN
    BY <1>1 DEF Call
  <2>2. Figures' /\ wish' = wish
    BY <1>2, <1>12, <2>1 DEF TokenStored, Figures, server, member
  <2> QED BY <1>11, <1>12, <2>1, <2>2 DEF TokenStored
<1>13. CASE LoginEnded(c)
  <2> DEFINE ok == FALSE
  <2>1. ok \in BOOLEAN /\ Becomes(p, Finished(pg, cs, p, c, ok)) /\ Figures' /\ wish' = wish
    BY <1>4, <1>13 DEF LoginEnded
  <2> HIDE DEF ok
  <2> QED BY <1>11, <2>1
<1> QED BY <1>6, <1>7, <1>8, <1>9, <1>12, <1>13 DEF Login

LEMMA EngineInv ==
  ASSUME Inv, NEW p \in Page, Engine(p)
  PROVE  Inv'
<1> DEFINE pg == page[p]
           W == wish[p]
<1>1. Sound(pg, calls, p, W) /\ PageFits(pg, W) /\ pg \in PageState
  BY InvSound DEF Sound
<1>2. Figures
  BY DEF Inv
<1>3. ASSUME UNCHANGED <<server, token, needs, info, member>> PROVE Figures' /\ wish' = wish
  BY <1>2, <1>3 DEF Figures, server, member
<1>4. CASE Welcomed(p)
  <2> DEFINE x == [pg EXCEPT !.conn = "joined", !.retried = FALSE]
             n == [pg |-> x, cs |-> calls]
  <2>1. FALSE \in BOOLEAN /\ pg.session # Nothing
    BY <1>1, <1>4 DEF Welcomed, PageFits
  <2>2. x \in PageState /\ x.session = pg.session /\ x.sign = pg.sign
    BY <1>1, <2>1 DEF PageState
  <2>3. Becomes(p, n) /\ Figures' /\ wish' = wish
    BY <1>3, <1>4 DEF Welcomed, Becomes
  <2> HIDE DEF x
  <2>4. PageFits(x, W)
    BY <1>1, <2>1, <2>2 DEF PageFits
  <2>5. Sound(x, calls, p, W)
    BY <1>1, <2>2, <2>4, SameFits
  <2> QED BY <2>3, <2>5, BecomesAsWished
<1>5. CASE HelloRefused(p)
  <2> DEFINE n == AuthRefused(pg, calls, p)
  <2>1. Becomes(p, n) /\ Figures' /\ wish' = wish
    BY <1>3, <1>5 DEF HelloRefused
  <2>2. pg.session # Nothing
    BY <1>1, <1>5 DEF HelloRefused, PageFits
  <2>3. Sound(n.pg, n.cs, p, W)
    BY <1>1, <1>2, <2>2, AuthRefusedSound
  <2> HIDE DEF n
  <2> QED BY <2>1, <2>3, BecomesAsWished
<1>6. CASE ConnectionLost(p)
  <2> DEFINE t(c) == IF c.page = p /\ c.kind = "ticket" THEN [c EXCEPT !.live = FALSE] ELSE c
             cs == {t(c) : c \in calls}
             x == [pg EXCEPT !.conn = "backoff"]
             n == [pg |-> x, cs |-> cs]
  <2>1. Becomes(p, n) /\ Figures' /\ wish' = wish
    BY <1>3, <1>6 DEF ConnectionLost, Becomes
  <2>2. pg.session # Nothing
    BY <1>1, <1>6 DEF ConnectionLost, PageFits
  <2>3. x \in PageState /\ x.session = pg.session /\ x.sign = pg.sign
    BY <1>1 DEF PageState
  <2>4. \A c \in calls : /\ t(c).page = c.page /\ t(c).kind = c.kind /\ t(c).mine = c.mine
                         /\ CallFits(t(c), page[c.page], wish[c.page])
    <3>1. \A c \in calls : CallFits(c, page[c.page], wish[c.page])
      BY DEF Inv
    <3> HIDE DEF Inv
    <3>2. ASSUME NEW c \in calls, c.kind = "ticket", c.page = p
          PROVE  /\ t(c).page = c.page /\ t(c).kind = c.kind /\ t(c).mine = c.mine
                 /\ CallFits(t(c), page[c.page], wish[c.page])
      BY <3>1, <3>2, CancelledFits
    <3> QED BY <3>1, <3>2
  <2>5. \A c, d \in calls : c.kind = "login" /\ d.kind = "login" => t(c) = c /\ t(d) = d
    OBVIOUS
  <2> HIDE DEF t, x
  <2>6. Sound(pg, cs, p, W)
    BY <1>1, <2>4, <2>5 DEF Sound, OneLogin
  <2> HIDE DEF cs
  <2>7. PageFits(x, W)
    BY <1>1, <2>2, <2>3 DEF PageFits
  <2>8. Sound(x, cs, p, W)
    BY <2>3, <2>6, <2>7, SameFits
  <2> QED BY <2>1, <2>8, BecomesAsWished
<1>7. CASE Reconnect(p)
  <2> DEFINE n == Connected(pg, calls, p)
  <2>1. Becomes(p, n) /\ Figures' /\ wish' = wish
    BY <1>3, <1>7 DEF Reconnect
  <2>2. pg.session # Nothing
    BY <1>1, <1>7 DEF Reconnect, PageFits
  <2>3. Sound(n.pg, n.cs, p, W)
    BY <1>1, <1>2, <2>2, ConnectedSound
  <2> HIDE DEF n
  <2> QED BY <2>1, <2>3, BecomesAsWished
<1> QED BY <1>4, <1>5, <1>6, <1>7 DEF Engine

LEMMA RestartInv ==
  ASSUME Inv, Restart
  PROVE  Inv'
<1>1. Figures'
  BY SignInAssumption DEF Inv, Figures, Restart, member
<1>2. ASSUME NEW p \in Page
      PROVE  /\ PageFits(page'[p], wish[p]) /\ page'[p].session = page[p].session
             /\ page'[p].sign = page[p].sign
  <2> DEFINE x == [page[p] EXCEPT !.conn = "backoff"]
  <2>1. PageFits(page[p], wish[p]) /\ page[p] \in PageState
    BY DEF Inv, PageFits
  <2>2. x \in PageState /\ x.session = page[p].session /\ x.sign = page[p].sign
    BY <2>1 DEF PageState
  <2>3. \/ page'[p] = page[p]
        \/ page'[p] = x /\ page[p].conn # "off"
    BY DEF Restart
  <2> HIDE DEF x
  <2> QED BY <2>1, <2>2, <2>3 DEF PageFits
<1>3. calls' = calls /\ wish' = wish
  BY DEF Restart, member
<1>4. page' \in [Page -> PageState]
  <2>1. \A p \in Page : page'[p] \in PageState
    BY <1>2 DEF PageFits
  <2>2. page' = [p \in Page |-> page'[p]]
    BY DEF Restart
  <2> QED BY <2>1, <2>2
<1>5. \A c \in calls : CallFits(c, page'[c.page], wish[c.page])
  BY <1>2, CallIs DEF CallFits
<1> QED BY <1>1, <1>2, <1>3, <1>4, <1>5 DEF Inv

LEMMA NextInv == Inv /\ [Next]_vars => Inv'
<1> SUFFICES ASSUME Inv, [Next]_vars PROVE Inv'
  OBVIOUS
<1>1. CASE UNCHANGED vars
  <2>1. Figures'
    BY <1>1 DEF vars, Inv, Figures
  <2>2. UNCHANGED <<page, calls, wish>>
    BY <1>1 DEF vars
  <2> QED BY <2>1, <2>2 DEF Inv
<1> QED BY <1>1, PressesInv, AnswersInv, LoginInv, EngineInv, RestartInv DEF Next

-----------------------------------------------------------------------------
(* The invariant holds in every state of the specification. *)
THEOREM SignInCorrect == Spec => []Inv
<1> QED BY InitInv, NextInv, PTL DEF Spec

(* Wherever a page is in a room, a press of the member's own put it there   *)
(* that nothing they pressed later has taken back, whatever settles late    *)
(* (createRoom's sessionGen, finishSignIn, joinTicket, onAuthRefused).      *)
THEOREM SignInWhereTheyChose == Spec => []WhereTheyChose
<1>1. Inv => WhereTheyChose
  BY DEF Inv, WhereTheyChose, PageFits
<1> QED BY <1>1, SignInCorrect, PTL

(* A sign-in asked for joining is about the session there is, so that       *)
(* joining again on its success joins nothing else (joinTicket's            *)
(* `engine === e`, askSignIn).                                              *)
THEOREM SignInAsksForTheSession == Spec => []AsksForTheSessionThereIs
<1>1. Inv => AsksForTheSessionThereIs
  BY DEF Inv, AsksForTheSessionThereIs, PageFits
<1> QED BY <1>1, SignInCorrect, PTL

(* The types of the module's state: every call is made for a server there   *)
(* is, also those that finishSignIn and joinAgain make out of a sign-in or  *)
(* a session that a late answer may find taken back.                        *)
THEOREM SignInTypeCorrect == Spec => []TypeOK
<1>1. Inv => TypeOK
  BY DEF Inv, TypeOK, Figures, CallFits
<1> QED BY <1>1, SignInCorrect, PTL
=============================================================================
