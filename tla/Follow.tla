------------------------------- MODULE Follow -------------------------------
(***************************************************************************)
(* Following the room from page to page (core/app/bootstrap.ts).  A room   *)
(* that watches something else takes its members along by loading another  *)
(* document, which starts from nothing: the session is carried over in one *)
(* `rejoin` record of a store that every tab of the profile shares, and    *)
(* reads and writes of that store are asynchronous (SharedStore).          *)
(*                                                                         *)
(* A tab's document is a record: the page it is on, its session and its    *)
(* link, what it knows of the room, the media action on its panel, the     *)
(* follow that is waiting or writing its record, and its side of the       *)
(* store; `sent` remembers that this session's own follow sent it off.  A   *)
(* document lives until the next one commits; only the tab, its            *)
(* sessionStorage id and the shared area outlive it.                       *)
(*                                                                         *)
(* Media are the pages that name a media, Followable those whose URL       *)
(* followableUrl would take a member to; Nowhere is a page that names none *)
(* (a front page, a login page).  Frames of the room are heard in the step *)
(* that sends them.  Moves bounds what the room does, Acts what the        *)
(* members do, Passes the follows of one tab.                              *)
(***************************************************************************)
EXTENDS Naturals, SharedStore

CONSTANTS Tab, Media, Followable, Nowhere, Moves, Acts, Passes

ASSUME FollowAssumption ==
    /\ Nowhere \notin Media /\ Followable \subseteq Media
    /\ Moves \in Nat /\ Acts \in Nat /\ Passes \in Nat

VARIABLES area,    \* the rejoin record in the storage area
          doc,     \* the document of each tab
          room,    \* the room's media and its secret
          left,    \* whether a tab's member left on purpose and has not joined
                   \* since: "owing" once a record of theirs is left behind all the
                   \* same, an earlier page's or one whose erasure never landed
          lost,    \* the tabs whose member was sent to the room's media and lost on the way
          moves, acts

vars == <<area, doc, room, left, lost, moves, acts>>

Key == Media \cup {Nowhere}
Secret == 0..Moves
NoRecord == [tab |-> "none"]
Record == [tab : Tab, key : Media, secret : Secret, pass : 1..Passes, warned : BOOLEAN]
Stored == Record \cup {NoRecord}
NoNav == "stay"

Doc == [at : Key, sess : BOOLEAN, secret : Secret, conn : {"off", "down", "joined", "refused"},
        seen : BOOLEAN, room : Key, stayed : Key, ui : {"none", "follow", "offer"},
        resume : {"none", "follow", "offer"}, asked : BOOLEAN, timer : BOOLEAN, own : Stored,
        writing : Seq([mine : BOOLEAN, pass : 1..Passes, left : Nat]), made : 0..Passes,
        nav : Media \cup {NoNav}, sent : BOOLEAN, store : StoreOf(Stored)]

TypeOK ==
    /\ area \in Stored
    /\ \A t \in Tab : /\ doc[t].at \in Key /\ doc[t].room \in Key /\ doc[t].own \in Stored
                      /\ doc[t].secret \in 0..room.secret
                      /\ doc[t].conn = "joined" => doc[t].sess /\ doc[t].secret = room.secret
                      /\ doc[t].timer => doc[t].sess
    /\ room \in [key : Key, secret : Secret]
    /\ left \in [Tab -> {"no", "clean", "owing"}] /\ lost \in [Tab -> BOOLEAN]
    /\ moves \in 0..Moves /\ acts \in 0..Acts

-----------------------------------------------------------------------------
(* Steps of a document, each from the document before to the one after. *)

(* a record that is tab t's to judge *)
About(r, t) == r # NoRecord /\ r.tab = t

Load(d) == d.store.cache
Save(d, r) == [d EXCEPT !.store = Saved(@, r)]
OnRoomMedia(d) == d.at # Nowhere /\ d.at = d.room

MutForgetRejoin(d) == [d EXCEPT !.own = NoRecord]
(* forgetRejoin: drop the record this page wrote, and only that one *)
ForgetRejoin(d) ==
    LET e == IF d.own # NoRecord /\ Load(d) = d.own THEN Save(d, NoRecord) ELSE d
    IN [e EXCEPT !.own = NoRecord]

(* refreshRejoin: a rotated secret is carried by a record already written *)
RefreshRejoin(d) ==
    IF d.writing = <<>> /\ d.own # NoRecord /\ d.sess /\ Load(d) = d.own /\ d.own.secret # d.secret
    THEN LET r == [d.own EXCEPT !.secret = d.secret] IN [Save(d, r) EXCEPT !.own = r]
    ELSE d

(* cancelFollow: the timer, and a pass that is writing *)
CancelFollow(d) ==
    [d EXCEPT !.timer = FALSE, !.writing = [i \in DOMAIN @ |-> [@[i] EXCEPT !.mine = FALSE]]]

ClearAction(d) == [d EXCEPT !.ui = "none"]
OfferMove(d) == [d EXCEPT !.ui = "offer"]

(* a follow with no delay would start at once; here its timer runs out at once *)
FollowRoom(d) ==
    LET c == CancelFollow(d)
    IN IF d.conn # "joined" THEN c
       ELSE IF OnRoomMedia(d) THEN ClearAction(c)
       ELSE IF d.room = Nowhere \/ d.room \notin Followable \/ d.stayed = d.room THEN OfferMove(c)
       ELSE [c EXCEPT !.ui = "follow", !.timer = TRUE]

(* onMediaChanged, after a same-document navigation *)
MediaChanged(d) ==
    LET c == CancelFollow(d)
    IN IF ~d.sess THEN c
       ELSE IF d.conn # "joined" THEN [c EXCEPT !.resume = "offer"]
       ELSE IF OnRoomMedia(d) THEN ClearAction(c) ELSE OfferMove(c)

MutHearAnchor(d, k) ==
    LET r == [d EXCEPT !.resume = "none", !.seen = TRUE, !.room = k,
                       !.asked = @ /\ k = d.room]
    IN IF ~d.seen \/ k # d.room THEN FollowRoom(r) ELSE r
(* onAnchor, with what the room names now *)
HearAnchor(d, k) ==
    LET r == [d EXCEPT !.resume = "none", !.seen = TRUE, !.room = k,
                       !.asked = @ /\ k = d.room]
    IN IF ~d.seen \/ k # d.room \/ d.resume = "follow" THEN FollowRoom(r)
       ELSE IF d.resume = "offer"
       THEN IF OnRoomMedia(r) THEN ClearAction(r) ELSE OfferMove(r)
       ELSE r

(* onStatus leaving 'joined': suspendMedia *)
Suspend(d) ==
    [ClearAction(CancelFollow(d)) EXCEPT !.conn = "down",
        !.resume = IF d.ui # "none" THEN d.ui ELSE @]

Leave(d) ==
    [ForgetRejoin(CancelFollow(d)) EXCEPT !.sess = FALSE, !.conn = "off", !.seen = FALSE,
        !.room = Nowhere, !.stayed = Nowhere, !.ui = "none", !.resume = "none", !.asked = FALSE,
        !.sent = FALSE]
Join(d, s) == [Leave(d) EXCEPT !.sess = TRUE, !.secret = s, !.conn = "down"]

-----------------------------------------------------------------------------
(* The store. *)

(* the area takes v: everybody hears of it *)
AreaBecomes(v, ds) ==
    /\ area' = v
    /\ doc' = IF v = area THEN ds ELSE [t \in Tab |-> [ds[t] EXCEPT !.store = Notified(@)]]

(* a pass has one write fewer to wait for *)
Nearer(w) == [w EXCEPT !.left = IF w.left > 0 THEN w.left - 1 ELSE 0]

Land(t) ==
    /\ doc[t].store.writes # <<>>
    /\ AreaBecomes(Head(doc[t].store.writes),
         [doc EXCEPT ![t].store = Landed(@),
                     ![t].writing = [i \in DOMAIN @ |-> Nearer(@[i])]])
    /\ UNCHANGED <<room, left, lost, moves, acts>>

Keep(t, d) == doc' = [doc EXCEPT ![t] = d] /\ UNCHANGED area

Hear(t) ==
    /\ doc[t].store.told
    /\ Keep(t, [doc[t] EXCEPT !.store = Heard(@)])
    /\ UNCHANGED <<room, left, lost, moves, acts>>

Read(t) ==
    /\ doc[t].store.back = AskedBack
    /\ Keep(t, [doc[t] EXCEPT !.store = ReadBack(@, area)])
    /\ UNCHANGED <<room, left, lost, moves, acts>>

Settle(t) ==
    /\ doc[t].store.back.st = "got"
    /\ Keep(t, [doc[t] EXCEPT !.store = Settled(@)])
    /\ UNCHANGED <<room, left, lost, moves, acts>>

-----------------------------------------------------------------------------
(* Following: `go`. *)

Wrote(t, d, p) ==
    LET r == [tab |-> t, key |-> d.room, secret |-> d.secret, pass |-> p, warned |-> FALSE]
    IN [Save(d, r) EXCEPT !.own = r]
Out(d) == Len(d.store.writes)

(* The timer fires: a record of the session as it is now, saved; then the  *)
(* pass waits for the write to land.                                       *)
FollowStarts(t) ==
    /\ doc[t].timer
    /\ doc[t].made < Passes
    /\ LET d == [doc[t] EXCEPT !.timer = FALSE, !.made = @ + 1, !.sent = FALSE]
           w == Wrote(t, d, d.made)
       IN Keep(t, [w EXCEPT !.writing = Append(@, [mine |-> TRUE, pass |-> d.made, left |-> Out(w)])])
    /\ UNCHANGED <<room, left, lost, moves, acts>>

MutFollowResumes(t) ==
    LET d == doc[t]
        w == Head(d.writing)
        done == [d EXCEPT !.writing = Tail(@)]
        again == Wrote(t, d, w.pass)
    IN /\ d.writing # <<>>
       /\ Keep(t, IF ~w.mine \/ d.conn # "joined" \/ ~d.sess THEN ForgetRejoin(done)
                  ELSE IF again.own = d.own THEN [done EXCEPT !.nav = d.room, !.sent = TRUE]
                  ELSE [again EXCEPT !.writing[1].left = Out(again)])
       /\ UNCHANGED <<room, left, lost, moves, acts>>
(* The write has landed.  Cancelled meanwhile, the record goes; changed    *)
(* meanwhile, it is written again; else the document is sent off.          *)
FollowResumes(t) ==
    LET d == doc[t]
        w == Head(d.writing)
        done == [d EXCEPT !.writing = Tail(@)]
        again == Wrote(t, d, w.pass)
    IN /\ d.writing # <<>> /\ w.left = 0
       /\ Keep(t, IF ~w.mine \/ d.conn # "joined" \/ ~d.sess THEN ForgetRejoin(done)
                  ELSE IF again.own = d.own THEN [done EXCEPT !.nav = d.room, !.sent = TRUE]
                  ELSE [again EXCEPT !.writing[1].left = Out(again)])
       /\ UNCHANGED <<room, left, lost, moves, acts>>

(* A new document, at k.  The old one's engine stopped on its pagehide,    *)
(* and a write it still had out is dropped (any of them may have landed    *)
(* just before), so the new one reads what is in the area.  Then the       *)
(* startup: the record, if it is live and this tab's to judge, is consumed *)
(* on the page it names and only pointed at on any other.                  *)
Fresh(k, n, r) ==
    [at |-> k, sess |-> FALSE, secret |-> 0, conn |-> "off", seen |-> FALSE, room |-> Nowhere,
     stayed |-> Nowhere, ui |-> "none", resume |-> "none", asked |-> FALSE, timer |-> FALSE,
     own |-> NoRecord, writing |-> <<>>, made |-> n, nav |-> NoNav, sent |-> FALSE,
     store |-> Opened(r)]

Startup(t, d) ==
    LET r == Load(d)
    IN IF ~About(r, t) THEN d
       ELSE IF r.key = d.at THEN Join(Save(d, NoRecord), r.secret)
       ELSE IF ~r.warned THEN Save(d, [r EXCEPT !.warned = TRUE])
       ELSE d

Told(t, d) == About(Load(d), t) /\ Load(d).key # d.at

Loads(t, k) ==
    LET d == doc[t]
        f == Fresh(k, d.made, area)
        n == Startup(t, f)
        dropped == d.store.writes # <<>>
    IN /\ Keep(t, n)
       /\ left' = [left EXCEPT ![t] =
            IF @ = "clean" /\ dropped /\ About(area, t) THEN "owing" ELSE @]
       /\ lost' = [lost EXCEPT ![t] =
            /\ k \in {d.nav, Nowhere} /\ d.sent /\ d.conn = "joined"
            /\ ~(n.sess /\ (n.secret = d.secret \/ dropped)) /\ ~Told(t, f)]

(* where followRoom sent it, or to a login page in front of that *)
Arrives(t) ==
    /\ doc[t].nav # NoNav
    /\ \E k \in {doc[t].nav, Nowhere} : Loads(t, k)
    /\ UNCHANGED <<room, moves, acts>>

-----------------------------------------------------------------------------
(* The member. *)

Act == acts < Acts /\ acts' = acts + 1

(* to another page, or a reload *)
Navigates(t, k) ==
    /\ Act /\ Loads(t, k)
    /\ UNCHANGED <<room, moves>>

(* a single-page router: the document stays *)
Routes(t, k) ==
    /\ Act /\ k # doc[t].at
    /\ Keep(t, MediaChanged([doc[t] EXCEPT !.at = k]))
    /\ UNCHANGED <<room, left, lost, moves>>

PressJoin(t) ==
    /\ Act
    /\ Keep(t, Join(doc[t], room.secret))
    /\ left' = [left EXCEPT ![t] = "no"]
    /\ UNCHANGED <<room, lost, moves>>

PressLeave(t) ==
    /\ Act /\ doc[t].sess
    /\ Keep(t, Leave(doc[t]))
    /\ left' = [left EXCEPT ![t] =
           IF About(Load(doc[t]), t) /\ Load(doc[t]) # doc[t].own
           THEN "owing" ELSE "clean"]
    /\ UNCHANGED <<room, lost, moves>>

StayHere(t) ==
    /\ Act /\ doc[t].timer
    /\ Keep(t, OfferMove(CancelFollow([doc[t] EXCEPT !.stayed = doc[t].room])))
    /\ UNCHANGED <<room, left, lost, moves>>

(* "open the room's video", from a page that names none *)
OpenRoom(t) ==
    /\ doc[t].ui = "offer" /\ doc[t].at = Nowhere /\ doc[t].room \in Followable
    /\ Act
    /\ Keep(t, FollowRoom([doc[t] EXCEPT !.stayed = Nowhere]))
    /\ UNCHANGED <<room, left, lost, moves>>

(* "move the room here": sent against the room on screen *)
MoveHere(t) ==
    /\ doc[t].ui = "offer" /\ doc[t].conn = "joined"
    /\ doc[t].at # Nowhere /\ doc[t].room # Nowhere /\ ~doc[t].asked
    /\ Act
    /\ Keep(t, ClearAction([doc[t] EXCEPT !.asked = TRUE]))
    /\ UNCHANGED <<room, left, lost, moves>>

(* back to a page the browser kept: its engine is gone, the record is not  *)
(* its own to take                                                         *)
PageShown(t) ==
    /\ Act /\ doc[t].sess /\ doc[t].nav # NoNav
    /\ Keep(t, Leave([doc[t] EXCEPT !.own = NoRecord, !.nav = NoNav]))
    /\ UNCHANGED <<room, left, lost, moves>>

-----------------------------------------------------------------------------
(* The room, and the link to it. *)

RoomDoes(k, s) ==
    /\ room' = [key |-> k, secret |-> s]
    /\ doc' = [t \in Tab |-> IF doc[t].conn # "joined" THEN doc[t]
               ELSE LET d == IF s = room.secret THEN doc[t]
                             ELSE RefreshRejoin([doc[t] EXCEPT !.secret = s])
                    IN IF k = room.key THEN d ELSE HearAnchor(d, k)]
    /\ UNCHANGED <<area, left, lost, acts>>

RoomMoves(k) ==
    /\ moves < Moves /\ moves' = moves + 1 /\ k # room.key
    /\ RoomDoes(k, room.secret)
Rotated ==
    /\ moves < Moves /\ moves' = moves + 1
    /\ RoomDoes(room.key, room.secret + 1)
(* a `media` command of a member arrives, if the room has not moved since *)
ServerTakes(t) ==
    /\ doc[t].asked /\ doc[t].conn = "joined" /\ doc[t].at # room.key
    /\ moves < Moves /\ moves' = moves + 1
    /\ RoomDoes(doc[t].at, room.secret)

LinkLost(t) ==
    /\ doc[t].conn = "joined"
    /\ Act
    /\ Keep(t, Suspend(doc[t]))
    /\ UNCHANGED <<room, left, lost, moves>>

Welcomed(t) ==
    /\ doc[t].conn = "down"
    /\ Keep(t, IF doc[t].secret = room.secret
               THEN HearAnchor([doc[t] EXCEPT !.conn = "joined"], room.key)
               ELSE [doc[t] EXCEPT !.conn = "refused"])
    /\ UNCHANGED <<room, left, lost, moves, acts>>

-----------------------------------------------------------------------------
Init ==
    /\ area = NoRecord
    /\ doc \in [Tab -> {Fresh(k, 0, NoRecord) : k \in Key}]
    /\ room \in [key : Key, secret : {0}]
    /\ left = [t \in Tab |-> "no"] /\ lost = [t \in Tab |-> FALSE] /\ moves = 0 /\ acts = 0

StoreStep(t) == Land(t) \/ Hear(t) \/ Read(t) \/ Settle(t)
Member(t) ==
    \/ \E k \in Key : Navigates(t, k) \/ Routes(t, k)
    \/ PressJoin(t) \/ PressLeave(t) \/ StayHere(t) \/ OpenRoom(t) \/ MoveHere(t) \/ PageShown(t)
Next ==
    \/ \E t \in Tab : \/ StoreStep(t) \/ FollowStarts(t) \/ FollowResumes(t) \/ Arrives(t)
                      \/ Member(t) \/ ServerTakes(t) \/ LinkLost(t) \/ Welcomed(t)
    \/ \E k \in Key : RoomMoves(k)
    \/ Rotated

Spec == Init /\ [][Next]_vars

-----------------------------------------------------------------------------
(* A member who left a room on purpose is not taken back into it by a page *)
(* that loads afterwards, whatever a follow was doing when they left       *)
(* (leave, forgetRejoin, followRoom's pass) -- with two exceptions the code *)
(* has: a page before the one they left on wrote the record (forgetRejoin  *)
(* drops this page's only), or the document went before the erasure it had *)
(* saved, and does not wait for, had landed.                               *)
LeftIsLeft == \A t \in Tab : left[t] = "clean" => ~doc[t].sess

(* A joined member on another media than the room's has the room's media   *)
(* on its panel: a move that is coming, or a button.  Nothing that happens *)
(* to the link takes it away for good (suspendMedia, onAnchor).  A member  *)
(* who has asked the room to come here waits for the room instead.         *)
NeverStranded ==
    \A t \in Tab : doc[t].conn = "joined" /\ ~OnRoomMedia(doc[t]) =>
        doc[t].ui # "none" \/ doc[t].asked

(* A member sent to the room's media arrives in the room, with the newest  *)
(* secret the old page knew -- or is told that the move failed.  Nobody    *)
(* arrives out of the room with no word (forgetRejoin, the pass that waits *)
(* for its write to land, the startup), although whatever is still on its  *)
(* way when a document goes is dropped.  Only the secret may be older: a   *)
(* refresh after the document was sent off is not waited for (refreshRejoin). *)
(* Not counted on is a first move whose navigation commits while           *)
(* the departing page, still alive, is already writing the record of the   *)
(* next one: that record names another page, or another secret.            *)
NeverLostSilently == \A t \in Tab : ~lost[t]
=============================================================================
