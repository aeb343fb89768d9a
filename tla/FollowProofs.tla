---------------------------- MODULE FollowProofs ----------------------------
(***************************************************************************)
(* Proofs about Follow, for any number of tabs: a member who left is not   *)
(* taken back, and a joined member is never off the room's media with      *)
(* nothing on the panel.  The tabs share one record of one store, so the   *)
(* invariant says of every tab what it may have written and read: nothing  *)
(* but records of its own, and if the record in the area is its own, it is *)
(* the one it has in its cache.                                            *)
(***************************************************************************)
EXTENDS Follow, TLAPS, SequenceTheorems

Pass == [mine : BOOLEAN, pass : 1..Passes, left : Nat]

(* A record that t may have written. *)
Ours(r, t) == r = NoRecord \/ r.tab = t

(* What a document of the tab would read if all that is out had landed. *)
NextRead(s, ar) == IF s.writes = <<>> THEN ar ELSE s.writes[Len(s.writes)]

StoreFits(s, t) ==
  /\ s \in StoreOf(Stored)
  /\ \A i \in 1..Len(s.writes) : Ours(s.writes[i], t)
  /\ s.writes # <<>> => s.cache = s.writes[Len(s.writes)]

Agrees(s, t, ar) ==
  s.writes = <<>> /\ About(ar, t) => /\ s.cache = ar
                                     /\ s.back.st = "got" => s.back.val = ar

(* A tab that nobody shares the area with knows it, whoever wrote the record. *)
Knows(s, ar) ==
  /\ s.cache = NextRead(s, ar)
  /\ s.writes = <<>> /\ s.back.st = "got" => s.back.val = ar

(* A follow that is waiting or writing and has not been called off. *)
Going(d) == d.timer \/ \E i \in 1..Len(d.writing) : d.writing[i].mine
GoesWhereItMay(d) == Going(d) => d.conn = "joined" /\ d.room \in Followable

InSession(d) == d.conn \in {"down", "joined"} => d.sess

Minded(d) ==
  /\ d.conn = "joined" => OnRoomMedia(d) \/ d.ui # "none" \/ d.asked
  /\ d.conn = "down" /\ d.seen /\ d.resume = "none" => OnRoomMedia(d) \/ d.asked

Fits(d, t) ==
  /\ d \in Doc /\ StoreFits(d.store, t) /\ Ours(d.own, t)
  /\ InSession(d) /\ GoesWhereItMay(d) /\ Minded(d)

Clean(l, d, t, ar) == l = "clean" => ~d.sess /\ ~About(NextRead(d.store, ar), t)

Inv ==
  /\ area \in Stored /\ room \in [key : Key, secret : Secret] /\ room.secret <= moves
  /\ left \in [Tab -> {"no", "clean", "owing"}]
  /\ moves \in 0..Moves /\ acts \in 0..Acts
  /\ doc \in [Tab -> Doc]
  /\ \A t \in Tab : /\ Fits(doc[t], t)
                    /\ Agrees(doc[t].store, t, area)
                    /\ Clean(left[t], doc[t], t, area)

-----------------------------------------------------------------------------
(* The store.                                                              *)

Back == {Idle, AskedBack} \cup {GotBack(v) : v \in Stored}

LEMMA StoreFields ==
  ASSUME NEW s, NEW t, StoreFits(s, t)
  PROVE  /\ s.cache \in Stored /\ s.writes \in Seq(Stored) /\ s.told \in BOOLEAN /\ s.back \in Back
         /\ Len(s.writes) \in Nat
         /\ s.writes # <<>> => Len(s.writes) > 0 /\ s.writes[Len(s.writes)] \in Stored
         /\ s \in [cache : Stored, writes : Seq(Stored), told : BOOLEAN, back : Back]
<1>1. s \in [cache : Stored, writes : Seq(Stored), told : BOOLEAN, back : Back]
  BY DEF StoreFits, StoreOf, Back
<1>2. s.writes \in Seq(Stored) /\ s.cache \in Stored /\ s.told \in BOOLEAN /\ s.back \in Back
  BY <1>1
<1> QED BY <1>1, <1>2

LEMMA StoreMade ==
  ASSUME NEW cache \in Stored, NEW writes \in Seq(Stored), NEW told \in BOOLEAN, NEW back \in Back
  PROVE  [cache |-> cache, writes |-> writes, told |-> told, back |-> back] \in StoreOf(Stored)
BY DEF StoreOf, Back

LEMMA StoreChanged ==
  ASSUME NEW s \in [cache : Stored, writes : Seq(Stored), told : BOOLEAN, back : Back],
         NEW c \in Stored, NEW w \in Seq(Stored), NEW y \in BOOLEAN, NEW b \in Back
  PROVE  /\ [s EXCEPT !.cache = c, !.writes = w, !.back = b]
              = [cache |-> c, writes |-> w, told |-> s.told, back |-> b]
         /\ [s EXCEPT !.writes = w, !.back = b]
              = [cache |-> s.cache, writes |-> w, told |-> s.told, back |-> b]
         /\ [s EXCEPT !.told = y]
              = [cache |-> s.cache, writes |-> s.writes, told |-> y, back |-> s.back]
         /\ [s EXCEPT !.told = y, !.back = b]
              = [cache |-> s.cache, writes |-> s.writes, told |-> y, back |-> b]
         /\ [s EXCEPT !.back = b, !.cache = c]
              = [cache |-> c, writes |-> s.writes, told |-> s.told, back |-> b]
<1>1. \A r \in [cache : Stored, writes : Seq(Stored), told : BOOLEAN, back : Back] :
        /\ [r EXCEPT !.cache = c] = [cache |-> c, writes |-> r.writes, told |-> r.told, back |-> r.back]
        /\ [r EXCEPT !.writes = w] = [cache |-> r.cache, writes |-> w, told |-> r.told, back |-> r.back]
        /\ [r EXCEPT !.told = y] = [cache |-> r.cache, writes |-> r.writes, told |-> y, back |-> r.back]
        /\ [r EXCEPT !.back = b] = [cache |-> r.cache, writes |-> r.writes, told |-> r.told, back |-> b]
  OBVIOUS
<1> DEFINE One == [s EXCEPT !.cache = c]
           Two == [s EXCEPT !.writes = w]
           Three == [s EXCEPT !.told = y]
           Four == [s EXCEPT !.back = b]
           Five == [One EXCEPT !.writes = w]
<1>2. One \in [cache : Stored, writes : Seq(Stored), told : BOOLEAN, back : Back]
      /\ Two \in [cache : Stored, writes : Seq(Stored), told : BOOLEAN, back : Back]
      /\ Three \in [cache : Stored, writes : Seq(Stored), told : BOOLEAN, back : Back]
      /\ Four \in [cache : Stored, writes : Seq(Stored), told : BOOLEAN, back : Back]
  OBVIOUS
<1>3. /\ One = [cache |-> c, writes |-> s.writes, told |-> s.told, back |-> s.back]
      /\ Two = [cache |-> s.cache, writes |-> w, told |-> s.told, back |-> s.back]
      /\ Three = [cache |-> s.cache, writes |-> s.writes, told |-> y, back |-> s.back]
      /\ Four = [cache |-> s.cache, writes |-> s.writes, told |-> s.told, back |-> b]
  BY <1>1
<1> HIDE DEF One, Two, Three, Four
<1>4. Five \in [cache : Stored, writes : Seq(Stored), told : BOOLEAN, back : Back]
      /\ Five = [cache |-> c, writes |-> w, told |-> s.told, back |-> s.back]
  BY <1>1, <1>2, <1>3
<1> HIDE DEF Five
<1>5. [Five EXCEPT !.back = b] = [cache |-> c, writes |-> w, told |-> s.told, back |-> b]
  BY <1>1, <1>4
<1>6. [Two EXCEPT !.back = b] = [cache |-> s.cache, writes |-> w, told |-> s.told, back |-> b]
  BY <1>1, <1>2, <1>3
<1>7. [Three EXCEPT !.back = b] = [cache |-> s.cache, writes |-> s.writes, told |-> y, back |-> b]
  BY <1>1, <1>2, <1>3
<1>8. [Four EXCEPT !.cache = c] = [cache |-> c, writes |-> s.writes, told |-> s.told, back |-> b]
  BY <1>1, <1>2, <1>3
<1> QED BY <1>3, <1>5, <1>6, <1>7, <1>8 DEF One, Two, Three, Four, Five

LEMMA Backs ==
  /\ Idle \in Back /\ AskedBack \in Back /\ Idle.st # "got" /\ AskedBack.st # "got"
  /\ \A v \in Stored : GotBack(v) \in Back /\ GotBack(v).val = v
  /\ \A b \in Back : b.st = "got" => b.val \in Stored
<1>1. Idle.st # "got" /\ AskedBack.st # "got"
  BY DEF Idle, AskedBack
<1>2. Idle \in Back /\ AskedBack \in Back /\ \A v \in Stored : GotBack(v) \in Back
  BY DEF Back
<1>3. \A v : GotBack(v).val = v
  BY DEF GotBack
<1>4. \A b \in Back : b = Idle \/ b = AskedBack \/ \E v \in Stored : b = GotBack(v)
  BY DEF Back
<1> QED BY <1>1, <1>2, <1>3, <1>4

(* What a tab may have written of itself does not name another. *)
LEMMA OursIsNobodyElses ==
  ASSUME NEW t, NEW u, t # u, NEW r, Ours(r, t)
  PROVE  ~About(r, u)
BY DEF Ours, About

LEMMA OpenedFits ==
  ASSUME NEW t, NEW v \in Stored
  PROVE  LET s == Opened(v)
         IN  /\ StoreFits(s, t) /\ Agrees(s, t, v) /\ NextRead(s, v) = v /\ s.cache = v
             /\ s.writes = <<>>
<1> DEFINE s == Opened(v)
<1>1. <<>> \in Seq(Stored) /\ FALSE \in BOOLEAN
  OBVIOUS
<1>2. s \in StoreOf(Stored) /\ s.writes = <<>> /\ s.cache = v /\ s.back = Idle
  BY <1>1, StoreMade, Backs DEF Opened
<1> HIDE DEF s
<1>3. StoreFits(s, t) /\ Agrees(s, t, v) /\ NextRead(s, v) = v
  BY <1>2, Backs DEF StoreFits, Agrees, NextRead
<1> QED BY <1>2, <1>3 DEF s

(* A save is what this tab reads next, whatever is in the area. *)
LEMMA SavedFits ==
  ASSUME NEW t, NEW s, StoreFits(s, t), NEW v \in Stored, Ours(v, t)
  PROVE  LET x == Saved(s, v)
         IN  /\ StoreFits(x, t) /\ x.cache = v /\ Len(x.writes) \in Nat
             /\ x.writes = Append(s.writes, v)
             /\ \A ar : Agrees(x, t, ar) /\ NextRead(x, ar) = v /\ Knows(x, ar)
<1> DEFINE x == Saved(s, v)
           w == Append(s.writes, v)
<1>1. s.writes \in Seq(Stored) /\ s.told \in BOOLEAN
  BY StoreFields
<1>2. /\ w \in Seq(Stored) /\ Len(w) = Len(s.writes) + 1 /\ w # <<>> /\ w[Len(w)] = v
      /\ \A i \in 1..Len(w) : Ours(w[i], t)
  <2>1. /\ w \in Seq(Stored) /\ Len(w) = Len(s.writes) + 1 /\ w # <<>>
        /\ \A i \in 1..Len(s.writes) : w[i] = s.writes[i]
        /\ w[Len(s.writes) + 1] = v /\ Len(s.writes) \in Nat
    BY <1>1, AppendProperties
  <2> HIDE DEF w
  <2>2. ASSUME NEW i \in 1..Len(w) PROVE Ours(w[i], t)
    <3>1. i \in 1..Len(s.writes) \/ i = Len(s.writes) + 1
      BY <2>1
    <3> QED BY <2>1, <3>1 DEF StoreFits
  <2> QED BY <2>1, <2>2
<1>3. x = [cache |-> v, writes |-> w, told |-> s.told, back |-> Idle]
  <2>1. s \in [cache : Stored, writes : Seq(Stored), told : BOOLEAN, back : Back] /\ Idle \in Back
    BY StoreFields, Backs
  <2>2. x = [s EXCEPT !.cache = v, !.writes = w, !.back = Idle]
    BY DEF Saved
  <2> HIDE DEF x, w
  <2> QED BY <1>1, <1>2, <2>1, <2>2, StoreChanged
<1> HIDE DEF w
<1>4. x \in StoreOf(Stored)
  BY <1>1, <1>2, <1>3, StoreMade, Backs
<1>5. x.cache = v /\ x.writes = w
  BY <1>3
<1>5a. x.writes = Append(s.writes, v)
  BY <1>5 DEF w
<1> HIDE DEF x
<1>6. StoreFits(x, t) /\ \A ar : Agrees(x, t, ar) /\ NextRead(x, ar) = v /\ Knows(x, ar)
  BY <1>2, <1>4, <1>5 DEF StoreFits, Agrees, NextRead, Knows
<1> QED BY <1>1, <1>2, <1>5, <1>5a, <1>6 DEF x

(* The oldest write lands: it is one of this tab's, and the next read is    *)
(* what it was, from the area if this was the last.                         *)
LEMMA LandedFits ==
  ASSUME NEW t, NEW s, StoreFits(s, t), s.writes # <<>>
  PROVE  LET x == Landed(s)
             v == Head(s.writes)
         IN  /\ StoreFits(x, t) /\ v \in Stored /\ Ours(v, t)
             /\ Agrees(x, t, v) /\ x.cache = s.cache /\ x.writes = Tail(s.writes)
             /\ \A ar : NextRead(x, v) = NextRead(s, ar) /\ (Knows(s, ar) => Knows(x, v))
<1> DEFINE x == Landed(s)
           w == Tail(s.writes)
           v == Head(s.writes)
           back == IF Len(s.writes) = 1 THEN AskedBack ELSE s.back
<1>1. s.writes \in Seq(Stored) /\ s.told \in BOOLEAN /\ s.cache \in Stored /\ s.back \in Back
      /\ Len(s.writes) > 0 /\ Len(s.writes) \in Nat
  BY StoreFields
<1>2. /\ w \in Seq(Stored) /\ Len(w) = Len(s.writes) - 1 /\ v = s.writes[1]
      /\ \A i \in 1..Len(w) : w[i] = s.writes[i + 1]
      /\ v \in Stored /\ Ours(v, t) /\ Len(w) \in Nat
  BY <1>1 DEF StoreFits
<1>3. back \in Back /\ (Len(s.writes) = 1 => back = AskedBack)
  BY <1>1, Backs
<1>4. x = [cache |-> s.cache, writes |-> w, told |-> s.told, back |-> back]
  <2>1. s \in [cache : Stored, writes : Seq(Stored), told : BOOLEAN, back : Back]
    BY StoreFields
  <2>2. x = [s EXCEPT !.writes = w, !.back = back]
    BY DEF Landed
  <2> HIDE DEF x, w, back
  <2> QED BY <1>1, <1>2, <1>3, <2>1, <2>2, StoreChanged
<1> HIDE DEF w, v, back
<1>5. x \in StoreOf(Stored)
  BY <1>1, <1>2, <1>3, <1>4, StoreMade
<1>6. x.cache = s.cache /\ x.writes = w /\ x.back = back
  BY <1>4
<1>6a. x.writes = Tail(s.writes)
  BY <1>6 DEF w
<1> HIDE DEF x
<1>7. w = <<>> => Len(s.writes) = 1 /\ s.writes[Len(s.writes)] = v
  BY <1>2
<1>8. w # <<>> => w[Len(w)] = s.writes[Len(s.writes)]
  BY <1>2
<1>9. \A i \in 1..Len(w) : Ours(w[i], t)
  BY <1>1, <1>2 DEF StoreFits
<1>10. StoreFits(x, t)
  BY <1>5, <1>6, <1>8, <1>9 DEF StoreFits
<1>11. Agrees(x, t, v)
  BY <1>3, <1>6, <1>7, Backs DEF Agrees, StoreFits
<1>12. \A ar : NextRead(x, v) = NextRead(s, ar)
  BY <1>6, <1>7, <1>8 DEF NextRead
<1>13. \A ar : Knows(s, ar) => Knows(x, v)
  BY <1>3, <1>6, <1>7, <1>12, Backs DEF Knows
<1> QED BY <1>2, <1>6, <1>6a, <1>10, <1>11, <1>12, <1>13 DEF x, v

(* The steps that change neither what a tab has written nor what it reads   *)
(* next.                                                                    *)
LEMMA StoreStepFits ==
  ASSUME NEW t, NEW s, StoreFits(s, t), NEW ar \in Stored, Agrees(s, t, ar),
         NEW x, \/ x = Notified(s)
                \/ x = Heard(s)
                \/ x = ReadBack(s, ar)
                \/ s.back.st = "got" /\ x = Settled(s)
  PROVE  /\ StoreFits(x, t) /\ Agrees(x, t, ar) /\ NextRead(x, ar) = NextRead(s, ar)
         /\ x.writes = s.writes
         /\ Knows(s, ar) => Knows(x, ar) /\ x.cache = s.cache
<1>1. s.writes \in Seq(Stored) /\ s.told \in BOOLEAN /\ s.cache \in Stored /\ s.back \in Back
  BY StoreFields
<1>2. /\ TRUE \in BOOLEAN /\ FALSE \in BOOLEAN /\ Idle \in Back /\ AskedBack \in Back
      /\ s \in [cache : Stored, writes : Seq(Stored), told : BOOLEAN, back : Back]
  BY StoreFields, Backs
<1> DEFINE cache == IF s.writes = <<>> THEN s.back.val ELSE s.cache
<1>3. CASE x = Notified(s)
  <2>1. x = [cache |-> s.cache, writes |-> s.writes, told |-> TRUE, back |-> s.back]
    BY <1>1, <1>2, <1>3, StoreChanged, Zenon DEF Notified
  <2>2. x \in StoreOf(Stored)
    BY <1>1, <1>2, <2>1, StoreMade
  <2> QED BY <2>1, <2>2 DEF StoreFits, Agrees, NextRead, Knows
<1>4. CASE x = Heard(s)
  <2>1. x = [cache |-> s.cache, writes |-> s.writes, told |-> FALSE, back |-> AskedBack]
    BY <1>1, <1>2, <1>4, StoreChanged, Zenon DEF Heard
  <2>2. x \in StoreOf(Stored)
    BY <1>1, <1>2, <2>1, StoreMade, Backs
  <2> QED BY <2>1, <2>2, Backs DEF StoreFits, Agrees, NextRead, Knows
<1>5. CASE x = ReadBack(s, ar)
  <2>1. x = [cache |-> s.cache, writes |-> s.writes, told |-> s.told, back |-> GotBack(ar)]
    BY <1>5, StoreFields DEF ReadBack
  <2>2. x \in StoreOf(Stored)
    BY <1>1, <2>1, StoreMade, Backs
  <2> QED BY <2>1, <2>2, Backs DEF StoreFits, Agrees, NextRead, Knows
<1>6. CASE s.back.st = "got" /\ x = Settled(s)
  <2>1. cache \in Stored /\ s.back.val \in Stored
    BY <1>1, <1>6, Backs
  <2>2. x = [cache |-> cache, writes |-> s.writes, told |-> s.told, back |-> Idle]
    <3>1. x = [s EXCEPT !.back = Idle, !.cache = cache]
      BY <1>6 DEF Settled
    <3> HIDE DEF cache
    <3> QED BY <1>1, <1>2, <2>1, <3>1, StoreChanged
  <2>3. s.writes # <<>> => cache = s.cache
    OBVIOUS
  <2>4. s.writes = <<>> => cache = s.back.val
    OBVIOUS
  <2> HIDE DEF cache
  <2>5. x \in StoreOf(Stored)
    BY <1>1, <2>1, <2>2, StoreMade, Backs
  <2> QED BY <1>6, <2>2, <2>3, <2>4, <2>5, Backs DEF StoreFits, Agrees, NextRead, Knows
<1> QED BY <1>3, <1>4, <1>5, <1>6

-----------------------------------------------------------------------------
(* Documents.                                                              *)

(* What no panel and no follow of a document changes. *)
Kept(d, e) ==
  /\ e \in Doc
  /\ e.at = d.at /\ e.sess = d.sess /\ e.secret = d.secret /\ e.conn = d.conn /\ e.room = d.room
  /\ e.own = d.own /\ e.store = d.store /\ e.made = d.made /\ e.asked = d.asked

LEMMA KeptOfKept ==
  ASSUME NEW c, NEW d, NEW e, Kept(c, d), Kept(d, e)
  PROVE  Kept(c, e)
BY DEF Kept

LEMMA DocFields ==
  ASSUME NEW d \in Doc
  PROVE  /\ d.at \in Key /\ d.sess \in BOOLEAN /\ d.secret \in Secret /\ d.room \in Key
         /\ d.own \in Stored /\ d.writing \in Seq(Pass) /\ d.made \in 0..Passes
         /\ d.seen \in BOOLEAN /\ d.asked \in BOOLEAN /\ d.timer \in BOOLEAN
         /\ d.store \in StoreOf(Stored) /\ d.sent \in BOOLEAN /\ d.stayed \in Key
         /\ d.ui \in {"none", "follow", "offer"} /\ d.resume \in {"none", "follow", "offer"}
         /\ d.conn \in {"off", "down", "joined", "refused"}
BY DEF Doc, Pass

LEMMA CancelFits ==
  ASSUME NEW d \in Doc
  PROVE  LET c == CancelFollow(d)
         IN  /\ Kept(d, c) /\ ~Going(c)
             /\ c.seen = d.seen /\ c.ui = d.ui /\ c.resume = d.resume
             /\ c.stayed = d.stayed /\ c.nav = d.nav
<1> DEFINE w == [i \in DOMAIN d.writing |-> [d.writing[i] EXCEPT !.mine = FALSE]]
           no == FALSE
           c == [d EXCEPT !.timer = no, !.writing = w]
<1>1. d.writing \in Seq(Pass)
  BY DocFields
<1>2. \A x \in Pass : [x EXCEPT !.mine = FALSE] \in Pass /\ ~[x EXCEPT !.mine = FALSE].mine
  BY DEF Pass
<1>3. w \in Seq(Pass) /\ \A i \in 1..Len(w) : ~w[i].mine
  BY <1>1, <1>2
<1>4. no \in BOOLEAN /\ ~no /\ CancelFollow(d) = c
  BY DEF CancelFollow
<1> HIDE DEF w, no
<1>5. /\ c \in Doc /\ c.at = d.at /\ c.sess = d.sess /\ c.secret = d.secret /\ c.conn = d.conn
      /\ c.room = d.room /\ c.own = d.own /\ c.store = d.store /\ c.made = d.made
      /\ c.asked = d.asked /\ c.seen = d.seen /\ c.ui = d.ui /\ c.resume = d.resume
      /\ c.stayed = d.stayed /\ c.nav = d.nav /\ c.timer = no /\ c.writing = w
  BY <1>3, <1>4 DEF Doc, Pass
<1> HIDE DEF c
<1> QED BY <1>3, <1>4, <1>5 DEF Kept, Going

LEMMA PanelFits ==
  ASSUME NEW d \in Doc, NEW k \in {"none", "follow", "offer"}
  PROVE  LET c == [d EXCEPT !.ui = k]
         IN  /\ Kept(d, c) /\ (Going(c) <=> Going(d))
             /\ c.seen = d.seen /\ c.ui = k /\ c.resume = d.resume
             /\ c.stayed = d.stayed /\ c.nav = d.nav
<1> DEFINE c == [d EXCEPT !.ui = k]
<1>1. /\ c \in Doc /\ c.at = d.at /\ c.sess = d.sess /\ c.secret = d.secret /\ c.conn = d.conn
      /\ c.room = d.room /\ c.own = d.own /\ c.store = d.store /\ c.made = d.made
      /\ c.asked = d.asked /\ c.seen = d.seen /\ c.ui = k /\ c.resume = d.resume
      /\ c.stayed = d.stayed /\ c.nav = d.nav /\ c.timer = d.timer /\ c.writing = d.writing
  BY DEF Doc
<1> HIDE DEF c
<1> QED BY <1>1 DEF Kept, Going, c

(* What followRoom leaves the member with, whatever it was called for: a    *)
(* move that is coming, to where it may go, or something on the panel.      *)
LEMMA FollowRoomFits ==
  ASSUME NEW d \in Doc
  PROVE  LET e == FollowRoom(d)
         IN  /\ Kept(d, e) /\ GoesWhereItMay(e)
             /\ e.seen = d.seen /\ e.resume = d.resume
             /\ e.conn = "joined" => OnRoomMedia(e) \/ e.ui # "none"
             /\ e.conn # "joined" => e.ui = d.ui
<1> DEFINE c == CancelFollow(d)
           yes == TRUE
           clear == [c EXCEPT !.ui = "none"]
           offer == [c EXCEPT !.ui = "offer"]
           go == [c EXCEPT !.ui = "follow", !.timer = yes]
<1>1. Kept(d, c) /\ ~Going(c) /\ c.seen = d.seen /\ c.resume = d.resume /\ c.ui = d.ui
  BY CancelFits
<1>2. yes \in BOOLEAN /\ c \in Doc
  BY <1>1 DEF Kept
<1>3. FollowRoom(d) =
        IF d.conn # "joined" THEN c
        ELSE IF OnRoomMedia(d) THEN clear
        ELSE IF d.room = Nowhere \/ d.room \notin Followable \/ d.stayed = d.room THEN offer
        ELSE go
  BY DEF FollowRoom, ClearAction, OfferMove
<1> HIDE DEF c, yes
<1>4. /\ Kept(d, clear) /\ ~Going(clear) /\ clear.seen = d.seen /\ clear.resume = d.resume
      /\ Kept(d, offer) /\ ~Going(offer) /\ offer.seen = d.seen /\ offer.resume = d.resume
      /\ offer.ui = "offer"
  BY <1>1, <1>2, PanelFits, KeptOfKept
<1>5. /\ go \in Doc /\ go.at = c.at /\ go.sess = c.sess /\ go.secret = c.secret /\ go.conn = c.conn
      /\ go.room = c.room /\ go.own = c.own /\ go.store = c.store /\ go.made = c.made
      /\ go.asked = c.asked /\ go.seen = c.seen /\ go.ui = "follow" /\ go.resume = c.resume
  BY <1>2 DEF Doc
<1>6. Kept(d, go) /\ go.seen = d.seen /\ go.resume = d.resume
  BY <1>1, <1>5 DEF Kept
<1> HIDE DEF clear, offer, go
<1>7. CASE d.conn # "joined"
  BY <1>1, <1>3, <1>7 DEF Kept, GoesWhereItMay
<1>8. CASE d.conn = "joined" /\ OnRoomMedia(d)
  BY <1>3, <1>4, <1>8 DEF Kept, GoesWhereItMay, OnRoomMedia
<1>9. CASE d.conn = "joined" /\ ~OnRoomMedia(d) /\ (d.room = Nowhere \/ d.room \notin Followable \/ d.stayed = d.room)
  BY <1>3, <1>4, <1>9 DEF Kept, GoesWhereItMay
<1>10. CASE d.conn = "joined" /\ ~OnRoomMedia(d) /\ ~(d.room = Nowhere \/ d.room \notin Followable \/ d.stayed = d.room)
  BY <1>3, <1>5, <1>6, <1>10 DEF Kept, GoesWhereItMay
<1> QED BY <1>7, <1>8, <1>9, <1>10

LEMMA MediaChangedFits ==
  ASSUME NEW d \in Doc, NEW t, StoreFits(d.store, t), Ours(d.own, t), InSession(d)
  PROVE  LET e == MediaChanged(d) IN Fits(e, t) /\ e.store = d.store /\ e.sess = d.sess
<1> DEFINE c == CancelFollow(d)
           later == [c EXCEPT !.resume = "offer"]
           clear == [c EXCEPT !.ui = "none"]
           offer == [c EXCEPT !.ui = "offer"]
<1>1. Kept(d, c) /\ ~Going(c) /\ c \in Doc
  BY CancelFits DEF Kept
<1>2. MediaChanged(d) = IF ~d.sess THEN c ELSE IF d.conn # "joined" THEN later
                        ELSE IF OnRoomMedia(d) THEN clear ELSE offer
  BY DEF MediaChanged, ClearAction, OfferMove
<1> HIDE DEF c
<1>3. /\ Kept(d, clear) /\ ~Going(clear) /\ Kept(d, offer) /\ ~Going(offer) /\ offer.ui = "offer"
  BY <1>1, PanelFits, KeptOfKept
<1>4. /\ later \in Doc /\ later.at = c.at /\ later.sess = c.sess /\ later.secret = c.secret
      /\ later.conn = c.conn /\ later.room = c.room /\ later.own = c.own /\ later.store = c.store
      /\ later.made = c.made /\ later.asked = c.asked /\ later.resume = "offer"
      /\ later.timer = c.timer /\ later.writing = c.writing
  BY <1>1 DEF Doc
<1> HIDE DEF later, clear, offer
<1>5. Kept(d, later) /\ ~Going(later)
  BY <1>1, <1>4 DEF Kept, Going
<1>6. CASE ~d.sess
  BY <1>1, <1>2, <1>6 DEF Fits, Kept, InSession, GoesWhereItMay, Minded
<1>7. CASE d.sess /\ d.conn # "joined"
  BY <1>2, <1>4, <1>5, <1>7 DEF Fits, Kept, InSession, GoesWhereItMay, Minded
<1>8. CASE d.sess /\ d.conn = "joined"
  BY <1>2, <1>3, <1>8 DEF Fits, Kept, InSession, GoesWhereItMay, Minded, OnRoomMedia
<1> QED BY <1>6, <1>7, <1>8

LEMMA HearAnchorFits ==
  ASSUME NEW d \in Doc, NEW t, StoreFits(d.store, t), Ours(d.own, t), NEW k \in Key,
         d.sess, d.conn = "joined", GoesWhereItMay(d),
         d.seen /\ d.resume = "none" /\ k = d.room => OnRoomMedia(d) \/ d.ui # "none" \/ d.asked
  PROVE  LET e == HearAnchor(d, k) IN Fits(e, t) /\ e.store = d.store /\ e.sess = d.sess
<1> DEFINE yes == TRUE
           asked == d.asked /\ k = d.room
           r == [d EXCEPT !.resume = "none", !.seen = yes, !.room = k, !.asked = asked]
           f == FollowRoom(r)
           clear == [r EXCEPT !.ui = "none"]
           offer == [r EXCEPT !.ui = "offer"]
<1>1. yes \in BOOLEAN /\ asked \in BOOLEAN /\ (k = d.room => asked = d.asked)
  BY DocFields
<1>2. HearAnchor(d, k) =
        IF ~d.seen \/ k # d.room \/ d.resume = "follow" THEN f
        ELSE IF d.resume = "offer" THEN IF OnRoomMedia(r) THEN clear ELSE offer
        ELSE r
  BY DEF HearAnchor, ClearAction, OfferMove
<1> HIDE DEF yes, asked
<1>3. /\ r \in Doc /\ r.at = d.at /\ r.sess = d.sess /\ r.conn = d.conn /\ r.own = d.own
      /\ r.store = d.store /\ r.room = k /\ r.asked = asked /\ r.ui = d.ui /\ r.resume = "none"
      /\ r.timer = d.timer /\ r.writing = d.writing
  BY <1>1 DEF Doc
<1> HIDE DEF r
<1>4. /\ Kept(r, f) /\ GoesWhereItMay(f)
      /\ f.conn = "joined" => OnRoomMedia(f) \/ f.ui # "none"
  BY <1>3, FollowRoomFits
<1>5. /\ Kept(r, clear) /\ (Going(clear) <=> Going(r))
      /\ Kept(r, offer) /\ (Going(offer) <=> Going(r)) /\ offer.ui = "offer"
  BY <1>3, PanelFits
<1> HIDE DEF f, clear, offer
<1>6. Going(r) <=> Going(d)
  BY <1>3 DEF Going
<1>7. CASE ~d.seen \/ k # d.room \/ d.resume = "follow"
  BY <1>2, <1>3, <1>4, <1>7 DEF Fits, Kept, InSession, Minded
<1>8. CASE ~(~d.seen \/ k # d.room \/ d.resume = "follow") /\ d.resume = "offer"
  <2>1. CASE OnRoomMedia(r)
    BY <1>2, <1>3, <1>5, <1>6, <1>8, <2>1
    DEF Fits, Kept, InSession, Minded, OnRoomMedia, GoesWhereItMay
  <2>2. CASE ~OnRoomMedia(r)
    BY <1>2, <1>3, <1>5, <1>6, <1>8, <2>2 DEF Fits, Kept, InSession, Minded, GoesWhereItMay
  <2> QED BY <2>1, <2>2
<1>9. CASE ~(~d.seen \/ k # d.room \/ d.resume = "follow") /\ d.resume # "offer"
  <2>1. d.resume = "none"
    BY <1>9, DocFields
  <2> QED BY <1>1, <1>2, <1>3, <1>6, <1>9, <2>1
          DEF Fits, InSession, Minded, OnRoomMedia, GoesWhereItMay
<1> QED BY <1>7, <1>8, <1>9

LEMMA SuspendFits ==
  ASSUME NEW d \in Doc, NEW t, Fits(d, t), d.conn = "joined"
  PROVE  LET e == Suspend(d) IN Fits(e, t) /\ e.store = d.store /\ e.sess = d.sess
<1> DEFINE c == CancelFollow(d)
           clear == [c EXCEPT !.ui = "none"]
           resume == IF d.ui # "none" THEN d.ui ELSE clear.resume
           e == [clear EXCEPT !.conn = "down", !.resume = resume]
<1>1. Kept(d, c) /\ ~Going(c) /\ c.resume = d.resume /\ c.seen = d.seen /\ c \in Doc
  BY CancelFits DEF Kept
<1>2. Suspend(d) = e
  BY DEF Suspend, ClearAction
<1> HIDE DEF c
<1>3. Kept(d, clear) /\ ~Going(clear) /\ clear.resume = d.resume /\ clear.seen = d.seen /\ clear \in Doc
  BY <1>1, PanelFits, KeptOfKept DEF Kept
<1> HIDE DEF clear
<1>4. resume \in {"none", "follow", "offer"} /\ (d.ui # "none" => resume # "none")
  BY <1>3, DocFields
<1> HIDE DEF resume
<1>5. /\ e \in Doc /\ e.at = clear.at /\ e.sess = clear.sess /\ e.conn = "down" /\ e.own = clear.own
      /\ e.store = clear.store /\ e.room = clear.room /\ e.asked = clear.asked
      /\ e.resume = resume /\ e.timer = clear.timer /\ e.writing = clear.writing
  BY <1>3, <1>4 DEF Doc
<1> HIDE DEF e
<1>6. Fits(e, t)
  BY <1>3, <1>4, <1>5 DEF Fits, Kept, InSession, Minded, OnRoomMedia, GoesWhereItMay, Going
<1> QED BY <1>2, <1>3, <1>5, <1>6 DEF Kept

-----------------------------------------------------------------------------
(* Records and sessions.                                                   *)

LEMMA NoRecordIsNobodys ==
  /\ NoRecord \in Stored
  /\ \A t : Ours(NoRecord, t) /\ ~About(NoRecord, t)
BY DEF Stored, Ours, About

(* What a document knows of a record of its own tab in the area. *)
LEMMA NextReadIsKnown ==
  ASSUME NEW s, NEW t, NEW ar, StoreFits(s, t), Agrees(s, t, ar), About(NextRead(s, ar), t)
  PROVE  s.cache = NextRead(s, ar)
BY DEF StoreFits, Agrees, NextRead

(* forgetRejoin: unless the record in the cache is the tab's and not this   *)
(* page's, the next page finds none of this tab.                            *)
LEMMA ForgetFits ==
  ASSUME NEW d \in Doc, NEW t, NEW ar, StoreFits(d.store, t), Agrees(d.store, t, ar), Ours(d.own, t)
  PROVE  LET e == ForgetRejoin(d)
         IN  /\ e \in Doc /\ e.own = NoRecord
             /\ StoreFits(e.store, t) /\ Agrees(e.store, t, ar)
             /\ ~About(NextRead(d.store, ar), t) => ~About(NextRead(e.store, ar), t)
             /\ ~(About(Load(d), t) /\ Load(d) # d.own) => ~About(NextRead(e.store, ar), t)
             /\ e.at = d.at /\ e.sess = d.sess /\ e.conn = d.conn /\ e.seen = d.seen
             /\ e.room = d.room /\ e.ui = d.ui /\ e.resume = d.resume /\ e.asked = d.asked
             /\ e.secret = d.secret /\ e.timer = d.timer /\ e.writing = d.writing
<1> DEFINE drop == d.own # NoRecord /\ Load(d) = d.own
           x == Saved(d.store, NoRecord)
           y == IF drop THEN x ELSE d.store
           e == ForgetRejoin(d)
           z == [d EXCEPT !.store = y]
<1>1. /\ StoreFits(x, t) /\ Agrees(x, t, ar) /\ NextRead(x, ar) = NoRecord
  BY SavedFits, NoRecordIsNobodys
<1>2. e = [(IF drop THEN Save(d, NoRecord) ELSE d) EXCEPT !.own = NoRecord]
  BY DEF ForgetRejoin
<1>3. Save(d, NoRecord) = [d EXCEPT !.store = x]
  BY DEF Save
<1> HIDE DEF e, x
<1>4. x \in StoreOf(Stored) /\ d.store \in StoreOf(Stored)
  BY <1>1, DocFields DEF StoreFits
<1>5. CASE drop
  <2>1. e = [[d EXCEPT !.store = x] EXCEPT !.own = NoRecord]
    BY <1>2, <1>3, <1>5
  <2>2. /\ e \in Doc /\ e.own = NoRecord /\ e.store = x
        /\ e.at = d.at /\ e.sess = d.sess /\ e.conn = d.conn /\ e.seen = d.seen
        /\ e.room = d.room /\ e.ui = d.ui /\ e.resume = d.resume /\ e.asked = d.asked
        /\ e.secret = d.secret /\ e.timer = d.timer /\ e.writing = d.writing
    BY <1>4, <2>1, NoRecordIsNobodys DEF Doc
  <2> QED BY <1>1, <2>2, NoRecordIsNobodys DEF e
<1>6. CASE ~drop
  <2>1. e = [d EXCEPT !.own = NoRecord]
    BY <1>2, <1>6
  <2>2. /\ e \in Doc /\ e.own = NoRecord /\ e.store = d.store
        /\ e.at = d.at /\ e.sess = d.sess /\ e.conn = d.conn /\ e.seen = d.seen
        /\ e.room = d.room /\ e.ui = d.ui /\ e.resume = d.resume /\ e.asked = d.asked
        /\ e.secret = d.secret /\ e.timer = d.timer /\ e.writing = d.writing
    BY <2>1, NoRecordIsNobodys DEF Doc
  <2>3. ~(About(Load(d), t) /\ Load(d) # d.own) => ~About(NextRead(d.store, ar), t)
    BY <1>6, NextReadIsKnown DEF Load, About
  <2> QED BY <2>2, <2>3 DEF e
<1> QED BY <1>5, <1>6

(* Leaving calls off what was going and drops the record. *)
LEMMA LeaveFits ==
  ASSUME NEW d \in Doc, NEW t, NEW ar, StoreFits(d.store, t), Agrees(d.store, t, ar), Ours(d.own, t)
  PROVE  LET e == Leave(d)
         IN  /\ Fits(e, t) /\ Agrees(e.store, t, ar) /\ ~e.sess /\ ~Going(e) /\ ~e.seen
             /\ ~About(NextRead(d.store, ar), t) => ~About(NextRead(e.store, ar), t)
             /\ ~(About(Load(d), t) /\ Load(d) # d.own) => ~About(NextRead(e.store, ar), t)
<1> DEFINE no == FALSE
           c == CancelFollow(d)
           f == ForgetRejoin(c)
           e == [f EXCEPT !.sess = no, !.conn = "off", !.seen = no, !.room = Nowhere,
                          !.stayed = Nowhere, !.ui = "none", !.resume = "none", !.asked = no,
                          !.sent = no]
<1>1. no \in BOOLEAN /\ ~no /\ Leave(d) = e
  BY DEF Leave
<1> HIDE DEF no
<1>2. Kept(d, c) /\ ~Going(c) /\ c \in Doc
  BY CancelFits DEF Kept
<1>3. c.store = d.store /\ c.own = d.own /\ Load(c) = Load(d)
  BY <1>2 DEF Kept, Load
<1> HIDE DEF c
<1>4. /\ f \in Doc /\ f.own = NoRecord /\ f.timer = c.timer /\ f.writing = c.writing
      /\ StoreFits(f.store, t) /\ Agrees(f.store, t, ar)
      /\ ~About(NextRead(d.store, ar), t) => ~About(NextRead(f.store, ar), t)
      /\ ~(About(Load(d), t) /\ Load(d) # d.own) => ~About(NextRead(f.store, ar), t)
  BY <1>2, <1>3, ForgetFits
<1> HIDE DEF f
<1>5. Nowhere \in Key
  BY DEF Key
<1>6. /\ e \in Doc /\ e.own = f.own /\ e.store = f.store /\ e.sess = no /\ e.conn = "off"
      /\ e.seen = no /\ e.timer = f.timer /\ e.writing = f.writing
  BY <1>1, <1>4, <1>5 DEF Doc
<1> HIDE DEF e
<1>7. ~Going(e) /\ Fits(e, t)
  BY <1>1, <1>2, <1>4, <1>6, NoRecordIsNobodys DEF Fits, InSession, Minded, GoesWhereItMay, Going
<1> QED BY <1>1, <1>4, <1>6, <1>7

LEMMA JoinFits ==
  ASSUME NEW d \in Doc, NEW t, NEW ar, StoreFits(d.store, t), Agrees(d.store, t, ar), Ours(d.own, t),
         NEW s \in Secret
  PROVE  LET e == Join(d, s) IN Fits(e, t) /\ Agrees(e.store, t, ar)
<1> DEFINE yes == TRUE
           l == Leave(d)
           e == [l EXCEPT !.sess = yes, !.secret = s, !.conn = "down"]
<1>1. yes \in BOOLEAN /\ yes /\ Join(d, s) = e
  BY DEF Join
<1>2. Fits(l, t) /\ Agrees(l.store, t, ar) /\ ~Going(l) /\ ~l.seen /\ l \in Doc
  BY LeaveFits DEF Fits
<1> HIDE DEF yes, l
<1>3. /\ e \in Doc /\ e.own = l.own /\ e.store = l.store /\ e.sess = yes /\ e.conn = "down"
      /\ e.seen = l.seen /\ e.timer = l.timer /\ e.writing = l.writing
  BY <1>1, <1>2 DEF Doc
<1> HIDE DEF e
<1>4. Fits(e, t)
  BY <1>1, <1>2, <1>3 DEF Fits, InSession, Minded, GoesWhereItMay, Going
<1> QED BY <1>1, <1>2, <1>3, <1>4

LEMMA RefreshFits ==
  ASSUME NEW d \in Doc, NEW t, NEW ar, Fits(d, t), Agrees(d.store, t, ar)
  PROVE  LET e == RefreshRejoin(d)
         IN  Fits(e, t) /\ Agrees(e.store, t, ar) /\ e.sess = d.sess /\ e.conn = d.conn
<1> DEFINE wants == /\ d.writing = <<>> /\ d.own # NoRecord /\ d.sess /\ Load(d) = d.own
                    /\ d.own.secret # d.secret
           r == [d.own EXCEPT !.secret = d.secret]
           x == Saved(d.store, r)
           e == [[d EXCEPT !.store = x] EXCEPT !.own = r]
<1>1. RefreshRejoin(d) = IF wants THEN e ELSE d
  BY DEF RefreshRejoin, Save
<1>2. CASE ~wants
  BY <1>1, <1>2
<1>3. CASE wants
  <2>1. d.own \in Record /\ d.secret \in Secret /\ d.own.tab = t
    BY <1>3, DocFields DEF Stored, Fits, Ours
  <2>2. r \in Record /\ r.tab = t
    BY <2>1 DEF Record
  <2> HIDE DEF r
  <2>3. r \in Stored /\ Ours(r, t) /\ StoreFits(d.store, t)
    BY <2>2 DEF Stored, Ours, Fits
  <2>4. StoreFits(x, t) /\ Agrees(x, t, ar)
    BY <2>3, SavedFits
  <2> HIDE DEF x
  <2>4a. x \in StoreOf(Stored)
    BY <2>4 DEF StoreFits
  <2>5. /\ e \in Doc /\ e.at = d.at /\ e.sess = d.sess /\ e.conn = d.conn /\ e.own = r
        /\ e.store = x /\ e.room = d.room /\ e.asked = d.asked /\ e.ui = d.ui /\ e.seen = d.seen
        /\ e.resume = d.resume /\ e.timer = d.timer /\ e.writing = d.writing
    BY <2>3, <2>4a DEF Doc
  <2> HIDE DEF e
  <2>6. Fits(e, t)
    BY <2>3, <2>4, <2>5 DEF Fits, InSession, Minded, OnRoomMedia, GoesWhereItMay, Going
  <2> QED BY <1>1, <1>3, <2>4, <2>5, <2>6
<1> QED BY <1>2, <1>3

-----------------------------------------------------------------------------
(* What a step shows of the invariant.                                     *)

Figures ==
  /\ room \in [key : Key, secret : Secret] /\ room.secret <= moves
  /\ moves \in 0..Moves /\ acts \in 0..Acts

LEMMA InvIs ==
  ASSUME Inv, NEW t \in Tab
  PROVE  /\ doc[t] \in Doc /\ Fits(doc[t], t) /\ Agrees(doc[t].store, t, area)
         /\ Clean(left[t], doc[t], t, area) /\ StoreFits(doc[t].store, t) /\ Ours(doc[t].own, t)
         /\ area \in Stored /\ Figures
BY DEF Inv, Fits, Figures

LEMMA KeepInv ==
  ASSUME Inv, Figures', NEW t \in Tab, NEW e, Keep(t, e), Fits(e, t), Agrees(e.store, t, area),
         NEW l \in {"no", "clean", "owing"}, left' = [left EXCEPT ![t] = l], Clean(l, e, t, area)
  PROVE  Inv'
<1>1. area' = area /\ doc' = [doc EXCEPT ![t] = e] /\ e \in Doc
  BY DEF Keep, Fits
<1>2. /\ doc' \in [Tab -> Doc] /\ left' \in [Tab -> {"no", "clean", "owing"}]
      /\ doc'[t] = e /\ left'[t] = l
      /\ \A u \in Tab : u # t => doc'[u] = doc[u] /\ left'[u] = left[u]
  BY <1>1 DEF Inv
<1>3. ASSUME NEW u \in Tab
      PROVE  Fits(doc'[u], u) /\ Agrees(doc'[u].store, u, area) /\ Clean(left'[u], doc'[u], u, area)
  BY <1>2 DEF Inv
<1> QED BY <1>1, <1>2, <1>3 DEF Inv, Figures

(* A step of a document that leaves alone what it reads next. *)
LEMMA QuietInv ==
  ASSUME Inv, Figures', NEW t \in Tab, NEW e, Keep(t, e), left' = left,
         Fits(e, t), e.store = doc[t].store, e.sess = doc[t].sess
  PROVE  Inv'
<1>1. left' = [left EXCEPT ![t] = left[t]] /\ left[t] \in {"no", "clean", "owing"}
  BY DEF Inv
<1>2. Agrees(e.store, t, area) /\ Clean(left[t], e, t, area)
  BY InvIs DEF Clean
<1> QED BY <1>1, <1>2, KeepInv

LEMMA StorePut ==
  ASSUME NEW t, NEW d, Fits(d, t), NEW x, StoreFits(x, t)
  PROVE  LET e == [d EXCEPT !.store = x]
         IN  Fits(e, t) /\ e.store = x /\ e.sess = d.sess
<1> DEFINE e == [d EXCEPT !.store = x]
<1>1. d \in Doc /\ x \in StoreOf(Stored)
  BY DEF Fits, StoreFits
<1>2. /\ e \in Doc /\ e.at = d.at /\ e.sess = d.sess /\ e.conn = d.conn /\ e.own = d.own
      /\ e.store = x /\ e.room = d.room /\ e.asked = d.asked /\ e.ui = d.ui /\ e.seen = d.seen
      /\ e.resume = d.resume /\ e.timer = d.timer /\ e.writing = d.writing
  BY <1>1 DEF Doc
<1> HIDE DEF e
<1>3. Fits(e, t)
  BY <1>2 DEF Fits, InSession, Minded, OnRoomMedia, GoesWhereItMay, Going
<1> QED BY <1>2, <1>3 DEF e

(* The area takes what t wrote, or stays as it is: whatever the others knew *)
(* of a record of their own there, they know still.                         *)
LEMMA AreaInv ==
  ASSUME Inv, Figures', NEW t \in Tab, NEW e, NEW v \in Stored,
         AreaBecomes(v, [doc EXCEPT ![t] = e]), left' = left, v = area \/ Ours(v, t),
         Fits(e, t), Agrees(e.store, t, v), Clean(left[t], e, t, v)
  PROVE  Inv'
<1> DEFINE ds == [doc EXCEPT ![t] = e]
<1>1. /\ area' = v /\ ds \in [Tab -> Doc] /\ ds[t] = e /\ \A u \in Tab : u # t => ds[u] = doc[u]
      /\ doc' = IF v = area THEN ds ELSE [u \in Tab |-> [ds[u] EXCEPT !.store = Notified(@)]]
  BY DEF AreaBecomes, Fits, Inv
<1> HIDE DEF ds
<1>2. ASSUME NEW u \in Tab PROVE Fits(ds[u], u) /\ Agrees(ds[u].store, u, v) /\ Clean(left[u], ds[u], u, v)
  <2>1. CASE u = t
    BY <1>1, <2>1
  <2>2. CASE u # t
    <3>1. ds[u] = doc[u] /\ (v = area \/ ~About(v, u))
      BY <1>1, <2>2, OursIsNobodyElses
    <3> QED BY <3>1, InvIs DEF Agrees, Clean, NextRead
  <2> QED BY <2>1, <2>2
<1>3. CASE v = area
  BY <1>1, <1>2, <1>3 DEF Inv, Figures
<1>4. CASE v # area
  <2>1. ASSUME NEW u \in Tab
        PROVE  Fits(doc'[u], u) /\ Agrees(doc'[u].store, u, v) /\ Clean(left[u], doc'[u], u, v)
    <3> DEFINE x == Notified(ds[u].store)
    <3>1. doc'[u] = [ds[u] EXCEPT !.store = x]
      BY <1>1, <1>4
    <3>2. StoreFits(x, u) /\ Agrees(x, u, v) /\ NextRead(x, v) = NextRead(ds[u].store, v)
      BY <1>2, StoreStepFits DEF Fits
    <3> HIDE DEF x
    <3>3. Fits(doc'[u], u) /\ doc'[u].store = x /\ doc'[u].sess = ds[u].sess
      BY <1>2, <3>1, <3>2, StorePut
    <3> QED BY <1>2, <3>2, <3>3 DEF Clean
  <2>2. doc' \in [Tab -> Doc]
    <3>1. \A u \in Tab : doc'[u] \in Doc
      BY <2>1 DEF Fits
    <3>2. doc' = [u \in Tab |-> [ds[u] EXCEPT !.store = Notified(@)]]
      BY <1>1, <1>4
    <3> QED BY <3>1, <3>2
  <2> QED BY <1>1, <2>1, <2>2 DEF Inv, Figures
<1> QED BY <1>3, <1>4

-----------------------------------------------------------------------------
(* The steps.                                                              *)

LEMMA FreshFits ==
  ASSUME NEW t, NEW k \in Key, NEW n \in 0..Passes, NEW r \in Stored
  PROVE  LET f == Fresh(k, n, r)
         IN  /\ Fits(f, t) /\ Agrees(f.store, t, r) /\ NextRead(f.store, r) = r /\ ~f.sess
             /\ Load(f) = r /\ f.own = NoRecord
<1> DEFINE f == Fresh(k, n, r)
           s == Opened(r)
<1>1. StoreFits(s, t) /\ Agrees(s, t, r) /\ NextRead(s, r) = r /\ s.cache = r /\ s \in StoreOf(Stored)
  BY OpenedFits DEF StoreFits
<1>2. /\ 0 \in Secret /\ Nowhere \in Key /\ NoRecord \in Stored /\ <<>> \in Seq(Pass)
      /\ NoNav \in Media \cup {NoNav} /\ FALSE \in BOOLEAN
  BY FollowAssumption, NoRecordIsNobodys DEF Secret, Key
<1>3. f = [at |-> k, sess |-> FALSE, secret |-> 0, conn |-> "off", seen |-> FALSE, room |-> Nowhere,
           stayed |-> Nowhere, ui |-> "none", resume |-> "none", asked |-> FALSE, timer |-> FALSE,
           own |-> NoRecord, writing |-> <<>>, made |-> n, nav |-> NoNav, sent |-> FALSE, store |-> s]
  BY DEF Fresh
<1> HIDE DEF s
<1>4. f \in Doc
  BY <1>1, <1>2, <1>3 DEF Doc, Pass
<1>5. f.store = s /\ f.own = NoRecord /\ ~f.sess /\ f.conn = "off" /\ ~f.timer /\ f.writing = <<>>
  BY <1>3
<1> HIDE DEF f
<1>6. Fits(f, t)
  BY <1>1, <1>4, <1>5, NoRecordIsNobodys DEF Fits, InSession, Minded, GoesWhereItMay, Going
<1> QED BY <1>1, <1>5, <1>6 DEF Load, f

LEMMA InitInv == Init => Inv
<1> SUFFICES ASSUME Init PROVE Inv
  OBVIOUS
<1>1. NoRecord \in Stored /\ 0 \in 0..Passes /\ 0 \in 0..Moves /\ 0 \in 0..Acts
  BY FollowAssumption, NoRecordIsNobodys
<1>2. room \in [key : Key, secret : Secret] /\ room.secret <= moves
  BY FollowAssumption DEF Init, Secret
<1>3. \A t \in Tab : \E k \in Key : doc[t] = Fresh(k, 0, NoRecord)
  BY DEF Init
<1>4. ASSUME NEW t \in Tab
      PROVE  Fits(doc[t], t) /\ Agrees(doc[t].store, t, area) /\ Clean(left[t], doc[t], t, area)
  BY <1>1, <1>3, FreshFits DEF Init, Clean
<1>5. doc \in [Tab -> Doc]
  <2>1. \A t \in Tab : doc[t] \in Doc
    BY <1>4 DEF Fits
  <2>2. \E S : doc \in [Tab -> S]
    BY DEF Init
  <2> QED BY <2>1, <2>2
<1>6. left \in [Tab -> {"no", "clean", "owing"}]
  BY DEF Init
<1> QED BY <1>1, <1>2, <1>4, <1>5, <1>6 DEF Init, Inv

LEMMA StoreStepInv ==
  ASSUME Inv, NEW t \in Tab, StoreStep(t)
  PROVE  Inv'
<1> DEFINE d == doc[t]
<1>1. /\ d \in Doc /\ Fits(d, t) /\ Agrees(d.store, t, area) /\ Clean(left[t], d, t, area)
      /\ StoreFits(d.store, t) /\ area \in Stored /\ Figures
  BY InvIs
<1>2. ASSUME NEW x, StoreFits(x, t), Agrees(x, t, area),
             NextRead(x, area) = NextRead(d.store, area),
             Keep(t, [d EXCEPT !.store = x]), UNCHANGED <<room, left, lost, moves, acts>>
      PROVE  Inv'
  <2> DEFINE e == [d EXCEPT !.store = x]
  <2>1. Fits(e, t) /\ e.store = x /\ e.sess = d.sess
    BY <1>1, <1>2, StorePut
  <2>2. Figures' /\ left' = [left EXCEPT ![t] = left[t]] /\ left[t] \in {"no", "clean", "owing"}
    BY <1>1, <1>2 DEF Figures, Inv
  <2>3. Keep(t, e)
    BY <1>2
  <2> HIDE DEF e
  <2>4. Clean(left[t], e, t, area)
    BY <1>1, <1>2, <2>1 DEF Clean
  <2> QED BY <1>2, <2>1, <2>2, <2>3, <2>4, KeepInv
<1>3. CASE Hear(t)
  <2> DEFINE x == Heard(d.store)
  <2>1. Keep(t, [d EXCEPT !.store = x]) /\ UNCHANGED <<room, left, lost, moves, acts>>
    BY <1>3 DEF Hear
  <2>2. StoreFits(x, t) /\ Agrees(x, t, area) /\ NextRead(x, area) = NextRead(d.store, area)
    BY <1>1, StoreStepFits
  <2> HIDE DEF x
  <2> QED BY <1>2, <2>1, <2>2
<1>4. CASE Read(t)
  <2> DEFINE x == ReadBack(d.store, area)
  <2>1. Keep(t, [d EXCEPT !.store = x]) /\ UNCHANGED <<room, left, lost, moves, acts>>
    BY <1>4 DEF Read
  <2>2. StoreFits(x, t) /\ Agrees(x, t, area) /\ NextRead(x, area) = NextRead(d.store, area)
    BY <1>1, StoreStepFits
  <2> HIDE DEF x
  <2> QED BY <1>2, <2>1, <2>2
<1>5. CASE Settle(t)
  <2> DEFINE x == Settled(d.store)
  <2>1. Keep(t, [d EXCEPT !.store = x]) /\ UNCHANGED <<room, left, lost, moves, acts>>
    BY <1>5 DEF Settle
  <2>2. StoreFits(x, t) /\ Agrees(x, t, area) /\ NextRead(x, area) = NextRead(d.store, area)
    BY <1>1, <1>5, StoreStepFits DEF Settle
  <2> HIDE DEF x
  <2> QED BY <1>2, <2>1, <2>2
<1>6. CASE Land(t)
  <2> DEFINE x == Landed(d.store)
             v == Head(d.store.writes)
             w == [i \in DOMAIN d.writing |-> Nearer(d.writing[i])]
             e == [d EXCEPT !.store = x, !.writing = w]
  <2>1. /\ StoreFits(x, t) /\ v \in Stored /\ Ours(v, t) /\ Agrees(x, t, v)
        /\ NextRead(x, v) = NextRead(d.store, area)
    BY <1>1, <1>6, LandedFits DEF Land
  <2>2. AreaBecomes(v, [doc EXCEPT ![t] = e]) /\ left' = left /\ Figures'
    <3>1. doc \in [Tab -> Doc]
      BY DEF Inv
    <3>2. \A g \in [Tab -> Doc] : \A n, m :
            [g EXCEPT ![t].store = n, ![t].writing = m] = [g EXCEPT ![t] = [@ EXCEPT !.store = n, !.writing = m]]
      OBVIOUS
    <3>3. AreaBecomes(v, [doc EXCEPT ![t].store = x, ![t].writing = w])
      BY <1>6 DEF Land
    <3>4. Figures' /\ left' = left
      BY <1>1, <1>6 DEF Land, Figures
    <3> HIDE DEF x, v, w
    <3> QED BY <3>1, <3>2, <3>3, <3>4
  <2>3. \A y \in Pass : Nearer(y) \in Pass /\ Nearer(y).mine = y.mine
    BY DEF Pass, Nearer
  <2>4. d.writing \in Seq(Pass)
    BY <1>1, DocFields
  <2>5. w \in Seq(Pass) /\ Len(w) = Len(d.writing) /\ \A i \in 1..Len(w) : w[i].mine = d.writing[i].mine
    BY <2>3, <2>4
  <2>6. x \in StoreOf(Stored)
    BY <2>1 DEF StoreFits
  <2> HIDE DEF x, v, w
  <2>7. /\ e \in Doc /\ e.at = d.at /\ e.sess = d.sess /\ e.conn = d.conn /\ e.own = d.own
        /\ e.store = x /\ e.room = d.room /\ e.asked = d.asked /\ e.ui = d.ui /\ e.seen = d.seen
        /\ e.resume = d.resume /\ e.timer = d.timer /\ e.writing = w
    BY <1>1, <2>5, <2>6 DEF Doc, Pass
  <2> HIDE DEF e
  <2>8. Fits(e, t)
    BY <1>1, <2>1, <2>5, <2>7 DEF Fits, InSession, Minded, OnRoomMedia, GoesWhereItMay, Going
  <2>9. Clean(left[t], e, t, v) /\ Agrees(e.store, t, v)
    BY <1>1, <2>1, <2>7 DEF Clean
  <2> QED BY <2>1, <2>2, <2>8, <2>9, AreaInv
<1> QED BY <1>3, <1>4, <1>5, <1>6 DEF StoreStep

(* A pass of a follow writes the record of the session there is. *)
LEMMA WroteFits ==
  ASSUME NEW t \in Tab, NEW d, Fits(d, t), NEW p \in 1..Passes, d.room \in Media
  PROVE  LET w == Wrote(t, d, p)
         IN  /\ Fits(w, t) /\ \A ar : Agrees(w.store, t, ar)
             /\ Out(w) \in Nat /\ w.sess = d.sess /\ w.conn = d.conn /\ w.room = d.room
             /\ w.writing = d.writing /\ w.timer = d.timer
<1> DEFINE r == [tab |-> t, key |-> d.room, secret |-> d.secret, pass |-> p, warned |-> FALSE]
           x == Saved(d.store, r)
           w == [[d EXCEPT !.store = x] EXCEPT !.own = r]
<1>1. d \in Doc /\ StoreFits(d.store, t) /\ d.secret \in Secret
  BY DocFields DEF Fits
<1>2. r \in Record /\ r.tab = t
  BY <1>1 DEF Record
<1>3. Wrote(t, d, p) = w
  BY DEF Wrote, Save
<1> HIDE DEF r
<1>4. r \in Stored /\ Ours(r, t)
  BY <1>2 DEF Stored, Ours
<1>5. StoreFits(x, t) /\ Len(x.writes) \in Nat /\ \A ar : Agrees(x, t, ar)
  BY <1>1, <1>4, SavedFits
<1> HIDE DEF x
<1>6. x \in StoreOf(Stored)
  BY <1>5 DEF StoreFits
<1>7. /\ w \in Doc /\ w.at = d.at /\ w.sess = d.sess /\ w.conn = d.conn /\ w.own = r
      /\ w.store = x /\ w.room = d.room /\ w.asked = d.asked /\ w.ui = d.ui /\ w.seen = d.seen
      /\ w.resume = d.resume /\ w.timer = d.timer /\ w.writing = d.writing
  BY <1>1, <1>4, <1>6 DEF Doc
<1> HIDE DEF w
<1>8. Fits(w, t)
  BY <1>4, <1>5, <1>7 DEF Fits, InSession, Minded, OnRoomMedia, GoesWhereItMay, Going
<1> QED BY <1>3, <1>5, <1>7, <1>8 DEF Out

(* A document that goes on where it went, with another list of passes. *)
LEMMA PassesPut ==
  ASSUME NEW t, NEW d, Fits(d, t), NEW w \in Seq(Pass),
         (\E i \in 1..Len(w) : w[i].mine) => d.conn = "joined" /\ d.room \in Followable
  PROVE  LET e == [d EXCEPT !.writing = w]
         IN  Fits(e, t) /\ e.store = d.store /\ e.sess = d.sess /\ e.room = d.room
<1> DEFINE e == [d EXCEPT !.writing = w]
<1>1. d \in Doc
  BY DEF Fits
<1>2. /\ e \in Doc /\ e.at = d.at /\ e.sess = d.sess /\ e.conn = d.conn /\ e.own = d.own
      /\ e.store = d.store /\ e.room = d.room /\ e.asked = d.asked /\ e.ui = d.ui
      /\ e.seen = d.seen /\ e.resume = d.resume /\ e.timer = d.timer /\ e.writing = w
  BY <1>1 DEF Doc, Pass
<1> HIDE DEF e
<1>3. Fits(e, t)
  BY <1>2 DEF Fits, InSession, Minded, OnRoomMedia, GoesWhereItMay, Going
<1> QED BY <1>2, <1>3 DEF e

LEMMA FollowStartsInv ==
  ASSUME Inv, NEW t \in Tab, FollowStarts(t)
  PROVE  Inv'
<1> DEFINE d == doc[t]
           no == FALSE
           x == [d EXCEPT !.timer = no, !.made = @ + 1, !.sent = no]
           w == Wrote(t, x, x.made)
           y == [mine |-> TRUE, pass |-> x.made, left |-> Out(w)]
           ws == Append(w.writing, y)
           e == [w EXCEPT !.writing = ws]
<1>1. /\ d \in Doc /\ Fits(d, t) /\ Figures /\ d.timer /\ d.made \in 0..Passes /\ d.made < Passes
      /\ no \in BOOLEAN /\ ~no
  BY InvIs, DocFields DEF FollowStarts
<1>2. Keep(t, e) /\ UNCHANGED <<room, left, lost, moves, acts>>
  BY DEF FollowStarts
<1>3. d.conn = "joined" /\ d.sess /\ d.room \in Followable /\ d.room \in Media
  BY <1>1, FollowAssumption DEF Fits, GoesWhereItMay, Going, InSession
<1>4. d.made + 1 \in 1..Passes /\ d.made + 1 \in 0..Passes
  BY <1>1, FollowAssumption
<1> HIDE DEF no
<1>5. /\ x \in Doc /\ x.at = d.at /\ x.sess = d.sess /\ x.conn = d.conn /\ x.own = d.own
      /\ x.store = d.store /\ x.room = d.room /\ x.asked = d.asked /\ x.ui = d.ui /\ x.seen = d.seen
      /\ x.resume = d.resume /\ x.timer = no /\ x.writing = d.writing /\ x.made = d.made + 1
  BY <1>1, <1>4 DEF Doc
<1> HIDE DEF x
<1>6. Fits(x, t)
  BY <1>1, <1>3, <1>5 DEF Fits, InSession, Minded, OnRoomMedia, GoesWhereItMay, Going
<1>7. /\ Fits(w, t) /\ Agrees(w.store, t, area) /\ Out(w) \in Nat /\ w.sess = x.sess
      /\ w.conn = x.conn /\ w.room = x.room
  BY <1>3, <1>4, <1>5, <1>6, WroteFits
<1> HIDE DEF w
<1>8. w \in Doc /\ w.writing \in Seq(Pass) /\ TRUE \in BOOLEAN
  BY <1>7, DocFields DEF Fits
<1>9. y \in Pass
  BY <1>4, <1>5, <1>7, <1>8 DEF Pass
<1>10. ws \in Seq(Pass)
  BY <1>8, <1>9, AppendProperties
<1> HIDE DEF ws
<1>11. Fits(e, t) /\ e.store = w.store /\ e.sess = w.sess
  <2>1. w.conn = "joined" /\ w.room \in Followable
    BY <1>3, <1>5, <1>7
  <2> HIDE DEF d
  <2> QED BY <1>7, <1>10, <2>1, PassesPut
<1> HIDE DEF e
<1>12. Figures' /\ left' = [left EXCEPT ![t] = left[t]] /\ left[t] \in {"no", "clean", "owing"}
  BY <1>1, <1>2 DEF Figures, Inv
<1>13. Clean(left[t], e, t, area)
  <2>1. left[t] # "clean"
    BY <1>3, InvIs DEF Clean
  <2> QED BY <2>1 DEF Clean
<1> QED BY <1>2, <1>7, <1>11, <1>12, <1>13, KeepInv

LEMMA FollowResumesInv ==
  ASSUME Inv, NEW t \in Tab, FollowResumes(t)
  PROVE  Inv'
<1> DEFINE d == doc[t]
           w == Head(d.writing)
           ws == Tail(d.writing)
           done == [d EXCEPT !.writing = ws]
           again == Wrote(t, d, w.pass)
           off == ~w.mine \/ d.conn # "joined" \/ ~d.sess
           yes == TRUE
           sent == [done EXCEPT !.nav = d.room, !.sent = yes]
           longer == [again EXCEPT !.writing[1].left = Out(again)]
           gone == ForgetRejoin(done)
<1>1. /\ d \in Doc /\ Fits(d, t) /\ Figures /\ d.writing \in Seq(Pass) /\ d.writing # <<>>
      /\ Agrees(d.store, t, area) /\ Clean(left[t], d, t, area)
  BY InvIs, DocFields DEF FollowResumes
<1>2. /\ w \in Pass /\ w = d.writing[1] /\ ws \in Seq(Pass) /\ Len(d.writing) \in Nat /\ Len(d.writing) > 0
      /\ Len(ws) = Len(d.writing) - 1 /\ \A i \in 1..Len(ws) : ws[i] = d.writing[i + 1]
  BY <1>1
<1>3. (\E i \in 1..Len(ws) : ws[i].mine) => d.conn = "joined" /\ d.room \in Followable
  <2>1. ASSUME NEW i \in 1..Len(ws), ws[i].mine PROVE Going(d)
    <3>1. i + 1 \in 1..Len(d.writing) /\ d.writing[i + 1].mine
      BY <1>2, <2>1
    <3> QED BY <3>1 DEF Going
  <2> QED BY <1>1, <2>1 DEF Fits, GoesWhereItMay
<1>4. /\ UNCHANGED <<room, left, lost, moves, acts>>
      /\ Keep(t, IF off THEN gone ELSE IF again.own = d.own THEN sent ELSE longer)
  BY DEF FollowResumes
<1>5. Figures' /\ left' = [left EXCEPT ![t] = left[t]] /\ left[t] \in {"no", "clean", "owing"}
  BY <1>1, <1>4 DEF Figures, Inv
<1> HIDE DEF ws
<1>6. Fits(done, t) /\ done.store = d.store /\ done.sess = d.sess /\ done.room = d.room
  BY <1>1, <1>2, <1>3, PassesPut
<1>7. done \in Doc /\ StoreFits(done.store, t) /\ Ours(done.own, t) /\ Agrees(done.store, t, area)
  BY <1>1, <1>6 DEF Fits
<1> HIDE DEF done
<1>8. CASE off
  <2>1. Keep(t, gone)
    BY <1>4, <1>8
  <2>2. /\ gone \in Doc /\ gone.own = NoRecord
        /\ StoreFits(gone.store, t) /\ Agrees(gone.store, t, area)
        /\ ~About(NextRead(done.store, area), t) => ~About(NextRead(gone.store, area), t)
        /\ gone.at = done.at /\ gone.sess = done.sess /\ gone.conn = done.conn /\ gone.seen = done.seen
        /\ gone.room = done.room /\ gone.ui = done.ui /\ gone.resume = done.resume
        /\ gone.asked = done.asked /\ gone.timer = done.timer /\ gone.writing = done.writing
    BY <1>7, ForgetFits
  <2> HIDE DEF gone
  <2>3. Fits(gone, t)
    BY <1>6, <2>2, NoRecordIsNobodys
    DEF Fits, InSession, Minded, OnRoomMedia, GoesWhereItMay, Going
  <2>4. Clean(left[t], gone, t, area)
    BY <1>1, <1>6, <2>2 DEF Clean
  <2> QED BY <1>5, <2>1, <2>2, <2>3, <2>4, KeepInv
<1>9. ASSUME ~off PROVE d.room \in Media /\ d.room \in Followable /\ d.conn = "joined" /\ left[t] # "clean"
  <2>1. Going(d) /\ d.sess
    BY <1>2, <1>9 DEF Going
  <2> QED BY <1>1, <2>1, FollowAssumption DEF Fits, GoesWhereItMay, Clean
<1>10. CASE ~off /\ again.own = d.own
  <2>1. Keep(t, sent) /\ d.room \in Media \cup {NoNav} /\ yes \in BOOLEAN
    BY <1>4, <1>9, <1>10
  <2> HIDE DEF yes
  <2>2. /\ sent \in Doc /\ sent.at = done.at /\ sent.sess = done.sess /\ sent.conn = done.conn
        /\ sent.own = done.own /\ sent.store = done.store /\ sent.room = done.room
        /\ sent.asked = done.asked /\ sent.ui = done.ui /\ sent.seen = done.seen
        /\ sent.resume = done.resume /\ sent.timer = done.timer /\ sent.writing = done.writing
    BY <1>7, <2>1 DEF Doc
  <2> HIDE DEF sent
  <2>3. Fits(sent, t)
    BY <1>6, <2>2 DEF Fits, InSession, Minded, OnRoomMedia, GoesWhereItMay, Going
  <2>4. left' = left
    BY <1>4
  <2> QED BY <1>5, <1>6, <2>1, <2>2, <2>3, <2>4, QuietInv
<1>11. CASE ~off /\ again.own # d.own
  <2>1. Keep(t, longer)
    BY <1>4, <1>11
  <2>2. w.pass \in 1..Passes
    BY <1>2 DEF Pass
  <2>3. /\ Fits(again, t) /\ Agrees(again.store, t, area) /\ Out(again) \in Nat
        /\ again.conn = d.conn /\ again.room = d.room /\ again.writing = d.writing
    BY <1>1, <1>9, <1>11, <2>2, WroteFits
  <2> HIDE DEF again
  <2> DEFINE y == [w EXCEPT !.left = Out(again)]
             ls == [d.writing EXCEPT ![1] = y]
             e == [again EXCEPT !.writing = ls]
  <2>4. y \in Pass /\ y.mine = w.mine
    BY <1>2, <2>3 DEF Pass
  <2>5. longer = e
    <3>1. again \in Doc /\ again.writing \in Seq(Pass)
      BY <2>3, DocFields DEF Fits
    <3>2. \A g \in Doc : [g EXCEPT !.writing[1].left = Out(again)]
                         = [g EXCEPT !.writing = [g.writing EXCEPT ![1] = [g.writing[1] EXCEPT !.left = Out(again)]]]
      BY DEF Doc
    <3> QED BY <1>2, <2>3, <3>1, <3>2
  <2> HIDE DEF longer, y
  <2>6. ls \in Seq(Pass) /\ Len(ls) = Len(d.writing) /\ \A i \in 1..Len(ls) : ls[i].mine = d.writing[i].mine
    BY <1>1, <1>2, <2>4
  <2> HIDE DEF ls
  <2>7. again.conn = "joined" /\ again.room \in Followable
    BY <1>9, <1>11, <2>3
  <2>8. Fits(e, t) /\ e.store = again.store
    BY <2>3, <2>6, <2>7, PassesPut
  <2> HIDE DEF e
  <2>9. Clean(left[t], e, t, area) /\ Agrees(e.store, t, area)
    BY <1>9, <1>11, <2>3, <2>8 DEF Clean
  <2> QED BY <1>5, <2>1, <2>5, <2>8, <2>9, KeepInv
<1> QED BY <1>8, <1>10, <1>11

(* A new document takes up a record of its own tab, and no other. *)
LEMMA StartupFits ==
  ASSUME NEW t \in Tab, NEW k \in Key, NEW n \in 0..Passes, NEW r \in Stored
  PROVE  LET e == Startup(t, Fresh(k, n, r))
         IN  /\ Fits(e, t) /\ Agrees(e.store, t, r)
             /\ ~About(r, t) => ~e.sess /\ NextRead(e.store, r) = r
<1> DEFINE f == Fresh(k, n, r)
           e == Startup(t, f)
           x == Saved(f.store, NoRecord)
           warned == [r EXCEPT !.warned = TRUE]
           y == Saved(f.store, warned)
           g == [f EXCEPT !.store = x]
           h == [f EXCEPT !.store = y]
<1>1. /\ Fits(f, t) /\ Agrees(f.store, t, r) /\ NextRead(f.store, r) = r /\ ~f.sess
      /\ Load(f) = r /\ f.own = NoRecord
  BY FreshFits
<1> HIDE DEF f
<1>2. e = IF ~About(r, t) THEN f
          ELSE IF r.key = f.at THEN Join(g, r.secret)
          ELSE IF ~r.warned THEN h ELSE f
  BY <1>1 DEF Startup, Save, About
<1> HIDE DEF e
<1>3. ASSUME ~About(r, t)
      PROVE  Fits(e, t) /\ Agrees(e.store, t, r) /\ ~e.sess /\ NextRead(e.store, r) = r
  BY <1>1, <1>2, <1>3
<1>4. ASSUME About(r, t) PROVE Fits(e, t) /\ Agrees(e.store, t, r)
  <2>1. r \in Record /\ r.tab = t /\ r.secret \in Secret
    BY <1>4 DEF About, Stored, Record
  <2>2. warned \in Record /\ warned.tab = t
    <3>1. TRUE \in BOOLEAN
      OBVIOUS
    <3> QED BY <2>1, <3>1 DEF Record
  <2> HIDE DEF warned
  <2>3. warned \in Stored /\ Ours(warned, t) /\ StoreFits(f.store, t)
    BY <1>1, <2>2 DEF Stored, Ours, Fits
  <2>4. StoreFits(x, t) /\ Agrees(x, t, r) /\ StoreFits(y, t) /\ Agrees(y, t, r)
    BY <2>3, SavedFits, NoRecordIsNobodys
  <2> HIDE DEF x, y
  <2>5. Fits(g, t) /\ g.store = x /\ Fits(h, t) /\ h.store = y
    BY <1>1, <2>4, StorePut
  <2> HIDE DEF g, h
  <2>6. Fits(Join(g, r.secret), t) /\ Agrees(Join(g, r.secret).store, t, r)
    BY <2>1, <2>4, <2>5, JoinFits DEF Fits
  <2> QED BY <1>1, <1>2, <1>4, <2>4, <2>5, <2>6
<1> QED BY <1>3, <1>4 DEF e, f

LEMMA LoadsInv ==
  ASSUME Inv, NEW t \in Tab, NEW k \in Key, Loads(t, k), Figures'
  PROVE  Inv'
<1> DEFINE d == doc[t]
           e == Startup(t, Fresh(k, d.made, area))
           out == d.store.writes # <<>>
           l == IF left[t] = "clean" /\ out /\ About(area, t) THEN "owing" ELSE left[t]
<1>1. /\ d \in Doc /\ d.made \in 0..Passes /\ area \in Stored /\ Clean(left[t], d, t, area)
  BY InvIs, DocFields
<1>2. Keep(t, e) /\ left' = [left EXCEPT ![t] = l] /\ left \in [Tab -> {"no", "clean", "owing"}]
  BY DEF Loads, Inv
<1>3. l \in {"no", "clean", "owing"}
  BY <1>2
<1>4. /\ Fits(e, t) /\ Agrees(e.store, t, area)
      /\ ~About(area, t) => ~e.sess /\ NextRead(e.store, area) = area
  BY <1>1, StartupFits
<1> HIDE DEF e
<1>5. l = "clean" => left[t] = "clean" /\ ~About(area, t)
  BY <1>1 DEF Clean, NextRead
<1> HIDE DEF l
<1>6. Clean(l, e, t, area)
  BY <1>4, <1>5 DEF Clean
<1> QED BY <1>2, <1>3, <1>4, <1>6, KeepInv

(* A document on another page, with another choice, or on another link. *)
LEMMA AtPut ==
  ASSUME NEW t, NEW d, Fits(d, t), NEW k \in Key
  PROVE  LET e == [d EXCEPT !.at = k]
         IN  /\ e \in Doc /\ StoreFits(e.store, t) /\ Ours(e.own, t) /\ InSession(e)
             /\ e.store = d.store /\ e.sess = d.sess
<1> DEFINE e == [d EXCEPT !.at = k]
<1>1. d \in Doc
  BY DEF Fits
<1>2. e \in Doc /\ e.sess = d.sess /\ e.conn = d.conn /\ e.own = d.own /\ e.store = d.store
  BY <1>1 DEF Doc
<1> HIDE DEF e
<1> QED BY <1>2 DEF Fits, InSession, e

LEMMA StayedPut ==
  ASSUME NEW t, NEW d, Fits(d, t), NEW k \in Key
  PROVE  LET e == [d EXCEPT !.stayed = k]
         IN  Fits(e, t) /\ e.store = d.store /\ e.sess = d.sess /\ e.conn = d.conn
<1> DEFINE e == [d EXCEPT !.stayed = k]
<1>1. d \in Doc
  BY DEF Fits
<1>2. /\ e \in Doc /\ e.at = d.at /\ e.sess = d.sess /\ e.conn = d.conn /\ e.own = d.own
      /\ e.store = d.store /\ e.room = d.room /\ e.asked = d.asked /\ e.ui = d.ui
      /\ e.seen = d.seen /\ e.resume = d.resume /\ e.timer = d.timer /\ e.writing = d.writing
  BY <1>1 DEF Doc
<1> HIDE DEF e
<1>3. Fits(e, t)
  BY <1>2 DEF Fits, InSession, Minded, OnRoomMedia, GoesWhereItMay, Going
<1> QED BY <1>2, <1>3 DEF e

LEMMA SecretPut ==
  ASSUME NEW t, NEW d, Fits(d, t), NEW k \in Secret
  PROVE  LET e == [d EXCEPT !.secret = k]
         IN  Fits(e, t) /\ e.store = d.store /\ e.sess = d.sess /\ e.conn = d.conn
<1> DEFINE e == [d EXCEPT !.secret = k]
<1>1. d \in Doc
  BY DEF Fits
<1>2. /\ e \in Doc /\ e.at = d.at /\ e.sess = d.sess /\ e.conn = d.conn /\ e.own = d.own
      /\ e.store = d.store /\ e.room = d.room /\ e.asked = d.asked /\ e.ui = d.ui
      /\ e.seen = d.seen /\ e.resume = d.resume /\ e.timer = d.timer /\ e.writing = d.writing
  BY <1>1 DEF Doc
<1> HIDE DEF e
<1>3. Fits(e, t)
  BY <1>2 DEF Fits, InSession, Minded, OnRoomMedia, GoesWhereItMay, Going
<1> QED BY <1>2, <1>3 DEF e

LEMMA ConnPut ==
  ASSUME NEW d \in Doc, NEW k \in {"joined", "refused"}
  PROVE  LET e == [d EXCEPT !.conn = k]
         IN  /\ e \in Doc /\ e.at = d.at /\ e.sess = d.sess /\ e.conn = k /\ e.own = d.own
             /\ e.store = d.store /\ e.room = d.room /\ e.asked = d.asked /\ e.ui = d.ui
             /\ e.seen = d.seen /\ e.resume = d.resume /\ (Going(e) <=> Going(d))
<1> DEFINE e == [d EXCEPT !.conn = k]
<1>1. /\ e \in Doc /\ e.at = d.at /\ e.sess = d.sess /\ e.conn = k /\ e.own = d.own
      /\ e.store = d.store /\ e.room = d.room /\ e.asked = d.asked /\ e.ui = d.ui
      /\ e.seen = d.seen /\ e.resume = d.resume /\ e.timer = d.timer /\ e.writing = d.writing
  BY DEF Doc
<1> HIDE DEF e
<1> QED BY <1>1 DEF Going, e

LEMMA ArrivesInv ==
  ASSUME Inv, NEW t \in Tab, Arrives(t)
  PROVE  Inv'
<1>1. doc[t] \in Doc /\ Figures
  BY InvIs
<1>2. doc[t].nav \in Key /\ Nowhere \in Key
  BY <1>1 DEF Arrives, Doc, Key
<1>3. PICK k \in {doc[t].nav, Nowhere} : Loads(t, k)
  BY DEF Arrives
<1>4. Figures'
  BY <1>1 DEF Arrives, Figures
<1> QED BY <1>2, <1>3, <1>4, LoadsInv

LEMMA MemberInv ==
  ASSUME Inv, NEW t \in Tab, Member(t)
  PROVE  Inv'
<1> DEFINE d == doc[t]
<1>1. /\ d \in Doc /\ Fits(d, t) /\ Agrees(d.store, t, area) /\ Clean(left[t], d, t, area)
      /\ StoreFits(d.store, t) /\ Ours(d.own, t) /\ area \in Stored /\ Figures
  BY InvIs
<1>2. Act /\ room' = room /\ moves' = moves => Figures'
  BY <1>1, FollowAssumption DEF Act, Figures
<1>3. left[t] \in {"no", "clean", "owing"} /\ left = [left EXCEPT ![t] = left[t]]
      /\ Nowhere \in Key /\ room.secret \in Secret
  BY <1>1 DEF Inv, Key, Figures
<1> HIDE DEF d
<1>4. ASSUME NEW k \in Key, Navigates(t, k) PROVE Inv'
  BY <1>2, <1>4, LoadsInv DEF Navigates
<1>5. ASSUME NEW k \in Key, Routes(t, k) PROVE Inv'
  <2> DEFINE x == [d EXCEPT !.at = k]
             e == MediaChanged(x)
  <2>1. Keep(t, e) /\ Figures' /\ left' = left
    BY <1>2, <1>5 DEF Routes, d
  <2>2. /\ x \in Doc /\ StoreFits(x.store, t) /\ Ours(x.own, t) /\ InSession(x)
        /\ x.store = d.store /\ x.sess = d.sess
    BY <1>1, AtPut
  <2> HIDE DEF x
  <2>3. Fits(e, t) /\ e.store = d.store /\ e.sess = d.sess
    BY <2>2, MediaChangedFits
  <2> HIDE DEF e
  <2> QED BY <2>1, <2>3, QuietInv DEF d
<1>6. CASE PressJoin(t)
  <2> DEFINE e == Join(d, room.secret)
  <2>1. Keep(t, e) /\ Figures' /\ left' = [left EXCEPT ![t] = "no"]
    BY <1>2, <1>6 DEF PressJoin, d
  <2>2. Fits(e, t) /\ Agrees(e.store, t, area)
    BY <1>1, <1>3, JoinFits
  <2> HIDE DEF e
  <2>3. Clean("no", e, t, area)
    BY DEF Clean
  <2> QED BY <2>1, <2>2, <2>3, KeepInv
<1>7. CASE PressLeave(t)
  <2> DEFINE e == Leave(d)
             l == IF About(Load(d), t) /\ Load(d) # d.own
                  THEN "owing" ELSE "clean"
  <2>1. Keep(t, e) /\ Figures' /\ left' = [left EXCEPT ![t] = l]
    BY <1>2, <1>7 DEF PressLeave, d
  <2>2. /\ Fits(e, t) /\ Agrees(e.store, t, area) /\ ~e.sess
        /\ ~(About(Load(d), t) /\ Load(d) # d.own) => ~About(NextRead(e.store, area), t)
    BY <1>1, LeaveFits
  <2> HIDE DEF e
  <2>3. Clean(l, e, t, area) /\ l \in {"no", "clean", "owing"}
    BY <2>2 DEF Clean, About
  <2> HIDE DEF l
  <2> QED BY <2>1, <2>2, <2>3, KeepInv
<1>8. CASE StayHere(t)
  <2> DEFINE x == [d EXCEPT !.stayed = d.room]
             c == CancelFollow(x)
             e == [c EXCEPT !.ui = "offer"]
  <2>1. Keep(t, e) /\ Figures' /\ left' = left /\ d.room \in Key
    BY <1>1, <1>2, <1>8, DocFields DEF StayHere, OfferMove, d
  <2>2. Fits(x, t) /\ x.store = d.store /\ x.sess = d.sess
    BY <1>1, <2>1, StayedPut
  <2> HIDE DEF x
  <2>3. Kept(x, c) /\ ~Going(c) /\ c.resume = x.resume /\ c.seen = x.seen /\ c \in Doc
    BY <2>2, CancelFits DEF Fits, Kept
  <2> HIDE DEF c
  <2>4. Kept(x, e) /\ ~Going(e) /\ e.ui = "offer" /\ e.resume = x.resume /\ e.seen = x.seen
    BY <2>3, PanelFits, KeptOfKept
  <2> HIDE DEF e
  <2>5. Fits(e, t) /\ e.store = d.store /\ e.sess = d.sess
    BY <2>2, <2>4 DEF Fits, Kept, InSession, Minded, OnRoomMedia, GoesWhereItMay
  <2> QED BY <2>1, <2>5, QuietInv DEF d
<1>9. CASE OpenRoom(t)
  <2> DEFINE x == [d EXCEPT !.stayed = Nowhere]
             e == FollowRoom(x)
  <2>1. Keep(t, e) /\ Figures' /\ left' = left
    BY <1>2, <1>9 DEF OpenRoom, d
  <2>2. Fits(x, t) /\ x.store = d.store /\ x.sess = d.sess
    BY <1>1, <1>3, StayedPut
  <2> HIDE DEF x
  <2>3. /\ Kept(x, e) /\ GoesWhereItMay(e) /\ e.seen = x.seen /\ e.resume = x.resume
        /\ e.conn = "joined" => OnRoomMedia(e) \/ e.ui # "none"
    BY <2>2, FollowRoomFits DEF Fits
  <2> HIDE DEF e
  <2>4. Fits(e, t) /\ e.store = d.store /\ e.sess = d.sess
    BY <2>2, <2>3 DEF Fits, Kept, InSession, Minded, OnRoomMedia
  <2> QED BY <2>1, <2>4, QuietInv DEF d
<1>10. CASE MoveHere(t)
  <2> DEFINE yes == TRUE
             x == [d EXCEPT !.asked = yes]
             e == [x EXCEPT !.ui = "none"]
  <2>1. Keep(t, e) /\ Figures' /\ left' = left /\ d.conn = "joined" /\ yes \in BOOLEAN /\ yes
    BY <1>2, <1>10 DEF MoveHere, ClearAction, d
  <2> HIDE DEF yes
  <2>2. /\ x \in Doc /\ x.at = d.at /\ x.sess = d.sess /\ x.conn = d.conn /\ x.own = d.own
        /\ x.store = d.store /\ x.room = d.room /\ x.asked = yes /\ x.timer = d.timer
        /\ x.writing = d.writing
    BY <1>1, <2>1 DEF Doc
  <2> HIDE DEF x
  <2>3. Kept(x, e) /\ (Going(e) <=> Going(x))
    BY <2>2, PanelFits
  <2> HIDE DEF e
  <2>4. Going(x) <=> Going(d)
    BY <2>2 DEF Going
  <2>5. Fits(e, t) /\ e.store = d.store /\ e.sess = d.sess
    BY <1>1, <2>1, <2>2, <2>3, <2>4 DEF Fits, Kept, InSession, Minded, GoesWhereItMay
  <2> QED BY <2>1, <2>5, QuietInv DEF d
<1>11. CASE PageShown(t)
  <2> DEFINE x == [d EXCEPT !.own = NoRecord, !.nav = NoNav]
             e == Leave(x)
  <2>1. Keep(t, e) /\ Figures' /\ left' = left /\ d.sess
    BY <1>2, <1>11 DEF PageShown, d
  <2>2. x \in Doc /\ x.store = d.store /\ x.own = NoRecord
    <3>1. NoNav \in Media \cup {NoNav} /\ NoRecord \in Stored
      BY NoRecordIsNobodys
    <3> HIDE DEF NoNav, NoRecord
    <3> QED BY <1>1, <3>1 DEF Doc
  <2> HIDE DEF x
  <2>3. StoreFits(x.store, t) /\ Agrees(x.store, t, area) /\ Ours(x.own, t)
    BY <1>1, <2>2, NoRecordIsNobodys
  <2>4. Fits(e, t) /\ Agrees(e.store, t, area)
    BY <2>2, <2>3, LeaveFits
  <2> HIDE DEF e
  <2>5. Clean(left[t], e, t, area)
    BY <1>1, <2>1 DEF Clean
  <2> QED BY <1>3, <2>1, <2>4, <2>5, KeepInv
<1> QED BY <1>4, <1>5, <1>6, <1>7, <1>8, <1>9, <1>10, <1>11 DEF Member

LEMMA LinkInv ==
  ASSUME Inv, NEW t \in Tab, LinkLost(t) \/ Welcomed(t)
  PROVE  Inv'
<1> DEFINE d == doc[t]
<1>1. d \in Doc /\ Fits(d, t) /\ StoreFits(d.store, t) /\ Ours(d.own, t) /\ Figures
  BY InvIs
<1>2. CASE LinkLost(t)
  <2> DEFINE e == Suspend(d)
  <2>1. Keep(t, e) /\ left' = left /\ d.conn = "joined" /\ Figures'
    BY <1>1, <1>2, FollowAssumption DEF LinkLost, Act, Figures
  <2>2. Fits(e, t) /\ e.store = d.store /\ e.sess = d.sess
    BY <1>1, <2>1, SuspendFits
  <2> HIDE DEF e
  <2> QED BY <2>1, <2>2, QuietInv
<1>3. CASE Welcomed(t)
  <2> DEFINE x == [d EXCEPT !.conn = "joined"]
             y == [d EXCEPT !.conn = "refused"]
             e == HearAnchor(x, room.key)
             z == IF d.secret = room.secret THEN e ELSE y
  <2>1. Keep(t, z) /\ left' = left /\ d.conn = "down" /\ Figures' /\ room.key \in Key
    BY <1>1, <1>3 DEF Welcomed, Figures
  <2>2. d.sess /\ ~Going(d) /\ (d.seen /\ d.resume = "none" => OnRoomMedia(d) \/ d.asked)
    BY <1>1, <2>1 DEF Fits, InSession, GoesWhereItMay, Minded
  <2>3. /\ x \in Doc /\ x.at = d.at /\ x.sess = d.sess /\ x.conn = "joined" /\ x.own = d.own
        /\ x.store = d.store /\ x.room = d.room /\ x.asked = d.asked /\ x.seen = d.seen
        /\ x.resume = d.resume /\ (Going(x) <=> Going(d))
        /\ y \in Doc /\ y.sess = d.sess /\ y.conn = "refused" /\ y.own = d.own
        /\ y.store = d.store /\ (Going(y) <=> Going(d))
    BY <1>1, ConnPut
  <2> HIDE DEF x, y
  <2>4. Fits(y, t) /\ y.store = d.store /\ y.sess = d.sess
    BY <1>1, <2>2, <2>3 DEF Fits, InSession, Minded, GoesWhereItMay
  <2>5. Fits(e, t) /\ e.store = d.store /\ e.sess = d.sess
    <3>1. GoesWhereItMay(x) /\ (x.seen /\ x.resume = "none" => OnRoomMedia(x) \/ x.asked)
      BY <2>2, <2>3 DEF GoesWhereItMay, OnRoomMedia
    <3>2. x.sess /\ StoreFits(x.store, t) /\ Ours(x.own, t)
      BY <1>1, <2>2, <2>3
    <3> HIDE DEF d
    <3> QED BY <2>1, <2>3, <3>1, <3>2, HearAnchorFits
  <2> HIDE DEF e
  <2>6. Fits(z, t) /\ z.store = d.store /\ z.sess = d.sess
    BY <2>4, <2>5
  <2> HIDE DEF z
  <2> QED BY <2>1, <2>6, QuietInv
<1> QED BY <1>2, <1>3

(* The room is heard by every member that is in it, and moves no record    *)
(* but theirs.                                                             *)
LEMMA RoomDoesInv ==
  ASSUME Inv, NEW k \in Key, NEW s \in Secret, RoomDoes(k, s),
         s <= moves', moves' \in 0..Moves
  PROVE  Inv'
<1> DEFINE old(u) == doc[u]
           put(u) == [old(u) EXCEPT !.secret = s]
           d(u) == IF s = room.secret THEN old(u) ELSE RefreshRejoin(put(u))
           e(u) == IF k = room.key THEN d(u) ELSE HearAnchor(d(u), k)
           n(u) == IF old(u).conn # "joined" THEN old(u) ELSE e(u)
<1>1. /\ room' = [key |-> k, secret |-> s] /\ doc' = [u \in Tab |-> n(u)]
      /\ UNCHANGED <<area, left, acts>>
  BY DEF RoomDoes
<1>2. ASSUME NEW u \in Tab
      PROVE  Fits(n(u), u) /\ Agrees(n(u).store, u, area) /\ Clean(left[u], n(u), u, area)
  <2>1. Fits(old(u), u) /\ Agrees(old(u).store, u, area) /\ Clean(left[u], old(u), u, area)
    BY InvIs
  <2>2. CASE old(u).conn # "joined"
    BY <2>1, <2>2
  <2>3. CASE old(u).conn = "joined"
    <3>1. n(u) = e(u)
      BY <2>3
    <3>2. old(u).sess
      BY <2>1, <2>3 DEF Fits, InSession
    <3>3. Fits(put(u), u) /\ put(u).store = old(u).store /\ put(u).sess = old(u).sess
          /\ put(u).conn = old(u).conn
      BY <2>1, SecretPut
    <3> HIDE DEF n, put
    <3>4. /\ Fits(RefreshRejoin(put(u)), u) /\ Agrees(RefreshRejoin(put(u)).store, u, area)
          /\ RefreshRejoin(put(u)).sess = put(u).sess /\ RefreshRejoin(put(u)).conn = put(u).conn
      <4> DEFINE x == put(u)
      <4>1. x \in Doc /\ Fits(x, u) /\ Agrees(x.store, u, area)
        BY <2>1, <3>3 DEF Fits
      <4> HIDE DEF x
      <4>2. /\ Fits(RefreshRejoin(x), u) /\ Agrees(RefreshRejoin(x).store, u, area)
            /\ RefreshRejoin(x).sess = x.sess /\ RefreshRejoin(x).conn = x.conn
        BY <4>1, RefreshFits
      <4> QED BY <4>2 DEF x
    <3>5. Fits(d(u), u) /\ Agrees(d(u).store, u, area) /\ d(u).sess /\ d(u).conn = "joined"
      BY <2>1, <2>3, <3>2, <3>3, <3>4
    <3> HIDE DEF d, old
    <3>6. Fits(HearAnchor(d(u), k), u) /\ HearAnchor(d(u), k).store = d(u).store
      <4> DEFINE x == d(u)
      <4>1. /\ x \in Doc /\ StoreFits(x.store, u) /\ Ours(x.own, u) /\ GoesWhereItMay(x)
            /\ OnRoomMedia(x) \/ x.ui # "none" \/ x.asked
        BY <3>5 DEF Fits, Minded
      <4>2. x.sess /\ x.conn = "joined"
        BY <3>5
      <4> HIDE DEF x
      <4>3. Fits(HearAnchor(x, k), u) /\ HearAnchor(x, k).store = x.store
        BY <4>1, <4>2, HearAnchorFits
      <4> QED BY <4>3 DEF x
    <3>7. Fits(e(u), u) /\ Agrees(e(u).store, u, area)
      BY <3>5, <3>6
    <3>8. left[u] # "clean"
      BY <2>1, <3>2 DEF Clean
    <3> QED BY <3>1, <3>7, <3>8 DEF Clean
  <2> QED BY <2>2, <2>3
<1> HIDE DEF n
<1>3. \A u \in Tab : doc'[u] = n(u) /\ n(u) \in Doc
  BY <1>1, <1>2 DEF Fits
<1>4. doc' \in [Tab -> Doc] /\ room' \in [key : Key, secret : Secret] /\ room'.secret = s
  BY <1>1, <1>3
<1>5. ASSUME NEW u \in Tab
      PROVE  Fits(doc'[u], u) /\ Agrees(doc'[u].store, u, area) /\ Clean(left[u], doc'[u], u, area)
  BY <1>2, <1>3
<1> QED BY <1>1, <1>4, <1>5 DEF Inv

LEMMA NextInv == Inv /\ [Next]_vars => Inv'
<1> SUFFICES ASSUME Inv, [Next]_vars PROVE Inv'
  OBVIOUS
<1>1. /\ room.key \in Key /\ room.secret \in Secret /\ room.secret \in Nat
      /\ moves \in Nat /\ room.secret <= moves
  BY FollowAssumption DEF Inv, Secret
<1>2. moves < Moves /\ moves' = moves + 1 =>
        /\ moves' \in 0..Moves /\ room.secret <= moves' /\ room.secret + 1 <= moves'
        /\ room.secret + 1 \in Secret
  BY <1>1, FollowAssumption DEF Secret
<1>3. ASSUME NEW t \in Tab,
             \/ StoreStep(t) \/ FollowStarts(t) \/ FollowResumes(t) \/ Arrives(t)
             \/ Member(t) \/ LinkLost(t) \/ Welcomed(t)
      PROVE  Inv'
  BY <1>3, StoreStepInv, FollowStartsInv, FollowResumesInv, ArrivesInv, MemberInv, LinkInv
<1>4. ASSUME NEW t \in Tab, ServerTakes(t) PROVE Inv'
  <2>1. doc[t].at \in Key
    BY InvIs, DocFields
  <2> QED BY <1>1, <1>2, <1>4, <2>1, RoomDoesInv DEF ServerTakes
<1>5. ASSUME NEW k \in Key, RoomMoves(k) PROVE Inv'
  BY <1>1, <1>2, <1>5, RoomDoesInv DEF RoomMoves
<1>6. CASE Rotated
  BY <1>1, <1>2, <1>6, RoomDoesInv DEF Rotated
<1>7. CASE UNCHANGED vars
  BY <1>7 DEF Inv, vars
<1> QED BY <1>3, <1>4, <1>5, <1>6, <1>7 DEF Next

(* Every tab writes and reads of the shared record what it may, and every   *)
(* follow goes where it may.                                                *)
THEOREM FollowCorrect == Spec => []Inv
BY InitInv, NextInv, PTL DEF Spec

(* A member who left on purpose is out of the room and stays out of it, on  *)
(* whatever page the tab shows next, unless an earlier page's record was    *)
(* still there when they left, or their document went before the erasure of *)
(* its own had landed; whatever the other tabs do with the store.           *)
THEOREM FollowLeftIsLeft == Spec => []LeftIsLeft
<1>1. Inv => LeftIsLeft
  BY DEF Inv, LeftIsLeft, Clean
<1> QED BY <1>1, FollowCorrect, PTL

(* A joined member off the room's media always has the way back on its      *)
(* panel, or has asked the room to come.                                    *)
THEOREM FollowNeverStranded == Spec => []NeverStranded
<1>1. Inv => NeverStranded
  BY DEF Inv, NeverStranded, Fits, Minded
<1> QED BY <1>1, FollowCorrect, PTL

-----------------------------------------------------------------------------
(* One tab.  Nobody else writes the area, so a pass whose write has landed *)
(* knows what is in it: its own record, which names the page it sends the  *)
(* document to.  Nothing that is still out, and may be dropped, is anything *)
(* but the same record with a newer secret; so the next document finds one *)
(* of them, whatever landed.                                               *)

(* A pass that may still send the document off is the newest, and no other *)
(* is going to start.                                                      *)
OnlyLast(d) == \A i \in 1..Len(d.writing) : d.writing[i].mine => i = Len(d.writing) /\ ~d.timer

(* Such a pass waits for every write that is out, unless its record went. *)
Flushed(d) ==
  \A i \in 1..Len(d.writing) :
    d.writing[i].mine => d.own = NoRecord \/ Len(d.store.writes) <= d.writing[i].left

(* What was sent off carries the session: the record that is in the area,   *)
(* and any that may still land.                                             *)
Names(r, k) == r # NoRecord /\ r.key = k
Carried(d, ar) ==
  d.sent => /\ d.sess /\ d.writing = <<>> /\ d.nav \in Media
            /\ Names(d.own, d.nav) /\ d.own.secret = d.secret
            /\ Names(ar, d.nav)
            /\ \A i \in 1..Len(d.store.writes) : Names(d.store.writes[i], d.nav)

Sure(d, ar) ==
  /\ Knows(d.store, ar)
  /\ d.own # NoRecord => d.store.cache = d.own
  /\ OnlyLast(d) /\ Flushed(d) /\ Carried(d, ar)

(* What the panel, the page and the link leave alone of all this. *)
Same(d, e) ==
  /\ e \in Doc /\ e.store = d.store /\ e.own = d.own /\ e.secret = d.secret /\ e.sess = d.sess
  /\ e.nav = d.nav /\ e.sent = d.sent
  /\ d.writing = <<>> => e.writing = <<>>
  /\ OnlyLast(d) => OnlyLast(e)
  /\ Flushed(d) => Flushed(e)

LEMMA SameOfSame ==
  ASSUME NEW c, NEW d, NEW e, Same(c, d), Same(d, e)
  PROVE  Same(c, e)
BY DEF Same

LEMMA SameIsSure ==
  ASSUME NEW d, NEW e, NEW ar, Sure(d, ar), Same(d, e)
  PROVE  Sure(e, ar)
BY DEF Same, Sure, Carried

(* A change of nothing but where the member is and what it sees. *)
LEMMA OtherFieldsSame ==
  ASSUME NEW d, NEW e \in Doc, e.store = d.store, e.own = d.own, e.secret = d.secret,
         e.sess = d.sess, e.nav = d.nav, e.sent = d.sent, e.timer = d.timer, e.writing = d.writing
  PROVE  Same(d, e)
BY DEF Same, OnlyLast, Flushed

LEMMA CancelSame ==
  ASSUME NEW d \in Doc
  PROVE  Same(d, CancelFollow(d)) /\ ~Going(CancelFollow(d))
<1> DEFINE w == [i \in DOMAIN d.writing |-> [d.writing[i] EXCEPT !.mine = FALSE]]
           no == FALSE
           c == [d EXCEPT !.timer = no, !.writing = w]
<1>1. d.writing \in Seq(Pass)
  BY DocFields
<1>2. \A x \in Pass : [x EXCEPT !.mine = FALSE] \in Pass
  BY DEF Pass
<1>3. w \in Seq(Pass) /\ (d.writing = <<>> => w = <<>>)
  BY <1>1, <1>2
<1>4. no \in BOOLEAN /\ CancelFollow(d) = c
  BY DEF CancelFollow
<1>5. ~Going(CancelFollow(d)) /\ CancelFollow(d) \in Doc
  BY CancelFits DEF Kept
<1> HIDE DEF w, no
<1>6. /\ c.store = d.store /\ c.own = d.own /\ c.secret = d.secret /\ c.sess = d.sess
      /\ c.nav = d.nav /\ c.sent = d.sent /\ c.writing = w
  BY <1>3, <1>4 DEF Doc, Pass
<1> HIDE DEF c
<1>7. OnlyLast(c) /\ Flushed(c)
  BY <1>4, <1>5 DEF OnlyLast, Flushed, Going
<1> QED BY <1>3, <1>4, <1>5, <1>6, <1>7 DEF Same

LEMMA PanelSame ==
  ASSUME NEW d \in Doc, NEW k \in {"none", "follow", "offer"}
  PROVE  Same(d, [d EXCEPT !.ui = k])
<1> DEFINE e == [d EXCEPT !.ui = k]
<1>1. /\ e \in Doc /\ e.store = d.store /\ e.own = d.own /\ e.secret = d.secret /\ e.sess = d.sess
      /\ e.nav = d.nav /\ e.sent = d.sent /\ e.timer = d.timer /\ e.writing = d.writing
  BY DEF Doc
<1> HIDE DEF e
<1> QED BY <1>1, OtherFieldsSame DEF e

LEMMA ResumeSame ==
  ASSUME NEW d \in Doc, NEW k \in {"none", "follow", "offer"}
  PROVE  Same(d, [d EXCEPT !.resume = k])
<1> DEFINE e == [d EXCEPT !.resume = k]
<1>1. /\ e \in Doc /\ e.store = d.store /\ e.own = d.own /\ e.secret = d.secret /\ e.sess = d.sess
      /\ e.nav = d.nav /\ e.sent = d.sent /\ e.timer = d.timer /\ e.writing = d.writing
  BY DEF Doc
<1> HIDE DEF e
<1> QED BY <1>1, OtherFieldsSame DEF e

LEMMA AtSame ==
  ASSUME NEW d \in Doc, NEW k \in Key
  PROVE  Same(d, [d EXCEPT !.at = k]) /\ Same(d, [d EXCEPT !.stayed = k])
<1> DEFINE e == [d EXCEPT !.at = k]
           f == [d EXCEPT !.stayed = k]
<1>1. /\ e \in Doc /\ e.store = d.store /\ e.own = d.own /\ e.secret = d.secret /\ e.sess = d.sess
      /\ e.nav = d.nav /\ e.sent = d.sent /\ e.timer = d.timer /\ e.writing = d.writing
  BY DEF Doc
<1>2. /\ f \in Doc /\ f.store = d.store /\ f.own = d.own /\ f.secret = d.secret /\ f.sess = d.sess
      /\ f.nav = d.nav /\ f.sent = d.sent /\ f.timer = d.timer /\ f.writing = d.writing
  BY DEF Doc
<1> HIDE DEF e, f
<1> QED BY <1>1, <1>2, OtherFieldsSame DEF e, f

LEMMA AskedSame ==
  ASSUME NEW d \in Doc, NEW b \in BOOLEAN
  PROVE  Same(d, [d EXCEPT !.asked = b])
<1> DEFINE e == [d EXCEPT !.asked = b]
<1>1. /\ e \in Doc /\ e.store = d.store /\ e.own = d.own /\ e.secret = d.secret /\ e.sess = d.sess
      /\ e.nav = d.nav /\ e.sent = d.sent /\ e.timer = d.timer /\ e.writing = d.writing
  BY DEF Doc
<1> HIDE DEF e
<1> QED BY <1>1, OtherFieldsSame DEF e

LEMMA ConnSame ==
  ASSUME NEW d \in Doc, NEW k \in {"off", "down", "joined", "refused"}
  PROVE  Same(d, [d EXCEPT !.conn = k])
<1> DEFINE e == [d EXCEPT !.conn = k]
<1>1. /\ e \in Doc /\ e.store = d.store /\ e.own = d.own /\ e.secret = d.secret /\ e.sess = d.sess
      /\ e.nav = d.nav /\ e.sent = d.sent /\ e.timer = d.timer /\ e.writing = d.writing
  BY DEF Doc
<1> HIDE DEF e
<1> QED BY <1>1, OtherFieldsSame DEF e

LEMMA FollowRoomSame ==
  ASSUME NEW d \in Doc
  PROVE  Same(d, FollowRoom(d))
<1> DEFINE c == CancelFollow(d)
           yes == TRUE
           clear == [c EXCEPT !.ui = "none"]
           offer == [c EXCEPT !.ui = "offer"]
           go == [c EXCEPT !.ui = "follow", !.timer = yes]
<1>1. Same(d, c) /\ ~Going(c) /\ c \in Doc /\ yes \in BOOLEAN
  BY CancelSame DEF Same
<1>2. FollowRoom(d) =
        IF d.conn # "joined" THEN c
        ELSE IF OnRoomMedia(d) THEN clear
        ELSE IF d.room = Nowhere \/ d.room \notin Followable \/ d.stayed = d.room THEN offer
        ELSE go
  BY DEF FollowRoom, ClearAction, OfferMove
<1> HIDE DEF c, yes
<1>3. Same(d, clear) /\ Same(d, offer)
  BY <1>1, PanelSame, SameOfSame
<1>4. /\ go \in Doc /\ go.store = c.store /\ go.own = c.own /\ go.secret = c.secret
      /\ go.sess = c.sess /\ go.nav = c.nav /\ go.sent = c.sent /\ go.writing = c.writing
  BY <1>1 DEF Doc
<1> HIDE DEF clear, offer, go
<1>5. OnlyLast(go) /\ Flushed(go)
  BY <1>1, <1>4 DEF OnlyLast, Flushed, Going
<1>6. Same(d, go)
  BY <1>1, <1>4, <1>5 DEF Same
<1> QED BY <1>1, <1>2, <1>3, <1>6

LEMMA MediaChangedSame ==
  ASSUME NEW d \in Doc
  PROVE  Same(d, MediaChanged(d))
<1> DEFINE c == CancelFollow(d)
<1>1. Same(d, c) /\ c \in Doc
  BY CancelSame DEF Same
<1>2. MediaChanged(d) = IF ~d.sess THEN c
                        ELSE IF d.conn # "joined" THEN [c EXCEPT !.resume = "offer"]
                        ELSE IF OnRoomMedia(d) THEN [c EXCEPT !.ui = "none"]
                        ELSE [c EXCEPT !.ui = "offer"]
  BY DEF MediaChanged, ClearAction, OfferMove
<1> HIDE DEF c
<1>3. /\ Same(d, [c EXCEPT !.resume = "offer"]) /\ Same(d, [c EXCEPT !.ui = "none"])
      /\ Same(d, [c EXCEPT !.ui = "offer"])
  BY <1>1, PanelSame, ResumeSame, SameOfSame
<1> QED BY <1>1, <1>2, <1>3

LEMMA HearAnchorSame ==
  ASSUME NEW d \in Doc, NEW k \in Key
  PROVE  Same(d, HearAnchor(d, k))
<1> DEFINE yes == TRUE
           asked == d.asked /\ k = d.room
           r == [d EXCEPT !.resume = "none", !.seen = yes, !.room = k, !.asked = asked]
<1>1. yes \in BOOLEAN /\ asked \in BOOLEAN
  BY DocFields
<1>2. HearAnchor(d, k) =
        IF ~d.seen \/ k # d.room \/ d.resume = "follow" THEN FollowRoom(r)
        ELSE IF d.resume = "offer"
        THEN IF OnRoomMedia(r) THEN [r EXCEPT !.ui = "none"] ELSE [r EXCEPT !.ui = "offer"]
        ELSE r
  BY DEF HearAnchor, ClearAction, OfferMove
<1> HIDE DEF yes, asked
<1>3. /\ r \in Doc /\ r.store = d.store /\ r.own = d.own /\ r.secret = d.secret /\ r.sess = d.sess
      /\ r.nav = d.nav /\ r.sent = d.sent /\ r.timer = d.timer /\ r.writing = d.writing
  BY <1>1 DEF Doc
<1> HIDE DEF r
<1>4. Same(d, r)
  BY <1>3, OtherFieldsSame
<1>5. /\ Same(d, FollowRoom(r)) /\ Same(d, [r EXCEPT !.ui = "none"])
      /\ Same(d, [r EXCEPT !.ui = "offer"])
  BY <1>3, <1>4, FollowRoomSame, PanelSame, SameOfSame
<1> QED BY <1>2, <1>4, <1>5

LEMMA SuspendSame ==
  ASSUME NEW d \in Doc
  PROVE  Same(d, Suspend(d))
<1> DEFINE c == CancelFollow(d)
           clear == [c EXCEPT !.ui = "none"]
           resume == IF d.ui # "none" THEN d.ui ELSE clear.resume
           e == [clear EXCEPT !.conn = "down", !.resume = resume]
<1>1. Same(d, c) /\ c \in Doc
  BY CancelSame DEF Same
<1>2. Suspend(d) = e
  BY DEF Suspend, ClearAction
<1> HIDE DEF c
<1>3. Same(d, clear) /\ clear \in Doc
  BY <1>1, PanelSame, SameOfSame DEF Same
<1> HIDE DEF clear
<1>4. resume \in {"none", "follow", "offer"}
  BY <1>3, DocFields
<1> HIDE DEF resume
<1>5. /\ e \in Doc /\ e.store = clear.store /\ e.own = clear.own /\ e.secret = clear.secret
      /\ e.sess = clear.sess /\ e.nav = clear.nav /\ e.sent = clear.sent
      /\ e.timer = clear.timer /\ e.writing = clear.writing
  BY <1>3, <1>4 DEF Doc
<1> HIDE DEF e
<1> QED BY <1>2, <1>3, <1>5, OtherFieldsSame, SameOfSame

(* A record of a session is a record. *)
LEMMA NoRecordIsNoRecord == NoRecord \notin Record
<1> SUFFICES ASSUME NoRecord \in Record PROVE FALSE
  OBVIOUS
<1>1. DOMAIN NoRecord = {"tab"}
  BY DEF NoRecord
<1>2. "key" \in DOMAIN NoRecord
  BY DEF Record
<1> QED BY <1>1, <1>2

LEMMA KnowsAgrees ==
  ASSUME NEW s, NEW t, NEW ar, Knows(s, ar)
  PROVE  Agrees(s, t, ar)
BY DEF Knows, Agrees, NextRead

(* A document that has not been sent off and has no record of its own. *)
LEMMA NothingCarried ==
  ASSUME NEW d, NEW ar, Knows(d.store, ar), d.own = NoRecord, OnlyLast(d), ~d.sent
  PROVE  Sure(d, ar)
BY DEF Sure, Carried, Flushed

LEMMA StorePutSure ==
  ASSUME NEW t, NEW d, Fits(d, t), NEW ar, Sure(d, ar),
         NEW x, StoreFits(x, t), x.cache = d.store.cache, x.writes = d.store.writes, Knows(x, ar)
  PROVE  Sure([d EXCEPT !.store = x], ar)
<1> DEFINE e == [d EXCEPT !.store = x]
<1>1. d \in Doc /\ x \in StoreOf(Stored)
  BY DEF Fits, StoreFits
<1>2. /\ e.store = x /\ e.own = d.own /\ e.secret = d.secret /\ e.sess = d.sess
      /\ e.nav = d.nav /\ e.sent = d.sent /\ e.timer = d.timer /\ e.writing = d.writing
  BY <1>1 DEF Doc
<1> HIDE DEF e
<1>3. Sure(e, ar)
  BY <1>2 DEF Sure, Carried, OnlyLast, Flushed
<1> QED BY <1>3 DEF e

LEMMA ForgetSure ==
  ASSUME NEW d \in Doc, NEW t, NEW ar, StoreFits(d.store, t), Knows(d.store, ar), OnlyLast(d),
         ~d.sent
  PROVE  LET e == ForgetRejoin(d) IN Sure(e, ar) /\ e \in Doc
<1> DEFINE drop == d.own # NoRecord /\ Load(d) = d.own
           x == Saved(d.store, NoRecord)
           y == IF drop THEN x ELSE d.store
           z == [d EXCEPT !.store = y]
           e == [z EXCEPT !.own = NoRecord]
<1>1. StoreFits(x, t) /\ Knows(x, ar)
  BY SavedFits, NoRecordIsNobodys
<1>2. y \in StoreOf(Stored) /\ Knows(y, ar)
  BY <1>1 DEF StoreFits
<1>3. ForgetRejoin(d) = e
  <2>1. d = [d EXCEPT !.store = d.store]
    BY DEF Doc
  <2> QED BY <2>1 DEF ForgetRejoin, Save
<1> HIDE DEF y
<1>4. /\ e \in Doc /\ e.store = y /\ e.own = NoRecord /\ e.timer = d.timer
      /\ e.writing = d.writing /\ e.sent = d.sent
  BY <1>2, NoRecordIsNobodys DEF Doc
<1> HIDE DEF e
<1>5. Sure(e, ar)
  BY <1>2, <1>4, NothingCarried DEF OnlyLast
<1> QED BY <1>3, <1>4, <1>5

LEMMA LeaveSure ==
  ASSUME NEW d \in Doc, NEW t, NEW ar, StoreFits(d.store, t), Knows(d.store, ar)
  PROVE  LET e == Leave(d)
         IN  e \in Doc /\ Sure(e, ar) /\ e.own = NoRecord /\ ~e.sent /\ ~Going(e)
<1> DEFINE no == FALSE
           c == CancelFollow(d)
           drop == c.own # NoRecord /\ Load(c) = c.own
           x == Saved(c.store, NoRecord)
           y == IF drop THEN x ELSE c.store
           f == [[c EXCEPT !.store = y] EXCEPT !.own = NoRecord]
           e == [f EXCEPT !.sess = no, !.conn = "off", !.seen = no, !.room = Nowhere,
                          !.stayed = Nowhere, !.ui = "none", !.resume = "none", !.asked = no,
                          !.sent = no]
<1>1. no \in BOOLEAN /\ ~no
  OBVIOUS
<1>2. Same(d, c) /\ ~Going(c) /\ c \in Doc
  BY CancelSame DEF Same
<1>3. ForgetRejoin(c) = f
  <2>1. c = [c EXCEPT !.store = c.store]
    BY <1>2 DEF Doc
  <2> HIDE DEF c
  <2> QED BY <2>1 DEF ForgetRejoin, Save
<1>4. Leave(d) = e
  BY <1>3 DEF Leave
<1> HIDE DEF c, no
<1>5. StoreFits(x, t) /\ Knows(x, ar)
  BY <1>2, SavedFits, NoRecordIsNobodys DEF Same
<1>6. y \in StoreOf(Stored) /\ Knows(y, ar)
  BY <1>2, <1>5 DEF StoreFits, Same
<1> HIDE DEF y
<1>7. /\ f \in Doc /\ f.store = y /\ f.own = NoRecord /\ f.timer = c.timer
      /\ f.writing = c.writing
  BY <1>2, <1>6, NoRecordIsNobodys DEF Doc
<1> HIDE DEF f
<1>8. Nowhere \in Key
  BY DEF Key
<1>9. /\ e \in Doc /\ e.own = f.own /\ e.store = f.store /\ e.sent = no
      /\ e.timer = f.timer /\ e.writing = f.writing
  BY <1>1, <1>7, <1>8 DEF Doc
<1> HIDE DEF e
<1>10. ~Going(e) /\ OnlyLast(e)
  BY <1>2, <1>7, <1>9 DEF Going, OnlyLast
<1>11. Sure(e, ar)
  BY <1>1, <1>6, <1>7, <1>9, <1>10, NothingCarried
<1> QED BY <1>1, <1>4, <1>7, <1>9, <1>10, <1>11

LEMMA JoinSure ==
  ASSUME NEW d \in Doc, NEW t, NEW ar, StoreFits(d.store, t), Knows(d.store, ar), NEW s \in Secret
  PROVE  LET e == Join(d, s) IN Sure(e, ar) /\ e.sess /\ e.secret = s
<1> DEFINE yes == TRUE
           l == Leave(d)
           e == [l EXCEPT !.sess = yes, !.secret = s, !.conn = "down"]
<1>1. yes \in BOOLEAN /\ yes /\ Join(d, s) = e
  BY DEF Join
<1>2. l \in Doc /\ Sure(l, ar) /\ l.own = NoRecord /\ ~l.sent
  BY LeaveSure
<1> HIDE DEF yes, l
<1>3. /\ e.own = l.own /\ e.store = l.store /\ e.sess = yes /\ e.secret = s
      /\ e.sent = l.sent /\ e.timer = l.timer /\ e.writing = l.writing
  BY <1>1, <1>2 DEF Doc
<1> HIDE DEF e
<1>4. Sure(e, ar)
  BY <1>2, <1>3, NothingCarried DEF Sure, OnlyLast
<1> QED BY <1>1, <1>3, <1>4

(* A secret that rotates is carried by what was sent off: refreshRejoin.   *)
LEMMA RotatedSure ==
  ASSUME NEW t, NEW d, Fits(d, t), NEW ar, Sure(d, ar), NEW s \in Secret
  PROVE  Sure(RefreshRejoin([d EXCEPT !.secret = s]), ar)
<1> DEFINE x == [d EXCEPT !.secret = s]
           wants == /\ x.writing = <<>> /\ x.own # NoRecord /\ x.sess /\ Load(x) = x.own
                    /\ x.own.secret # x.secret
           r == [x.own EXCEPT !.secret = x.secret]
           y == Saved(x.store, r)
           e == [[x EXCEPT !.store = y] EXCEPT !.own = r]
<1>1. RefreshRejoin(x) = IF wants THEN e ELSE x
  BY DEF RefreshRejoin, Save
<1>2. d \in Doc
  BY DEF Fits
<1>3. /\ x \in Doc /\ x.store = d.store /\ x.own = d.own /\ x.secret = s /\ x.sess = d.sess
      /\ x.nav = d.nav /\ x.sent = d.sent /\ x.timer = d.timer /\ x.writing = d.writing
  BY <1>2 DEF Doc
<1> HIDE DEF x
<1>4. /\ OnlyLast(x) /\ Flushed(x) /\ Knows(x.store, ar)
      /\ x.own # NoRecord => Load(x) = x.own
  BY <1>3 DEF Sure, OnlyLast, Flushed, Load
<1>5. CASE ~wants
  <2>1. Carried(x, ar)
    BY <1>3, <1>4, <1>5 DEF Sure, Carried, Names
  <2> QED BY <1>1, <1>3, <1>4, <1>5, <2>1 DEF Sure, x, Load
<1>6. CASE wants
  <2>1. x.own \in Record /\ x.own.tab = t
    BY <1>3, <1>6, DocFields DEF Stored, Fits, Ours
  <2>2. r \in Record /\ r.tab = t /\ r.key = x.own.key /\ r.secret = s
    BY <1>3, <2>1 DEF Record
  <2> HIDE DEF r
  <2>3. r \in Stored /\ Ours(r, t) /\ StoreFits(x.store, t)
    BY <1>3, <2>2 DEF Stored, Ours, Fits
  <2>4. StoreFits(y, t) /\ y.cache = r /\ Knows(y, ar) /\ y.writes = Append(x.store.writes, r)
    BY <2>3, SavedFits
  <2> HIDE DEF y
  <2>5. y \in StoreOf(Stored)
    BY <2>4 DEF StoreFits
  <2>6. /\ e.store = y /\ e.own = r /\ e.secret = x.secret /\ e.sess = x.sess
        /\ e.nav = x.nav /\ e.sent = x.sent /\ e.timer = x.timer /\ e.writing = x.writing
    BY <1>3, <2>3, <2>5 DEF Doc
  <2> HIDE DEF e
  <2>7. OnlyLast(e) /\ Flushed(e)
    BY <1>4, <1>6, <2>6 DEF OnlyLast, Flushed
  <2>8. r # NoRecord
    BY <2>2, NoRecordIsNoRecord
  <2>9. Carried(e, ar)
    <3> SUFFICES ASSUME e.sent PROVE Carried(e, ar)
      BY DEF Carried
    <3>1. Carried(d, ar) /\ d.sent
      BY <1>3, <2>6 DEF Sure
    <3>2. Names(r, e.nav)
      BY <1>3, <2>2, <2>6, <2>8, <3>1 DEF Carried, Names
    <3>3. ASSUME NEW i \in 1..Len(y.writes) PROVE Names(y.writes[i], e.nav)
      <4>1. x.store.writes \in Seq(Stored) /\ r \in Stored
        BY <2>3, StoreFields
      <4>2. /\ Len(y.writes) = Len(x.store.writes) + 1 /\ Len(x.store.writes) \in Nat
            /\ \A j \in 1..Len(x.store.writes) : y.writes[j] = x.store.writes[j]
            /\ y.writes[Len(x.store.writes) + 1] = r
        BY <2>4, <4>1, AppendProperties
      <4>3. CASE i \in 1..Len(x.store.writes)
        BY <1>3, <2>6, <3>1, <4>2, <4>3 DEF Carried
      <4>4. CASE i = Len(x.store.writes) + 1
        BY <3>2, <4>2, <4>4
      <4> QED BY <3>3, <4>2, <4>3, <4>4
    <3> QED BY <1>3, <2>2, <2>6, <3>1, <3>2, <3>3 DEF Carried
  <2>10. Sure(e, ar)
    BY <2>4, <2>6, <2>7, <2>9 DEF Sure
  <2> QED BY <1>1, <1>6, <2>10 DEF x
<1> QED BY <1>5, <1>6

(* What a document that loads finds in its cache. *)
LEMMA FreshSure ==
  ASSUME NEW k \in Key, NEW n \in 0..Passes, NEW r \in Stored
  PROVE  LET f == Fresh(k, n, r) IN Sure(f, r) /\ f.at = k /\ Load(f) = r
<1> DEFINE f == Fresh(k, n, r)
           s == Opened(r)
<1>1. /\ s.cache = r /\ s.writes = <<>> /\ s.back = Idle
  BY DEF Opened
<1>2. Knows(s, r)
  BY <1>1, Backs DEF Knows, NextRead
<1> HIDE DEF s
<1>3. f.at = k /\ f.store = s /\ f.own = NoRecord /\ ~f.timer /\ f.writing = <<>> /\ ~f.sent
  BY DEF Fresh, s
<1> HIDE DEF f
<1>4. Sure(f, r)
  BY <1>2, <1>3, NothingCarried DEF OnlyLast
<1> QED BY <1>1, <1>3, <1>4 DEF Load, f

(* A record of this tab that names this page is taken up. *)
LEMMA StartupSure ==
  ASSUME NEW t \in Tab, NEW k \in Key, NEW n \in 0..Passes, NEW r \in Stored
  PROVE  LET e == Startup(t, Fresh(k, n, r))
         IN  /\ Sure(e, r)
             /\ About(r, t) /\ r.key = k => e.sess /\ e.secret = r.secret
<1> DEFINE f == Fresh(k, n, r)
           e == Startup(t, f)
           x == Saved(f.store, NoRecord)
           warned == [r EXCEPT !.warned = TRUE]
           y == Saved(f.store, warned)
           g == [f EXCEPT !.store = x]
           h == [f EXCEPT !.store = y]
<1>1. Fits(f, t) /\ Sure(f, r) /\ Load(f) = r /\ f.own = NoRecord /\ f.at = k
  BY FreshFits, FreshSure
<1> HIDE DEF f
<1>2. e = IF ~About(r, t) THEN f
          ELSE IF r.key = f.at THEN Join(g, r.secret)
          ELSE IF ~r.warned THEN h ELSE f
  BY <1>1 DEF Startup, Save, About
<1> HIDE DEF e
<1>3. CASE ~About(r, t)
  BY <1>1, <1>2, <1>3 DEF e, f
<1>4. CASE About(r, t)
  <2>1. r \in Record /\ r.tab = t /\ r.secret \in Secret
    BY <1>4 DEF About, Stored, Record
  <2>2. warned \in Record /\ warned.tab = t
    <3>1. TRUE \in BOOLEAN
      OBVIOUS
    <3> QED BY <2>1, <3>1 DEF Record
  <2> HIDE DEF warned
  <2>3. warned \in Stored /\ Ours(warned, t) /\ StoreFits(f.store, t) /\ f \in Doc
    BY <1>1, <2>2 DEF Stored, Ours, Fits
  <2>4. StoreFits(x, t) /\ Knows(x, r) /\ StoreFits(y, t) /\ Knows(y, r)
    BY <2>3, SavedFits, NoRecordIsNobodys
  <2> HIDE DEF x, y
  <2>4a. y \in StoreOf(Stored)
    BY <2>4 DEF StoreFits
  <2>5. Fits(g, t) /\ g.store = x
    BY <1>1, <2>4, StorePut
  <2>6. /\ h.store = y /\ h.own = f.own /\ h.sent = f.sent /\ h.timer = f.timer
        /\ h.writing = f.writing
    BY <2>3, <2>4a DEF Doc
  <2> HIDE DEF g, h
  <2>7. /\ Sure(Join(g, r.secret), r) /\ Join(g, r.secret).sess
        /\ Join(g, r.secret).secret = r.secret
    BY <2>1, <2>4, <2>5, JoinSure DEF Fits
  <2>8. Sure(h, r)
    <3>1. OnlyLast(h) /\ ~f.sent
      BY <2>6 DEF OnlyLast, Fresh, f
    <3> QED BY <1>1, <2>4, <2>6, <3>1, NothingCarried
  <2> QED BY <1>1, <1>2, <1>4, <2>7, <2>8 DEF e, f
<1> QED BY <1>3, <1>4

(* A pass saves the record of the session there is, and it is what the tab *)
(* reads next.                                                             *)
LEMMA WroteSure ==
  ASSUME NEW t \in Tab, NEW d, Fits(d, t), NEW p \in 1..Passes, d.room \in Media, NEW ar
  PROVE  LET w == Wrote(t, d, p)
         IN  /\ w \in Doc /\ Knows(w.store, ar) /\ w.store.cache = w.own
             /\ w.own.key = d.room /\ w.own.secret = d.secret /\ w.own \in Record
             /\ w.writing = d.writing /\ w.timer = d.timer /\ w.sent = d.sent
<1> DEFINE r == [tab |-> t, key |-> d.room, secret |-> d.secret, pass |-> p, warned |-> FALSE]
           x == Saved(d.store, r)
           w == [[d EXCEPT !.store = x] EXCEPT !.own = r]
<1>1. d \in Doc /\ StoreFits(d.store, t) /\ d.secret \in Secret
  BY DocFields DEF Fits
<1>2. r \in Record /\ r.tab = t /\ r.key = d.room /\ r.secret = d.secret
  BY <1>1 DEF Record
<1>3. Wrote(t, d, p) = w
  BY DEF Wrote, Save
<1> HIDE DEF r
<1>4. r \in Stored /\ Ours(r, t)
  BY <1>2 DEF Stored, Ours
<1>5. StoreFits(x, t) /\ x.cache = r /\ Knows(x, ar)
  BY <1>1, <1>4, SavedFits
<1> HIDE DEF x
<1>6. x \in StoreOf(Stored)
  BY <1>5 DEF StoreFits
<1>7. /\ w \in Doc /\ w.own = r /\ w.store = x /\ w.timer = d.timer /\ w.writing = d.writing
      /\ w.sent = d.sent
  BY <1>1, <1>4, <1>6 DEF Doc
<1> HIDE DEF w
<1> QED BY <1>2, <1>3, <1>5, <1>7

-----------------------------------------------------------------------------
(* The steps, of the one tab there is.                                     *)

OneTab == \A t, u \in Tab : t = u

Alone ==
  /\ lost \in [Tab -> BOOLEAN]
  /\ \A t \in Tab : Sure(doc[t], area) /\ ~lost[t]

LEMMA KeepAlone ==
  ASSUME OneTab, Inv, Alone, NEW t \in Tab, NEW e, Keep(t, e), lost' = lost, Sure(e, area)
  PROVE  Alone'
<1>1. doc' = [doc EXCEPT ![t] = e] /\ area' = area /\ doc \in [Tab -> Doc]
  BY DEF Keep, Inv
<1>2. doc'[t] = e /\ \A u \in Tab : u = t
  BY <1>1 DEF OneTab
<1> QED BY <1>1, <1>2 DEF Alone

LEMMA SameAlone ==
  ASSUME OneTab, Inv, Alone, NEW t \in Tab, NEW e, Keep(t, e), lost' = lost, Same(doc[t], e)
  PROVE  Alone'
<1>1. Sure(e, area)
  BY SameIsSure DEF Alone
<1> QED BY <1>1, KeepAlone

(* The area takes v, and the tab hears of it if that is new. *)
LEMMA AreaAlone ==
  ASSUME OneTab, Inv, Alone, NEW t \in Tab, NEW e, NEW v \in Stored,
         AreaBecomes(v, [doc EXCEPT ![t] = e]), lost' = [lost EXCEPT ![t] = FALSE],
         Fits(e, t), Sure(e, v)
  PROVE  Alone'
<1> DEFINE ds == [doc EXCEPT ![t] = e]
           x == Notified(e.store)
<1>1. /\ area' = v /\ ds[t] = e /\ \A u \in Tab : u = t
      /\ doc' = IF v = area THEN ds ELSE [u \in Tab |-> [ds[u] EXCEPT !.store = Notified(@)]]
  BY DEF AreaBecomes, Inv, OneTab
<1>2. lost' \in [Tab -> BOOLEAN] /\ \A u \in Tab : ~lost'[u]
  BY <1>1 DEF Alone
<1> HIDE DEF ds
<1>3. CASE v = area
  BY <1>1, <1>2, <1>3 DEF Alone
<1>4. CASE v # area
  <2>1. doc'[t] = [e EXCEPT !.store = x]
    BY <1>1, <1>4
  <2>2. StoreFits(x, t) /\ x.cache = e.store.cache /\ x.writes = e.store.writes /\ Knows(x, v)
    <3>1. StoreFits(e.store, t) /\ Knows(e.store, v) /\ Agrees(e.store, t, v)
      BY KnowsAgrees DEF Fits, Sure
    <3> QED BY <3>1, StoreStepFits
  <2> HIDE DEF x
  <2>3. Sure(doc'[t], v)
    BY <2>1, <2>2, StorePutSure
  <2> QED BY <1>1, <1>2, <2>3 DEF Alone
<1> QED BY <1>3, <1>4

LEMMA AloneIs ==
  ASSUME Inv, Alone, NEW t \in Tab
  PROVE  /\ doc[t] \in Doc /\ Fits(doc[t], t) /\ Sure(doc[t], area) /\ Knows(doc[t].store, area)
         /\ StoreFits(doc[t].store, t) /\ area \in Stored
         /\ room.key \in Key /\ room.secret \in Secret
         /\ lost = [lost EXCEPT ![t] = FALSE]
<1>1. lost[t] = FALSE
  BY DEF Alone
<1>2. lost = [lost EXCEPT ![t] = FALSE]
  BY <1>1 DEF Alone
<1> QED BY <1>2, InvIs DEF Alone, Sure, Figures

LEMMA StoreStepAlone ==
  ASSUME OneTab, Inv, Alone, NEW t \in Tab, StoreStep(t)
  PROVE  Alone'
<1> DEFINE d == doc[t]
<1>1. /\ d \in Doc /\ Fits(d, t) /\ Sure(d, area) /\ Knows(d.store, area) /\ StoreFits(d.store, t)
      /\ area \in Stored /\ lost = [lost EXCEPT ![t] = FALSE] /\ Agrees(d.store, t, area)
  BY AloneIs, KnowsAgrees
<1>2. ASSUME NEW x, StoreFits(x, t), Knows(x, area), x.cache = d.store.cache,
             x.writes = d.store.writes,
             Keep(t, [d EXCEPT !.store = x]), lost' = lost
      PROVE  Alone'
  <2>1. Sure([d EXCEPT !.store = x], area)
    BY <1>1, <1>2, StorePutSure
  <2> QED BY <1>2, <2>1, KeepAlone
<1>3. CASE Hear(t)
  <2> DEFINE x == Heard(d.store)
  <2>1. Keep(t, [d EXCEPT !.store = x]) /\ lost' = lost
    BY <1>3 DEF Hear
  <2>2. StoreFits(x, t) /\ Knows(x, area) /\ x.cache = d.store.cache /\ x.writes = d.store.writes
    BY <1>1, StoreStepFits
  <2> HIDE DEF x
  <2> QED BY <1>2, <2>1, <2>2
<1>4. CASE Read(t)
  <2> DEFINE x == ReadBack(d.store, area)
  <2>1. Keep(t, [d EXCEPT !.store = x]) /\ lost' = lost
    BY <1>4 DEF Read
  <2>2. StoreFits(x, t) /\ Knows(x, area) /\ x.cache = d.store.cache /\ x.writes = d.store.writes
    BY <1>1, StoreStepFits
  <2> HIDE DEF x
  <2> QED BY <1>2, <2>1, <2>2
<1>5. CASE Settle(t)
  <2> DEFINE x == Settled(d.store)
  <2>1. Keep(t, [d EXCEPT !.store = x]) /\ lost' = lost
    BY <1>5 DEF Settle
  <2>2. StoreFits(x, t) /\ Knows(x, area) /\ x.cache = d.store.cache /\ x.writes = d.store.writes
    BY <1>1, <1>5, StoreStepFits DEF Settle
  <2> HIDE DEF x
  <2> QED BY <1>2, <2>1, <2>2
<1>6. CASE Land(t)
  <2> DEFINE x == Landed(d.store)
             v == Head(d.store.writes)
             w == [i \in DOMAIN d.writing |-> Nearer(d.writing[i])]
             e == [d EXCEPT !.store = x, !.writing = w]
  <2>1. /\ StoreFits(x, t) /\ v \in Stored /\ x.cache = d.store.cache /\ Knows(x, v)
        /\ x.writes = Tail(d.store.writes)
    BY <1>1, <1>6, LandedFits DEF Land
  <2>2. AreaBecomes(v, [doc EXCEPT ![t] = e]) /\ lost' = lost
    <3>1. doc \in [Tab -> Doc]
      BY DEF Inv
    <3>2. \A g \in [Tab -> Doc] : \A n, m :
            [g EXCEPT ![t].store = n, ![t].writing = m] = [g EXCEPT ![t] = [@ EXCEPT !.store = n, !.writing = m]]
      OBVIOUS
    <3>3. AreaBecomes(v, [doc EXCEPT ![t].store = x, ![t].writing = w]) /\ lost' = lost
      BY <1>6 DEF Land
    <3> HIDE DEF x, v, w
    <3> QED BY <3>1, <3>2, <3>3
  <2>3. \A y \in Pass : /\ Nearer(y) \in Pass /\ Nearer(y).mine = y.mine
                       /\ Nearer(y).left >= y.left - 1 /\ y.left \in Nat
    BY DEF Pass, Nearer
  <2>4. d.writing \in Seq(Pass)
    BY <1>1, DocFields
  <2>4a. /\ v = d.store.writes[1] /\ Len(d.store.writes) \in Nat /\ Len(d.store.writes) > 0
         /\ Len(x.writes) = Len(d.store.writes) - 1
         /\ \A i \in 1..Len(x.writes) : x.writes[i] = d.store.writes[i + 1]
    <3>1. d.store.writes \in Seq(Stored) /\ d.store.writes # <<>>
      BY <1>1, <1>6, StoreFields DEF Land
    <3> HIDE DEF x
    <3> QED BY <2>1, <3>1
  <2>5. /\ w \in Seq(Pass) /\ Len(w) = Len(d.writing)
        /\ \A i \in 1..Len(w) : /\ w[i].mine = d.writing[i].mine
                                /\ w[i].left \in Nat /\ d.writing[i].left \in Nat
                                /\ w[i].left >= d.writing[i].left - 1
        /\ d.writing = <<>> => w = <<>>
    BY <2>3, <2>4
  <2>6. x \in StoreOf(Stored)
    BY <2>1 DEF StoreFits
  <2> HIDE DEF x, v, w
  <2>7. /\ e \in Doc /\ e.at = d.at /\ e.conn = d.conn /\ e.own = d.own /\ e.store = x
        /\ e.room = d.room /\ e.asked = d.asked /\ e.ui = d.ui /\ e.seen = d.seen
        /\ e.resume = d.resume /\ e.timer = d.timer /\ e.writing = w /\ e.secret = d.secret
        /\ e.sess = d.sess /\ e.nav = d.nav /\ e.sent = d.sent
    BY <1>1, <2>5, <2>6 DEF Doc, Pass
  <2> HIDE DEF e
  <2>8. Fits(e, t)
    BY <1>1, <2>1, <2>5, <2>7 DEF Fits, InSession, Minded, OnRoomMedia, GoesWhereItMay, Going
  <2>9. OnlyLast(e)
    BY <1>1, <2>5, <2>7 DEF Sure, OnlyLast
  <2>10. Flushed(e)
    <3>1. Flushed(d)
      BY <1>1 DEF Sure
    <3>2. ASSUME NEW i \in 1..Len(w), w[i].mine, d.own # NoRecord
          PROVE  Len(x.writes) <= w[i].left
      <4>1. d.writing[i].mine /\ i \in 1..Len(d.writing)
        BY <2>5, <3>2
      <4>2. Len(d.store.writes) <= d.writing[i].left
        BY <3>1, <3>2, <4>1 DEF Flushed
      <4>3. /\ Len(x.writes) = Len(d.store.writes) - 1 /\ w[i].left >= d.writing[i].left - 1
            /\ Len(d.store.writes) \in Nat /\ w[i].left \in Nat /\ d.writing[i].left \in Nat
        BY <2>4a, <2>5
      <4> DEFINE n == Len(x.writes)
                 o == Len(d.store.writes)
                 p == w[i].left
                 q == d.writing[i].left
      <4>4. n = o - 1 /\ p >= q - 1 /\ o \in Nat /\ p \in Nat /\ q \in Nat /\ o <= q
        BY <4>2, <4>3
      <4> HIDE DEF n, o, p, q
      <4>5. n <= p
        BY <4>4
      <4> QED BY <4>5 DEF n, p
    <3> QED BY <2>7, <3>2 DEF Flushed
  <2>11. Carried(e, v)
    <3> SUFFICES ASSUME e.sent PROVE Carried(e, v)
      BY DEF Carried
    <3>1. d.sent /\ Carried(d, area)
      BY <1>1, <2>7 DEF Sure
    <3>2. 1 \in 1..Len(d.store.writes) /\ \A i \in 1..Len(x.writes) : i + 1 \in 1..Len(d.store.writes)
      BY <2>4a
    <3> QED BY <2>4a, <2>5, <2>7, <3>1, <3>2 DEF Carried
  <2>12. Sure(e, v)
    BY <1>1, <2>1, <2>7, <2>9, <2>10, <2>11 DEF Sure
  <2> QED BY <1>1, <2>1, <2>2, <2>8, <2>12, AreaAlone
<1> QED BY <1>3, <1>4, <1>5, <1>6 DEF StoreStep

LEMMA FollowStartsAlone ==
  ASSUME OneTab, Inv, Alone, NEW t \in Tab, FollowStarts(t)
  PROVE  Alone'
<1> DEFINE d == doc[t]
           no == FALSE
           x == [d EXCEPT !.timer = no, !.made = @ + 1, !.sent = no]
           w == Wrote(t, x, x.made)
           y == [mine |-> TRUE, pass |-> x.made, left |-> Out(w)]
           ws == Append(w.writing, y)
           e == [w EXCEPT !.writing = ws]
<1>1. /\ d \in Doc /\ Fits(d, t) /\ Sure(d, area) /\ d.timer /\ d.made \in 0..Passes
      /\ d.made < Passes /\ no \in BOOLEAN /\ ~no
  BY AloneIs, DocFields DEF FollowStarts
<1>2. Keep(t, e) /\ lost' = lost
  BY DEF FollowStarts
<1>3. d.conn = "joined" /\ d.sess /\ d.room \in Followable /\ d.room \in Media
  BY <1>1, FollowAssumption DEF Fits, GoesWhereItMay, Going, InSession
<1>4. d.made + 1 \in 1..Passes /\ d.made + 1 \in 0..Passes
  BY <1>1, FollowAssumption
<1> HIDE DEF no
<1>5. /\ x \in Doc /\ x.at = d.at /\ x.sess = d.sess /\ x.conn = d.conn /\ x.own = d.own
      /\ x.store = d.store /\ x.room = d.room /\ x.asked = d.asked /\ x.ui = d.ui /\ x.seen = d.seen
      /\ x.resume = d.resume /\ x.timer = no /\ x.writing = d.writing /\ x.made = d.made + 1
      /\ x.sent = no
  BY <1>1, <1>4 DEF Doc
<1> HIDE DEF x
<1>6. Fits(x, t)
  BY <1>1, <1>3, <1>5 DEF Fits, InSession, Minded, OnRoomMedia, GoesWhereItMay, Going
<1>7. /\ w \in Doc /\ Knows(w.store, area) /\ w.store.cache = w.own
      /\ w.writing = x.writing /\ w.timer = x.timer /\ w.sent = x.sent
  BY <1>3, <1>4, <1>5, <1>6, WroteSure
<1>7a. Out(w) \in Nat
  BY <1>3, <1>4, <1>5, <1>6, WroteFits
<1> HIDE DEF w
<1>8. w.writing \in Seq(Pass) /\ TRUE \in BOOLEAN
  BY <1>7, DocFields
<1>9. y \in Pass /\ y.left = Len(w.store.writes) /\ y.left \in Nat
  BY <1>4, <1>5, <1>7a, <1>8 DEF Pass, Out
<1> HIDE DEF y
<1>10. /\ ws \in Seq(Pass) /\ Len(ws) = Len(w.writing) + 1 /\ Len(w.writing) \in Nat
       /\ \A i \in 1..Len(w.writing) : ws[i] = w.writing[i]
       /\ ws[Len(w.writing) + 1] = y
  BY <1>8, <1>9, AppendProperties
<1> HIDE DEF ws
<1>11. e.store = w.store /\ e.own = w.own /\ e.writing = ws /\ e.timer = w.timer /\ e.sent = w.sent
  BY <1>7, <1>10 DEF Doc, Pass
<1> HIDE DEF e
<1>12. OnlyLast(e) /\ Flushed(e)
  <2>1. \A i \in 1..Len(w.writing) : ~w.writing[i].mine
    BY <1>1, <1>5, <1>7 DEF Sure, OnlyLast
  <2>2. ASSUME NEW i \in 1..Len(ws), ws[i].mine PROVE i = Len(ws)
    BY <1>10, <2>1, <2>2
  <2>3. OnlyLast(e)
    BY <1>1, <1>5, <1>7, <1>11, <2>2 DEF OnlyLast
  <2>4. ASSUME NEW i \in 1..Len(ws), ws[i].mine PROVE Len(w.store.writes) <= ws[i].left
    BY <1>9, <1>10, <2>2, <2>4
  <2> QED BY <1>11, <2>3, <2>4 DEF Flushed
<1>13. Sure(e, area)
  BY <1>1, <1>5, <1>7, <1>11, <1>12 DEF Sure, Carried
<1> QED BY <1>2, <1>13, KeepAlone

LEMMA FollowResumesAlone ==
  ASSUME OneTab, Inv, Alone, NEW t \in Tab, FollowResumes(t)
  PROVE  Alone'
<1> DEFINE d == doc[t]
           w == Head(d.writing)
           ws == Tail(d.writing)
           done == [d EXCEPT !.writing = ws]
           again == Wrote(t, d, w.pass)
           off == ~w.mine \/ d.conn # "joined" \/ ~d.sess
           yes == TRUE
           sent == [done EXCEPT !.nav = d.room, !.sent = yes]
           longer == [again EXCEPT !.writing[1].left = Out(again)]
           gone == ForgetRejoin(done)
<1>1. /\ d \in Doc /\ Fits(d, t) /\ Sure(d, area) /\ d.writing \in Seq(Pass) /\ d.writing # <<>>
      /\ ~d.sent /\ w.left = 0
  BY AloneIs, DocFields DEF FollowResumes, Sure, Carried
<1>2. /\ w \in Pass /\ w = d.writing[1] /\ ws \in Seq(Pass) /\ Len(d.writing) \in Nat
      /\ Len(d.writing) > 0 /\ Len(ws) = Len(d.writing) - 1
      /\ \A i \in 1..Len(ws) : ws[i] = d.writing[i + 1]
  BY <1>1
<1>3. /\ lost' = lost
      /\ Keep(t, IF off THEN gone ELSE IF again.own = d.own THEN sent ELSE longer)
  BY DEF FollowResumes
<1>4. w.mine => Len(d.writing) = 1 /\ ws = <<>> /\ ~d.timer
  <2>1. w.mine => 1 = Len(d.writing) /\ ~d.timer
    <3>1. 1 \in 1..Len(d.writing)
      BY <1>2
    <3>2. OnlyLast(d)
      BY <1>1 DEF Sure
    <3> HIDE DEF d, ws
    <3>3. d.writing[1].mine => 1 = Len(d.writing) /\ ~d.timer
      BY <3>1, <3>2 DEF OnlyLast
    <3> HIDE DEF w
    <3> QED BY <1>2, <3>3
  <2>2. Len(d.writing) = 1 => ws = <<>>
    <3> HIDE DEF ws
    <3> QED BY <1>2, EmptySeq
  <2> QED BY <2>1, <2>2
<1> HIDE DEF ws
<1>5. /\ done \in Doc /\ done.store = d.store /\ done.own = d.own /\ done.secret = d.secret
      /\ done.sess = d.sess /\ done.sent = d.sent /\ done.timer = d.timer /\ done.writing = ws
  BY <1>1, <1>2 DEF Doc, Pass
<1> HIDE DEF done
<1>6. OnlyLast(done)
  <2>1. ASSUME NEW i \in 1..Len(ws), ws[i].mine PROVE i = Len(ws) /\ ~d.timer
    <3>1. i + 1 \in 1..Len(d.writing) /\ d.writing[i + 1].mine
      BY <1>2, <2>1
    <3>2. i + 1 = Len(d.writing) /\ ~d.timer
      BY <1>1, <3>1 DEF Sure, OnlyLast
    <3> QED BY <1>2, <3>2
  <2> QED BY <1>5, <2>1 DEF OnlyLast
<1>7. CASE off
  <2>1. Sure(gone, area)
    <3>1. StoreFits(done.store, t) /\ Knows(done.store, area) /\ ~done.sent
      BY <1>1, <1>5 DEF Fits, Sure
    <3> QED BY <1>5, <1>6, <3>1, ForgetSure
  <2> QED BY <1>3, <1>7, <2>1, KeepAlone
<1>8. ASSUME ~off
      PROVE  /\ d.room \in Media /\ d.sess /\ w.pass \in 1..Passes
             /\ again \in Doc /\ Knows(again.store, area) /\ again.store.cache = again.own
             /\ again.own.key = d.room /\ again.own.secret = d.secret /\ again.own \in Record
             /\ again.writing = d.writing /\ again.timer = d.timer /\ again.sent = d.sent
             /\ Out(again) \in Nat
  <2>1. Going(d) /\ d.sess /\ w.pass \in 1..Passes
    BY <1>2, <1>8 DEF Going, Pass
  <2>2. d.room \in Media
    BY <1>1, <2>1, FollowAssumption DEF Fits, GoesWhereItMay
  <2>3. /\ again \in Doc /\ Knows(again.store, area) /\ again.store.cache = again.own
        /\ again.own.key = d.room /\ again.own.secret = d.secret /\ again.own \in Record
        /\ again.writing = d.writing /\ again.timer = d.timer /\ again.sent = d.sent
    <3> HIDE DEF w, d
    <3> QED BY <1>1, <2>1, <2>2, WroteSure
  <2>4. Out(again) \in Nat
    <3> HIDE DEF w, d
    <3> QED BY <1>1, <2>1, <2>2, WroteFits
  <2> QED BY <2>1, <2>2, <2>3, <2>4
<1> HIDE DEF again
<1>9. CASE ~off /\ again.own = d.own
  <2>1. Keep(t, sent) /\ d.room \in Media \cup {NoNav} /\ yes \in BOOLEAN /\ yes
    BY <1>3, <1>8, <1>9
  <2> HIDE DEF yes
  <2>2. /\ sent.store = done.store /\ sent.own = done.own /\ sent.secret = done.secret
        /\ sent.sess = done.sess /\ sent.timer = done.timer /\ sent.writing = done.writing
        /\ sent.nav = d.room
    BY <1>5, <2>1 DEF Doc
  <2> HIDE DEF sent
  <2>3. d.own # NoRecord
    BY <1>8, <1>9, NoRecordIsNoRecord
  <2>4. sent.writing = <<>>
    BY <1>4, <1>5, <1>9, <2>2
  <2>4a. d.store.writes = <<>> /\ d.own.key = d.room
    <3>1. Len(d.store.writes) <= 0 /\ d.store.writes \in Seq(Stored)
      <4>1. 1 \in 1..Len(d.writing) /\ d.writing[1].mine /\ d.writing[1].left = 0
        BY <1>1, <1>2, <1>9
      <4>2. Flushed(d) /\ StoreFits(d.store, t)
        BY <1>1 DEF Sure, Fits
      <4> QED BY <2>3, <4>1, <4>2, StoreFields DEF Flushed
    <3>2. Len(d.store.writes) = 0
      BY <3>1, LenProperties
    <3> QED BY <1>8, <1>9, <3>1, <3>2, EmptySeq
  <2>4b. area = d.own
    BY <1>1, <2>3, <2>4a DEF Sure, Knows, NextRead
  <2>5. Carried(sent, area)
    <3>1. sent.store.writes = <<>> /\ Names(area, sent.nav) /\ Names(sent.own, sent.nav)
      BY <1>5, <2>2, <2>3, <2>4a, <2>4b DEF Names
    <3> QED BY <1>5, <1>8, <1>9, <2>2, <2>4, <3>1 DEF Carried
  <2>6. OnlyLast(sent) /\ Flushed(sent)
    BY <1>6, <2>2, <2>4 DEF OnlyLast, Flushed
  <2>7. Sure(sent, area)
    BY <1>1, <1>5, <2>2, <2>5, <2>6 DEF Sure
  <2> QED BY <1>3, <2>1, <2>7, KeepAlone
<1>10. CASE ~off /\ again.own # d.own
  <2>1. Keep(t, longer)
    BY <1>3, <1>10
  <2> DEFINE y == [w EXCEPT !.left = Out(again)]
             ls == [d.writing EXCEPT ![1] = y]
             e == [again EXCEPT !.writing = ls]
  <2>4. y \in Pass /\ y.mine = w.mine /\ y.left = Len(again.store.writes)
    BY <1>2, <1>8, <1>10 DEF Pass, Out
  <2>5. longer = e
    <3>1. again \in Doc /\ again.writing \in Seq(Pass)
      BY <1>8, <1>10, DocFields
    <3>2. \A g \in Doc : [g EXCEPT !.writing[1].left = Out(again)]
                         = [g EXCEPT !.writing = [g.writing EXCEPT ![1] = [g.writing[1] EXCEPT !.left = Out(again)]]]
      BY DEF Doc
    <3> QED BY <1>2, <1>8, <1>10, <3>1, <3>2
  <2> HIDE DEF longer, y
  <2>6. /\ ls \in Seq(Pass) /\ Len(ls) = Len(d.writing) /\ ls[1] = y
        /\ \A i \in 1..Len(ls) : ls[i].mine = d.writing[i].mine
    BY <1>1, <1>2, <2>4
  <2> HIDE DEF ls
  <2>7. e.store = again.store /\ e.own = again.own /\ e.timer = again.timer /\ e.writing = ls
        /\ e.sent = again.sent
    BY <1>8, <1>10, <2>6 DEF Doc, Pass
  <2> HIDE DEF e
  <2>8. OnlyLast(e) /\ ~e.sent
    BY <1>1, <1>8, <1>10, <2>6, <2>7 DEF Sure, OnlyLast
  <2>8a. Flushed(e)
    <3>1. Len(ls) = 1 /\ Len(again.store.writes) \in Nat
      BY <1>4, <1>8, <1>10, <2>6 DEF Out
    <3>2. \A i \in 1..Len(ls) : ls[i].left = Len(again.store.writes)
      BY <2>4, <2>6, <3>1
    <3> QED BY <2>7, <3>1, <3>2 DEF Flushed
  <2>9. Sure(e, area)
    BY <1>8, <1>10, <2>7, <2>8, <2>8a DEF Sure, Carried
  <2> QED BY <1>3, <2>1, <2>5, <2>9, KeepAlone
<1> QED BY <1>7, <1>9, <1>10

(* The next document finds a record that names where the last one was sent, *)
(* whatever was dropped; so whoever was sent off arrives in the room, or is *)
(* told; and nothing is lost on the way.                                    *)
LEMMA LoadsAlone ==
  ASSUME OneTab, Inv, Alone, NEW t \in Tab, NEW k \in Key, Loads(t, k)
  PROVE  Alone'
<1> DEFINE d == doc[t]
           f == Fresh(k, d.made, area)
           e == Startup(t, f)
           dropped == d.store.writes # <<>>
           gone == /\ k \in {d.nav, Nowhere} /\ d.sent /\ d.conn = "joined"
                   /\ ~(e.sess /\ (e.secret = d.secret \/ dropped)) /\ ~Told(t, f)
<1>1. /\ d \in Doc /\ Fits(d, t) /\ Sure(d, area) /\ d.made \in 0..Passes /\ area \in Stored
  BY AloneIs, DocFields
<1>2. Keep(t, e) /\ lost' = [lost EXCEPT ![t] = gone]
  BY DEF Loads
<1>3. Load(f) = area /\ f.at = k
  BY <1>1, FreshSure
<1>4. Sure(e, area) /\ (About(area, t) /\ area.key = k => e.sess /\ e.secret = area.secret)
  BY <1>1, StartupSure
<1> HIDE DEF e, f
<1>5. ~gone
  <2> SUFFICES ASSUME gone PROVE FALSE
    OBVIOUS
  <2>1. /\ d.nav \in Media /\ area # NoRecord /\ area.key = d.nav /\ d.own # NoRecord
        /\ d.own.secret = d.secret
    BY <1>1 DEF Sure, Carried, Names
  <2>2. About(area, t)
    <3>1. area \in Record
      BY <1>1, <2>1 DEF Stored
    <3>2. area.tab \in Tab
      BY <3>1 DEF Record
    <3> QED BY <2>1, <3>2 DEF About, OneTab
  <2>3. CASE k = d.nav
    <3>1. e.sess /\ e.secret = area.secret /\ ~dropped
      BY <1>4, <2>1, <2>2, <2>3
    <3>2. area = d.own
      BY <1>1, <2>1, <3>1 DEF Sure, Knows, NextRead
    <3> QED BY <2>1, <3>1, <3>2
  <2>4. CASE k = Nowhere
    <3>1. area.key # k
      BY <2>1, <2>4, FollowAssumption
    <3> QED BY <1>3, <2>2, <3>1 DEF Told
  <2> QED BY <2>3, <2>4
<1>6a. lost' = [lost EXCEPT ![t] = FALSE]
  BY <1>2, <1>5
<1>6. doc' = [doc EXCEPT ![t] = e] /\ area' = area /\ doc \in [Tab -> Doc]
  BY <1>2 DEF Keep, Inv
<1>7. doc'[t] = e /\ lost' \in [Tab -> BOOLEAN] /\ ~lost'[t] /\ \A u \in Tab : u = t
  BY <1>6, <1>6a DEF OneTab, Alone
<1> QED BY <1>4, <1>6, <1>7 DEF Alone

LEMMA ArrivesAlone ==
  ASSUME OneTab, Inv, Alone, NEW t \in Tab, Arrives(t)
  PROVE  Alone'
<1>1. doc[t].nav \in Key /\ Nowhere \in Key
  BY AloneIs DEF Arrives, Doc, Key
<1>2. PICK k \in {doc[t].nav, Nowhere} : Loads(t, k)
  BY DEF Arrives
<1> QED BY <1>1, <1>2, LoadsAlone

LEMMA MemberAlone ==
  ASSUME OneTab, Inv, Alone, NEW t \in Tab, Member(t)
  PROVE  Alone'
<1> DEFINE d == doc[t]
<1>1. /\ d \in Doc /\ Fits(d, t) /\ Sure(d, area) /\ Knows(d.store, area) /\ StoreFits(d.store, t)
      /\ room.secret \in Secret
  BY AloneIs
<1>2. Nowhere \in Key
  BY DEF Key
<1> HIDE DEF d
<1>3. ASSUME NEW k \in Key, Navigates(t, k) PROVE Alone'
  BY <1>3, LoadsAlone DEF Navigates
<1>4. ASSUME NEW k \in Key, Routes(t, k) PROVE Alone'
  <2> DEFINE x == [d EXCEPT !.at = k]
  <2>1. Keep(t, MediaChanged(x)) /\ lost' = lost
    BY <1>4 DEF Routes, d
  <2>2. Same(d, x) /\ x \in Doc
    BY <1>1, AtSame DEF Same
  <2> HIDE DEF x
  <2>3. Same(d, MediaChanged(x))
    BY <2>2, MediaChangedSame, SameOfSame
  <2> QED BY <2>1, <2>3, SameAlone DEF d
<1>5. CASE PressJoin(t)
  <2>1. Keep(t, Join(d, room.secret)) /\ lost' = lost
    BY <1>5 DEF PressJoin, d
  <2>2. Sure(Join(d, room.secret), area)
    BY <1>1, JoinSure
  <2> QED BY <2>1, <2>2, KeepAlone
<1>6. CASE PressLeave(t)
  <2>1. Keep(t, Leave(d)) /\ lost' = lost
    BY <1>6 DEF PressLeave, d
  <2>2. Sure(Leave(d), area)
    BY <1>1, LeaveSure
  <2> QED BY <2>1, <2>2, KeepAlone
<1>7. CASE StayHere(t)
  <2> DEFINE x == [d EXCEPT !.stayed = d.room]
             c == CancelFollow(x)
             e == [c EXCEPT !.ui = "offer"]
  <2>1. Keep(t, e) /\ lost' = lost /\ d.room \in Key
    BY <1>1, <1>7, DocFields DEF StayHere, OfferMove, d
  <2>2. Same(d, x) /\ x \in Doc
    BY <1>1, <2>1, AtSame DEF Same
  <2> HIDE DEF x
  <2>3. Same(d, c) /\ c \in Doc
    BY <2>2, CancelSame, SameOfSame DEF Same
  <2> HIDE DEF c
  <2>4. Same(d, e)
    BY <2>3, PanelSame, SameOfSame
  <2> QED BY <2>1, <2>4, SameAlone DEF d
<1>8. CASE OpenRoom(t)
  <2> DEFINE x == [d EXCEPT !.stayed = Nowhere]
  <2>1. Keep(t, FollowRoom(x)) /\ lost' = lost
    BY <1>8 DEF OpenRoom, d
  <2>2. Same(d, x) /\ x \in Doc
    BY <1>1, <1>2, AtSame DEF Same
  <2> HIDE DEF x
  <2>3. Same(d, FollowRoom(x))
    BY <2>2, FollowRoomSame, SameOfSame
  <2> QED BY <2>1, <2>3, SameAlone DEF d
<1>9. CASE MoveHere(t)
  <2> DEFINE yes == TRUE
             x == [d EXCEPT !.asked = yes]
  <2>1. Keep(t, [x EXCEPT !.ui = "none"]) /\ lost' = lost /\ yes \in BOOLEAN
    BY <1>9 DEF MoveHere, ClearAction, d
  <2> HIDE DEF yes
  <2>2. Same(d, x) /\ x \in Doc
    BY <1>1, <2>1, AskedSame DEF Same
  <2> HIDE DEF x
  <2>3. Same(d, [x EXCEPT !.ui = "none"])
    BY <2>2, PanelSame, SameOfSame
  <2> QED BY <2>1, <2>3, SameAlone DEF d
<1>10. CASE PageShown(t)
  <2> DEFINE x == [d EXCEPT !.own = NoRecord, !.nav = NoNav]
  <2>1. Keep(t, Leave(x)) /\ lost' = lost
    BY <1>10 DEF PageShown, d
  <2>2. x \in Doc /\ x.store = d.store
    <3>1. NoNav \in Media \cup {NoNav} /\ NoRecord \in Stored
      BY NoRecordIsNobodys
    <3> HIDE DEF NoNav, NoRecord
    <3> QED BY <1>1, <3>1 DEF Doc
  <2> HIDE DEF x
  <2>3. Sure(Leave(x), area)
    BY <1>1, <2>2, LeaveSure
  <2> QED BY <2>1, <2>3, KeepAlone
<1> QED BY <1>3, <1>4, <1>5, <1>6, <1>7, <1>8, <1>9, <1>10 DEF Member

LEMMA LinkAlone ==
  ASSUME OneTab, Inv, Alone, NEW t \in Tab, LinkLost(t) \/ Welcomed(t)
  PROVE  Alone'
<1> DEFINE d == doc[t]
<1>1. d \in Doc /\ room.key \in Key
  BY AloneIs
<1>2. CASE LinkLost(t)
  <2>1. Keep(t, Suspend(d)) /\ lost' = lost
    BY <1>2 DEF LinkLost
  <2>2. Same(d, Suspend(d))
    BY <1>1, SuspendSame
  <2> QED BY <2>1, <2>2, SameAlone
<1>3. CASE Welcomed(t)
  <2> DEFINE x == [d EXCEPT !.conn = "joined"]
             y == [d EXCEPT !.conn = "refused"]
             e == HearAnchor(x, room.key)
  <2>1. Keep(t, IF d.secret = room.secret THEN e ELSE y) /\ lost' = lost
    BY <1>3 DEF Welcomed
  <2>2. Same(d, x) /\ Same(d, y) /\ x \in Doc
    BY <1>1, ConnSame DEF Same
  <2> HIDE DEF x, y
  <2>3. Same(d, e)
    BY <1>1, <2>2, HearAnchorSame, SameOfSame
  <2> HIDE DEF e
  <2> QED BY <2>1, <2>2, <2>3, SameAlone
<1> QED BY <1>2, <1>3

LEMMA RoomDoesAlone ==
  ASSUME OneTab, Inv, Alone, NEW k \in Key, NEW s \in Secret, RoomDoes(k, s)
  PROVE  Alone'
<1> DEFINE put(u) == [doc[u] EXCEPT !.secret = s]
           d(u) == IF s = room.secret THEN doc[u] ELSE RefreshRejoin(put(u))
           e(u) == IF k = room.key THEN d(u) ELSE HearAnchor(d(u), k)
           n(u) == IF doc[u].conn # "joined" THEN doc[u] ELSE e(u)
<1>1. area' = area /\ lost' = lost /\ doc' = [u \in Tab |-> n(u)]
  BY DEF RoomDoes
<1>2. ASSUME NEW u \in Tab PROVE Sure(n(u), area)
  <2>1. Fits(doc[u], u) /\ Sure(doc[u], area) /\ doc[u] \in Doc /\ Agrees(doc[u].store, u, area)
    BY AloneIs, KnowsAgrees
  <2>2. Sure(RefreshRejoin(put(u)), area)
    BY <2>1, RotatedSure
  <2>3. RefreshRejoin(put(u)) \in Doc
    <3>1. Fits(put(u), u) /\ put(u).store = doc[u].store /\ put(u) \in Doc
      BY <2>1, SecretPut DEF Fits
    <3> DEFINE x == put(u)
    <3>2. x \in Doc /\ Fits(x, u) /\ Agrees(x.store, u, area)
      BY <2>1, <3>1
    <3> HIDE DEF x
    <3>3. RefreshRejoin(x) \in Doc
      BY <3>2, RefreshFits DEF Fits
    <3> QED BY <3>3 DEF x
  <2> HIDE DEF put
  <2>4. Sure(d(u), area) /\ d(u) \in Doc
    BY <2>1, <2>2, <2>3
  <2> HIDE DEF d
  <2>5. Sure(HearAnchor(d(u), k), area)
    BY <2>4, HearAnchorSame, SameIsSure
  <2> QED BY <2>1, <2>4, <2>5
<1> HIDE DEF n
<1> QED BY <1>1, <1>2 DEF Alone

LEMMA AloneInit ==
  ASSUME Init, Inv
  PROVE  Alone
<1>1. 0 \in 0..Passes /\ NoRecord \in Stored
  BY FollowAssumption, NoRecordIsNobodys
<1>2. ASSUME NEW t \in Tab PROVE Sure(doc[t], area) /\ ~lost[t]
  <2>1. PICK k \in Key : doc[t] = Fresh(k, 0, NoRecord)
    BY DEF Init
  <2> QED BY <1>1, <2>1, FreshSure DEF Init
<1> QED BY <1>2 DEF Alone, Init

LEMMA AloneNext ==
  ASSUME OneTab, Inv, Alone, [Next]_vars
  PROVE  Alone'
<1>1. room.key \in Key /\ room.secret \in Secret /\ room.secret \in Nat /\ room.secret <= moves
      /\ moves \in Nat
  BY FollowAssumption DEF Inv, Secret
<1>2. moves < Moves => room.secret + 1 \in Secret
  BY <1>1, FollowAssumption DEF Secret
<1>3. ASSUME NEW t \in Tab,
             \/ StoreStep(t) \/ FollowStarts(t) \/ FollowResumes(t) \/ Arrives(t)
             \/ Member(t) \/ LinkLost(t) \/ Welcomed(t)
      PROVE  Alone'
  BY <1>3, StoreStepAlone, FollowStartsAlone, FollowResumesAlone, ArrivesAlone, MemberAlone, LinkAlone
<1>4. ASSUME NEW t \in Tab, ServerTakes(t) PROVE Alone'
  <2>1. doc[t].at \in Key
    BY AloneIs, DocFields
  <2> QED BY <1>1, <1>4, <2>1, RoomDoesAlone DEF ServerTakes
<1>5. ASSUME NEW k \in Key, RoomMoves(k) PROVE Alone'
  BY <1>1, <1>5, RoomDoesAlone DEF RoomMoves
<1>6. CASE Rotated
  BY <1>1, <1>2, <1>6, RoomDoesAlone DEF Rotated
<1>7. CASE UNCHANGED vars
  BY <1>7 DEF Alone, vars
<1> QED BY <1>3, <1>4, <1>5, <1>6, <1>7 DEF Next

(* Whoever watches in one tab and is sent to the room's media arrives in   *)
(* the room with the newest secret, or is told that the move failed: no    *)
(* leave, no refusal, no page or rotation on the way loses the record that *)
(* was written for it.                                                     *)
THEOREM FollowNeverLostSilently ==
  ASSUME OneTab
  PROVE  Spec => []NeverLostSilently
<1>1. Init /\ Inv => Alone
  BY AloneInit
<1>2. Inv /\ Alone /\ [Next]_vars => Alone'
  BY AloneNext
<1>3. Alone => NeverLostSilently
  BY DEF Alone, NeverLostSilently
<1> QED BY <1>1, <1>2, <1>3, FollowCorrect, PTL DEF Spec
=============================================================================
