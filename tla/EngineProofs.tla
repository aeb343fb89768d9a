---------------------------- MODULE EngineProofs ----------------------------
(***************************************************************************)
(* What is proved of Engine for every value of its constants: that what    *)
(* the engine queued is still asked for, and due, when it presses, and     *)
(* that what it sends is the member's doing.                               *)
(*                                                                         *)
(* The invariant follows the jobs.  What was queued for an instant that    *)
(* has come stays so, since the room only grows; what waits behind a seek  *)
(* still holds what the room said at the seq it was aimed for; and the one *)
(* conform that may be queued before its instant, by an engine that has no *)
(* clock, is at the head and is dropped before anything else happens.      *)
(***************************************************************************)
EXTENDS Engine, TLAPS, SequenceTheorems, WellFoundedInduction

OfOneSeq == {"apply", "conform", "hold"}

Entry == [paused : BOOLEAN, media : Media \cup {NoMedia}]

Frame == [t : {"welcome", "state", "ack"}, seq : Nat, id : Nat]

Work == [kind : Kinds, seq : Nat, live : BOOLEAN, here : BOOLEAN,
         phase : {"queued", "seeking", "aimed", "playing"}, paused : BOOLEAN, sought : BOOLEAN]

Cmd == [id : Nat, seq : Nat, paused : BOOLEAN]

Timer == [seq : Nat, live : BOOLEAN]

Member ==
  [status : {"away", "joining", "joined", "closed"}, clock : BOOLEAN, welcomed : BOOLEAN,
   applied : Nat, pending : SUBSET Nat, mine : SUBSET Nat, sent : Nat, intended : Cmd,
   local : Media \cup {NoMedia},
   acq : {"detached", "conforming", "guarded", "steady", "fought"},
   conforming : BOOLEAN, reconforms : Nat, settled : BOOLEAN,
   base : {"unknown", "paused", "playing"}, wait : {"none", "some", "over"},
   pressed : {"no", "fresh", "earlier"}, blocked : BOOLEAN, retry : BOOLEAN,
   chain : Seq(Work), timer : Timer]

Types ==
  /\ room \in Seq(Entry) /\ Len(room) > 0
  /\ begun \subseteq 1 .. Len(room)
  /\ wire \in Seq(Frame) /\ up \in Seq([id : Nat, paused : BOOLEAN])
  /\ me \in Member
  /\ el \in [paused : BOOLEAN, ready : BOOLEAN]

(* Every seq a member is told or keeps is one the room has had; and a       *)
(* command that stops the room is due at once.                              *)
Told(q, n) == \A i \in 1 .. Len(q) : q[i].seq \in 1 .. n

SeqsAreTheRooms ==
  /\ Told(wire, Len(room))
  /\ me.applied \in 0 .. Len(room)
  /\ me.pending \subseteq 1 .. Len(room)
  /\ \A s \in 1 .. Len(room) : room[s].paused => s \in begun

(* What a queued or running job may go by, in a room r of which b has begun. *)
Aimed(j, r, b) ==
  /\ j.phase # "queued" /\ j.kind \in OfOneSeq
       => j.seq \in 1 .. Len(r) /\ j.paused = r[j.seq].paused
  /\ j.phase # "queued" /\ j.kind = "hold" => j.paused
  /\ j.kind = "apply" => j.seq \in b

OneAtATime(q) == \A i \in 1 .. Len(q) : i > 1 => q[i].phase = "queued"

(* Seq 0 is the placeholder's, which nothing is aimed for. *)
Timely(q, clock, b) ==
  \A i \in 1 .. Len(q) : q[i].kind = "conform" =>
    \/ q[i].seq \in b \cup {0}
    \/ i = 1 /\ q[i].phase = "queued" /\ ~clock

Conforms(q, i) == q[i].kind = "conform" /\ q[i].here

(* A conform is in flight exactly while its epoch has one job or one timer. *)
OneConform(e) ==
  /\ e.timer.seq = 0 => e.timer = NoTimer
  /\ e.conforming <=> e.timer # NoTimer \/ \E i \in 1 .. Len(e.chain) : Conforms(e.chain, i)
  /\ e.timer # NoTimer => \A i \in 1 .. Len(e.chain) : ~Conforms(e.chain, i)
  /\ \A i, k \in 1 .. Len(e.chain) : Conforms(e.chain, i) /\ Conforms(e.chain, k) => i = k
  /\ e.acq = "conforming" => e.conforming
  /\ e.acq = "detached" => ~e.conforming

Good(e, r, b) ==
  /\ \A i \in 1 .. Len(e.chain) : Aimed(e.chain[i], r, b)
  /\ OneAtATime(e.chain)
  /\ Timely(e.chain, e.clock, b)
  /\ OneConform(e)

Inv == Types /\ SeqsAreTheRooms /\ Good(me, room, begun)

-----------------------------------------------------------------------------
(* What the engine does to its chain, its timer and its state. *)

LEMMA Chain ==
  ASSUME NEW e \in Member
  PROVE  /\ e.chain \in Seq(Work) /\ Len(e.chain) \in Nat
         /\ e.chain = <<>> <=> Len(e.chain) = 0
         /\ \A i \in 1 .. Len(e.chain) : e.chain[i] \in Work
         /\ e.chain # <<>> => Head(e.chain) = e.chain[1] /\ 1 \in 1 .. Len(e.chain)
<1>1. e.chain \in Seq(Work)
  BY DEF Member
<1>2. /\ Len(e.chain) \in Nat /\ (e.chain = <<>> <=> Len(e.chain) = 0)
      /\ \A i \in 1 .. Len(e.chain) : e.chain[i] \in Work
  BY <1>1, LenProperties, ElementOfSeq, EmptySeq
<1>3. e.chain # <<>> => Head(e.chain) = e.chain[1]
  BY <1>1, HeadTailProperties
<1>4. e.chain # <<>> => 1 \in 1 .. Len(e.chain)
  BY <1>2
<1> QED BY <1>1, <1>2, <1>3, <1>4

LEMMA Appended ==
  ASSUME NEW q \in Seq(Work), NEW j \in Work
  PROVE  /\ Append(q, j) \in Seq(Work) /\ Len(q) \in Nat /\ Len(Append(q, j)) = Len(q) + 1
         /\ \A i \in 1 .. Len(q) : Append(q, j)[i] = q[i]
         /\ Append(q, j)[Len(q) + 1] = j
         /\ \A i \in 1 .. Len(Append(q, j)) : i \in 1 .. Len(q) \/ i = Len(q) + 1
         /\ 1 .. Len(q) \subseteq 1 .. Len(Append(q, j)) /\ Len(q) + 1 \in 1 .. Len(Append(q, j))
<1>1. /\ Append(q, j) \in Seq(Work) /\ Len(Append(q, j)) = Len(q) + 1
      /\ \A i \in 1 .. Len(q) : Append(q, j)[i] = q[i]
      /\ Append(q, j)[Len(q) + 1] = j
  BY AppendProperties
<1>2. Len(q) \in Nat
  BY LenProperties
<1> QED BY <1>1, <1>2

(* A job that is no conform joins the queue. *)
LEMMA PushGood ==
  ASSUME NEW r, NEW b, NEW e \in Member, Good(e, r, b), NEW d \in Member,
         NEW j \in Work, j.phase = "queued", j.kind # "conform", j.kind = "apply" => j.seq \in b,
         d.chain = Append(e.chain, j), d.clock = e.clock, d.timer = e.timer,
         d.conforming = e.conforming, d.acq = e.acq
  PROVE  Good(d, r, b)
<1> DEFINE q == e.chain
           n == Len(q)
<1>1. /\ n \in Nat /\ Len(d.chain) = n + 1
      /\ \A i \in 1 .. n : d.chain[i] = q[i] /\ i \in 1 .. Len(d.chain)
      /\ d.chain[n + 1] = j /\ n + 1 \in 1 .. Len(d.chain)
      /\ \A i \in 1 .. Len(d.chain) : i \in 1 .. n \/ i = n + 1
  BY Chain, Appended
<1> HIDE DEF n
<1>2. \A i \in 1 .. Len(d.chain) : Aimed(d.chain[i], r, b)
  BY <1>1 DEF Good, Aimed, n
<1>3. OneAtATime(d.chain) /\ Timely(d.chain, d.clock, b)
  BY <1>1 DEF Good, OneAtATime, Timely, n
<1>4. \A i \in 1 .. Len(d.chain) : Conforms(d.chain, i) => i \in 1 .. n /\ Conforms(q, i)
  BY <1>1 DEF Conforms
<1>5. \A i \in 1 .. n : Conforms(q, i) => Conforms(d.chain, i)
  BY <1>1 DEF Conforms
<1>6. OneConform(d)
  BY <1>1, <1>4, <1>5 DEF Good, OneConform, n
<1> QED BY <1>2, <1>3, <1>6 DEF Good

(* A conform joins it, when there is none. *)
LEMMA PushConform ==
  ASSUME NEW r, NEW b, NEW e \in Member, Good(e, r, b), NEW d \in Member,
         NEW j \in Work, j.phase = "queued", j.kind = "conform", j.here,
         j.seq \in b \cup {0} \/ (e.chain = <<>> /\ ~e.clock),
         \A i \in 1 .. Len(e.chain) : ~Conforms(e.chain, i),
         d.chain = Append(e.chain, j), d.clock = e.clock, d.timer = NoTimer,
         d.conforming, d.acq # "detached"
  PROVE  Good(d, r, b)
<1> DEFINE q == e.chain
           n == Len(q)
<1>1. /\ n \in Nat /\ Len(d.chain) = n + 1 /\ (q = <<>> => n + 1 = 1)
      /\ \A i \in 1 .. n : d.chain[i] = q[i] /\ i \in 1 .. Len(d.chain)
      /\ d.chain[n + 1] = j /\ n + 1 \in 1 .. Len(d.chain)
      /\ \A i \in 1 .. Len(d.chain) : i \in 1 .. n \/ i = n + 1
  BY Chain, Appended
<1> HIDE DEF n
<1>2. \A i \in 1 .. Len(d.chain) : Aimed(d.chain[i], r, b)
  BY <1>1 DEF Good, Aimed, n
<1>3. OneAtATime(d.chain) /\ Timely(d.chain, d.clock, b)
  BY <1>1 DEF Good, OneAtATime, Timely, n
<1>4. \A i \in 1 .. Len(d.chain) : Conforms(d.chain, i) <=> i = n + 1
  BY <1>1 DEF Conforms, n
<1>5. OneConform(d)
  BY <1>1, <1>4 DEF OneConform
<1> QED BY <1>2, <1>3, <1>5 DEF Good

(* The head is done with; a conform ends with it. *)
LEMMA DropGood ==
  ASSUME NEW r, NEW b, NEW e \in Member, Good(e, r, b), e.chain # <<>>, NEW d \in Member,
         d.chain = Tail(e.chain), d.timer = e.timer,
         Conforms(e.chain, 1) => ~d.conforming /\ d.acq # "conforming",
         ~Conforms(e.chain, 1) => d.conforming = e.conforming /\ d.acq = e.acq
  PROVE  Good(d, r, b)
<1> DEFINE q == e.chain
           n == Len(q)
<1>1. /\ n \in Nat /\ Len(d.chain) = n - 1 /\ 1 \in 1 .. n
      /\ \A i \in 1 .. n - 1 : d.chain[i] = q[i + 1] /\ i + 1 \in 1 .. n /\ i + 1 > 1
      /\ \A i \in 1 .. n : i = 1 \/ (i - 1 \in 1 .. n - 1 /\ d.chain[i - 1] = q[i])
  <2>1. /\ q \in Seq(Work) /\ n \in Nat /\ 1 \in 1 .. n
    BY Chain
  <2>2. Len(Tail(q)) = n - 1 /\ \A i \in 1 .. n - 1 : Tail(q)[i] = q[i + 1]
    BY <2>1, HeadTailProperties
  <2>3. \A i \in 1 .. n : i = 1 \/ (i - 1 \in 1 .. n - 1 /\ (i - 1) + 1 = i)
    BY <2>1
  <2>4. \A i \in 1 .. n - 1 : i + 1 \in 1 .. n /\ i + 1 > 1
    BY <2>1
  <2> HIDE DEF n, q
  <2> QED BY <2>1, <2>2, <2>3, <2>4 DEF q
<1> HIDE DEF n
<1>2. \A i \in 1 .. n - 1 : Aimed(d.chain[i], r, b) /\ d.chain[i].phase = "queued"
  BY <1>1 DEF Good, OneAtATime, n
<1>3. Timely(d.chain, d.clock, b)
  <2> SUFFICES ASSUME NEW i \in 1 .. n - 1, d.chain[i].kind = "conform"
               PROVE  d.chain[i].seq \in b \cup {0}
    BY <1>1 DEF Timely
  <2> QED BY <1>1 DEF Good, Timely, n
<1>4. \A i \in 1 .. n - 1 : Conforms(d.chain, i) <=> Conforms(q, i + 1)
  BY <1>1 DEF Conforms
<1>5. OneConform(e)
  BY DEF Good
<1>6. \A i, k \in 1 .. n - 1 : Conforms(d.chain, i) /\ Conforms(d.chain, k) => i = k
  <2> SUFFICES ASSUME NEW i \in 1 .. n - 1, NEW k \in 1 .. n - 1,
                      Conforms(d.chain, i), Conforms(d.chain, k)
               PROVE  i = k
    OBVIOUS
  <2>1. i + 1 = k + 1
    BY <1>1, <1>4, <1>5 DEF OneConform, n
  <2> QED BY <2>1, <1>1
<1>7. CASE Conforms(q, 1)
  <2>1. e.timer = NoTimer
    BY <1>1, <1>5, <1>7 DEF OneConform, n
  <2>2. \A i \in 1 .. n - 1 : ~Conforms(d.chain, i)
    <3> SUFFICES ASSUME NEW i \in 1 .. n - 1, Conforms(d.chain, i) PROVE FALSE
      OBVIOUS
    <3>1. Conforms(q, i + 1) /\ i + 1 \in 1 .. n
      BY <1>1, <1>4
    <3>2. i + 1 = 1
      BY <1>1, <1>5, <1>7, <3>1 DEF OneConform, n
    <3> QED BY <1>1, <3>2
  <2>3. OneConform(d)
    BY <1>1, <1>6, <1>7, <2>1, <2>2 DEF OneConform
  <2> QED BY <1>1, <1>2, <1>3, <2>3 DEF Good, OneAtATime
<1>8. CASE ~Conforms(q, 1)
  <2>1. (\E i \in 1 .. n : Conforms(q, i)) <=> (\E i \in 1 .. n - 1 : Conforms(d.chain, i))
    <3>1. ASSUME NEW i \in 1 .. n, Conforms(q, i)
          PROVE  \E k \in 1 .. n - 1 : Conforms(d.chain, k)
      <4>1. i - 1 \in 1 .. n - 1 /\ (i - 1) + 1 = i
        BY <1>1, <1>8, <3>1
      <4> QED BY <1>4, <3>1, <4>1
    <3>2. ASSUME NEW i \in 1 .. n - 1, Conforms(d.chain, i)
          PROVE  \E k \in 1 .. n : Conforms(q, k)
      BY <1>1, <1>4, <3>2
    <3> QED BY <3>1, <3>2
  <2>2. (\A i \in 1 .. n : ~Conforms(q, i)) => \A i \in 1 .. n - 1 : ~Conforms(d.chain, i)
    BY <2>1
  <2>3. OneConform(d)
    BY <1>1, <1>5, <1>6, <1>8, <2>1, <2>2 DEF OneConform, n
  <2> QED BY <1>1, <1>2, <1>3, <2>3 DEF Good, OneAtATime
<1> QED BY <1>7, <1>8

(* The head goes on to its next wait. *)
LEMMA AdvanceGood ==
  ASSUME NEW r, NEW b, NEW e \in Member, Good(e, r, b), e.chain # <<>>, NEW d \in Member,
         NEW w \in Work, w.phase # "queued", w.kind = e.chain[1].kind, w.here = e.chain[1].here,
         Aimed(w, r, b), w.kind = "conform" => w.seq \in b \cup {0},
         d.chain = [e.chain EXCEPT ![1] = w], d.timer = e.timer,
         d.conforming = e.conforming, d.acq = e.acq
  PROVE  Good(d, r, b)
<1> DEFINE q == e.chain
           n == Len(q)
<1>1. /\ n \in Nat /\ 1 \in 1 .. n /\ Len(d.chain) = n /\ d.chain[1] = w
      /\ \A i \in 1 .. n : i # 1 => d.chain[i] = q[i] /\ i > 1
  <2>1. q \in Seq(Work) /\ n \in Nat /\ 1 \in 1 .. n
    BY Chain
  <2>2. Len(d.chain) = n /\ d.chain[1] = w /\ \A i \in 1 .. n \ {1} : d.chain[i] = q[i]
    BY <2>1, ExceptSeq
  <2>3. \A i \in 1 .. n : i # 1 => i > 1
    BY <2>1
  <2> HIDE DEF n
  <2> QED BY <2>1, <2>2, <2>3
<1> HIDE DEF n
<1>2. \A i \in 1 .. n : Aimed(d.chain[i], r, b)
  BY <1>1 DEF Good, n
<1>3. OneAtATime(d.chain) /\ Timely(d.chain, d.clock, b)
  BY <1>1 DEF Good, OneAtATime, Timely, n
<1>4. \A i \in 1 .. n : Conforms(d.chain, i) <=> Conforms(q, i)
  BY <1>1 DEF Conforms
<1>5. OneConform(d)
  BY <1>1, <1>4 DEF Good, OneConform, n
<1> QED BY <1>1, <1>2, <1>3, <1>5 DEF Good

(* The rest of the engine's state is free; a clock comes to an engine whose *)
(* head is not waiting to begin.                                            *)
LEMMA SameGood ==
  ASSUME NEW r, NEW b, NEW e \in Member, Good(e, r, b), NEW d \in Member,
         d.chain = e.chain, d.timer = e.timer, d.conforming = e.conforming,
         d.acq = e.acq \/ d.acq \in {"guarded", "steady", "fought"},
         d.clock => e.clock \/ (e.chain # <<>> => e.chain[1].phase # "queued")
  PROVE  Good(d, r, b)
<1>1. /\ Len(e.chain) \in Nat /\ (e.chain = <<>> <=> Len(e.chain) = 0)
  BY Chain
<1>2. Timely(d.chain, d.clock, b)
  <2> SUFFICES ASSUME NEW i \in 1 .. Len(e.chain), e.chain[i].kind = "conform",
                      ~(e.chain[i].seq \in b \cup {0})
               PROVE  i = 1 /\ e.chain[i].phase = "queued" /\ ~d.clock
    BY DEF Timely
  <2>1. i = 1 /\ e.chain[i].phase = "queued" /\ ~e.clock
    BY DEF Good, Timely
  <2>2. e.chain # <<>>
    BY <1>1
  <2> QED BY <2>1, <2>2
<1>3. OneConform(d)
  BY DEF Good, OneConform
<1> QED BY <1>2, <1>3 DEF Good

LEMMA QueueGood ==
  ASSUME NEW r, NEW b, NEW e \in Member, Good(e, r, b),
         NEW kind \in Kinds \ {"conform"}, kind = "apply" => e.applied \in b
  PROVE  LET d == Queue(e, kind)
         IN  d \in Member /\ Good(d, r, b) /\ d = [e EXCEPT !.chain = d.chain]
<1> DEFINE d == Queue(e, kind)
           j == Job(kind, e)
<1>1. j \in Work /\ j.phase = "queued" /\ j.kind = kind /\ j.seq = e.applied
  BY DEF Job, Work, Member
<1> HIDE DEF j
<1>2. Append(e.chain, j) \in Seq(Work)
  BY <1>1, Chain, Appended
<1>3. d = [e EXCEPT !.chain = Append(e.chain, j)]
  BY DEF Queue, j
<1>4. d \in Member /\ d.chain = Append(e.chain, j) /\ d = [e EXCEPT !.chain = d.chain]
  BY <1>2, <1>3 DEF Member
<1>5. /\ d.clock = e.clock /\ d.timer = e.timer
      /\ d.conforming = e.conforming /\ d.acq = e.acq
  BY <1>3 DEF Member
<1> HIDE DEF d
<1>6. Good(d, r, b)
  BY <1>1, <1>4, <1>5, PushGood
<1> QED BY <1>4, <1>6 DEF d

(* Marking the jobs of an ended session or epoch. *)
LEMMA Marked ==
  ASSUME NEW q \in Seq(Work)
  PROVE  /\ [i \in 1 .. Len(q) |-> [q[i] EXCEPT !.live = FALSE]] \in Seq(Work)
         /\ Len([i \in 1 .. Len(q) |-> [q[i] EXCEPT !.live = FALSE]]) = Len(q)
         /\ [i \in 1 .. Len(q) |-> [q[i] EXCEPT !.here = FALSE]] \in Seq(Work)
         /\ Len([i \in 1 .. Len(q) |-> [q[i] EXCEPT !.here = FALSE]]) = Len(q)
<1>1. Len(q) \in Nat /\ \A i \in 1 .. Len(q) : q[i] \in Work
  BY LenProperties, ElementOfSeq
<1>2. \A i \in 1 .. Len(q) : [q[i] EXCEPT !.live = FALSE] \in Work
  BY <1>1 DEF Work
<1>3. \A i \in 1 .. Len(q) : [q[i] EXCEPT !.here = FALSE] \in Work
  BY <1>1 DEF Work
<1> QED BY <1>1, <1>2, <1>3

LEMMA EndSessionGood ==
  ASSUME NEW r, NEW b, NEW e \in Member, Good(e, r, b)
  PROVE  LET d == EndSession(e)
         IN  d \in Member /\ Good(d, r, b) /\ d.applied = e.applied /\ d.pending = e.pending
<1> DEFINE d == EndSession(e)
           q == e.chain
           ended == [i \in 1 .. Len(q) |-> [q[i] EXCEPT !.live = FALSE]]
           timer == [e.timer EXCEPT !.live = FALSE]
<1>1. /\ ended \in Seq(Work) /\ Len(ended) = Len(q)
      /\ timer \in Timer /\ timer.seq = e.timer.seq /\ timer.live = FALSE
  BY Marked, Chain DEF Member, Timer
<1>2. \A i \in 1 .. Len(q) : /\ q[i] \in Work
                            /\ ended[i].kind = q[i].kind /\ ended[i].seq = q[i].seq
                            /\ ended[i].here = q[i].here /\ ended[i].phase = q[i].phase
                            /\ ended[i].paused = q[i].paused
  <2>1. \A i \in 1 .. Len(q) : q[i] \in Work
    BY Chain
  <2> QED BY <2>1 DEF Work
<1>3. d = [e EXCEPT !.chain = ended, !.timer.live = FALSE]
  BY DEF EndSession
<1> HIDE DEF ended
<1>4. /\ d.chain = ended /\ d.timer = timer /\ d.clock = e.clock
      /\ d.conforming = e.conforming /\ d.acq = e.acq
      /\ d.applied = e.applied /\ d.pending = e.pending
  BY <1>3 DEF Member
<1>5. d \in Member
  BY <1>1, <1>3 DEF Member, Timer
<1> HIDE DEF d
<1>6. \A i \in 1 .. Len(q) : Aimed(ended[i], r, b)
  BY <1>2 DEF Good, Aimed
<1>7. OneAtATime(ended) /\ Timely(ended, d.clock, b)
  BY <1>1, <1>2, <1>4 DEF Good, OneAtATime, Timely
<1>8. \A i \in 1 .. Len(q) : Conforms(ended, i) <=> Conforms(q, i)
  BY <1>2 DEF Conforms
<1>9. timer = NoTimer <=> e.timer = NoTimer
  <2>1. e.timer.seq = 0 => e.timer = NoTimer
    BY DEF Good, OneConform
  <2>2. NoTimer \in Timer /\ NoTimer.seq = 0 /\ ~NoTimer.live /\ timer \in Timer
    BY <1>1 DEF NoTimer, Timer
  <2>3. timer.seq = 0 => timer = NoTimer
    BY <1>1, <2>2 DEF Timer, NoTimer
  <2> HIDE DEF timer
  <2> QED BY <1>1, <2>1, <2>2, <2>3
<1>10. timer.seq = 0 => timer = NoTimer
  BY <1>1, <1>9 DEF Good, OneConform
<1>11. OneConform(d)
  BY <1>1, <1>4, <1>8, <1>9, <1>10 DEF Good, OneConform
<1> QED BY <1>1, <1>4, <1>5, <1>6, <1>7, <1>11 DEF Good, d

LEMMA NewEpochGood ==
  ASSUME NEW r, NEW b, NEW e \in Member, Good(e, r, b)
  PROVE  LET d == NewMediaEpoch(e)
         IN  /\ d \in Member /\ Good(d, r, b) /\ d.acq = "detached"
             /\ d.applied = e.applied /\ d.pending = e.pending
<1> DEFINE d == NewMediaEpoch(e)
           q == e.chain
           ended == [i \in 1 .. Len(q) |-> [q[i] EXCEPT !.here = FALSE]]
<1>1. /\ ended \in Seq(Work) /\ Len(ended) = Len(q)
  BY Marked, Chain
<1>2. \A i \in 1 .. Len(q) : /\ q[i] \in Work
                            /\ ended[i].kind = q[i].kind /\ ended[i].seq = q[i].seq
                            /\ ~ended[i].here /\ ended[i].phase = q[i].phase
                            /\ ended[i].paused = q[i].paused
  <2>1. \A i \in 1 .. Len(q) : q[i] \in Work
    BY Chain
  <2> QED BY <2>1 DEF Work
<1>3. d = [e EXCEPT !.acq = "detached", !.reconforms = 0, !.settled = FALSE, !.conforming = FALSE,
                    !.base = "unknown", !.wait = "none", !.pressed = "no", !.timer = NoTimer,
                    !.chain = ended]
  BY DEF NewMediaEpoch
<1> HIDE DEF ended
<1>4. /\ d.chain = ended /\ d.timer = NoTimer /\ d.clock = e.clock
      /\ d.conforming = FALSE /\ d.acq = "detached"
      /\ d.applied = e.applied /\ d.pending = e.pending
  BY <1>3 DEF Member
<1> HIDE DEF d
<1>5. d \in Member
  <2>1. NoTimer \in Timer
    BY DEF Timer, NoTimer
  <2>2. d = [status |-> e.status, clock |-> e.clock, welcomed |-> e.welcomed,
             applied |-> e.applied, pending |-> e.pending, mine |-> e.mine, sent |-> e.sent,
             intended |-> e.intended, local |-> e.local, acq |-> "detached",
             conforming |-> FALSE, reconforms |-> 0, settled |-> FALSE, base |-> "unknown",
             wait |-> "none", pressed |-> "no", blocked |-> e.blocked, retry |-> e.retry,
             chain |-> ended, timer |-> NoTimer]
    BY <1>3 DEF Member
  <2> HIDE DEF q
  <2> QED BY <1>1, <2>1, <2>2 DEF Member
<1>6. \A i \in 1 .. Len(q) : Aimed(ended[i], r, b)
  BY <1>2 DEF Good, Aimed
<1>7. OneAtATime(ended) /\ Timely(ended, d.clock, b)
  BY <1>1, <1>2, <1>4 DEF Good, OneAtATime, Timely
<1>8. \A i \in 1 .. Len(q) : ~Conforms(ended, i)
  BY <1>2 DEF Conforms
<1>9. OneConform(d)
  BY <1>1, <1>4, <1>8 DEF OneConform
<1> QED BY <1>1, <1>4, <1>5, <1>6, <1>7, <1>9 DEF Good, d

(* What a command of the room, a conform and a hold are aimed for. *)
LEMMA AnchorIsTheRooms ==
  ASSUME Types, SeqsAreTheRooms, NEW e \in Member, e.applied \in 0 .. Len(room)
  PROVE  /\ Anchor(e).paused \in BOOLEAN /\ Anchor(e).media \in Media \cup {NoMedia}
         /\ e.applied # 0 => Anchor(e) = room[e.applied]
         /\ e.applied = 0 => Anchor(e).media = NoMedia /\ Anchor(e).paused
         /\ Anchor(e).paused => e.applied \in begun \cup {0}
<1>1. e.applied # 0 => /\ e.applied \in 1 .. Len(room) /\ room[e.applied] \in Entry
                      /\ Anchor(e) = room[e.applied]
  <2>1. \A i \in 1 .. Len(room) : room[i] \in Entry
    BY ElementOfSeq DEF Types
  <2>2. Len(room) \in Nat
    BY LenProperties DEF Types
  <2> QED BY <2>1, <2>2 DEF Anchor
<1>2. e.applied = 0 => Anchor(e) = [paused |-> TRUE, media |-> NoMedia]
  BY DEF Anchor
<1>3. CASE e.applied = 0
  <2>1. Anchor(e).paused = TRUE /\ Anchor(e).media = NoMedia
    BY <1>2, <1>3
  <2> QED BY <1>3, <2>1
<1>4. CASE e.applied # 0
  <2>1. Anchor(e).paused => e.applied \in begun
    BY <1>1, <1>4 DEF SeqsAreTheRooms
  <2>2. Anchor(e).paused \in BOOLEAN /\ Anchor(e).media \in Media \cup {NoMedia}
    BY <1>1, <1>4 DEF Entry
  <2> QED BY <1>1, <1>4, <2>1, <2>2
<1> QED BY <1>3, <1>4

(* A conform is asked for; one that is not due yet gets a timer. *)
LEMMA ConformGood ==
  ASSUME Types, SeqsAreTheRooms, NEW e \in Member, Good(e, room, begun),
         e.applied \in 0 .. Len(room), ~e.conforming, ~e.clock => e.chain = <<>>,
         NEW f \in Member, f.acq # "detached", f.chain = e.chain, f.timer = e.timer,
         f.clock = e.clock, f.applied = e.applied
  PROVE  LET d == Conform(f)
         IN  /\ d \in Member /\ Good(d, room, begun)
             /\ d.applied = f.applied /\ d.pending = f.pending /\ d.clock = f.clock
<1> DEFINE d == Conform(f)
           j == Job("conform", f)
           timer == [seq |-> f.applied, live |-> TRUE]
<1>1. \A i \in 1 .. Len(e.chain) : ~Conforms(e.chain, i)
  BY DEF Good, OneConform
<1>2. CASE ~f.clock \/ Anchor(f).paused \/ f.applied \in begun
  <2>1. j \in Work /\ j.phase = "queued" /\ j.kind = "conform" /\ j.here /\ j.seq = f.applied
    BY DEF Job, Work, Member, Kinds
  <2>2. Append(e.chain, j) \in Seq(Work)
    BY <2>1, Chain, Appended
  <2>3. j.seq \in begun \cup {0} \/ (e.chain = <<>> /\ ~e.clock)
    BY <1>2, <2>1, AnchorIsTheRooms
  <2>4. d = [f EXCEPT !.conforming = TRUE, !.chain = Append(e.chain, j)]
    <3>1. d = Queue([f EXCEPT !.conforming = TRUE], "conform")
      BY <1>2 DEF Conform, Anchor
    <3>2. Job("conform", [f EXCEPT !.conforming = TRUE]) = j
      BY DEF Job, Member
    <3> QED BY <3>1, <3>2 DEF Queue, Member
  <2> HIDE DEF j
  <2>5. /\ d \in Member /\ d.chain = Append(e.chain, j) /\ d.conforming
        /\ d.clock = f.clock /\ d.timer = f.timer /\ d.acq = f.acq
        /\ d.applied = f.applied /\ d.pending = f.pending
    BY <2>2, <2>4 DEF Member
  <2> HIDE DEF d
  <2>6. f.timer = NoTimer
    BY DEF Good, OneConform
  <2>7. Good(d, room, begun)
    BY <1>1, <2>1, <2>3, <2>5, <2>6, PushConform
  <2> QED BY <2>5, <2>7 DEF d
<1>3. CASE ~(~f.clock \/ Anchor(f).paused \/ f.applied \in begun)
  <2>1. d = [f EXCEPT !.conforming = TRUE, !.timer = timer]
    BY <1>3 DEF Conform, Anchor, Member
  <2> HIDE DEF d
  <2>2. /\ d \in Member /\ d.chain = e.chain /\ d.conforming /\ d.timer = timer
        /\ d.clock = f.clock /\ d.acq = f.acq
        /\ d.applied = f.applied /\ d.pending = f.pending
    BY <2>1 DEF Member, Timer
  <2>3. timer.seq # 0 /\ timer # NoTimer
    BY <1>3, AnchorIsTheRooms DEF NoTimer
  <2> HIDE DEF timer
  <2>4. OneConform(d)
    BY <1>1, <2>2, <2>3 DEF OneConform
  <2> QED BY <2>2, <2>4 DEF Good, d
<1> QED BY <1>2, <1>3

LEMMA EndsGood ==
  ASSUME NEW r, NEW b, NEW e \in Member, Good(e, r, b), e.chain # <<>>,
         NEW f \in Member, f.chain = Tail(e.chain), f.timer = e.timer,
         f.conforming = e.conforming, f.acq = e.acq, NEW done \in BOOLEAN
  PROVE  LET d == AfterConform(f, e.chain[1], done)
         IN  /\ d \in Member /\ Good(d, r, b)
             /\ d.applied = f.applied /\ d.pending = f.pending
<1> DEFINE j == e.chain[1]
           d == AfterConform(f, j, done)
<1>1. CASE j.kind # "conform" \/ ~j.here
  <2>1. d = f /\ ~Conforms(e.chain, 1)
    BY <1>1 DEF AfterConform, Conforms
  <2>2. Good(f, r, b)
    BY <2>1, DropGood
  <2> QED BY <2>1, <2>2
<1>2. CASE ~(j.kind # "conform" \/ ~j.here)
  <2> DEFINE acq == IF f.acq # "conforming" THEN f.acq ELSE IF done THEN "guarded" ELSE "detached"
             settled == IF done THEN FALSE ELSE f.settled
  <2>1. d = [f EXCEPT !.conforming = FALSE, !.settled = settled, !.acq = acq]
    BY <1>2 DEF AfterConform, Member
  <2>2. /\ acq \in {"detached", "conforming", "guarded", "steady", "fought"}
        /\ settled \in BOOLEAN /\ acq # "conforming"
    BY DEF Member
  <2> HIDE DEF acq, settled, d
  <2>3. /\ d \in Member /\ d.chain = Tail(e.chain) /\ d.timer = e.timer
        /\ ~d.conforming /\ d.acq # "conforming"
        /\ d.applied = f.applied /\ d.pending = f.pending
    <3>1. d = [status |-> f.status, clock |-> f.clock, welcomed |-> f.welcomed,
               applied |-> f.applied, pending |-> f.pending, mine |-> f.mine, sent |-> f.sent,
               intended |-> f.intended, local |-> f.local, acq |-> acq,
               conforming |-> FALSE, reconforms |-> f.reconforms, settled |-> settled,
               base |-> f.base, wait |-> f.wait, pressed |-> f.pressed, blocked |-> f.blocked,
               retry |-> f.retry, chain |-> f.chain, timer |-> f.timer]
      BY <2>1 DEF Member
    <3>2. d \in Member
      BY <2>2, <3>1 DEF Member
    <3> QED BY <2>2, <3>1, <3>2
  <2>4. Conforms(e.chain, 1)
    BY <1>2 DEF Conforms
  <2>5. Good(d, r, b)
    BY <2>3, <2>4, DropGood
  <2> QED BY <2>3, <2>5 DEF d
<1> QED BY <1>1, <1>2

LEMMA FinishGood ==
  ASSUME NEW r, NEW b, NEW e \in Member, Good(e, r, b), e.chain # <<>>,
         NEW paused \in BOOLEAN, NEW done \in BOOLEAN
  PROVE  LET d == Finish(e, Head(e.chain), paused, done)
         IN  /\ d \in Member /\ Good(d, r, b)
             /\ d.applied = e.applied /\ d.pending = e.pending
<1> DEFINE f == [e EXCEPT !.chain = Tail(@), !.base = State(paused)]
<1>1. Tail(e.chain) \in Seq(Work) /\ Head(e.chain) = e.chain[1]
  BY Chain, HeadTailProperties
<1>2. State(paused) \in {"unknown", "paused", "playing"}
  BY DEF State
<1>3. /\ f \in Member /\ f.chain = Tail(e.chain) /\ f.timer = e.timer
      /\ f.conforming = e.conforming /\ f.acq = e.acq
      /\ f.applied = e.applied /\ f.pending = e.pending
  BY <1>1, <1>2 DEF Member
<1>4. Finish(e, Head(e.chain), paused, done) = AfterConform(f, e.chain[1], done)
  BY <1>1 DEF Finish
<1> HIDE DEF f
<1> QED BY <1>3, <1>4, EndsGood

(* Frames and commands on their way. *)
LEMMA Delivered ==
  ASSUME NEW q \in Seq(Frame), q # <<>>, NEW n, Told(q, n)
  PROVE  /\ Tail(q) \in Seq(Frame) /\ Told(Tail(q), n)
         /\ Head(q) \in Frame /\ Head(q).seq \in 1 .. n
<1>1. /\ Tail(q) \in Seq(Frame) /\ Head(q) \in Frame /\ Head(q) = q[1]
      /\ Len(Tail(q)) = Len(q) - 1 /\ \A i \in 1 .. Len(Tail(q)) : Tail(q)[i] = q[i + 1]
  BY HeadTailProperties
<1>2. Len(q) \in Nat /\ Len(q) # 0
  BY LenProperties, EmptySeq
<1>3. 1 \in 1 .. Len(q) /\ \A i \in 1 .. Len(Tail(q)) : i + 1 \in 1 .. Len(q)
  BY <1>1, <1>2
<1> QED BY <1>1, <1>3 DEF Told

LEMMA Dispatched ==
  ASSUME NEW q \in Seq(Frame), NEW n, Told(q, n), NEW f \in Frame, f.seq \in 1 .. n
  PROVE  /\ Append(q, f) \in Seq(Frame) /\ Told(Append(q, f), n)
         /\ <<f>> \in Seq(Frame) /\ Told(<<f>>, n)
         /\ <<>> \in Seq(Frame) /\ Told(<<>>, n)
<1>1. /\ Append(q, f) \in Seq(Frame) /\ Len(Append(q, f)) = Len(q) + 1
      /\ \A i \in 1 .. Len(q) : Append(q, f)[i] = q[i]
      /\ Append(q, f)[Len(q) + 1] = f
  BY AppendProperties
<1>2. \A i \in 1 .. Len(q) + 1 : i \in 1 .. Len(q) \/ i = Len(q) + 1
  BY LenProperties
<1>3. <<f>> \in Seq(Frame) /\ Len(<<f>>) = 1 /\ <<f>>[1] = f /\ \A i \in 1 .. 1 : i = 1
  OBVIOUS
<1>4. Told(<<f>>, n)
  BY <1>3 DEF Told
<1>5. <<>> \in Seq(Frame) /\ Told(<<>>, n)
  BY EmptySeq DEF Told
<1> QED BY <1>1, <1>2, <1>3, <1>4, <1>5 DEF Told

-----------------------------------------------------------------------------
(* The steps.  A step of the engine leaves the room as it is. *)

EngineMoves ==
  /\ UNCHANGED serverVars
  /\ wire' \in Seq(Frame) /\ Told(wire', Len(room))
  /\ up' \in Seq([id : Nat, paused : BOOLEAN])
  /\ el' \in [paused : BOOLEAN, ready : BOOLEAN]
  /\ me' \in Member
  /\ me'.applied \in 0 .. Len(room) /\ me'.pending \subseteq 1 .. Len(room)
  /\ Good(me', room, begun)

LEMMA EngineMovesInv ==
  ASSUME Inv, EngineMoves
  PROVE  Inv'
<1>1. room' = room /\ begun' = begun
  BY DEF EngineMoves, serverVars
<1>2. Types'
  BY <1>1 DEF Inv, Types, EngineMoves
<1>3. SeqsAreTheRooms'
  BY <1>1 DEF Inv, SeqsAreTheRooms, EngineMoves
<1>4. Good(me, room, begun)'
  BY <1>1 DEF EngineMoves
<1> QED BY <1>2, <1>3, <1>4 DEF Inv

(* The room grows, and what was true of it stays true. *)
LEMMA RoomGrows ==
  ASSUME NEW r, NEW b, NEW e \in Member, Good(e, r, b), NEW q, NEW c,
         Len(r) \in Nat, Len(q) \in Nat, Len(r) <= Len(q),
         \A i \in 1 .. Len(r) : q[i] = r[i], b \subseteq c
  PROVE  Good(e, q, c)
<1>1. 1 .. Len(r) \subseteq 1 .. Len(q)
  OBVIOUS
<1>2. \A i \in 1 .. Len(e.chain) : Aimed(e.chain[i], q, c)
  BY <1>1 DEF Good, Aimed
<1>3. Timely(e.chain, e.clock, c)
  BY DEF Good, Timely
<1> QED BY <1>2, <1>3 DEF Good

LEMMA ExtendInv ==
  ASSUME Inv, NEW entry \in Entry, NEW t \in {"state", "ack"}, NEW id \in Nat,
         Extend(entry, [t |-> t, seq |-> Len(room) + 1, id |-> id]),
         up' \in Seq([id : Nat, paused : BOOLEAN]), me' = me, el' = el
  PROVE  Inv'
<1> DEFINE f == [t |-> t, seq |-> Len(room) + 1, id |-> id]
           n == Len(room)
<1>1. /\ room \in Seq(Entry) /\ n \in Nat /\ n > 0 /\ begun \subseteq 1 .. n
      /\ wire \in Seq(Frame) /\ Told(wire, n) /\ me \in Member
  BY LenProperties DEF Inv, Types, SeqsAreTheRooms
<1>2. /\ room' = Append(room, entry)
      /\ begun' = IF entry.paused THEN begun \cup {n + 1} ELSE begun
      /\ wire' = IF Linked THEN Append(wire, f) ELSE wire
  BY DEF Extend, ToMember
<1>3. /\ room' \in Seq(Entry) /\ Len(room') = n + 1
      /\ \A i \in 1 .. n : room'[i] = room[i] /\ i \in 1 .. n + 1
      /\ room'[n + 1] = entry /\ n + 1 \in 1 .. n + 1
      /\ \A i \in 1 .. n + 1 : i \in 1 .. n \/ i = n + 1
  BY <1>1, <1>2, AppendProperties
<1>4. f \in Frame /\ f.seq = n + 1
  BY <1>1 DEF Frame
<1> HIDE DEF n, f
<1>5. Told(wire, n + 1)
  BY <1>1, <1>3 DEF Told
<1>6. wire' \in Seq(Frame) /\ Told(wire', n + 1)
  BY <1>1, <1>2, <1>3, <1>4, <1>5, Dispatched
<1>7. Types'
  BY <1>1, <1>2, <1>3, <1>6 DEF Inv, Types
<1>8. SeqsAreTheRooms'
  <2>1. me'.applied \in 0 .. n + 1 /\ me'.pending \subseteq 1 .. n + 1
    BY <1>1 DEF Inv, SeqsAreTheRooms, n
  <2>2. \A s \in 1 .. n + 1 : room'[s].paused => s \in begun'
    <3>1. \A s \in 1 .. n : room[s].paused => s \in begun
      BY DEF Inv, SeqsAreTheRooms, n
    <3> QED BY <1>2, <1>3, <3>1
  <2> QED BY <1>3, <1>6, <2>1, <2>2 DEF SeqsAreTheRooms
<1>9. Good(me', room', begun')
  <2>1. begun \subseteq begun' /\ Len(room) = n /\ n <= n + 1 /\ n + 1 \in Nat
    BY <1>1, <1>2 DEF n
  <2> QED BY <1>1, <1>3, <2>1, RoomGrows DEF Inv
<1> QED BY <1>7, <1>8, <1>9 DEF Inv

LEMMA ServerInv == ASSUME Inv, Server PROVE Inv'
<1>0. /\ room \in Seq(Entry) /\ Len(room) \in Nat /\ Len(room) > 0
      /\ up \in Seq([id : Nat, paused : BOOLEAN]) /\ me \in Member
      /\ Len(room) \in 1 .. Len(room) /\ Latest \in Entry
  <2>1. /\ room \in Seq(Entry) /\ Len(room) \in Nat /\ Len(room) > 0
        /\ up \in Seq([id : Nat, paused : BOOLEAN]) /\ me \in Member
    BY LenProperties DEF Inv, Types
  <2>2. Len(room) \in 1 .. Len(room)
    BY <2>1
  <2> QED BY <2>1, <2>2, ElementOfSeq DEF Latest
<1>1. ASSUME NEW paused \in BOOLEAN, NEW k \in Media, Others(paused, k) PROVE Inv'
  <2>1. [paused |-> paused, media |-> k] \in Entry
    BY DEF Entry
  <2>2. /\ Extend([paused |-> paused, media |-> k], [t |-> "state", seq |-> Len(room) + 1, id |-> 0])
        /\ up' = up /\ me' = me /\ el' = el
    BY <1>1 DEF Others
  <2> QED BY <1>0, <2>1, <2>2, ExtendInv
<1>2. ASSUME NEW taken \in BOOLEAN, Serve(taken) PROVE Inv'
  <2>1. /\ up # <<>> /\ up' = Tail(up) /\ me' = me /\ el' = el
    BY <1>2 DEF Serve
  <2>2. /\ Tail(up) \in Seq([id : Nat, paused : BOOLEAN])
        /\ Head(up) \in [id : Nat, paused : BOOLEAN]
    BY <1>0, <2>1, HeadTailProperties
  <2>3. CASE taken
    <3>1. [paused |-> Head(up).paused, media |-> Latest.media] \in Entry
      BY <1>0, <2>2 DEF Entry
    <3>2. Extend([paused |-> Head(up).paused, media |-> Latest.media],
                 [t |-> "ack", seq |-> Len(room) + 1, id |-> Head(up).id])
      BY <1>2, <2>3 DEF Serve
    <3> QED BY <2>1, <2>2, <3>1, <3>2, ExtendInv
  <2>4. CASE ~taken
    <3>1. room' = room /\ begun' = begun /\ wire' = wire
      BY <1>2, <2>4 DEF Serve
    <3> QED BY <2>1, <2>2, <3>1 DEF Inv, Types, SeqsAreTheRooms
  <2> QED BY <2>3, <2>4
<1>3. ASSUME NEW s \in 1 .. MaxSeq, Begins(s) PROVE Inv'
  <2>1. /\ s \in 1 .. Len(room) /\ begun' = begun \cup {s} /\ room' = room
        /\ wire' = wire /\ up' = up /\ me' = me /\ el' = el
    BY <1>3 DEF Begins, linkVars
  <2>2. Types' /\ SeqsAreTheRooms'
    BY <2>1 DEF Inv, Types, SeqsAreTheRooms
  <2>3. Good(me', room', begun')
    <3>1. /\ Good(me, room, begun) /\ begun \subseteq begun' /\ Len(room') <= Len(room')
          /\ Len(room) <= Len(room') /\ Len(room') \in Nat
          /\ \A i \in 1 .. Len(room) : room'[i] = room[i]
      BY <1>0, <2>1 DEF Inv
    <3> QED BY <1>0, <2>1, <3>1, RoomGrows
  <2> QED BY <2>2, <2>3 DEF Inv
<1>4. ASSUME Resync PROVE Inv'
  <2> DEFINE f == [t |-> "state", seq |-> Len(room), id |-> 0]
  <2>1. f \in Frame /\ f.seq \in 1 .. Len(room)
    BY <1>0 DEF Frame
  <2>2. /\ wire' \in {wire, Append(wire, f)}
        /\ room' = room /\ begun' = begun /\ up' = up /\ me' = me /\ el' = el
    BY <1>4 DEF Resync, ToMember, serverVars
  <2> HIDE DEF f
  <2>3. wire \in Seq(Frame) /\ Told(wire, Len(room))
    BY DEF Inv, Types, SeqsAreTheRooms
  <2>4. wire' \in Seq(Frame) /\ Told(wire', Len(room))
    BY <2>1, <2>2, <2>3, Dispatched
  <2> QED BY <2>2, <2>4 DEF Inv, Types, SeqsAreTheRooms
<1> QED BY <1>1, <1>2, <1>3, <1>4 DEF Server

(* The steps that only change what no job goes by. *)
LEMMA PlainInv ==
  ASSUME Inv, UNCHANGED serverVars, UNCHANGED linkVars,
         el' \in [paused : BOOLEAN, ready : BOOLEAN],
         me' \in Member, Good(me', room, begun),
         me'.applied = me.applied, me'.pending = me.pending
  PROVE  Inv'
<1> EngineMoves
  BY DEF Inv, Types, SeqsAreTheRooms, EngineMoves, linkVars
<1> QED BY EngineMovesInv

LEMMA CutInv ==
  ASSUME Inv, UNCHANGED serverVars, wire' = <<>>, up' = <<>>, el' = el,
         me' \in Member, Good(me', room, begun),
         me'.applied = me.applied, me'.pending = {}
  PROVE  Inv'
<1>1. <<>> \in Seq(Frame) /\ Told(<<>>, Len(room)) /\ <<>> \in Seq([id : Nat, paused : BOOLEAN])
  BY EmptySeq DEF Told
<1>2. EngineMoves
  BY <1>1 DEF Inv, Types, SeqsAreTheRooms, EngineMoves
<1> QED BY <1>2, EngineMovesInv

LEMMA ForgetsGood ==
  ASSUME Inv
  PROVE  /\ Forgets(me) \in Member /\ Good(Forgets(me), room, begun)
         /\ Forgets(me).applied = me.applied /\ Forgets(me).pending = {}
         /\ Forgets(me).clock = me.clock
<1> DEFINE d == Forgets(me)
<1>1. me \in Member /\ Good(me, room, begun)
  BY DEF Inv, Types
<1>2. d = [me EXCEPT !.pending = {}, !.intended = NoCmd] /\ NoCmd \in Cmd
  BY DEF Forgets, NoCmd, Cmd
<1> HIDE DEF d
<1>3. /\ d \in Member /\ d.chain = me.chain /\ d.timer = me.timer
      /\ d.conforming = me.conforming /\ d.acq = me.acq /\ d.clock = me.clock
      /\ d.applied = me.applied /\ d.pending = {}
  BY <1>1, <1>2 DEF Member
<1>4. Good(d, room, begun)
  BY <1>1, <1>3, SameGood
<1> QED BY <1>3, <1>4 DEF d

LEMMA OnCloseInv == ASSUME Inv, NEW clean \in BOOLEAN, OnClose(clean) PROVE Inv'
<1> DEFINE f == Forgets(me)
<1>1. /\ f \in Member /\ Good(f, room, begun) /\ f.applied = me.applied /\ f.pending = {}
  BY ForgetsGood
<1>2. /\ UNCHANGED serverVars /\ wire' = <<>> /\ up' = <<>> /\ el' = el
      /\ me' = IF clean THEN [f EXCEPT !.status = "closed"] ELSE Lost(me)
  BY DEF OnClose, serverVars
<1>3. CASE clean
  <2>1. me' = [f EXCEPT !.status = "closed"]
    BY <1>2, <1>3
  <2> HIDE DEF f
  <2>2. /\ me' \in Member /\ me'.chain = f.chain /\ me'.timer = f.timer
        /\ me'.conforming = f.conforming /\ me'.acq = f.acq /\ me'.clock = f.clock
        /\ me'.applied = f.applied /\ me'.pending = f.pending
    BY <1>1, <2>1 DEF Member
  <2>3. Good(me', room, begun)
    BY <1>1, <2>2, SameGood
  <2> QED BY <1>1, <1>2, <2>2, <2>3, CutInv
<1>4. CASE ~clean
  <2> DEFINE g == EndSession(f)
  <2>1. /\ g \in Member /\ Good(g, room, begun) /\ g.applied = f.applied /\ g.pending = f.pending
    <3> HIDE DEF f
    <3> QED BY <1>1, EndSessionGood
  <2>2. me' = [g EXCEPT !.status = "away", !.clock = FALSE, !.base = "unknown"]
    BY <1>2, <1>4 DEF Lost
  <2> HIDE DEF f, g
  <2>3. /\ me' \in Member /\ me'.chain = g.chain /\ me'.timer = g.timer
        /\ me'.conforming = g.conforming /\ me'.acq = g.acq /\ ~me'.clock
        /\ me'.applied = g.applied /\ me'.pending = g.pending
    BY <2>1, <2>2 DEF Member
  <2>4. Good(me', room, begun)
    BY <2>1, <2>3, SameGood
  <2> QED BY <1>1, <1>2, <2>1, <2>3, <2>4, CutInv
<1> QED BY <1>3, <1>4

LEMMA StopInv == ASSUME Inv, Stop PROVE Inv'
<1> DEFINE f == Forgets(me)
           g == EndSession(f)
<1>1. /\ f \in Member /\ Good(f, room, begun) /\ f.applied = me.applied /\ f.pending = {}
  BY ForgetsGood
<1>2. /\ g \in Member /\ Good(g, room, begun) /\ g.applied = f.applied /\ g.pending = f.pending
  <2> HIDE DEF f
  <2> QED BY <1>1, EndSessionGood
<1>3. /\ UNCHANGED serverVars /\ wire' = <<>> /\ up' = <<>> /\ el' = el
      /\ me' = [g EXCEPT !.status = "closed", !.retry = FALSE]
  BY DEF Stop, serverVars
<1> HIDE DEF f, g
<1>4. /\ me' \in Member /\ me'.chain = g.chain /\ me'.timer = g.timer
      /\ me'.conforming = g.conforming /\ me'.acq = g.acq /\ me'.clock = g.clock
      /\ me'.applied = g.applied /\ me'.pending = g.pending
  BY <1>2, <1>3 DEF Member
<1>5. Good(me', room, begun)
  BY <1>2, <1>4, SameGood
<1> QED BY <1>1, <1>2, <1>3, <1>4, <1>5, CutInv

LEMMA ConnectInv == ASSUME Inv, Connect PROVE Inv'
<1> DEFINE f == [t |-> "welcome", seq |-> Len(room), id |-> 0]
<1>1. me \in Member /\ Good(me, room, begun) /\ Len(room) \in Nat /\ Len(room) > 0
  BY LenProperties DEF Inv, Types
<1>2. f \in Frame /\ f.seq \in 1 .. Len(room)
  BY <1>1 DEF Frame
<1>3. /\ UNCHANGED serverVars /\ up' = up /\ el' = el /\ wire' = <<f>>
      /\ me' = [me EXCEPT !.status = "joining"]
  BY DEF Connect, serverVars
<1> HIDE DEF f
<1>4. wire' \in Seq(Frame) /\ Told(wire', Len(room))
  BY <1>2, <1>3, Dispatched DEF Inv, Types, SeqsAreTheRooms
<1>5. /\ me' \in Member /\ me'.chain = me.chain /\ me'.timer = me.timer
      /\ me'.conforming = me.conforming /\ me'.acq = me.acq /\ me'.clock = me.clock
      /\ me'.applied = me.applied /\ me'.pending = me.pending
  BY <1>1, <1>3 DEF Member
<1>6. Good(me', room, begun)
  BY <1>1, <1>5, SameGood
<1>7. EngineMoves
  BY <1>3, <1>4, <1>5, <1>6 DEF Inv, Types, SeqsAreTheRooms, EngineMoves
<1> QED BY <1>7, EngineMovesInv

LEMMA RoomMediaGood ==
  ASSUME NEW r, NEW b, NEW e \in Member, Good(e, r, b), NEW changed
  PROVE  LET d == RoomMediaChanged(e, changed)
         IN  /\ d \in Member /\ Good(d, r, b)
             /\ d.applied = e.applied /\ d.pending = e.pending
<1>1. CASE changed
  <2>1. RoomMediaChanged(e, changed) = NewMediaEpoch(e)
    BY <1>1 DEF RoomMediaChanged
  <2> QED BY <2>1, NewEpochGood
<1>2. CASE ~changed
  <2>1. RoomMediaChanged(e, changed) = e
    BY <1>2 DEF RoomMediaChanged
  <2> QED BY <2>1
<1> QED BY <1>1, <1>2

LEMMA ReceiveInv == ASSUME Inv, Receive PROVE Inv'
<1> SUFFICES EngineMoves
  BY EngineMovesInv
<1> DEFINE f == Head(wire)
<1>1. /\ me \in Member /\ Good(me, room, begun) /\ Len(room) \in Nat
      /\ wire \in Seq(Frame) /\ Told(wire, Len(room))
      /\ me.applied \in 0 .. Len(room) /\ me.pending \subseteq 1 .. Len(room)
  BY LenProperties DEF Inv, Types, SeqsAreTheRooms
<1>2. /\ wire # <<>> /\ wire' = Tail(wire) /\ up' = up /\ el' = el
      /\ UNCHANGED serverVars
  BY DEF Receive
<1>3. /\ wire' \in Seq(Frame) /\ Told(wire', Len(room))
      /\ f \in Frame /\ f.seq \in 1 .. Len(room)
  BY <1>1, <1>2, Delivered
<1>4. me' = CASE f.t = "welcome" -> Welcomed(me, f.seq)
              [] f.t = "state"   -> Schedule(me, f.seq)
              [] f.t = "ack"     -> Schedule(Acked(me, f.seq, f.id), f.seq)
  BY DEF Receive
<1> HIDE DEF f
<1>5. ASSUME NEW e \in Member, Good(e, room, begun), e.applied = me.applied, e.pending = me.pending,
             me' = Schedule(e, f.seq)
      PROVE  EngineMoves
  <2> DEFINE d == IF f.seq <= e.applied THEN e ELSE [e EXCEPT !.pending = @ \cup {f.seq}]
  <2>1. me' = d
    BY <1>5 DEF Schedule
  <2>2. /\ d \in Member /\ d.chain = e.chain /\ d.timer = e.timer
        /\ d.conforming = e.conforming /\ d.acq = e.acq /\ d.clock = e.clock
        /\ d.applied = e.applied /\ d.pending \subseteq e.pending \cup {f.seq}
    BY <1>3, <1>5 DEF Member, Frame
  <2> HIDE DEF d
  <2>3. Good(d, room, begun)
    BY <1>5, <2>2, SameGood
  <2> QED BY <1>1, <1>2, <1>3, <1>5, <2>1, <2>2, <2>3 DEF EngineMoves, Inv, Types
<1>6. CASE f.t = "welcome"
  <2> DEFINE e == [me EXCEPT !.status = "joined", !.applied = f.seq, !.welcomed = TRUE]
             changed == me.welcomed /\ room[f.seq].media # Anchor(me).media
  <2>1. me' = RoomMediaChanged(e, changed)
    BY <1>4, <1>6 DEF Welcomed
  <2>2. /\ e \in Member /\ e.chain = me.chain /\ e.timer = me.timer
        /\ e.conforming = me.conforming /\ e.acq = me.acq /\ e.clock = me.clock
        /\ e.applied = f.seq /\ e.pending = me.pending
    BY <1>1, <1>3 DEF Member, Frame
  <2> HIDE DEF e, changed
  <2>3. Good(e, room, begun)
    BY <1>1, <2>2, SameGood
  <2>4. /\ me' \in Member /\ Good(me', room, begun)
        /\ me'.applied = f.seq /\ me'.pending = me.pending
    BY <2>1, <2>2, <2>3, RoomMediaGood
  <2>5. me'.applied \in 0 .. Len(room)
    BY <1>3, <2>4
  <2> QED BY <1>1, <1>2, <1>3, <2>4, <2>5 DEF EngineMoves, Inv, Types
<1>7. CASE f.t = "state"
  <2>1. me' = Schedule(me, f.seq)
    BY <1>4, <1>7
  <2> QED BY <1>1, <1>5, <2>1
<1>8. CASE f.t = "ack"
  <2> DEFINE e == Acked(me, f.seq, f.id)
             seq == IF me.intended.id = f.id THEN f.seq ELSE me.intended.seq
  <2>0. seq \in Nat /\ me.intended \in Cmd
    BY <1>1, <1>3 DEF Member, Cmd, Frame
  <2>1. e = [me EXCEPT !.mine = @ \cup {f.seq}, !.intended.seq = seq]
    BY <1>1 DEF Acked, Member
  <2>2. me' = Schedule(e, f.seq)
    BY <1>4, <1>8
  <2> HIDE DEF e, seq
  <2>3. /\ e \in Member /\ e.chain = me.chain /\ e.timer = me.timer
        /\ e.conforming = me.conforming /\ e.acq = me.acq /\ e.clock = me.clock
        /\ e.applied = me.applied /\ e.pending = me.pending
    BY <1>1, <1>3, <2>0, <2>1 DEF Member, Frame, Cmd
  <2>4. Good(e, room, begun)
    BY <1>1, <2>3, SameGood
  <2> QED BY <1>5, <2>2, <2>3, <2>4
<1> QED BY <1>3, <1>6, <1>7, <1>8 DEF Frame

(* Every non-empty set of seqs has a newest. *)
LEMMA NewestFound ==
  ASSUME NEW n \in Nat, NEW S \in SUBSET (1 .. n), S # {}
  PROVE  Newest(S) \in S
<1> DEFINE T == {n - s : s \in S}
<1>1. T \in SUBSET Nat /\ T # {}
  <2>1. \A s \in S : n - s \in Nat
    OBVIOUS
  <2> QED BY <2>1
<1>2. \E x \in T : \A y \in T : x <= y
  <2> HIDE DEF T
  <2>1. \E x \in T : \A y \in T : ~(<<y, x>> \in OpToRel(<, Nat))
    BY <1>1, WFMin, NatLessThanWellFounded, Zenon
  <2>2. PICK x \in T : \A y \in T : ~(<<y, x>> \in OpToRel(<, Nat))
    BY <2>1
  <2>3. ASSUME NEW y \in T PROVE x <= y
    <3>1. ~(<<y, x>> \in {ss \in Nat \X Nat : ss[1] < ss[2]})
      BY <2>2 DEF OpToRel
    <3> QED BY <1>1, <3>1
  <2> QED BY <2>3
<1>3. PICK s \in S : \A y \in T : n - s <= y
  BY <1>2
<1>4. \A x \in S : x <= s
  <2> SUFFICES ASSUME NEW x \in S PROVE x <= s
    OBVIOUS
  <2>1. n - s <= n - x
    BY <1>3
  <2> QED BY <2>1
<1>5. \E k \in S : \A x \in S : x <= k
  BY <1>4
<1> QED BY <1>5, Zenon DEF Newest

LEMMA DrainInv == ASSUME Inv, Drain PROVE Inv'
<1> DEFINE due == Due(me)
           top == Newest(due)
           intended == IF me.intended.seq = 0 /\ ~(due \subseteq me.mine) THEN NoCmd ELSE me.intended
           moved == [me EXCEPT !.applied = top, !.pending = @ \ begun, !.intended = intended]
           changed == \E s \in due : room[s].media # Anchor(me).media
           e == RoomMediaChanged(moved, changed)
<1>1. /\ me \in Member /\ Good(me, room, begun) /\ Len(room) \in Nat
      /\ me.applied \in 0 .. Len(room) /\ me.pending \subseteq 1 .. Len(room)
  BY LenProperties DEF Inv, Types, SeqsAreTheRooms
<1>2. /\ due # {} /\ UNCHANGED serverVars /\ UNCHANGED linkVars /\ el' = el
      /\ me' = IF OnRoomMedia(TakesOver(me, due)) /\ TakesOver(me, due).acq \in {"guarded", "steady"}
               THEN Queue(TakesOver(me, due), "apply") ELSE TakesOver(me, due)
  BY DEF Drain, serverVars
<1>3. TakesOver(me, due) = e
  BY DEF TakesOver
<1>4. due \in SUBSET (1 .. Len(room)) /\ due \subseteq begun
  BY <1>1 DEF Due
<1> HIDE DEF due
<1>5. top \in due /\ top \in 1 .. Len(room) /\ top \in begun /\ top \in Nat
  <2>1. top \in due
    BY <1>1, <1>2, <1>4, NewestFound
  <2> HIDE DEF top
  <2> QED BY <1>1, <1>4, <2>1
<1> HIDE DEF top
<1>6. intended \in Cmd
  BY <1>1 DEF Member, NoCmd, Cmd
<1> HIDE DEF intended, changed
<1>7. /\ moved \in Member /\ moved.chain = me.chain /\ moved.timer = me.timer
      /\ moved.conforming = me.conforming /\ moved.acq = me.acq /\ moved.clock = me.clock
      /\ moved.applied = top /\ moved.pending = me.pending \ begun
  BY <1>1, <1>5, <1>6 DEF Member
<1> HIDE DEF moved
<1>8. Good(moved, room, begun)
  BY <1>1, <1>7, SameGood
<1>9. e \in Member /\ Good(e, room, begun) /\ e.applied = top /\ e.pending = me.pending \ begun
  BY <1>7, <1>8, RoomMediaGood
<1> HIDE DEF e
<1>10. /\ me' \in Member /\ Good(me', room, begun)
       /\ me'.applied = top /\ me'.pending = me.pending \ begun
  <2>1. CASE me' = e
    BY <1>9, <2>1
  <2>2. CASE me' = Queue(e, "apply")
    <3>1. "apply" \in Kinds \ {"conform"}
      BY DEF Kinds
    <3>2. me' \in Member /\ Good(me', room, begun) /\ me' = [e EXCEPT !.chain = me'.chain]
      BY <1>5, <1>9, <2>2, <3>1, QueueGood
    <3>3. me'.applied = e.applied /\ me'.pending = e.pending
      BY <1>9, <3>2 DEF Member
    <3> QED BY <1>9, <3>2, <3>3
  <2> QED BY <1>2, <1>3, <2>1, <2>2
<1>11. EngineMoves
  <2>1. top \in 0 .. Len(room)
    BY <1>1, <1>5
  <2> QED BY <1>1, <1>2, <1>10, <2>1 DEF EngineMoves, Inv, Types, SeqsAreTheRooms, linkVars
<1> QED BY <1>11, EngineMovesInv

-----------------------------------------------------------------------------
(* The chain's head. *)

LEMMA Heads ==
  ASSUME Inv, me.chain # <<>>
  PROVE  LET j == Head(me.chain)
         IN  /\ j = me.chain[1] /\ j \in Work /\ 1 \in 1 .. Len(me.chain)
             /\ Aimed(j, room, begun)
             /\ j.kind = "conform" => j.seq \in begun \cup {0} \/ (j.phase = "queued" /\ ~me.clock)
<1> DEFINE j == Head(me.chain)
<1>1. /\ me \in Member /\ Good(me, room, begun)
  BY DEF Inv, Types
<1>2. j = me.chain[1] /\ j \in Work /\ 1 \in 1 .. Len(me.chain)
  BY <1>1, Chain
<1> HIDE DEF j
<1>3. Aimed(j, room, begun)
  BY <1>1, <1>2 DEF Good
<1>4. j.kind = "conform" => j.seq \in begun \cup {0} \/ (j.phase = "queued" /\ ~me.clock)
  BY <1>1, <1>2 DEF Good, Timely
<1> QED BY <1>2, <1>3, <1>4 DEF j

(* What is current is aimed for a seq the room has had. *)
LEMMA CurrentIsPlaced ==
  ASSUME Inv, NEW j, Current(me, j)
  PROVE  /\ me.status = "joined" /\ me.clock /\ j.live /\ me.local = Anchor(me).media
         /\ me.applied \in 1 .. Len(room) /\ Anchor(me) = room[me.applied]
         /\ Anchor(me).paused \in BOOLEAN
         /\ Anchor(me).paused => me.applied \in begun
         /\ j.kind \in OfOneSeq => j.seq = me.applied
<1>1. /\ me \in Member /\ Len(room) \in Nat /\ me.applied \in 0 .. Len(room)
  BY LenProperties DEF Inv, Types, SeqsAreTheRooms
<1>2. /\ me.status = "joined" /\ me.clock /\ j.live
      /\ me.local = Anchor(me).media /\ me.local # NoMedia
      /\ j.kind \in OfOneSeq => j.seq = me.applied
  BY DEF Current, CanAim, OnRoomMedia, OfOneSeq
<1>3. /\ Anchor(me).paused \in BOOLEAN
      /\ me.applied # 0 => Anchor(me) = room[me.applied]
      /\ me.applied = 0 => Anchor(me).media = NoMedia
      /\ Anchor(me).paused => me.applied \in begun \cup {0}
  BY <1>1, AnchorIsTheRooms DEF Inv
<1>4. me.applied # 0
  BY <1>2, <1>3
<1>5. me.applied \in 1 .. Len(room)
  BY <1>1, <1>4
<1> QED BY <1>2, <1>3, <1>4, <1>5

LEMMA ClockSettlesInv == ASSUME Inv, ClockSettles PROVE Inv'
<1>1. me \in Member /\ Good(me, room, begun)
  BY DEF Inv, Types
<1>2. me' = [me EXCEPT !.clock = TRUE]
  BY DEF ClockSettles
<1>3. /\ me' \in Member /\ me'.chain = me.chain /\ me'.timer = me.timer
      /\ me'.conforming = me.conforming /\ me'.acq = me.acq
      /\ me'.applied = me.applied /\ me'.pending = me.pending
  BY <1>1, <1>2 DEF Member
<1>4. me.chain # <<>> => me.chain[1].phase # "queued"
  BY <1>1, Chain DEF ClockSettles, Settled
<1>5. Good(me', room, begun)
  BY <1>1, <1>3, <1>4, SameGood
<1> QED BY <1>3, <1>5, PlainInv DEF ClockSettles, Inv, Types

LEMMA CorrectInv == ASSUME Inv, Correct PROVE Inv'
<1>1. me \in Member /\ Good(me, room, begun)
  BY DEF Inv, Types
<1>2. me' = Queue(me, "correct") /\ "correct" \in Kinds \ {"conform"}
  BY DEF Correct, Kinds
<1>3. me' \in Member /\ Good(me', room, begun) /\ me' = [me EXCEPT !.chain = me'.chain]
  BY <1>1, <1>2, QueueGood
<1>4. me'.applied = me.applied /\ me'.pending = me.pending
  BY <1>1, <1>3 DEF Member
<1> QED BY <1>3, <1>4, PlainInv DEF Correct, Inv, Types

LEMMA BeginInv == ASSUME Inv, Begin PROVE Inv'
<1> DEFINE j == Head(me.chain)
           rest == [me EXCEPT !.chain = Tail(@), !.retry = @ \/ j.kind = "gesture"]
           paused == Anchor(me).paused
           pressed == IF me.pressed = "fresh" THEN "earlier" ELSE me.pressed
<1>1. /\ me \in Member /\ Good(me, room, begun) /\ me.chain # <<>>
      /\ UNCHANGED serverVars /\ UNCHANGED linkVars /\ el' = el
  BY DEF Begin, Inv, Types
<1>2. /\ j = me.chain[1] /\ j \in Work /\ 1 \in 1 .. Len(me.chain) /\ Aimed(j, room, begun)
      /\ j.kind = "conform" => j.seq \in begun \cup {0} \/ (j.phase = "queued" /\ ~me.clock)
  BY <1>1, Heads
<1>3. \/ me' = AfterConform(rest, j, FALSE)
      \/ /\ Current(me, j) /\ (j.kind = "hold" => paused)
         /\ \E seeks \in BOOLEAN :
              me' = [me EXCEPT !.chain[1] = [@ EXCEPT !.phase = IF seeks THEN "seeking" ELSE "aimed",
                                                      !.sought = seeks, !.paused = paused],
                               !.pressed = IF @ = "fresh" THEN "earlier" ELSE @]
  BY DEF Begin
<1>4. CASE me' = AfterConform(rest, j, FALSE)
  <2>1. Tail(me.chain) \in Seq(Work)
    BY <1>1, Chain, HeadTailProperties
  <2>2. /\ rest \in Member /\ rest.chain = Tail(me.chain) /\ rest.timer = me.timer
        /\ rest.conforming = me.conforming /\ rest.acq = me.acq
        /\ rest.applied = me.applied /\ rest.pending = me.pending
    <3> DEFINE retry == me.retry \/ j.kind = "gesture"
    <3>1. retry \in BOOLEAN /\ rest = [me EXCEPT !.chain = Tail(me.chain), !.retry = retry]
      BY <1>1
    <3> HIDE DEF retry, rest
    <3> QED BY <1>1, <2>1, <3>1 DEF Member
  <2>0. me' = AfterConform(rest, me.chain[1], FALSE)
    BY <1>2, <1>4
  <2> HIDE DEF rest
  <2>3. /\ me' \in Member /\ Good(me', room, begun)
        /\ me'.applied = me.applied /\ me'.pending = me.pending
    <3> DEFINE done == FALSE
               d == AfterConform(rest, me.chain[1], done)
    <3>1. done \in BOOLEAN /\ me' = d
      BY <2>0
    <3> HIDE DEF done
    <3>2. d \in Member /\ Good(d, room, begun) /\ d.applied = rest.applied /\ d.pending = rest.pending
      BY <1>1, <2>2, <3>1, EndsGood
    <3> HIDE DEF d
    <3> QED BY <2>2, <3>1, <3>2
  <2> QED BY <1>1, <2>3, PlainInv DEF Inv, Types
<1>5. ASSUME NEW seeks \in BOOLEAN, Current(me, j), j.kind = "hold" => paused,
             me' = [me EXCEPT !.chain[1] = [@ EXCEPT !.phase = IF seeks THEN "seeking" ELSE "aimed",
                                                     !.sought = seeks, !.paused = paused],
                              !.pressed = IF @ = "fresh" THEN "earlier" ELSE @]
      PROVE  Inv'
  <2> DEFINE w == [j EXCEPT !.phase = IF seeks THEN "seeking" ELSE "aimed",
                            !.sought = seeks, !.paused = paused]
             q == [me.chain EXCEPT ![1] = w]
  <2>1. /\ me.clock /\ paused \in BOOLEAN /\ me.applied \in 1 .. Len(room)
        /\ paused = room[me.applied].paused
        /\ j.kind \in OfOneSeq => j.seq = me.applied
    BY <1>5, CurrentIsPlaced
  <2> HIDE DEF paused
  <2>2. /\ w \in Work /\ w.phase # "queued" /\ w.kind = j.kind /\ w.here = j.here
        /\ w.seq = j.seq /\ w.paused = paused
    BY <1>2, <1>5, <2>1 DEF Work
  <2>3. me' = [me EXCEPT !.chain = q, !.pressed = pressed]
    BY <1>1, <1>2, <1>5 DEF Member
  <2> HIDE DEF w
  <2>4. q \in Seq(Work)
    BY <1>1, <1>2, <2>2, Chain, ExceptSeq
  <2> HIDE DEF q
  <2>5. pressed \in {"no", "fresh", "earlier"}
    BY <1>1 DEF Member
  <2> HIDE DEF pressed
  <2>6. /\ me' \in Member /\ me'.chain = q /\ me'.timer = me.timer
        /\ me'.conforming = me.conforming /\ me'.acq = me.acq
        /\ me'.applied = me.applied /\ me'.pending = me.pending
    BY <1>1, <2>3, <2>4, <2>5 DEF Member
  <2>7. Aimed(w, room, begun)
    BY <1>2, <1>5, <2>1, <2>2 DEF Aimed
  <2>8. w.kind = "conform" => w.seq \in begun \cup {0}
    BY <1>2, <2>1, <2>2
  <2>9. Good(me', room, begun)
    BY <1>1, <1>2, <2>2, <2>6, <2>7, <2>8, AdvanceGood DEF q
  <2> QED BY <1>1, <2>6, <2>9, PlainInv DEF Inv, Types
<1> QED BY <1>3, <1>4, <1>5

LEMMA PhaseInv ==
  ASSUME Inv, me.chain # <<>>, Head(me.chain).phase # "queued",
         NEW phase \in {"seeking", "aimed", "playing"},
         me' = [me EXCEPT !.chain[1].phase = phase],
         UNCHANGED serverVars, UNCHANGED linkVars, el' \in [paused : BOOLEAN, ready : BOOLEAN]
  PROVE  Inv'
<1> DEFINE j == Head(me.chain)
           w == [j EXCEPT !.phase = phase]
           q == [me.chain EXCEPT ![1] = w]
<1>1. me \in Member /\ Good(me, room, begun)
  BY DEF Inv, Types
<1>2. /\ j = me.chain[1] /\ j \in Work /\ 1 \in 1 .. Len(me.chain) /\ Aimed(j, room, begun)
      /\ j.kind = "conform" => j.seq \in begun \cup {0} \/ (j.phase = "queued" /\ ~me.clock)
  BY Heads
<1>3. me' = [me EXCEPT !.chain = q]
  BY <1>1, <1>2 DEF Member
<1>4. /\ w \in Work /\ w.phase # "queued" /\ w.kind = j.kind /\ w.here = j.here
      /\ w.seq = j.seq /\ w.paused = j.paused
  BY <1>2 DEF Work
<1> HIDE DEF w
<1>5. q \in Seq(Work)
  BY <1>1, <1>2, <1>4, Chain, ExceptSeq
<1> HIDE DEF q
<1>6. /\ me' \in Member /\ me'.chain = q /\ me'.timer = me.timer
      /\ me'.conforming = me.conforming /\ me'.acq = me.acq
      /\ me'.applied = me.applied /\ me'.pending = me.pending
  BY <1>1, <1>3, <1>5 DEF Member
<1>7. Aimed(w, room, begun)
  BY <1>2, <1>4 DEF Aimed
<1>8. Good(me', room, begun)
  BY <1>1, <1>2, <1>4, <1>6, <1>7, AdvanceGood DEF q
<1> QED BY <1>6, <1>8, PlainInv

LEMMA EndsInv ==
  ASSUME Inv, me.chain # <<>>, NEW paused \in BOOLEAN, NEW done \in BOOLEAN, NEW blocked \in BOOLEAN,
         \/ me' = Finish(me, Head(me.chain), paused, done)
         \/ me' = [Finish(me, Head(me.chain), paused, done) EXCEPT !.blocked = blocked],
         UNCHANGED serverVars, UNCHANGED linkVars, el' \in [paused : BOOLEAN, ready : BOOLEAN]
  PROVE  Inv'
<1> DEFINE d == Finish(me, Head(me.chain), paused, done)
<1>1. me \in Member /\ Good(me, room, begun)
  BY DEF Inv, Types
<1>2. d \in Member /\ Good(d, room, begun) /\ d.applied = me.applied /\ d.pending = me.pending
  BY <1>1, FinishGood
<1> HIDE DEF d
<1>3. CASE me' = d
  BY <1>2, <1>3, PlainInv
<1>4. CASE me' = [d EXCEPT !.blocked = blocked]
  <2>1. /\ me' \in Member /\ me'.chain = d.chain /\ me'.timer = d.timer /\ me'.clock = d.clock
        /\ me'.conforming = d.conforming /\ me'.acq = d.acq
        /\ me'.applied = d.applied /\ me'.pending = d.pending
    BY <1>2, <1>4 DEF Member
  <2>2. Good(me', room, begun)
    BY <1>2, <2>1, SameGood
  <2> QED BY <1>2, <2>1, <2>2, PlainInv
<1> QED BY <1>3, <1>4 DEF d

LEMMA Players ==
  ASSUME Inv
  PROVE  el \in [paused : BOOLEAN, ready : BOOLEAN] /\ el.paused \in BOOLEAN
BY DEF Inv, Types

LEMMA SeekEndsInv == ASSUME Inv, SeekEnds PROVE Inv'
<1>1. /\ me.chain # <<>> /\ Head(me.chain).phase # "queued"
      /\ me' = [me EXCEPT !.chain[1].phase = "aimed"]
      /\ UNCHANGED serverVars /\ UNCHANGED linkVars /\ el' = el
  BY DEF SeekEnds
<1> QED BY <1>1, Players, PhaseInv

LEMMA LandInv == ASSUME Inv, Land PROVE Inv'
<1> DEFINE j == Head(me.chain)
<1>1. /\ me.chain # <<>> /\ j.phase # "queued"
      /\ UNCHANGED serverVars /\ UNCHANGED linkVars
  BY DEF Land
<1>2. /\ el \in [paused : BOOLEAN, ready : BOOLEAN] /\ el.paused \in BOOLEAN
      /\ me \in Member /\ TRUE \in BOOLEAN /\ FALSE \in BOOLEAN
  BY DEF Inv, Types
<1>3. CASE el' = el /\ Ends(j, FALSE)
  <2>1. me' = Finish(me, j, el.paused, FALSE)
    BY <1>3 DEF Ends
  <2> QED BY <1>1, <1>2, <1>3, <2>1, EndsInv
<1>4. CASE el' = [el EXCEPT !.paused = TRUE] /\ Ends(j, TRUE)
  <2>1. me' = Finish(me, j, TRUE, TRUE) /\ el' \in [paused : BOOLEAN, ready : BOOLEAN]
    BY <1>2, <1>4 DEF Ends
  <2> QED BY <1>1, <1>2, <2>1, EndsInv
<1>5. CASE el' = [el EXCEPT !.paused = FALSE] /\ me' = [me EXCEPT !.chain[1].phase = "playing"]
  <2>1. el' \in [paused : BOOLEAN, ready : BOOLEAN]
    BY <1>2, <1>5
  <2> QED BY <1>1, <1>5, <2>1, PhaseInv
<1>6. ASSUME el' = el, NEW refused \in BOOLEAN,
             me' = [Finish(me, j, TRUE, TRUE) EXCEPT !.blocked = @ \/ refused]
      PROVE  Inv'
  <2> DEFINE blocked == Finish(me, j, TRUE, TRUE).blocked \/ refused
  <2>1. blocked \in BOOLEAN
    OBVIOUS
  <2>2. me' = [Finish(me, j, TRUE, TRUE) EXCEPT !.blocked = blocked]
    BY <1>6
  <2> HIDE DEF blocked
  <2> QED BY <1>1, <1>2, <1>6, <2>1, <2>2, EndsInv
<1> QED BY <1>3, <1>4, <1>5, <1>6 DEF Land

LEMMA PlaySettlesInv == ASSUME Inv, PlaySettles PROVE Inv'
<1> DEFINE j == Head(me.chain)
           done == Current(me, j)
           d == Finish(me, j, el.paused, done)
<1>1. /\ me.chain # <<>> /\ el' = el /\ el \in [paused : BOOLEAN, ready : BOOLEAN]
      /\ el.paused \in BOOLEAN
      /\ UNCHANGED serverVars /\ UNCHANGED linkVars
  BY Players DEF PlaySettles
<1>2. PICK answered \in BOOLEAN : me' = [d EXCEPT !.blocked = @ /\ ~answered]
  BY DEF PlaySettles
<1> DEFINE blocked == d.blocked /\ ~answered
<1>3. blocked \in BOOLEAN /\ done \in BOOLEAN
  BY DEF Current, CanAim, OnRoomMedia
<1>4. me' = [d EXCEPT !.blocked = blocked]
  BY <1>2
<1> HIDE DEF blocked, done
<1> QED BY <1>1, <1>3, <1>4, EndsInv

LEMMA TimerFiresInv == ASSUME Inv, TimerFires PROVE Inv'
<1> DEFINE j == [Job("conform", me) EXCEPT !.seq = me.timer.seq, !.live = me.timer.live]
<1>1. /\ me \in Member /\ Good(me, room, begun)
      /\ el' = el /\ el \in [paused : BOOLEAN, ready : BOOLEAN]
      /\ UNCHANGED serverVars /\ UNCHANGED linkVars
      /\ me.timer # NoTimer /\ me.timer.seq \in begun
      /\ me' = [me EXCEPT !.timer = NoTimer, !.chain = Append(me.chain, j)]
  BY DEF TimerFires, Inv, Types
<1>2. /\ j \in Work /\ j.phase = "queued" /\ j.kind = "conform" /\ j.here
      /\ j.seq = me.timer.seq
  BY <1>1 DEF Job, Work, Member, Timer, Kinds
<1> HIDE DEF j
<1>3. Append(me.chain, j) \in Seq(Work) /\ NoTimer \in Timer
  BY <1>1, <1>2, Chain, Appended DEF NoTimer, Timer
<1>4. /\ me' \in Member /\ me'.chain = Append(me.chain, j) /\ me'.timer = NoTimer
      /\ me'.clock = me.clock /\ me'.conforming = me.conforming /\ me'.acq = me.acq
      /\ me'.applied = me.applied /\ me'.pending = me.pending
  BY <1>1, <1>3 DEF Member
<1>5. /\ me.conforming /\ me.acq # "detached"
      /\ \A i \in 1 .. Len(me.chain) : ~Conforms(me.chain, i)
  BY <1>1 DEF Good, OneConform
<1>6. Good(me', room, begun)
  BY <1>1, <1>2, <1>4, <1>5, PushConform
<1> QED BY <1>1, <1>4, <1>6, PlainInv

-----------------------------------------------------------------------------
(* evaluate: each stage leaves a member that is still in order.  While the  *)
(* clock has not settled the chain is empty or running, so that a conform   *)
(* queued for an unknown instant is the next to begin.                      *)

Staged(e) ==
  /\ e \in Member /\ Good(e, room, begun)
  /\ e.applied = me.applied /\ e.pending = me.pending

Ready(e) == e.clock \/ e.chain = <<>> \/ Running(e)

LEMMA StagedInv ==
  ASSUME Inv, Staged(me'), UNCHANGED serverVars, wire' = wire,
         up' \in Seq([id : Nat, paused : BOOLEAN]),
         el' \in [paused : BOOLEAN, ready : BOOLEAN]
  PROVE  Inv'
<1> EngineMoves
  BY DEF Staged, Inv, Types, SeqsAreTheRooms, EngineMoves
<1> QED BY EngineMovesInv

LEMMA StagedMe ==
  ASSUME Inv
  PROVE  Staged(me) /\ (Settled => Ready(me))
BY DEF Staged, Inv, Types, Settled, Ready, Running

LEMMA Edits ==
  ASSUME NEW e, Staged(e), NEW d \in Member,
         d.chain = e.chain, d.timer = e.timer, d.conforming = e.conforming, d.clock = e.clock,
         d.applied = e.applied, d.pending = e.pending,
         d.acq = e.acq \/ d.acq \in {"guarded", "steady", "fought"}
  PROVE  Staged(d) /\ (Ready(e) => Ready(d))
<1>1. Good(d, room, begun)
  BY SameGood DEF Staged
<1> QED BY <1>1 DEF Staged, Ready, Running

LEMMA Queues ==
  ASSUME NEW e, Staged(e), NEW kind \in Kinds \ {"apply", "conform"}
  PROVE  Staged(Queue(e, kind)) /\ Queue(e, kind).clock = e.clock
<1> DEFINE d == Queue(e, kind)
<1>1. d \in Member /\ Good(d, room, begun) /\ d = [e EXCEPT !.chain = d.chain]
  BY QueueGood DEF Staged
<1> HIDE DEF d
<1>2. d.applied = e.applied /\ d.pending = e.pending /\ d.clock = e.clock
  BY <1>1 DEF Staged, Member
<1> QED BY <1>1, <1>2 DEF Staged, d

LEMMA Resumes ==
  ASSUME NEW e, Staged(e)
  PROVE  /\ Staged(ResumeAfterGesture(e))
         /\ e.clock => Ready(ResumeAfterGesture(e))
<1> DEFINE c == [e EXCEPT !.retry = FALSE]
           u == [e EXCEPT !.blocked = FALSE, !.retry = FALSE]
           w == [e EXCEPT !.retry = TRUE]
<1>1. /\ e \in Member
      /\ ResumeAfterGesture(e) \in {c, u, w, Queue(c, "gesture")}
  BY DEF Staged, ResumeAfterGesture
<1>2. /\ c \in Member /\ c.chain = e.chain /\ c.timer = e.timer /\ c.clock = e.clock
      /\ c.conforming = e.conforming /\ c.acq = e.acq
      /\ c.applied = e.applied /\ c.pending = e.pending
  BY <1>1 DEF Member
<1>3. /\ u \in Member /\ u.chain = e.chain /\ u.timer = e.timer /\ u.clock = e.clock
      /\ u.conforming = e.conforming /\ u.acq = e.acq
      /\ u.applied = e.applied /\ u.pending = e.pending
  BY <1>1 DEF Member
<1>4. /\ w \in Member /\ w.chain = e.chain /\ w.timer = e.timer /\ w.clock = e.clock
      /\ w.conforming = e.conforming /\ w.acq = e.acq
      /\ w.applied = e.applied /\ w.pending = e.pending
  BY <1>1 DEF Member
<1> HIDE DEF c, u, w
<1>5. Staged(c) /\ Staged(u) /\ Staged(w)
  BY <1>2, <1>3, <1>4, Edits
<1>6. "gesture" \in Kinds \ {"apply", "conform"}
  BY DEF Kinds
<1>7. Staged(Queue(c, "gesture")) /\ Queue(c, "gesture").clock = e.clock
  BY <1>2, <1>5, <1>6, Queues
<1> QED BY <1>1, <1>2, <1>3, <1>4, <1>5, <1>7 DEF Ready

LEMMA Sends ==
  ASSUME Inv, NEW e, Staged(e)
  PROVE  Staged(Send(e))
<1> DEFINE next == e.sent + 1
           asked == [id |-> next, seq |-> 0, paused |-> el.paused]
           intended == IF e.clock THEN asked ELSE NoCmd
<1>1. e \in Member /\ next \in Nat /\ el.paused \in BOOLEAN
  BY Players DEF Staged, Member
<1>2. intended \in Cmd
  BY <1>1 DEF Cmd, NoCmd
<1>3. Send(e) = [e EXCEPT !.sent = next, !.intended = intended]
  BY DEF Send
<1> HIDE DEF next, intended
<1>4. /\ Send(e) \in Member /\ Send(e).chain = e.chain /\ Send(e).timer = e.timer
      /\ Send(e).clock = e.clock /\ Send(e).conforming = e.conforming /\ Send(e).acq = e.acq
      /\ Send(e).applied = e.applied /\ Send(e).pending = e.pending
  BY <1>1, <1>2, <1>3 DEF Member
<1> QED BY <1>4, Edits

LEMMA Acts ==
  ASSUME Inv, NEW e, Staged(e), NEW unready
  PROVE  Staged(Act(e, unready))
<1>1. Act(e, unready) \in {e, Send(e), Queue(Send(e), "hold"), Queue(e, "hold")}
  BY DEF Act
<1>2. "hold" \in Kinds \ {"apply", "conform"}
  BY DEF Kinds
<1> QED BY <1>1, <1>2, Sends, Queues

(* A conform is asked for by an engine that has none in flight. *)
LEMMA StartsConform ==
  ASSUME Inv, NEW e, Staged(e), e.clock \/ e.chain = <<>>, ~e.conforming,
         NEW f \in Member, f.acq # "detached", f.chain = e.chain, f.timer = e.timer,
         f.clock = e.clock, f.applied = e.applied, f.pending = e.pending
  PROVE  Staged(Conform(f)) /\ Conform(f).clock = e.clock
<1>1. e \in Member /\ Good(e, room, begun) /\ e.applied = me.applied /\ e.pending = me.pending
  BY DEF Staged
<1>2. ~e.clock => e.chain = <<>>
  OBVIOUS
<1>3. Types /\ SeqsAreTheRooms /\ e.applied \in 0 .. Len(room)
  BY <1>1 DEF Inv, SeqsAreTheRooms
<1>4. /\ Conform(f) \in Member /\ Good(Conform(f), room, begun)
      /\ Conform(f).applied = f.applied /\ Conform(f).pending = f.pending
      /\ Conform(f).clock = f.clock
  BY <1>1, <1>2, <1>3, ConformGood
<1> QED BY <1>1, <1>4 DEF Staged

LEMMA Notices ==
  ASSUME NEW e, Staged(e), Ready(e)
  PROVE  Staged(NoticeUnblocked(e)) /\ Ready(NoticeUnblocked(e))
<1> DEFINE d == [e EXCEPT !.blocked = FALSE, !.retry = FALSE]
<1>1. NoticeUnblocked(e) \in {e, d}
  BY DEF NoticeUnblocked
<1>2. /\ d \in Member /\ d.chain = e.chain /\ d.timer = e.timer /\ d.clock = e.clock
      /\ d.conforming = e.conforming /\ d.acq = e.acq
      /\ d.applied = e.applied /\ d.pending = e.pending
  BY DEF Staged, Member
<1> HIDE DEF d
<1>3. Staged(d) /\ Ready(d)
  BY <1>2, Edits
<1> QED BY <1>1, <1>3

LEMMA Advances ==
  ASSUME Inv, NEW e, Staged(e), Ready(e), NEW together
  PROVE  LET d == AdvanceAcquisition(e, together) IN Staged(d) /\ Ready(d)
<1> DEFINE f == [e EXCEPT !.acq = "conforming"]
           s == [e EXCEPT !.acq = "steady"]
<1>1. \/ AdvanceAcquisition(e, together) = e
      \/ AdvanceAcquisition(e, together) = Conform(f) /\ e.clock /\ e.acq = "detached"
      \/ AdvanceAcquisition(e, together) = s /\ e.acq = "guarded"
  BY DEF AdvanceAcquisition
<1>2. e \in Member /\ Good(e, room, begun)
  BY DEF Staged
<1>3. ASSUME e.clock, e.acq = "detached" PROVE Staged(Conform(f)) /\ Ready(Conform(f))
  <2>1. ~e.conforming
    BY <1>2, <1>3 DEF Good, OneConform
  <2>2. /\ f \in Member /\ f.acq # "detached" /\ f.chain = e.chain /\ f.timer = e.timer
        /\ f.clock = e.clock /\ f.applied = e.applied /\ f.pending = e.pending
    BY <1>2 DEF Member
  <2> HIDE DEF f
  <2>3. Staged(Conform(f)) /\ Conform(f).clock = e.clock
    BY <1>3, <2>1, <2>2, StartsConform
  <2> QED BY <1>3, <2>3 DEF Ready
<1>4. ASSUME e.acq = "guarded" PROVE Staged(s) /\ Ready(s)
  <2>1. /\ s \in Member /\ s.acq = "steady" /\ s.chain = e.chain /\ s.timer = e.timer
        /\ s.clock = e.clock /\ s.conforming = e.conforming
        /\ s.applied = e.applied /\ s.pending = e.pending
    BY <1>2 DEF Member
  <2> HIDE DEF s
  <2> QED BY <1>4, <2>1, Edits
<1> QED BY <1>1, <1>3, <1>4

LEMMA Retries ==
  ASSUME NEW e, Staged(e), Ready(e)
  PROVE  Staged(RetryGesture(e)) /\ Ready(RetryGesture(e))
<1>1. CASE e.retry /\ CanAim(e, TRUE)
  <2>1. e.clock /\ RetryGesture(e) = ResumeAfterGesture(e)
    BY <1>1 DEF CanAim, RetryGesture
  <2> QED BY <2>1, Resumes
<1>2. CASE ~(e.retry /\ CanAim(e, TRUE))
  BY <1>2 DEF RetryGesture
<1> QED BY <1>1, <1>2

LEMMA Classifies ==
  ASSUME Inv, NEW e, Staged(e), Ready(e), NEW unready
  PROVE  Staged(Classify(e, unready))
<1> DEFINE s == [e EXCEPT !.acq = "steady"]
           f == [e EXCEPT !.acq = "fought"]
           g == [e EXCEPT !.reconforms = @ + 1]
<1>1. e \in Member /\ Good(e, room, begun)
  BY DEF Staged
<1>2. \/ Classify(e, unready) = e
      \/ Classify(e, unready) = Act(e, unready)
      \/ Classify(e, unready) = Act(s, unready) /\ (e.acq = "fought" \/ ~IsEcho(e, unready))
      \/ Classify(e, unready) = f /\ e.acq = "guarded"
      \/ Classify(e, unready) = Conform(g) /\ e.acq = "guarded" /\ ~Running(e) /\ ~e.conforming
  BY DEF Classify
<1>3. Staged(s)
  <2>1. /\ s \in Member /\ s.acq = "steady" /\ s.chain = e.chain /\ s.timer = e.timer
        /\ s.clock = e.clock /\ s.conforming = e.conforming
        /\ s.applied = e.applied /\ s.pending = e.pending
    BY <1>1 DEF Member
  <2> HIDE DEF s
  <2> QED BY <2>1, Edits
<1>4. Staged(f)
  <2>1. /\ f \in Member /\ f.acq = "fought" /\ f.chain = e.chain /\ f.timer = e.timer
        /\ f.clock = e.clock /\ f.conforming = e.conforming
        /\ f.applied = e.applied /\ f.pending = e.pending
    BY <1>1 DEF Member
  <2> HIDE DEF f
  <2> QED BY <2>1, Edits
<1>5. ASSUME e.acq = "guarded", ~Running(e), ~e.conforming PROVE Staged(Conform(g))
  <2>1. /\ g \in Member /\ g.acq # "detached" /\ g.chain = e.chain /\ g.timer = e.timer
        /\ g.clock = e.clock /\ g.applied = e.applied /\ g.pending = e.pending
    BY <1>1, <1>5 DEF Member
  <2> HIDE DEF g
  <2> QED BY <1>5, <2>1, StartsConform DEF Ready
<1> HIDE DEF s, f, g
<1>6. Staged(Act(e, unready)) /\ Staged(Act(s, unready))
  BY <1>3, Acts
<1> QED BY <1>2, <1>3, <1>4, <1>5, <1>6

LEMMA Observes ==
  ASSUME Inv, NEW e, Staged(e), Ready(e), NEW unready
  PROVE  Staged(Observe(e, unready))
<1> DEFINE now == [e EXCEPT !.base = State(el.paused)]
<1>1. Observe(e, unready) \in {now, Classify(now, unready)}
  BY DEF Observe
<1>2. State(el.paused) \in {"unknown", "paused", "playing"}
  BY DEF State
<1>3. /\ now \in Member /\ now.chain = e.chain /\ now.timer = e.timer /\ now.clock = e.clock
      /\ now.conforming = e.conforming /\ now.acq = e.acq
      /\ now.applied = e.applied /\ now.pending = e.pending
  BY <1>2 DEF Staged, Member
<1> HIDE DEF now
<1>4. Staged(now) /\ Ready(now)
  BY <1>3, Edits
<1> QED BY <1>1, <1>4, Classifies

LEMMA Reconciles ==
  ASSUME NEW e, Staged(e)
  PROVE  Staged(Reconcile(e))
<1> DEFINE none == [e EXCEPT !.wait = "none"]
           some == [e EXCEPT !.wait = "some"]
<1>1. /\ e \in Member /\ e.wait \in {"none", "some", "over"}
  BY DEF Staged, Member
<1>2. Reconcile(e) \in {e, none, some, Queue(none, "reconcile")}
  BY <1>1 DEF Reconcile
<1>3. /\ none \in Member /\ none.chain = e.chain /\ none.timer = e.timer /\ none.clock = e.clock
      /\ none.conforming = e.conforming /\ none.acq = e.acq
      /\ none.applied = e.applied /\ none.pending = e.pending
  BY <1>1 DEF Member
<1>4. /\ some \in Member /\ some.chain = e.chain /\ some.timer = e.timer /\ some.clock = e.clock
      /\ some.conforming = e.conforming /\ some.acq = e.acq
      /\ some.applied = e.applied /\ some.pending = e.pending
  BY <1>1 DEF Member
<1> HIDE DEF none, some
<1>5. Staged(none) /\ Staged(some)
  BY <1>3, <1>4, Edits
<1>6. "reconcile" \in Kinds \ {"apply", "conform"}
  BY DEF Kinds
<1> QED BY <1>2, <1>5, <1>6, Queues

LEMMA EvaluateInv ==
  ASSUME Inv, NEW together, NEW unready, Evaluate(together, unready)
  PROVE  Inv'
<1>1. /\ Settled /\ UNCHANGED serverVars /\ wire' = wire /\ el' = el
      /\ up' = IF me'.sent > me.sent
               THEN Append(up, [id |-> me'.sent, paused |-> el.paused]) ELSE up
  BY DEF Evaluate, serverVars
<1> DEFINE e1 == NoticeUnblocked(me)
           e2 == AdvanceAcquisition(e1, together)
           e3 == RetryGesture(e2)
           e4 == Observe(e3, unready)
<1>2. me' = Reconcile(e4)
  BY DEF Evaluate
<1>3. Staged(e1) /\ Ready(e1)
  BY <1>1, StagedMe, Notices
<1> HIDE DEF e1
<1>4. Staged(e2) /\ Ready(e2)
  BY <1>3, Advances
<1> HIDE DEF e2
<1>5. Staged(e3) /\ Ready(e3)
  BY <1>4, Retries
<1> HIDE DEF e3
<1>6. Staged(e4)
  BY <1>5, Observes
<1> HIDE DEF e4
<1>7. Staged(me')
  BY <1>2, <1>6, Reconciles
<1>8. up' \in Seq([id : Nat, paused : BOOLEAN])
  <2>1. me'.sent \in Nat /\ el.paused \in BOOLEAN
    BY <1>7, Players DEF Staged, Member
  <2>2. [id |-> me'.sent, paused |-> el.paused] \in [id : Nat, paused : BOOLEAN]
    BY <2>1
  <2>3. up \in Seq([id : Nat, paused : BOOLEAN])
    BY DEF Inv, Types
  <2> QED BY <1>1, <2>2, <2>3, AppendProperties
<1> QED BY <1>1, <1>7, <1>8, Players, StagedInv

-----------------------------------------------------------------------------
(* The waits, the member, the page and the element. *)

LEMMA WaitsInv == ASSUME Inv, Lasts \/ Settles \/ Unanswered \/ Wanes PROVE Inv'
<1>1. /\ UNCHANGED serverVars /\ wire' = wire /\ up' = up /\ el' = el
      /\ me \in Member /\ Staged(me)
      /\ up \in Seq([id : Nat, paused : BOOLEAN]) /\ el \in [paused : BOOLEAN, ready : BOOLEAN]
  BY StagedMe DEF Lasts, Settles, Unanswered, Wanes, linkVars, Inv, Types
<1>2. \/ me' = [me EXCEPT !.wait = "over"]
      \/ me' = [me EXCEPT !.settled = TRUE]
      \/ me' = [me EXCEPT !.intended = NoCmd]
      \/ me' = [me EXCEPT !.pressed = "no"]
  BY DEF Lasts, Settles, Unanswered, Wanes
<1>3. /\ me' \in Member /\ me'.chain = me.chain /\ me'.timer = me.timer /\ me'.clock = me.clock
      /\ me'.conforming = me.conforming /\ me'.acq = me.acq
      /\ me'.applied = me.applied /\ me'.pending = me.pending
  <2>1. CASE me' = [me EXCEPT !.wait = "over"]
    BY <1>1, <2>1 DEF Member
  <2>2. CASE me' = [me EXCEPT !.settled = TRUE]
    BY <1>1, <2>2 DEF Member
  <2>3. CASE me' = [me EXCEPT !.intended = NoCmd]
    <3>1. NoCmd \in Cmd
      BY DEF NoCmd, Cmd
    <3> QED BY <1>1, <2>3, <3>1 DEF Member
  <2>4. CASE me' = [me EXCEPT !.pressed = "no"]
    BY <1>1, <2>4 DEF Member
  <2> QED BY <1>2, <2>1, <2>2, <2>3, <2>4
<1>4. Staged(me')
  BY <1>1, <1>3, Edits
<1> QED BY <1>1, <1>4, StagedInv

LEMMA PressInv == ASSUME Inv, Press PROVE Inv'
<1>1. /\ UNCHANGED serverVars /\ wire' = wire /\ up' = up
      /\ el' = [el EXCEPT !.paused = ~@] /\ me' = [me EXCEPT !.pressed = "fresh"]
      /\ me \in Member /\ Staged(me)
      /\ up \in Seq([id : Nat, paused : BOOLEAN]) /\ el \in [paused : BOOLEAN, ready : BOOLEAN]
  BY StagedMe DEF Press, linkVars, Inv, Types
<1>2. /\ me' \in Member /\ me'.chain = me.chain /\ me'.timer = me.timer /\ me'.clock = me.clock
      /\ me'.conforming = me.conforming /\ me'.acq = me.acq
      /\ me'.applied = me.applied /\ me'.pending = me.pending
  BY <1>1 DEF Member
<1>3. Staged(me') /\ el' \in [paused : BOOLEAN, ready : BOOLEAN]
  BY <1>1, <1>2, Edits
<1> QED BY <1>1, <1>3, StagedInv

LEMMA ClickInv == ASSUME Inv, Click PROVE Inv'
<1>1. /\ UNCHANGED serverVars /\ wire' = wire /\ up' = up /\ el' = el
      /\ me' = ResumeAfterGesture(me) /\ Staged(me)
      /\ up \in Seq([id : Nat, paused : BOOLEAN])
  BY StagedMe DEF Click, linkVars, Inv, Types
<1>2. Staged(me')
  BY <1>1, Resumes
<1> QED BY <1>1, <1>2, Players, StagedInv

LEMMA SiteInv == ASSUME Inv, SiteMoves \/ Loads PROVE Inv'
<1>1. /\ UNCHANGED serverVars /\ wire' = wire /\ up' = up /\ me' = me /\ Staged(me)
      /\ el' \in {[el EXCEPT !.paused = ~@], [el EXCEPT !.ready = TRUE]}
      /\ el \in [paused : BOOLEAN, ready : BOOLEAN]
      /\ up \in Seq([id : Nat, paused : BOOLEAN])
  BY StagedMe DEF SiteMoves, Loads, linkVars, Inv, Types
<1>2. el' \in [paused : BOOLEAN, ready : BOOLEAN]
  BY <1>1
<1> QED BY <1>1, <1>2, StagedInv

LEMMA EpochInv ==
  ASSUME Inv, Reload \/ \E key \in Media \cup {NoMedia} : Navigate(key)
  PROVE  Inv'
<1> DEFINE at(key) == [me EXCEPT !.local = key]
<1>1. /\ UNCHANGED serverVars /\ wire' = wire /\ up' = up
      /\ el' \in {el, [paused |-> TRUE, ready |-> FALSE]}
      /\ me \in Member /\ Staged(me)
      /\ up \in Seq([id : Nat, paused : BOOLEAN]) /\ el \in [paused : BOOLEAN, ready : BOOLEAN]
  BY StagedMe DEF Reload, Navigate, linkVars, Inv, Types
<1>2. ASSUME NEW e, Staged(e), me' = NewMediaEpoch(e) PROVE Inv'
  <2>1. Staged(me')
    BY <1>2, NewEpochGood DEF Staged
  <2>2. [paused |-> TRUE, ready |-> FALSE] \in [paused : BOOLEAN, ready : BOOLEAN]
    OBVIOUS
  <2>3. el' \in [paused : BOOLEAN, ready : BOOLEAN]
    BY <1>1, <2>2, Zenon
  <2> QED BY <1>1, <2>1, <2>3, StagedInv
<1>3. CASE Reload
  BY <1>1, <1>2, <1>3 DEF Reload
<1>4. ASSUME NEW key \in Media \cup {NoMedia}, Navigate(key) PROVE Inv'
  <2>1. me' = NewMediaEpoch(at(key))
    BY <1>4 DEF Navigate
  <2>2. /\ at(key) \in Member /\ at(key).chain = me.chain /\ at(key).timer = me.timer
        /\ at(key).clock = me.clock /\ at(key).conforming = me.conforming
        /\ at(key).acq = me.acq /\ at(key).applied = me.applied
        /\ at(key).pending = me.pending
    BY <1>1 DEF Member
  <2> HIDE DEF at
  <2>3. Staged(at(key))
    BY <1>1, <2>2, Edits
  <2> QED BY <1>2, <2>1, <2>3
<1> QED BY <1>3, <1>4

LEMMA InitInv == Init => Inv
<1> SUFFICES ASSUME Init PROVE Inv
  OBVIOUS
<1>1. PICK k \in Media \cup {NoMedia}, p \in BOOLEAN : room = <<[paused |-> p, media |-> k]>>
  BY DEF Init
<1>2. PICK local \in Media \cup {NoMedia} :
       me = [status |-> "away", clock |-> FALSE, welcomed |-> FALSE, applied |-> 0,
             pending |-> {}, mine |-> {}, sent |-> 0, intended |-> NoCmd, local |-> local,
             acq |-> "detached", conforming |-> FALSE, reconforms |-> 0, settled |-> FALSE,
             base |-> "unknown", wait |-> "none", pressed |-> "no",
             blocked |-> FALSE, retry |-> FALSE,
             chain |-> <<>>, timer |-> NoTimer]
  BY DEF Init
<1>3. begun = {1} /\ wire = <<>> /\ up = <<>> /\ el \in [paused : BOOLEAN, ready : BOOLEAN]
  BY DEF Init
<1>4. /\ room \in Seq(Entry) /\ Len(room) = 1
  BY <1>1 DEF Entry
<1>5. /\ NoCmd \in Cmd /\ NoTimer \in Timer /\ <<>> \in Seq(Work) /\ <<>> \in Seq(Frame)
      /\ <<>> \in Seq([id : Nat, paused : BOOLEAN])
      /\ Len(<<>>) = 0
  BY EmptySeq DEF NoCmd, Cmd, NoTimer, Timer
<1>6. me \in Member
  BY <1>2, <1>5 DEF Member
<1>7. Types
  BY <1>3, <1>4, <1>5, <1>6 DEF Types
<1>8. SeqsAreTheRooms
  BY <1>2, <1>3, <1>4, <1>5 DEF SeqsAreTheRooms, Told
<1>9. Good(me, room, begun)
  BY <1>2, <1>5 DEF Good, OneAtATime, Timely, OneConform
<1> QED BY <1>7, <1>8, <1>9 DEF Inv

LEMMA NextInv == Inv /\ [Next]_vars => Inv'
<1> SUFFICES ASSUME Inv, [Next]_vars PROVE Inv'
  OBVIOUS
<1>1. CASE Server
  BY <1>1, ServerInv
<1>2. CASE Outside
  <2>1. ASSUME NEW clean \in BOOLEAN, OnClose(clean) PROVE Inv'
    BY <2>1, OnCloseInv
  <2> QED BY <1>2, <2>1, StopInv, CorrectInv, PressInv, ClickInv, SiteInv, EpochInv DEF Outside
<1>3. CASE Connect \/ ClockSettles \/ Receive \/ Drain
  BY <1>3, ConnectInv, ClockSettlesInv, ReceiveInv, DrainInv
<1>4. CASE Begin \/ SeekEnds \/ Land \/ PlaySettles \/ TimerFires
  BY <1>4, BeginInv, SeekEndsInv, LandInv, PlaySettlesInv, TimerFiresInv
<1>5. CASE Evaluates
  BY <1>5, EvaluateInv DEF Evaluates
<1>6. CASE Lasts \/ Settles \/ Unanswered \/ Wanes \/ Loads
  BY <1>6, WaitsInv, SiteInv
<1>7. CASE UNCHANGED vars
  BY <1>7 DEF vars, Inv, Types, SeqsAreTheRooms
<1> QED BY <1>1, <1>2, <1>3, <1>4, <1>5, <1>6, <1>7 DEF Next

(* The invariant holds in every state of the specification. *)
THEOREM EngineCorrect == Spec => []Inv
<1> QED BY InitInv, NextInv, PTL DEF Spec

-----------------------------------------------------------------------------
(* What an engine's own press is for. *)

LEMMA OnlyLandPresses ==
  ASSUME Inv, [Next]_vars, EnginePresses
  PROVE  LET j == Head(me.chain)
         IN  /\ Land /\ Current(me, j) /\ j \in Work
             /\ el'.paused = j.paused
<1> DEFINE j == Head(me.chain)
<1>1. me.chain # <<>> /\ j.phase = "aimed" /\ el'.paused # el.paused
  BY DEF EnginePresses
<1>2. j \in Work
  BY <1>1, Heads
<1>3. ~Settled
  BY <1>1 DEF Settled
<1>4. el' = el \/ Land \/ Loads
  BY <1>3 DEF Next, vars, Server, Others, Serve, Begins, Resync, Outside, OnClose, Stop, Correct,
     Press, Click, SiteMoves, Reload, Navigate, Connect, ClockSettles, Receive, Drain, Begin,
     SeekEnds, PlaySettles, TimerFires, Evaluates, Evaluate, Lasts, Settles, Unanswered, Wanes
<1>5. Land
  BY <1>1, <1>4, Players DEF Loads
<1>6. Current(me, j) /\ el'.paused = j.paused
  BY <1>1, <1>2, <1>5, Players DEF Land, Work
<1> QED BY <1>2, <1>5, <1>6

(* Nothing the engine queued presses play or pause outside a session, off   *)
(* the room's media, or in a later session than the one it was queued in;   *)
(* and a room's command, a conform or a hold presses only what the room     *)
(* says at the seq that is applied: canAim, asked again when the seek has   *)
(* ended, and what applyScheduled, conform and holdForRoom were aimed for.  *)
THEOREM EnginePressesNothingStale == Spec => NothingStalePresses
<1> DEFINE Presses == EnginePresses =>
             /\ me.status = "joined" /\ me.clock /\ Head(me.chain).live
             /\ me.local = Anchor(me).media
             /\ Head(me.chain).kind \in {"apply", "conform", "hold"}
                  => el'.paused = Anchor(me).paused
<1>1. Inv /\ [Next]_vars => [Presses]_vars
  <2> SUFFICES ASSUME Inv, [Next]_vars, EnginePresses
               PROVE  /\ me.status = "joined" /\ me.clock /\ Head(me.chain).live
                      /\ me.local = Anchor(me).media
                      /\ Head(me.chain).kind \in {"apply", "conform", "hold"}
                           => el'.paused = Anchor(me).paused
    OBVIOUS
  <2> DEFINE j == Head(me.chain)
  <2>1. Current(me, j) /\ el'.paused = j.paused
    BY OnlyLandPresses
  <2>2. j.phase = "aimed" /\ Aimed(j, room, begun)
    BY Heads DEF EnginePresses
  <2> HIDE DEF j
  <2>3. /\ me.status = "joined" /\ me.clock /\ j.live /\ me.local = Anchor(me).media
        /\ Anchor(me) = room[me.applied] /\ (j.kind \in OfOneSeq => j.seq = me.applied)
    BY <2>1, CurrentIsPlaced
  <2>4. j.kind \in OfOneSeq => j.paused = room[j.seq].paused
    BY <2>2 DEF Aimed
  <2> QED BY <2>1, <2>3, <2>4 DEF OfOneSeq, j
<1>2. []Inv /\ [][Next]_vars => [][Presses]_vars
  BY <1>1, PTL
<1> QED BY <1>2, EngineCorrect, PTL DEF Spec, NothingStalePresses

(* No apply, conform or hold starts a player before the room's `when`, not  *)
(* even a player whose welcome came inside a play's lead: an apply is       *)
(* queued when its command is due, a conform waits for its anchor's timer,  *)
(* a hold only pauses.  Of a gesture's and the reconciler's jobs nothing is *)
(* claimed: they may (NobodyStartsEarly).                                   *)
THEOREM EngineNeverPlaysEarly == Spec => NoEarlyPlay
<1> DEFINE Starts == EnginePresses /\ Head(me.chain).kind \in {"apply", "conform", "hold"} /\ ~el'.paused
                       => me.applied \in begun
<1>1. Inv /\ [Next]_vars => [Starts]_vars
  <2> SUFFICES ASSUME Inv, [Next]_vars, EnginePresses,
                      Head(me.chain).kind \in {"apply", "conform", "hold"}, ~el'.paused
               PROVE  me.applied \in begun
    OBVIOUS
  <2> DEFINE j == Head(me.chain)
  <2>1. Current(me, j) /\ el'.paused = j.paused
    BY OnlyLandPresses
  <2>2. /\ j.phase = "aimed" /\ Aimed(j, room, begun)
        /\ j.kind = "conform" => j.seq \in begun \cup {0}
    BY Heads DEF EnginePresses
  <2> HIDE DEF j
  <2>3. me.applied \in 1 .. Len(room) /\ (j.kind \in OfOneSeq => j.seq = me.applied)
    BY <2>1, CurrentIsPlaced
  <2>4. Len(room) \in Nat
    BY LenProperties DEF Inv, Types
  <2>5. j.kind # "hold"
    BY <2>1, <2>2 DEF Aimed
  <2>6. j.seq \in begun \cup {0} /\ j.seq = me.applied
    BY <2>2, <2>3, <2>5 DEF Aimed, OfOneSeq, j
  <2> QED BY <2>3, <2>4, <2>6
<1>2. []Inv /\ [][Next]_vars => [][Starts]_vars
  BY <1>1, PTL
<1> QED BY <1>2, EngineCorrect, PTL DEF Spec, NoEarlyPlay

(* The types of the module's state, and that a conform is in flight exactly *)
(* while its media epoch has a job or a timer for it (queueConform).        *)
THEOREM EngineTypeCorrect == Spec => []TypeOK
<1>1. Inv => TypeOK
  <2> SUFFICES ASSUME Inv PROVE TypeOK
    OBVIOUS
  <2>1. \A i \in 1 .. Len(me.chain) : me.chain[i] \in Work
    BY Chain DEF Inv, Types
  <2>2. \A i \in 1 .. Len(me.chain) : /\ me.chain[i].kind \in Kinds
                                      /\ i > 1 => me.chain[i].phase = "queued"
    BY <2>1 DEF Inv, Good, OneAtATime, Work
  <2>3. /\ me.conforming <=> \/ me.timer # NoTimer
                             \/ \E i \in 1 .. Len(me.chain) : me.chain[i].kind = "conform" /\ me.chain[i].here
        /\ me.acq = "conforming" => me.conforming
    BY DEF Inv, Good, OneConform, Conforms
  <2>4. /\ me.status \in {"away", "joining", "joined", "closed"}
        /\ me.acq \in {"detached", "conforming", "guarded", "steady", "fought"}
        /\ me.wait \in {"none", "some", "over"}
    BY DEF Inv, Types, Member
  <2>5. /\ room \in Seq([paused : BOOLEAN, media : Media \cup {NoMedia}])
        /\ begun \subseteq 1 .. Len(room)
        /\ me.applied \in 0 .. Len(room)
        /\ me.pending \subseteq 1 .. Len(room)
    BY DEF Inv, Types, SeqsAreTheRooms, Entry
  <2> QED BY <2>2, <2>3, <2>4, <2>5 DEF TypeOK
<1> QED BY <1>1, EngineCorrect, PTL

-----------------------------------------------------------------------------
(* What an engine sends.  A look finds a change only where the play state   *)
(* is not the one last taken down.  While nobody touched the player, that   *)
(* is the engine's own play, whose transition still runs, or the site's     *)
(* doing on a player that is not steady; outside of a session, nothing is.  *)

Noted == me.base \in {"unknown", State(el.paused)}

OwnPlay == /\ me.status = "joined" /\ me.chain # <<>> /\ Head(me.chain).phase = "playing"
           /\ ~Head(me.chain).paused /\ ~el.paused

SitesDoing == me.status = "joined" /\ me.acq # "steady" /\ me.pressed = "no" /\ ~me.settled

Attributed ==
  /\ ~Linked => wire = <<>>
  /\ touched = "no" /\ me.status # "closed" => Noted \/ OwnPlay \/ SitesDoing

(* What no stage of an evaluation changes, and what only a command does. *)
Kept(d, e) ==
  /\ d.base = e.base /\ d.status = e.status /\ d.pressed = e.pressed /\ d.settled = e.settled
  /\ e.chain # <<>> => d.chain # <<>> /\ Head(d.chain) = Head(e.chain)

Silent(d, e) == d.sent = e.sent /\ d.intended = e.intended /\ d.applied = e.applied

LEMMA HeadStays ==
  ASSUME NEW S, NEW q \in Seq(S), NEW j, q # <<>>
  PROVE  Append(q, j) # <<>> /\ Head(Append(q, j)) = Head(q)
<1> DEFINE T == S \cup {j}
<1>1. q \in Seq(T) /\ j \in T
  <2>1. Len(q) \in Nat /\ q \in [1 .. Len(q) -> S]
    BY LenProperties
  <2>2. q \in [1 .. Len(q) -> T]
    BY <2>1
  <2> QED BY <2>1, <2>2
<1> HIDE DEF T
<1>2. /\ Append(q, j) \in Seq(T) /\ Len(Append(q, j)) = Len(q) + 1
      /\ \A i \in 1 .. Len(q) : Append(q, j)[i] = q[i]
  BY <1>1, AppendProperties
<1>3. Len(q) \in Nat /\ Len(q) # 0 /\ 1 \in 1 .. Len(q)
  BY <1>1, LenProperties, EmptySeq
<1>4. Append(q, j) # <<>>
  BY <1>2, <1>3, EmptySeq
<1> QED BY <1>1, <1>2, <1>3, <1>4, HeadTailProperties

LEMMA QueueKeeps ==
  ASSUME NEW e \in Member, NEW kind
  PROVE  Kept(Queue(e, kind), e) /\ Silent(Queue(e, kind), e) /\ Queue(e, kind).acq = e.acq
<1> DEFINE j == Job(kind, e)
           q == Append(e.chain, j)
<1>1. e.chain # <<>> => q # <<>> /\ Head(q) = Head(e.chain)
  BY HeadStays DEF Member
<1>2. Queue(e, kind) = [e EXCEPT !.chain = q]
  BY DEF Queue
<1> HIDE DEF q
<1> QED BY <1>1, <1>2 DEF Member, Kept, Silent

LEMMA ConformKeeps ==
  ASSUME NEW e \in Member
  PROVE  Kept(Conform(e), e) /\ Silent(Conform(e), e) /\ Conform(e).acq = e.acq
<1> DEFINE c == [e EXCEPT !.conforming = TRUE]
           t == [seq |-> e.applied, live |-> TRUE]
           w == [c EXCEPT !.timer = t]
<1>1. /\ c \in Member /\ Kept(c, e) /\ Silent(c, e) /\ c.acq = e.acq
  BY DEF Member, Kept, Silent
<1>2. Conform(e) \in {Queue(c, "conform"), w}
  BY DEF Conform
<1> HIDE DEF c, t
<1>3. Kept(w, c) /\ Silent(w, c) /\ w.acq = c.acq
  BY <1>1 DEF Member, Kept, Silent
<1> HIDE DEF w
<1> QED BY <1>1, <1>2, <1>3, QueueKeeps DEF Kept, Silent

LEMMA ResumeKeeps ==
  ASSUME NEW e \in Member
  PROVE  LET d == ResumeAfterGesture(e) IN Kept(d, e) /\ Silent(d, e) /\ d.acq = e.acq
<1> DEFINE c == [e EXCEPT !.retry = FALSE]
           u == [e EXCEPT !.blocked = FALSE, !.retry = FALSE]
           w == [e EXCEPT !.retry = TRUE]
<1>1. ResumeAfterGesture(e) \in {c, u, w, Queue(c, "gesture")}
  BY DEF ResumeAfterGesture
<1>2. c \in Member /\ Kept(c, e) /\ Silent(c, e) /\ c.acq = e.acq
  BY DEF Member, Kept, Silent
<1>3. Kept(u, e) /\ Silent(u, e) /\ u.acq = e.acq
  BY DEF Member, Kept, Silent
<1>4. Kept(w, e) /\ Silent(w, e) /\ w.acq = e.acq
  BY DEF Member, Kept, Silent
<1> HIDE DEF c, u, w
<1> QED BY <1>1, <1>2, <1>3, <1>4, QueueKeeps DEF Kept, Silent

(* What comes before the look: nothing is sent, and a player becomes steady *)
(* only after it has settled or runs with a room that plays.                *)
LEMMA StagesKeep ==
  ASSUME NEW e \in Member, NEW together
  PROVE  LET d == AdvanceAcquisition(e, together)
         IN  /\ Kept(d, e) /\ Silent(d, e)
             /\ d.acq = "steady" => e.acq = "steady" \/ e.settled \/ (~Anchor(e).paused /\ ~el.paused)
<1> DEFINE f == [e EXCEPT !.acq = "conforming"]
           s == [e EXCEPT !.acq = "steady"]
           d == AdvanceAcquisition(e, together)
<1>1. \/ d = e
      \/ d = Conform(f)
      \/ d = s /\ (e.settled \/ (~Anchor(e).paused /\ ~el.paused))
  BY DEF AdvanceAcquisition
<1>2. f \in Member /\ Kept(f, e) /\ Silent(f, e) /\ f.acq = "conforming"
  BY DEF Member, Kept, Silent
<1>3. Kept(s, e) /\ Silent(s, e)
  BY DEF Member, Kept, Silent
<1>4. Kept(e, e) /\ Silent(e, e)
  BY DEF Kept, Silent
<1> HIDE DEF f, s, d
<1>5. Kept(Conform(f), f) /\ Silent(Conform(f), f) /\ Conform(f).acq = "conforming"
  BY <1>2, ConformKeeps
<1> QED BY <1>1, <1>2, <1>3, <1>4, <1>5 DEF Kept, Silent, d

LEMMA NoticeKeeps ==
  ASSUME NEW e \in Member
  PROVE  LET d == NoticeUnblocked(e)
         IN  Kept(d, e) /\ Silent(d, e) /\ d.acq = e.acq
<1> DEFINE u == [e EXCEPT !.blocked = FALSE, !.retry = FALSE]
<1>1. NoticeUnblocked(e) \in {e, u}
  BY DEF NoticeUnblocked
<1>2. Kept(u, e) /\ Silent(u, e) /\ u.acq = e.acq
  BY DEF Member, Kept, Silent
<1>3. Kept(e, e) /\ Silent(e, e)
  BY DEF Kept, Silent
<1> HIDE DEF u
<1> QED BY <1>1, <1>2, <1>3

LEMMA ReconcileKeeps ==
  ASSUME NEW e \in Member
  PROVE  Kept(Reconcile(e), e) /\ Silent(Reconcile(e), e)
<1> DEFINE none == [e EXCEPT !.wait = "none"]
           some == [e EXCEPT !.wait = "some"]
<1>1. e.wait \in {"none", "some", "over"}
  BY DEF Member
<1>2. Reconcile(e) \in {e, none, some, Queue(none, "reconcile")}
  BY <1>1 DEF Reconcile
<1>3. none \in Member /\ Kept(none, e) /\ Silent(none, e)
  BY DEF Member, Kept, Silent
<1>4. Kept(some, e) /\ Silent(some, e) /\ Kept(e, e) /\ Silent(e, e)
  BY DEF Member, Kept, Silent
<1> HIDE DEF none, some
<1> QED BY <1>2, <1>3, <1>4, QueueKeeps DEF Kept, Silent

(* A command goes out only against where the room is asked to be, and for   *)
(* no effect of a transition of the engine's.                               *)
LEMMA SendKeeps ==
  ASSUME Inv, NEW e \in Member
  PROVE  Send(e) \in Member /\ Kept(Send(e), e)
<1> DEFINE next == e.sent + 1
           asked == [id |-> next, seq |-> 0, paused |-> el.paused]
           intended == IF e.clock THEN asked ELSE NoCmd
<1>1. next \in Nat /\ el.paused \in BOOLEAN
  BY Players DEF Member
<1>2. intended \in Cmd
  BY <1>1 DEF Cmd, NoCmd
<1>3. Send(e) = [e EXCEPT !.sent = next, !.intended = intended]
  BY DEF Send
<1> HIDE DEF next, intended
<1> QED BY <1>1, <1>2, <1>3 DEF Member, Kept

LEMMA ActSays ==
  ASSUME Inv, NEW e \in Member, NEW unready
  PROVE  LET d == Act(e, unready)
         IN  /\ Kept(d, e)
             /\ d.sent = e.sent \/ (el.paused # RoomAnchor(e).paused /\ ~OwnEffect(e, unready))
<1> DEFINE d == Act(e, unready)
<1>1. \/ d = e \/ d = Queue(e, "hold")
      \/ /\ d \in {Send(e), Queue(Send(e), "hold")}
         /\ el.paused # RoomAnchor(e).paused /\ ~OwnEffect(e, unready)
  BY DEF Act
<1>2. Send(e) \in Member /\ Kept(Send(e), e)
  BY SendKeeps
<1>3. Kept(Queue(Send(e), "hold"), Send(e)) /\ Kept(Queue(e, "hold"), e) /\ Silent(Queue(e, "hold"), e)
  BY <1>2, QueueKeeps
<1> HIDE DEF d
<1> QED BY <1>1, <1>2, <1>3 DEF Kept, Silent, d

(* What the member asked for and what the engine does are read of the same  *)
(* fields whoever is said to have made the change.                          *)
LEMMA SameJudgement ==
  ASSUME NEW e, NEW d, Silent(d, e), d.chain = e.chain, d.pressed = e.pressed, NEW unready
  PROVE  /\ RoomAnchor(d) = RoomAnchor(e) /\ Anchor(d) = Anchor(e)
         /\ OwnEffect(d, unready) <=> OwnEffect(e, unready)
<1>1. Anchor(d) = Anchor(e)
  BY DEF Silent, Anchor
<1>2. RoomAnchor(d) = RoomAnchor(e)
  BY <1>1 DEF Silent, RoomAnchor
<1>3. OwnEffect(d, unready) <=> OwnEffect(e, unready)
  BY DEF OwnEffect, Running, UnderOwnSeek
<1> QED BY <1>1, <1>2, <1>3

LEMMA ClassifySays ==
  ASSUME Inv, NEW e \in Member, NEW unready
  PROVE  LET d == Classify(e, unready)
         IN  /\ Kept(d, e)
             /\ d.sent = e.sent \/ /\ e.acq = "steady" \/ e.pressed # "no"
                                   /\ el.paused # RoomAnchor(e).paused /\ ~OwnEffect(e, unready)
<1> DEFINE s == [e EXCEPT !.acq = "steady"]
           f == [e EXCEPT !.acq = "fought"]
           g == [e EXCEPT !.reconforms = @ + 1]
           d == Classify(e, unready)
<1>1. \/ d = e \/ d = f \/ d = Conform(g)
      \/ d = Act(e, unready) /\ e.acq = "steady"
      \/ d = Act(s, unready) /\ e.pressed # "no"
  BY DEF Classify, Intent
<1>2. s \in Member /\ Kept(s, e) /\ Silent(s, e) /\ s.chain = e.chain /\ s.pressed = e.pressed
  BY DEF Member, Kept, Silent
<1>3. Kept(f, e) /\ Silent(f, e) /\ Kept(e, e) /\ Silent(e, e)
  BY DEF Member, Kept, Silent
<1>4. g \in Member /\ Kept(g, e) /\ Silent(g, e)
  BY DEF Member, Kept, Silent
<1> HIDE DEF s, f, g, d
<1>5. Kept(Conform(g), e) /\ Silent(Conform(g), e)
  BY <1>4, ConformKeeps DEF Kept, Silent
<1>6. CASE d = Act(e, unready) /\ e.acq = "steady"
  BY <1>6, ActSays DEF d
<1>7. CASE d = Act(s, unready) /\ e.pressed # "no"
  <2>1. Kept(d, s)
    BY <1>2, <1>7, ActSays
  <2>2. d.sent = s.sent \/ (el.paused # RoomAnchor(s).paused /\ ~OwnEffect(s, unready))
    BY <1>2, <1>7, ActSays
  <2>3. RoomAnchor(s) = RoomAnchor(e) /\ (OwnEffect(s, unready) <=> OwnEffect(e, unready))
    BY <1>2, SameJudgement
  <2>4. Kept(d, e) /\ s.sent = e.sent
    BY <1>2, <2>1 DEF Kept, Silent
  <2> QED BY <1>7, <2>2, <2>3, <2>4 DEF d
<1> QED BY <1>1, <1>3, <1>5, <1>6, <1>7 DEF Silent, d

LEMMA ObserveSays ==
  ASSUME Inv, NEW e \in Member, NEW unready
  PROVE  LET d == Observe(e, unready)
         IN  /\ d.base = State(el.paused) /\ d.status = e.status
             /\ d.sent = e.sent \/ /\ e.base \notin {"unknown", State(el.paused)}
                                   /\ e.acq = "steady" \/ e.pressed # "no"
                                   /\ el.paused # RoomAnchor(e).paused /\ ~OwnEffect(e, unready)
<1> DEFINE base == State(el.paused)
           now == [e EXCEPT !.base = base]
           d == Observe(e, unready)
<1>1. \/ d = now
      \/ d = Classify(now, unready) /\ e.base \notin {"unknown", base}
  BY DEF Observe
<1>2. base \in {"unknown", "paused", "playing"}
  BY DEF State
<1> HIDE DEF base
<1>3. /\ now \in Member /\ now.base = base /\ now.status = e.status /\ now.acq = e.acq
      /\ Silent(now, e) /\ now.chain = e.chain /\ now.pressed = e.pressed
  BY <1>2 DEF Member, Silent
<1> HIDE DEF now, d
<1>4. RoomAnchor(now) = RoomAnchor(e) /\ (OwnEffect(now, unready) <=> OwnEffect(e, unready))
  BY <1>3, SameJudgement
<1>5. CASE d = Classify(now, unready) /\ e.base \notin {"unknown", base}
  <2>1. Kept(d, now)
    BY <1>3, <1>5, ClassifySays
  <2>2. d.sent = now.sent \/ /\ now.acq = "steady" \/ now.pressed # "no"
                             /\ el.paused # RoomAnchor(now).paused /\ ~OwnEffect(now, unready)
    BY <1>3, <1>5, ClassifySays
  <2> QED BY <1>3, <1>4, <1>5, <2>1, <2>2 DEF Kept, Silent, base, d
<1> QED BY <1>1, <1>3, <1>5 DEF Silent, base, d

LEMMA EvaluateSays ==
  ASSUME Inv, NEW together, NEW unready, Evaluate(together, unready)
  PROVE  /\ me'.base = State(el.paused) /\ me'.status = me.status
         /\ Attributed /\ touched = "no" /\ me'.sent # me.sent
              => el.paused = Anchor(me).paused /\ el.paused # RoomAnchor(me).paused
<1>1. Settled /\ me.status = "joined" /\ me \in Member
  BY DEF Evaluate, Inv, Types
<1> DEFINE e1 == NoticeUnblocked(me)
           e2 == AdvanceAcquisition(e1, together)
           e3 == RetryGesture(e2)
           e4 == Observe(e3, unready)
<1>2. me' = Reconcile(e4)
  BY DEF Evaluate
<1>3. Staged(e1) /\ Ready(e1) /\ Kept(e1, me) /\ Silent(e1, me) /\ e1.acq = me.acq
  BY <1>1, StagedMe, Notices, NoticeKeeps
<1> HIDE DEF e1
<1>4. Staged(e2) /\ Ready(e2)
  BY <1>3, Advances
<1>5. e1 \in Member /\ e2 \in Member
  BY <1>3, <1>4 DEF Staged
<1>6. /\ Kept(e2, e1) /\ Silent(e2, e1)
      /\ e2.acq = "steady" => e1.acq = "steady" \/ e1.settled \/ (~Anchor(e1).paused /\ ~el.paused)
  BY <1>5, StagesKeep
<1> HIDE DEF e2
<1>7. Staged(e3)
  BY <1>4, Retries
<1>8. e3 \in {e2, ResumeAfterGesture(e2)}
  BY DEF RetryGesture
<1>9. Kept(e3, e2) /\ Silent(e3, e2) /\ e3.acq = e2.acq
  BY <1>5, <1>8, ResumeKeeps DEF Kept, Silent
<1>10. e3 \in Member
  BY <1>7 DEF Staged
<1> HIDE DEF e3
<1>11. /\ e4.base = State(el.paused) /\ e4.status = e3.status
       /\ e4.sent = e3.sent \/ /\ e3.base \notin {"unknown", State(el.paused)}
                               /\ e3.acq = "steady" \/ e3.pressed # "no"
                               /\ el.paused # RoomAnchor(e3).paused /\ ~OwnEffect(e3, unready)
  BY <1>10, ObserveSays
<1>12. e4 \in Member
  <2>1. Staged(e4)
    BY <1>4, <1>7, Retries, Observes DEF e3
  <2> QED BY <2>1 DEF Staged
<1> HIDE DEF e4
<1>13. Kept(me', e4) /\ Silent(me', e4)
  BY <1>2, <1>12, ReconcileKeeps
<1>14. Kept(e3, me) /\ Silent(e3, me)
  BY <1>3, <1>6, <1>9 DEF Kept, Silent
<1>15. Anchor(e1) = Anchor(me) /\ RoomAnchor(e3) = RoomAnchor(me)
  BY <1>3, <1>14 DEF Silent, Anchor, RoomAnchor
<1>16. ASSUME Attributed, touched = "no", me'.sent # me.sent
       PROVE  el.paused = Anchor(me).paused /\ el.paused # RoomAnchor(me).paused
  <2>1. /\ e3.base \notin {"unknown", State(el.paused)}
        /\ e3.acq = "steady" \/ e3.pressed # "no"
        /\ el.paused # RoomAnchor(me).paused /\ ~OwnEffect(e3, unready)
    BY <1>11, <1>13, <1>14, <1>15, <1>16 DEF Silent
  <2>2. ~Noted
    BY <1>14, <2>1 DEF Kept, Noted
  <2>3. ~OwnPlay
    <3> SUFFICES ASSUME OwnPlay PROVE FALSE
      OBVIOUS
    <3>1. e3.chain # <<>> /\ Head(e3.chain) = Head(me.chain)
      BY <1>14 DEF Kept, OwnPlay
    <3>2. /\ Head(me.chain).phase = "playing" /\ el.paused = Head(me.chain).paused
      <4>1. Head(me.chain).paused \in BOOLEAN /\ el.paused \in BOOLEAN
        BY Heads, Players DEF OwnPlay, Work
      <4> QED BY <4>1 DEF OwnPlay
    <3>3. OwnEffect(e3, unready)
      BY <3>1, <3>2 DEF OwnEffect, Running
    <3> QED BY <2>1, <3>3
  <2>4. SitesDoing
    BY <1>1, <1>16, <2>2, <2>3 DEF Attributed
  <2>5. e3.acq = "steady" /\ me.acq # "steady" /\ ~me.settled
    BY <1>14, <2>1, <2>4 DEF SitesDoing, Kept
  <2>6. ~Anchor(me).paused /\ ~el.paused
    BY <1>3, <1>6, <1>9, <1>15, <2>5 DEF Kept
  <2>7. el.paused \in BOOLEAN /\ Anchor(me).paused \in BOOLEAN
    BY <1>1, Players, AnchorIsTheRooms DEF Inv, SeqsAreTheRooms
  <2> QED BY <2>1, <2>6, <2>7
<1>17. me'.base = State(el.paused) /\ me'.status = me.status
  BY <1>11, <1>13, <1>14 DEF Kept
<1> QED BY <1>16, <1>17

-----------------------------------------------------------------------------
(* Every step keeps the account.  Most leave the play state and what was    *)
(* taken down of it as they are.                                            *)

LEMMA SameAccount ==
  ASSUME Attributed, NEW d, Kept(d, me), d.acq = "steady" => me.acq = "steady",
         me' = d, el' = el, touched' = touched, wire' = wire
  PROVE  Attributed'
<1>1. d.status = me.status /\ d.base = me.base /\ d.pressed = me.pressed /\ d.settled = me.settled
  BY DEF Kept
<1>2. Noted => Noted'
  BY <1>1 DEF Noted
<1>3. OwnPlay => OwnPlay'
  BY <1>1 DEF OwnPlay, Kept
<1>4. SitesDoing => SitesDoing'
  BY <1>1 DEF SitesDoing
<1>5. Linked' => Linked
  BY <1>1 DEF Linked
<1> QED BY <1>1, <1>2, <1>3, <1>4, <1>5 DEF Attributed, Linked

(* A step after which the look is at the play state that was taken down. *)
LEMMA NewAccount ==
  ASSUME Attributed, me'.status = me.status, wire' = wire,
         me'.base \in {"unknown", State(el'.paused)}
  PROVE  Attributed'
<1>1. Noted'
  BY DEF Noted
<1> QED BY <1>1 DEF Attributed, Linked

LEMMA ServerAccount == ASSUME Inv, Attributed, Server PROVE Attributed'
<1>1. me' = me /\ el' = el /\ touched' = touched /\ (wire' = wire \/ Linked)
  BY DEF Server, Others, Serve, Begins, Resync, Extend, ToMember, linkVars
<1>2. (Linked <=> Linked') /\ (Noted <=> Noted') /\ (OwnPlay <=> OwnPlay')
      /\ (SitesDoing <=> SitesDoing')
  BY <1>1 DEF Linked, Noted, OwnPlay, SitesDoing
<1> QED BY <1>1, <1>2 DEF Attributed

LEMMA EpochForgets ==
  ASSUME NEW e \in Member
  PROVE  NewMediaEpoch(e).base = "unknown" /\ NewMediaEpoch(e).status = e.status
<1> DEFINE q == [i \in 1 .. Len(e.chain) |-> [e.chain[i] EXCEPT !.here = FALSE]]
<1>1. NewMediaEpoch(e) =
        [e EXCEPT !.acq = "detached", !.reconforms = 0, !.settled = FALSE, !.conforming = FALSE,
                  !.base = "unknown", !.wait = "none", !.pressed = "no", !.timer = NoTimer,
                  !.chain = q]
  BY DEF NewMediaEpoch
<1> HIDE DEF q
<1> QED BY <1>1 DEF Member

LEMMA OutsideAccount ==
  ASSUME Inv, Attributed,
         \/ \E clean \in BOOLEAN : OnClose(clean)
         \/ Stop \/ Reload \/ \E key \in Media \cup {NoMedia} : Navigate(key)
  PROVE  Attributed'
<1>1. me \in Member /\ Good(me, room, begun)
  BY DEF Inv, Types
<1>2. ASSUME NEW clean \in BOOLEAN, OnClose(clean) PROVE Attributed'
  <2> DEFINE d == [Forgets(me) EXCEPT !.status = "closed"]
             f == Forgets(me)
  <2>1. wire' = <<>> /\ me' = IF clean THEN d ELSE Lost(me)
    BY <1>2 DEF OnClose
  <2>2. f \in Member /\ Good(f, room, begun)
    BY <1>1, ForgetsGood
  <2>3. d.status = "closed"
    BY <1>1 DEF Forgets, Member
  <2>4. Lost(me).base = "unknown"
    <3>1. EndSession(f) \in Member
      BY <2>2, EndSessionGood
    <3> QED BY <3>1 DEF Lost, Member
  <2> HIDE DEF d, f
  <2> QED BY <2>1, <2>3, <2>4 DEF Attributed, Noted
<1>3. CASE Stop
  <2> DEFINE f == Forgets(me)
             s == EndSession(f)
  <2>1. wire' = <<>> /\ me' = [s EXCEPT !.status = "closed", !.retry = FALSE]
    BY <1>3 DEF Stop
  <2>2. f \in Member /\ Good(f, room, begun)
    BY <1>1, ForgetsGood
  <2> HIDE DEF f
  <2>3. s \in Member
    BY <2>2, EndSessionGood
  <2> HIDE DEF s
  <2>4. me'.status = "closed"
    BY <2>1, <2>3 DEF Member
  <2> QED BY <2>1, <2>4 DEF Attributed
<1>4. CASE Reload
  <2>1. me' = NewMediaEpoch(me) /\ wire' = wire
    BY <1>4 DEF Reload, linkVars
  <2> QED BY <1>1, <2>1, EpochForgets, NewAccount
<1>5. ASSUME NEW key \in Media \cup {NoMedia}, Navigate(key) PROVE Attributed'
  <2> DEFINE e == [me EXCEPT !.local = key]
  <2>1. e \in Member /\ e.status = me.status
    BY <1>1 DEF Member
  <2>2. me' = NewMediaEpoch(e) /\ wire' = wire
    BY <1>5 DEF Navigate, linkVars
  <2> HIDE DEF e
  <2> QED BY <2>1, <2>2, EpochForgets, NewAccount
<1> QED BY <1>2, <1>3, <1>4, <1>5

LEMMA SessionAccount ==
  ASSUME Inv, Attributed, Connect \/ ClockSettles \/ Receive \/ Drain \/ Correct
  PROVE  Attributed'
<1>1. me \in Member
  BY DEF Inv, Types
<1>2. CASE Connect
  <2>1. /\ me.status = "away" /\ el' = el /\ touched' = touched
        /\ me' = [me EXCEPT !.status = "joining"]
    BY <1>2 DEF Connect
  <2>2. me'.status = "joining" /\ me'.base = me.base
    BY <1>1, <2>1 DEF Member
  <2>3. touched = "no" => Noted
    BY <2>1 DEF Attributed, OwnPlay, SitesDoing
  <2> QED BY <2>1, <2>2, <2>3 DEF Attributed, Noted, Linked
<1>3. CASE ClockSettles
  <2> DEFINE d == [me EXCEPT !.clock = TRUE]
  <2>1. me' = d /\ el' = el /\ touched' = touched /\ wire' = wire
    BY <1>3 DEF ClockSettles, linkVars
  <2>2. Kept(d, me) /\ d.acq = me.acq
    BY <1>1 DEF Member, Kept
  <2> HIDE DEF d
  <2> QED BY <2>1, <2>2, SameAccount
<1>4. CASE Receive
  <2> DEFINE f == Head(wire)
             a == [me EXCEPT !.mine = @ \cup {f.seq},
                             !.intended.seq = IF me.intended.id = f.id THEN f.seq ELSE @]
             w == [me EXCEPT !.status = "joined", !.applied = f.seq, !.welcomed = TRUE]
             n == NewMediaEpoch(w)
  <2>1. wire # <<>> /\ Linked /\ el' = el /\ touched' = touched
    BY <1>4 DEF Receive, Attributed
  <2>2. f \in Frame
    BY <2>1, Delivered DEF Inv, Types, SeqsAreTheRooms
  <2>3. \/ me' = w \/ me' = n
        \/ me' = Schedule(me, f.seq) \/ me' = Schedule(a, f.seq)
    BY <1>4, <2>2 DEF Receive, Frame, Welcomed, RoomMediaChanged, Acked
  <2>4. a \in Member /\ Kept(a, me) /\ a.acq = me.acq
    <3> DEFINE mine == me.mine \cup {f.seq}
               seq == IF me.intended.id = f.id THEN f.seq ELSE me.intended.seq
               asked == [me.intended EXCEPT !.seq = seq]
    <3>1. mine \subseteq Nat /\ asked \in Cmd
      BY <1>1, <2>2 DEF Member, Frame, Cmd
    <3>2. a = [me EXCEPT !.mine = mine, !.intended = asked]
      BY <1>1 DEF Member, Cmd
    <3> HIDE DEF mine, asked
    <3> DEFINE d == [me EXCEPT !.mine = mine, !.intended = asked]
    <3>3. d \in Member /\ Kept(d, me) /\ d.acq = me.acq
      BY <1>1, <3>1 DEF Member, Kept
    <3>4. a = d
      BY <3>2
    <3> HIDE DEF a, d
    <3> QED BY <3>3, <3>4
  <2>5. /\ w \in Member /\ w.status = "joined" /\ w.base = me.base /\ w.acq = me.acq
        /\ w.pressed = me.pressed /\ w.settled = me.settled /\ w.chain = me.chain
    BY <1>1, <2>2 DEF Member, Frame
  <2> HIDE DEF a, f, w
  <2>6. ASSUME NEW e \in Member, Kept(e, me), e.acq = me.acq, me' = Schedule(e, f.seq)
        PROVE  me'.status = me.status /\ (Noted \/ OwnPlay \/ SitesDoing => (Noted \/ OwnPlay \/ SitesDoing)')
    <3> DEFINE s == [e EXCEPT !.pending = @ \cup {f.seq}]
    <3>1. me' \in {e, s}
      BY <2>6 DEF Schedule
    <3>2. Kept(s, e) /\ s.acq = e.acq
      BY <2>6 DEF Member, Kept
    <3> HIDE DEF s
    <3>3. Kept(me', me) /\ me'.acq = me.acq
      BY <2>6, <3>1, <3>2 DEF Kept
    <3> QED BY <2>1, <3>3 DEF Kept, Noted, OwnPlay, SitesDoing
  <2>7. CASE me' = w
    <3>1. Noted \/ OwnPlay \/ SitesDoing => (Noted \/ OwnPlay \/ SitesDoing)'
      BY <2>1, <2>5, <2>7 DEF Noted, OwnPlay, SitesDoing
    <3>2. me.status # "closed" /\ me'.status = "joined"
      BY <2>1, <2>5, <2>7 DEF Linked
    <3> QED BY <2>1, <3>1, <3>2 DEF Attributed, Linked
  <2>8. CASE me' = n
    <3>1. me'.base = "unknown" /\ me'.status = "joined"
      BY <2>5, <2>8, EpochForgets
    <3> QED BY <3>1 DEF Attributed, Linked, Noted
  <2>9. CASE me' = Schedule(me, f.seq) \/ me' = Schedule(a, f.seq)
    <3>1. Kept(me, me)
      BY DEF Kept
    <3>2. me'.status = me.status /\ (Noted \/ OwnPlay \/ SitesDoing => (Noted \/ OwnPlay \/ SitesDoing)')
      BY <1>1, <2>4, <2>6, <2>9, <3>1
    <3> QED BY <2>1, <3>2 DEF Attributed, Linked
  <2> QED BY <2>3, <2>7, <2>8, <2>9
<1>5. CASE Drain
  <2> DEFINE due == Due(me)
             e == TakesOver(me, due)
             asked == IF me.intended.seq = 0 /\ ~(due \subseteq me.mine) THEN NoCmd ELSE me.intended
             later == me.pending \ begun
             newest == Newest(due)
             m == [me EXCEPT !.applied = newest, !.pending = later, !.intended = asked]
             n == NewMediaEpoch(m)
  <2>1. /\ el' = el /\ touched' = touched /\ wire' = wire
        /\ me' \in {e, Queue(e, "apply")} /\ e \in {m, n} /\ due # {}
    BY <1>5 DEF Drain, linkVars, TakesOver, RoomMediaChanged
  <2>2. newest \in Nat
    <3>1. due \subseteq 1 .. Len(room) /\ Len(room) \in Nat
      BY LenProperties DEF Due, Inv, Types, SeqsAreTheRooms
    <3> QED BY <2>1, <3>1, NewestFound
  <2>3. asked \in Cmd /\ later \subseteq Nat
    BY <1>1 DEF Member, NoCmd, Cmd
  <2> HIDE DEF newest, asked, later, due
  <2>4. m \in Member /\ Kept(m, me) /\ m.acq = me.acq
    BY <1>1, <2>2, <2>3 DEF Member, Kept
  <2>5. n.base = "unknown" /\ n.status = me.status
    BY <2>4, EpochForgets DEF Kept
  <2>6. e \in Member
    <3>1. /\ m.chain = me.chain /\ m.timer = me.timer /\ m.conforming = me.conforming
          /\ m.clock = me.clock
      BY <1>1, <2>2, <2>3 DEF Member, m
    <3>2. Good(m, room, begun)
      BY <1>1, <2>4, <3>1, SameGood DEF Inv
    <3>3. n \in Member
      BY <2>4, <3>2, NewEpochGood DEF n
    <3> QED BY <2>1, <2>4, <3>3
  <2>7. Kept(Queue(e, "apply"), e) /\ Queue(e, "apply").acq = e.acq
    BY <2>6, QueueKeeps
  <2> HIDE DEF e, m, n
  <2>8. CASE e = m
    <3>1. Kept(me', me) /\ me'.acq = me.acq
      BY <2>1, <2>4, <2>7, <2>8 DEF Kept
    <3> QED BY <2>1, <3>1, SameAccount
  <2>9. CASE e = n
    <3>1. me'.base = "unknown" /\ me'.status = me.status
      BY <2>1, <2>5, <2>7, <2>9 DEF Kept
    <3> QED BY <2>1, <3>1, NewAccount
  <2> QED BY <2>1, <2>8, <2>9
<1>6. CASE Correct
  <2>1. /\ me' = Queue(me, "correct") /\ el' = el /\ touched' = touched /\ wire' = wire
    BY <1>6 DEF Correct, linkVars
  <2> QED BY <1>1, <2>1, QueueKeeps, SameAccount
<1> QED BY <1>2, <1>3, <1>4, <1>5, <1>6

(* The end of a transition takes the play state down. *)
LEMMA FinishTakesDown ==
  ASSUME NEW e \in Member, NEW j, NEW paused, NEW done
  PROVE  Finish(e, j, paused, done).base = State(paused)
         /\ Finish(e, j, paused, done).status = e.status
<1> DEFINE rest == Tail(e.chain)
           base == State(paused)
           d == [e EXCEPT !.chain = rest, !.base = base]
           acq == IF d.acq # "conforming" THEN d.acq ELSE IF done THEN "guarded" ELSE "detached"
           settled == IF done THEN FALSE ELSE d.settled
           c == [d EXCEPT !.conforming = FALSE, !.settled = settled, !.acq = acq]
<1>1. Finish(e, j, paused, done) \in {d, c}
  BY DEF Finish, AfterConform
<1> HIDE DEF rest, base, acq, settled
<1>2. d.base = base /\ d.status = e.status /\ c.base = base /\ c.status = e.status
  BY DEF Member
<1> HIDE DEF d, c
<1> QED BY <1>1, <1>2 DEF base

LEMMA EndsAccount ==
  ASSUME Inv, Attributed, NEW j, NEW paused, NEW done, NEW blocked, el'.paused = paused,
         \/ me' = Finish(me, j, paused, done)
         \/ me' = [Finish(me, j, paused, done) EXCEPT !.blocked = blocked],
         Finish(me, j, paused, done) \in Member, wire' = wire
  PROVE  Attributed'
<1> DEFINE d == Finish(me, j, paused, done)
<1>1. d.base = State(paused) /\ d.status = me.status
  BY FinishTakesDown DEF Inv, Types
<1> HIDE DEF d
<1>2. me'.base = State(paused) /\ me'.status = me.status
  BY <1>1 DEF Member, d
<1> QED BY <1>2, NewAccount

(* A head that goes on keeps its job. *)
LEMMA PhaseKeeps ==
  ASSUME Inv, me.chain # <<>>, NEW phase \in {"seeking", "aimed", "playing"},
         me' = [me EXCEPT !.chain[1].phase = phase]
  PROVE  /\ me'.base = me.base /\ me'.status = me.status /\ me'.acq = me.acq
         /\ me'.pressed = me.pressed /\ me'.settled = me.settled
         /\ me'.chain # <<>> /\ Head(me'.chain).phase = phase
         /\ Head(me'.chain).paused = Head(me.chain).paused
<1> DEFINE j == Head(me.chain)
           w == [j EXCEPT !.phase = phase]
           q == [me.chain EXCEPT ![1] = w]
<1>1. me \in Member /\ me.chain \in Seq(Work)
  BY DEF Inv, Types, Member
<1>2. j = me.chain[1] /\ j \in Work /\ 1 \in 1 .. Len(me.chain)
  BY Heads
<1>3. me' = [me EXCEPT !.chain = q]
  BY <1>1, <1>2 DEF Member
<1>4. w \in Work /\ w.phase = phase /\ w.paused = j.paused
  BY <1>2 DEF Work
<1> HIDE DEF w, j
<1>5. q \in Seq(Work) /\ Len(q) = Len(me.chain) /\ q[1] = w
  BY <1>1, <1>2, <1>4, ExceptSeq
<1> HIDE DEF q
<1>6. q # <<>> /\ Head(q) = w
  <2>1. Len(q) \in Nat /\ Len(q) # 0
    BY <1>2, <1>5, LenProperties
  <2>2. q # <<>>
    BY <1>5, <2>1, EmptySeq
  <2> QED BY <1>5, <2>2, HeadTailProperties
<1> QED BY <1>1, <1>3, <1>4, <1>6 DEF Member, j

LEMMA ChainAccount ==
  ASSUME Inv, Attributed, Begin \/ SeekEnds \/ Land \/ PlaySettles \/ TimerFires
  PROVE  Attributed'
<1> DEFINE j == Head(me.chain)
<1>1. me \in Member /\ Good(me, room, begun) /\ el.paused \in BOOLEAN
      /\ el \in [paused : BOOLEAN, ready : BOOLEAN]
  BY Players DEF Inv, Types
<1>2. CASE SeekEnds
  <2>1. /\ me.chain # <<>> /\ j.phase = "seeking" /\ el' = el /\ touched' = touched
        /\ me' = [me EXCEPT !.chain[1].phase = "aimed"] /\ wire' = wire
    BY <1>2 DEF SeekEnds, linkVars
  <2>2. me'.base = me.base /\ me'.status = me.status /\ me'.acq = me.acq
        /\ me'.pressed = me.pressed /\ me'.settled = me.settled
    BY <2>1, PhaseKeeps
  <2> QED BY <2>1, <2>2 DEF Attributed, Noted, OwnPlay, SitesDoing, Linked
<1>3. CASE Land
  <2>1. me.chain # <<>> /\ j.phase = "aimed" /\ wire' = wire
    BY <1>3 DEF Land, linkVars
  <2>2. \A p, done \in BOOLEAN : Finish(me, j, p, done) \in Member
    BY <1>1, <2>1, FinishGood
  <2>3. CASE el' = el /\ Ends(j, FALSE)
    BY <1>1, <2>1, <2>2, <2>3, EndsAccount DEF Ends
  <2>4. CASE el' = [el EXCEPT !.paused = TRUE] /\ Ends(j, TRUE)
    <3>1. el'.paused = TRUE /\ me' = Finish(me, j, el'.paused, TRUE)
      BY <1>1, <2>4 DEF Ends
    <3> QED BY <2>1, <2>2, <3>1, EndsAccount
  <2>5. CASE /\ el' = [el EXCEPT !.paused = FALSE] /\ touched' = touched
             /\ Current(me, j) /\ ~j.paused
             /\ me' = [me EXCEPT !.chain[1].phase = "playing"]
    <3>1. me'.status = me.status /\ me'.chain # <<>> /\ Head(me'.chain).phase = "playing"
          /\ Head(me'.chain).paused = j.paused
      BY <2>1, <2>5, PhaseKeeps
    <3>2. me.status = "joined" /\ ~el'.paused
      BY <1>1, <2>5 DEF Current, CanAim
    <3>3. OwnPlay'
      BY <2>5, <3>1, <3>2 DEF OwnPlay
    <3> QED BY <2>1, <3>1, <3>3 DEF Attributed, Linked
  <2>6. ASSUME el' = el, el.paused, NEW refused \in BOOLEAN,
               me' = [Finish(me, j, TRUE, TRUE) EXCEPT !.blocked = @ \/ refused]
        PROVE  Attributed'
    <3> DEFINE blocked == Finish(me, j, TRUE, TRUE).blocked \/ refused
    <3>1. me' = [Finish(me, j, TRUE, TRUE) EXCEPT !.blocked = blocked]
      BY <2>6
    <3> HIDE DEF blocked
    <3>2. el'.paused = TRUE /\ TRUE \in BOOLEAN
      BY <1>1, <2>6
    <3> QED BY <2>1, <2>2, <3>1, <3>2, EndsAccount
  <2> QED BY <1>3, <2>3, <2>4, <2>5, <2>6 DEF Land
<1>4. CASE PlaySettles
  <2> DEFINE done == Current(me, j)
             d == Finish(me, j, el.paused, done)
  <2>1. me.chain # <<>> /\ el' = el /\ wire' = wire
    BY <1>4 DEF PlaySettles, linkVars
  <2>2. PICK answered \in BOOLEAN : me' = [d EXCEPT !.blocked = @ /\ ~answered]
    BY <1>4 DEF PlaySettles
  <2> DEFINE blocked == d.blocked /\ ~answered
  <2>3. me' = [d EXCEPT !.blocked = blocked]
    BY <2>2
  <2>4. done \in BOOLEAN
    BY DEF Current, CanAim, OnRoomMedia
  <2> HIDE DEF blocked, done
  <2>5. d \in Member
    BY <1>1, <2>1, <2>4, FinishGood
  <2> QED BY <2>1, <2>3, <2>5, EndsAccount
<1>5. CASE Begin
  <2> DEFINE rest == [me EXCEPT !.chain = Tail(@), !.retry = @ \/ j.kind = "gesture"]
  <2>1. me.chain # <<>> /\ j.phase = "queued" /\ el' = el /\ touched' = touched /\ wire' = wire
    BY <1>5 DEF Begin, linkVars
  <2>2. ~OwnPlay
    BY <2>1 DEF OwnPlay
  <2>3. /\ me'.base = me.base /\ me'.status = me.status
        /\ me'.acq = "steady" => me.acq = "steady"
        /\ me.pressed = "no" => me'.pressed = "no"
        /\ me'.settled = me.settled
    <3>1. CASE me' = AfterConform(rest, j, FALSE)
      <4> DEFINE tail == Tail(me.chain)
                 retry == me.retry \/ j.kind = "gesture"
                 r == [me EXCEPT !.chain = tail, !.retry = retry]
                 acq == IF r.acq # "conforming" THEN r.acq ELSE "detached"
                 c == [r EXCEPT !.conforming = FALSE, !.settled = r.settled, !.acq = acq]
      <4>1. rest = r
        OBVIOUS
      <4>2. me' \in {r, c}
        BY <3>1, <4>1 DEF AfterConform
      <4> HIDE DEF tail, retry
      <4> QED BY <1>1, <4>2 DEF Member
    <3>2. ASSUME NEW seeks \in BOOLEAN,
                 me' = [me EXCEPT !.chain[1] = [@ EXCEPT !.phase = IF seeks THEN "seeking" ELSE "aimed",
                                                        !.sought = seeks,
                                                        !.paused = Anchor(me).paused],
                                  !.pressed = IF @ = "fresh" THEN "earlier" ELSE @]
          PROVE  /\ me'.base = me.base /\ me'.status = me.status /\ me'.acq = me.acq
                 /\ me.pressed = "no" => me'.pressed = "no"
                 /\ me'.settled = me.settled
      <4> DEFINE w == [me.chain[1] EXCEPT !.phase = IF seeks THEN "seeking" ELSE "aimed",
                                          !.sought = seeks, !.paused = Anchor(me).paused]
                 q == [me.chain EXCEPT ![1] = w]
                 pressed == IF me.pressed = "fresh" THEN "earlier" ELSE me.pressed
      <4>1. me' = [me EXCEPT !.chain = q, !.pressed = pressed]
        BY <1>1, <3>2 DEF Member
      <4>2. me.pressed = "no" => pressed = "no"
        OBVIOUS
      <4> HIDE DEF q, pressed
      <4> QED BY <1>1, <4>1, <4>2 DEF Member
    <3> QED BY <1>5, <3>1, <3>2 DEF Begin
  <2> QED BY <2>1, <2>2, <2>3 DEF Attributed, Noted, SitesDoing, Linked
<1>6. CASE TimerFires
  <2> DEFINE work == [Job("conform", me) EXCEPT !.seq = me.timer.seq, !.live = me.timer.live]
             q == Append(me.chain, work)
             d == [me EXCEPT !.timer = NoTimer, !.chain = q]
  <2>1. me' = d /\ el' = el /\ touched' = touched /\ wire' = wire
    BY <1>6 DEF TimerFires, linkVars
  <2>2. me.chain # <<>> => q # <<>> /\ Head(q) = Head(me.chain)
    BY <1>1, HeadStays DEF Member
  <2> HIDE DEF q
  <2>3. Kept(d, me) /\ d.acq = me.acq
    BY <1>1, <2>2 DEF Member, Kept
  <2> HIDE DEF d
  <2> QED BY <2>1, <2>3, SameAccount
<1> QED BY <1>2, <1>3, <1>4, <1>5, <1>6

LEMMA ActsAccount ==
  ASSUME Inv, Attributed,
         Press \/ Click \/ SiteMoves \/ Loads \/ Lasts \/ Settles \/ Unanswered \/ Wanes
  PROVE  Attributed'
<1>1. me \in Member /\ el \in [paused : BOOLEAN, ready : BOOLEAN]
  BY Players DEF Inv, Types
<1>2. CASE Press
  <2>1. touched' # "no" /\ wire' = wire /\ me' = [me EXCEPT !.pressed = "fresh"]
    BY <1>2 DEF Press, linkVars
  <2>2. me'.status = me.status
    BY <1>1, <2>1 DEF Member
  <2> QED BY <2>1, <2>2 DEF Attributed, Linked
<1>3. CASE Click
  <2>1. me' = ResumeAfterGesture(me) /\ el' = el /\ touched' = touched /\ wire' = wire
    BY <1>3 DEF Click, linkVars
  <2> QED BY <1>1, <2>1, ResumeKeeps, SameAccount
<1>4. CASE SiteMoves
  <2>1. /\ me' = me /\ wire' = wire /\ me.acq # "steady" /\ ~me.settled /\ me.pressed = "no"
        /\ me.status # "joined" => touched' # "no"
    BY <1>4 DEF SiteMoves, linkVars
  <2>2. touched' = "no" => SitesDoing'
    BY <2>1 DEF SitesDoing
  <2> QED BY <2>1, <2>2 DEF Attributed, Linked
<1>5. CASE Loads
  <2>1. me' = me /\ wire' = wire /\ touched' = touched /\ el'.paused = el.paused
    BY <1>1, <1>5 DEF Loads, linkVars
  <2> QED BY <2>1 DEF Attributed, Linked, Noted, OwnPlay, SitesDoing
<1>6. CASE Settles
  <2> DEFINE d == [me EXCEPT !.settled = TRUE]
  <2>1. Seen /\ me' = d /\ el' = el /\ wire' = wire /\ touched' = touched
    BY <1>6 DEF Settles, linkVars
  <2>2. d.base = me.base /\ d.status = me.status
    BY <1>1 DEF Member
  <2> HIDE DEF d
  <2>3. touched = "no" /\ me.status # "closed" => Noted
    BY <2>1 DEF Attributed, Seen, Noted, OwnPlay, SitesDoing
  <2> QED BY <2>1, <2>2, <2>3 DEF Attributed, Linked, Noted
<1>7. CASE Lasts \/ Unanswered \/ Wanes
  <2> DEFINE l == [me EXCEPT !.wait = "over"]
             u == [me EXCEPT !.intended = NoCmd]
             w == [me EXCEPT !.pressed = "no"]
  <2>1. me' \in {l, u, w} /\ el' = el /\ wire' = wire /\ touched' = touched
    BY <1>7 DEF Lasts, Unanswered, Wanes, linkVars
  <2>2. Kept(l, me) /\ l.acq = me.acq
    BY <1>1 DEF Member, Kept
  <2>3. Kept(u, me) /\ u.acq = me.acq
    BY <1>1 DEF Member, Kept
  <2>4. /\ w.base = me.base /\ w.status = me.status /\ w.acq = me.acq /\ w.pressed = "no"
        /\ w.settled = me.settled /\ w.chain = me.chain
    BY <1>1 DEF Member
  <2> HIDE DEF l, u, w
  <2>5. CASE me' = w
    BY <2>1, <2>4, <2>5 DEF Attributed, Linked, Noted, OwnPlay, SitesDoing
  <2> QED BY <2>1, <2>2, <2>3, <2>5, SameAccount
<1> QED BY <1>2, <1>3, <1>4, <1>5, <1>6, <1>7

LEMMA NextAccount == Inv /\ Attributed /\ [Next]_vars => Attributed'
<1> SUFFICES ASSUME Inv, Attributed, [Next]_vars PROVE Attributed'
  OBVIOUS
<1>1. CASE Evaluates
  <2>1. PICK together \in BOOLEAN, unready \in BOOLEAN : Evaluate(together, unready)
    BY <1>1 DEF Evaluates
  <2>2. me'.base = State(el.paused)
    BY <2>1, EvaluateSays
  <2>3. me.status = "joined" /\ el' = el /\ wire' = wire
    BY <2>1 DEF Evaluate
  <2>4. Noted'
    BY <2>2, <2>3 DEF Noted
  <2>5. me'.status = me.status
    BY <2>1, EvaluateSays
  <2> QED BY <2>3, <2>4, <2>5 DEF Attributed, Linked
<1>2. CASE Server
  BY <1>2, ServerAccount
<1>3. CASE Outside
  <2>1. \/ \E clean \in BOOLEAN : OnClose(clean)
        \/ Stop \/ Reload \/ \E key \in Media \cup {NoMedia} : Navigate(key)
        \/ Correct \/ Press \/ Click \/ SiteMoves
    BY <1>3 DEF Outside
  <2> QED BY <2>1, OutsideAccount, SessionAccount, ActsAccount
<1>4. CASE Connect \/ ClockSettles \/ Receive \/ Drain
  BY <1>4, SessionAccount
<1>5. CASE Begin \/ SeekEnds \/ Land \/ PlaySettles \/ TimerFires
  BY <1>5, ChainAccount
<1>6. CASE Lasts \/ Settles \/ Unanswered \/ Wanes \/ Loads
  BY <1>6, ActsAccount
<1>7. CASE UNCHANGED vars
  BY <1>7 DEF vars, serverVars, linkVars, Attributed, Linked, Noted, OwnPlay, SitesDoing
<1> QED BY <1>1, <1>2, <1>3, <1>4, <1>5, <1>6, <1>7 DEF Next

(* Only an evaluation sends. *)
LEMMA EpochSendsNothing ==
  ASSUME NEW e \in Member
  PROVE  NewMediaEpoch(e).sent = e.sent
<1> DEFINE q == [i \in 1 .. Len(e.chain) |-> [e.chain[i] EXCEPT !.here = FALSE]]
<1>1. NewMediaEpoch(e) =
        [e EXCEPT !.acq = "detached", !.reconforms = 0, !.settled = FALSE, !.conforming = FALSE,
                  !.base = "unknown", !.wait = "none", !.pressed = "no", !.timer = NoTimer,
                  !.chain = q]
  BY DEF NewMediaEpoch
<1> HIDE DEF q
<1> QED BY <1>1 DEF Member

LEMMA EndSendsNothing ==
  ASSUME NEW e \in Member
  PROVE  EndSession(e).sent = e.sent
<1> DEFINE q == [i \in 1 .. Len(e.chain) |-> [e.chain[i] EXCEPT !.live = FALSE]]
           timer == [e.timer EXCEPT !.live = FALSE]
<1>1. EndSession(e) = [e EXCEPT !.chain = q, !.timer = timer]
  BY DEF EndSession, Member
<1> HIDE DEF q, timer
<1> QED BY <1>1 DEF Member

LEMMA FinishSendsNothing ==
  ASSUME NEW e \in Member, NEW j, NEW paused, NEW done
  PROVE  /\ Finish(e, j, paused, done).sent = e.sent
         /\ AfterConform(e, j, done).sent = e.sent
<1> DEFINE rest == Tail(e.chain)
           base == State(paused)
           d == [e EXCEPT !.chain = rest, !.base = base]
<1> HIDE DEF rest, base
<1>1. /\ Finish(e, j, paused, done) = AfterConform(d, j, done)
      /\ d.sent = e.sent
  BY DEF Finish, rest, base, Member
<1>2. ASSUME NEW f, f.sent = e.sent, f = e \/ f = d
      PROVE  AfterConform(f, j, done).sent = e.sent
  <2> DEFINE acq == IF f.acq # "conforming" THEN f.acq ELSE IF done THEN "guarded" ELSE "detached"
             settled == IF done THEN FALSE ELSE f.settled
             c == [f EXCEPT !.conforming = FALSE, !.settled = settled, !.acq = acq]
  <2>1. AfterConform(f, j, done) \in {f, c}
    BY DEF AfterConform
  <2> HIDE DEF acq, settled
  <2>2. c.sent = f.sent
    BY <1>2 DEF Member
  <2> HIDE DEF c
  <2> QED BY <1>2, <2>1, <2>2
<1> HIDE DEF d
<1> QED BY <1>1, <1>2

LEMMA OnlyLooksSend ==
  ASSUME Inv, [Next]_vars, ~Evaluates
  PROVE  me'.sent = me.sent
<1> DEFINE j == Head(me.chain)
<1>1. me \in Member
  BY DEF Inv, Types
<1>2. CASE Server \/ SiteMoves \/ Loads \/ UNCHANGED vars
  <2>1. me' = me
    BY <1>2 DEF Server, Others, Serve, Begins, Resync, SiteMoves, Loads, vars
  <2> QED BY <2>1
<1>3. ASSUME NEW clean \in BOOLEAN, OnClose(clean) \/ Stop PROVE me'.sent = me.sent
  <2> DEFINE f == Forgets(me)
             s == EndSession(f)
  <2>1. \/ me' = [f EXCEPT !.status = "closed"]
        \/ me' = [s EXCEPT !.status = "away", !.clock = FALSE, !.base = "unknown"]
        \/ me' = [s EXCEPT !.status = "closed", !.retry = FALSE]
    BY <1>3 DEF OnClose, Stop, Lost
  <2>2. f \in Member /\ Good(f, room, begun)
    BY ForgetsGood
  <2>3. f.sent = me.sent
    BY <1>1 DEF Forgets, Member
  <2> HIDE DEF f
  <2>4. s \in Member /\ s.sent = f.sent
    BY <2>2, EndSessionGood, EndSendsNothing
  <2> HIDE DEF s
  <2> QED BY <2>1, <2>2, <2>3, <2>4 DEF Member
<1>4. CASE Reload
  BY <1>1, <1>4, EpochSendsNothing DEF Reload
<1>5. ASSUME NEW key \in Media \cup {NoMedia}, Navigate(key) PROVE me'.sent = me.sent
  <2> DEFINE e == [me EXCEPT !.local = key]
  <2>1. e \in Member /\ e.sent = me.sent
    BY <1>1 DEF Member
  <2>2. me' = NewMediaEpoch(e)
    BY <1>5 DEF Navigate
  <2> HIDE DEF e
  <2> QED BY <2>1, <2>2, EpochSendsNothing
<1>6. CASE Correct \/ Click
  <2>1. me' \in {Queue(me, "correct"), ResumeAfterGesture(me)}
    BY <1>6 DEF Correct, Click
  <2> QED BY <1>1, <2>1, QueueKeeps, ResumeKeeps DEF Silent
<1>7. CASE Press \/ Connect \/ ClockSettles \/ Lasts \/ Settles \/ Unanswered \/ Wanes
  <2>1. \/ me' = [me EXCEPT !.pressed = "fresh"]
        \/ me' = [me EXCEPT !.status = "joining"]
        \/ me' = [me EXCEPT !.clock = TRUE]
        \/ me' = [me EXCEPT !.wait = "over"]
        \/ me' = [me EXCEPT !.settled = TRUE]
        \/ me' = [me EXCEPT !.intended = NoCmd]
        \/ me' = [me EXCEPT !.pressed = "no"]
    BY <1>7 DEF Press, Connect, ClockSettles, Lasts, Settles, Unanswered, Wanes
  <2> QED BY <1>1, <2>1 DEF Member
<1>8. CASE Receive
  <2> DEFINE f == Head(wire)
             mine == me.mine \cup {f.seq}
             seq == IF me.intended.id = f.id THEN f.seq ELSE me.intended.seq
             asked == [me.intended EXCEPT !.seq = seq]
             a == [me EXCEPT !.mine = mine, !.intended = asked]
             w == [me EXCEPT !.status = "joined", !.applied = f.seq, !.welcomed = TRUE]
  <2>1. f \in Frame
    <3>1. wire # <<>>
      BY <1>8 DEF Receive
    <3> QED BY <3>1, Delivered DEF Inv, Types, SeqsAreTheRooms
  <2>2. Acked(me, f.seq, f.id) = a
    BY <1>1 DEF Acked, Member, Cmd
  <2>3. \/ me' = w \/ me' = NewMediaEpoch(w)
        \/ me' = Schedule(me, f.seq) \/ me' = Schedule(a, f.seq)
    BY <1>8, <2>1, <2>2 DEF Receive, Frame, Welcomed, RoomMediaChanged
  <2>4. w \in Member /\ w.sent = me.sent
    BY <1>1, <2>1 DEF Member, Frame
  <2>5. mine \subseteq Nat /\ asked \in Cmd
    BY <1>1, <2>1 DEF Member, Frame, Cmd
  <2> HIDE DEF mine, asked, w
  <2>6. a \in Member /\ a.sent = me.sent
    BY <1>1, <2>5 DEF Member
  <2> HIDE DEF a
  <2>7. \A e \in Member : Schedule(e, f.seq).sent = e.sent
    <3> SUFFICES ASSUME NEW e \in Member PROVE Schedule(e, f.seq).sent = e.sent
      OBVIOUS
    <3> DEFINE later == e.pending \cup {f.seq}
    <3>1. Schedule(e, f.seq) \in {e, [e EXCEPT !.pending = later]}
      BY DEF Schedule
    <3> HIDE DEF later
    <3> QED BY <3>1 DEF Member
  <2> QED BY <1>1, <2>3, <2>4, <2>6, <2>7, EpochSendsNothing
<1>9. CASE Drain
  <2> DEFINE due == Due(me)
             asked == IF me.intended.seq = 0 /\ ~(due \subseteq me.mine) THEN NoCmd ELSE me.intended
             later == me.pending \ begun
             newest == Newest(due)
             m == [me EXCEPT !.applied = newest, !.pending = later, !.intended = asked]
             n == NewMediaEpoch(m)
  <2>1. (\E e \in {m, n} : me' \in {e, Queue(e, "apply")}) /\ due # {}
    BY <1>9 DEF Drain, TakesOver, RoomMediaChanged
  <2>2. newest \in Nat
    <3>1. due \subseteq 1 .. Len(room) /\ Len(room) \in Nat
      BY LenProperties DEF Due, Inv, Types, SeqsAreTheRooms
    <3> QED BY <2>1, <3>1, NewestFound
  <2>3. asked \in Cmd /\ later \subseteq Nat
    BY <1>1 DEF Member, NoCmd, Cmd
  <2> HIDE DEF newest, asked, later, due
  <2>4. /\ m \in Member /\ m.sent = me.sent /\ m.acq = me.acq /\ m.chain = me.chain
        /\ m.timer = me.timer /\ m.conforming = me.conforming /\ m.clock = me.clock
    BY <1>1, <2>2, <2>3 DEF Member
  <2> HIDE DEF m
  <2>5. Good(m, room, begun)
    BY <1>1, <2>4, SameGood DEF Inv
  <2>6. n \in Member /\ n.sent = me.sent
    BY <2>4, <2>5, NewEpochGood, EpochSendsNothing
  <2> HIDE DEF n
  <2> QED BY <2>1, <2>4, <2>6, QueueKeeps DEF Silent
<1>10. CASE Begin
  <2> DEFINE tail == Tail(me.chain)
             retry == me.retry \/ j.kind = "gesture"
             r == [me EXCEPT !.chain = tail, !.retry = retry]
  <2>1. CASE me' = AfterConform(r, j, FALSE)
    <3> DEFINE acq == IF r.acq # "conforming" THEN r.acq ELSE "detached"
               c == [r EXCEPT !.conforming = FALSE, !.settled = r.settled, !.acq = acq]
    <3>1. me' \in {r, c}
      BY <2>1 DEF AfterConform
    <3> HIDE DEF tail, retry
    <3> QED BY <1>1, <3>1 DEF Member
  <2>2. ASSUME NEW seeks \in BOOLEAN,
               me' = [me EXCEPT !.chain[1] = [@ EXCEPT !.phase = IF seeks THEN "seeking" ELSE "aimed",
                                                      !.sought = seeks,
                                                      !.paused = Anchor(me).paused],
                                !.pressed = IF @ = "fresh" THEN "earlier" ELSE @]
        PROVE  me'.sent = me.sent
    <3> DEFINE w == [me.chain[1] EXCEPT !.phase = IF seeks THEN "seeking" ELSE "aimed",
                                        !.sought = seeks, !.paused = Anchor(me).paused]
               q == [me.chain EXCEPT ![1] = w]
               pressed == IF me.pressed = "fresh" THEN "earlier" ELSE me.pressed
    <3>1. me' = [me EXCEPT !.chain = q, !.pressed = pressed]
      BY <1>1, <2>2 DEF Member
    <3> HIDE DEF q, pressed
    <3> QED BY <1>1, <3>1 DEF Member
  <2> QED BY <1>10, <2>1, <2>2 DEF Begin
<1>11. CASE SeekEnds \/ Land \/ PlaySettles
  <2>1. me.chain # <<>>
    BY <1>11 DEF SeekEnds, Land, PlaySettles
  <2>2. ASSUME NEW paused \in BOOLEAN, NEW done \in BOOLEAN, NEW blocked,
               \/ me' = Finish(me, j, paused, done)
               \/ me' = [Finish(me, j, paused, done) EXCEPT !.blocked = blocked]
        PROVE  me'.sent = me.sent
    <3> DEFINE d == Finish(me, j, paused, done)
    <3>1. d.sent = me.sent
      BY <1>1, FinishSendsNothing
    <3>2. d \in Member
      BY <1>1, <2>1, FinishGood DEF Inv
    <3> HIDE DEF d
    <3>3. me'.sent = d.sent
      BY <2>2, <3>2 DEF Member, d
    <3> QED BY <3>1, <3>3
  <2>3. ASSUME NEW phase \in {"aimed", "playing"}, me' = [me EXCEPT !.chain[1].phase = phase]
        PROVE  me'.sent = me.sent
    <3> DEFINE q == [me.chain EXCEPT ![1].phase = phase]
    <3>1. me' = [me EXCEPT !.chain = q]
      BY <1>1, <2>3 DEF Member
    <3> HIDE DEF q
    <3> QED BY <1>1, <3>1 DEF Member
  <2>4. CASE SeekEnds
    BY <2>3, <2>4 DEF SeekEnds
  <2>5. CASE Land
    <3>1. CASE me' = [me EXCEPT !.chain[1].phase = "playing"]
      BY <2>3, <3>1
    <3>2. CASE \E done \in BOOLEAN : Ends(j, done) /\ el'.paused \in BOOLEAN
      BY <2>2, <3>2 DEF Ends
    <3>3. CASE \E refused \in BOOLEAN : me' = [Finish(me, j, TRUE, TRUE) EXCEPT !.blocked = @ \/ refused]
      <4>1. PICK refused \in BOOLEAN : me' = [Finish(me, j, TRUE, TRUE) EXCEPT !.blocked = @ \/ refused]
        BY <3>3
      <4> DEFINE blocked == Finish(me, j, TRUE, TRUE).blocked \/ refused
      <4>2. me' = [Finish(me, j, TRUE, TRUE) EXCEPT !.blocked = blocked]
        BY <4>1
      <4> HIDE DEF blocked
      <4>3. TRUE \in BOOLEAN
        OBVIOUS
      <4> QED BY <2>2, <4>2, <4>3
    <3>4. /\ el \in [paused : BOOLEAN, ready : BOOLEAN]
          /\ \/ me' = [me EXCEPT !.chain[1].phase = "playing"]
             \/ el' = el /\ Ends(j, FALSE)
             \/ el' = [el EXCEPT !.paused = TRUE] /\ Ends(j, TRUE)
             \/ \E refused \in BOOLEAN : me' = [Finish(me, j, TRUE, TRUE) EXCEPT !.blocked = @ \/ refused]
      BY <2>5, Players DEF Land
    <3>5. CASE el' = el /\ Ends(j, FALSE)
      BY <3>2, <3>4, <3>5
    <3>6. CASE el' = [el EXCEPT !.paused = TRUE] /\ Ends(j, TRUE)
      <4>1. el'.paused \in BOOLEAN
        BY <3>4, <3>6
      <4> QED BY <3>2, <3>6, <4>1
    <3> QED BY <3>1, <3>3, <3>4, <3>5, <3>6
  <2>6. CASE PlaySettles
    <3> DEFINE done == Current(me, j)
    <3>1. done \in BOOLEAN /\ el.paused \in BOOLEAN
      BY Players DEF Current, CanAim, OnRoomMedia
    <3>2. PICK answered \in BOOLEAN :
             me' = [Finish(me, j, el.paused, done) EXCEPT !.blocked = @ /\ ~answered]
      BY <2>6 DEF PlaySettles
    <3> HIDE DEF done
    <3> DEFINE blocked == Finish(me, j, el.paused, done).blocked /\ ~answered
    <3>3. me' = [Finish(me, j, el.paused, done) EXCEPT !.blocked = blocked]
      BY <3>2
    <3> HIDE DEF blocked
    <3> QED BY <2>2, <3>1, <3>3
  <2> QED BY <1>11, <2>4, <2>5, <2>6
<1>12. CASE TimerFires
  <2> DEFINE q == Append(me.chain, [Job("conform", me) EXCEPT !.seq = me.timer.seq,
                                                              !.live = me.timer.live])
  <2>1. me' = [me EXCEPT !.timer = NoTimer, !.chain = q]
    BY <1>12 DEF TimerFires
  <2> HIDE DEF q
  <2> QED BY <1>1, <2>1 DEF Member
<1> QED BY <1>2, <1>3, <1>4, <1>5, <1>6, <1>7, <1>8, <1>9, <1>10, <1>11, <1>12 DEF Next, Outside

(* In a session the engine sends only what the member did, for any run of   *)
(* frames, lost links, site moves and refused plays; except that a site     *)
(* which puts the player where the room is takes back a command of the      *)
(* member's that is still on its way (evaluate, classify, act).             *)
THEOREM EngineSendsOnlyTheMembers == Spec => OnlyTheMemberIsSent
<1> DEFINE Spoken == me'.sent > me.sent =>
              \/ touched # "no"
              \/ el.paused = Anchor(me).paused /\ el.paused # RoomAnchor(me).paused
<1>1. Init => Attributed
  BY DEF Init, Attributed, Noted, Linked
<1>2. Inv /\ Attributed /\ [Next]_vars => [Spoken]_vars
  <2> SUFFICES ASSUME Inv, Attributed, [Next]_vars, me'.sent > me.sent, touched = "no"
               PROVE  el.paused = Anchor(me).paused /\ el.paused # RoomAnchor(me).paused
    OBVIOUS
  <2>1. me.sent \in Nat
    BY DEF Inv, Types, Member
  <2>2. Evaluates
    BY <2>1, OnlyLooksSend
  <2>3. PICK together \in BOOLEAN, unready \in BOOLEAN : Evaluate(together, unready)
    BY <2>2 DEF Evaluates
  <2>4. me'.sent # me.sent
    BY <2>1
  <2> QED BY <2>3, <2>4, EvaluateSays
<1>3. Spec => []Attributed
  BY <1>1, NextAccount, EngineCorrect, PTL DEF Spec
<1>4. []Inv /\ []Attributed /\ [][Next]_vars => [][Spoken]_vars
  BY <1>2, PTL
<1> QED BY <1>3, <1>4, EngineCorrect, PTL DEF Spec, OnlyTheMemberIsSent
=============================================================================
