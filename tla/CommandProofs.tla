--------------------------- MODULE CommandProofs ---------------------------
(***************************************************************************)
(* What is proved of the commands on their way to a room.                  *)
(*                                                                         *)
(* Of those a connection's rate limit keeps (CmdQueue), for every burst,   *)
(* interval and cooldown, any number of timers and any interleaving of     *)
(* handlers and timers: none is lost, the room hears them in their         *)
(* sender's order, and keeping them does not lift the limit.               *)
(*                                                                         *)
(* Of those an engine sends unasked (Seeding), for any number of members,  *)
(* media and events: nobody seeds the room over what others did with it.   *)
(***************************************************************************)
EXTENDS CmdQueue, Seeding, SequenceTheorems, WellFoundedInduction, TLAPS

(***************************************************************************)
(* The inductive invariant.  Bookkeeping: what is kept is what was sent    *)
(* under its number, in order, at most one of a group, and later than all  *)
(* the room has heard.  Budget: since the bucket was last reset it let     *)
(* through as many events as it counts, the event before those was more    *)
(* than a Cooldown earlier, and once the burst is spent the window starts  *)
(* at the newest.                                                          *)
(***************************************************************************)
Ascending(cmds) == \A p, q \in 1 .. Len(cmds) : p < q => cmds[p].n < cmds[q].n

OnePerGroup(cmds) ==
  \A p, q \in 1 .. Len(cmds) : Group(cmds[p].kind) = Group(cmds[q].kind) => p = q

Recorded ==
  /\ Len(sent) <= MaxSent
  /\ applied \subseteq 1 .. Len(sent) /\ refused \subseteq 1 .. Len(sent)
  /\ \A p \in 1 .. Len(pending) :
       /\ pending[p].n <= Len(sent)
       /\ pending[p].kind = sent[pending[p].n]
       /\ pending[p].kind # "other"

Bookkeeping ==
  /\ Recorded
  /\ Ascending(pending)
  /\ \A p \in 1 .. Len(pending), i \in applied : i < pending[p].n

NewestFirst ==
  /\ bucket.last <= now
  /\ \A i \in 1 .. Len(grants) : grants[i] <= bucket.last
  /\ \A i, j \in 1 .. Len(grants) : i <= j => grants[i] >= grants[j]

Budget ==
  /\ Len(grants) <= Burst + 1
  /\ bucket.count <= Len(grants)
  /\ bucket.count = 0 => grants = <<>>
  /\ 0 < bucket.count /\ bucket.count < Burst /\ bucket.count < Len(grants) =>
       grants[bucket.count] - grants[bucket.count + 1] > Cooldown
  /\ bucket.count = Burst => bucket.window = grants[1]

CmdInv == TypeOK /\ Bookkeeping /\ NewestFirst /\ Budget /\ NothingLost /\ Paced

(***************************************************************************)
(* Induction over data.  The library's induction theorems take a predicate *)
(* as a parameter; the well-foundedness of < in terms of sets does not,    *)
(* and gives induction for the members of a set of naturals.               *)
(***************************************************************************)
LEMMA NatOrder == IsWellFoundedOn({p \in Nat \X Nat : p[1] < p[2]}, Nat)
  BY NatLessThanWellFounded DEF OpToRel

LEMMA SetInduction ==
  ASSUME NEW S, 0 \in S, \A n \in Nat : n \in S => n + 1 \in S
  PROVE  Nat \subseteq S
<1> DEFINE Missed == Nat \ S
           Less == {p \in Nat \X Nat : p[1] < p[2]}
<1> SUFFICES ASSUME Missed # {} PROVE FALSE
  OBVIOUS
<1>1. PICK x \in Missed : \A y \in Missed : <<y, x>> \notin Less
  BY WFMin, NatOrder
<1>2. x \in Nat /\ x \notin S /\ x # 0
  BY <1>1
<1>3. x - 1 \in Nat /\ (x - 1) + 1 = x
  BY <1>2
<1>4. x - 1 \in Missed /\ <<x - 1, x>> \in Less
  BY <1>2, <1>3
<1> QED BY <1>1, <1>4

(***************************************************************************)
(* The loop of coalesce.  It runs over the commands kept; after i of them  *)
(* it holds those of another group, in their order.                        *)
(***************************************************************************)
Stays(kept, cmd, kind) == IF Group(cmd.kind) = Group(kind) THEN kept ELSE Append(kept, cmd)

LoopTo(g, n, cmds, kind) ==
  g = [i \in 0 .. n |-> IF i = 0 THEN <<>>
                        ELSE IF Group(cmds[i].kind) = Group(kind) THEN g[i - 1]
                             ELSE Append(g[i - 1], cmds[i])]

LEMMA LoopEnds == ASSUME NEW cmds, NEW kind PROVE \A n \in Nat : \E g : LoopTo(g, n, cmds, kind)
<1> DEFINE S == {n \in Nat : \E g : LoopTo(g, n, cmds, kind)}
<1>1. 0 \in S
  <2> DEFINE g == [i \in 0 .. 0 |-> <<>>]
  <2>1. LoopTo(g, 0, cmds, kind)
    BY DEF LoopTo
  <2> QED BY <2>1
<1>2. ASSUME NEW n \in Nat, n \in S PROVE n + 1 \in S
  <2>1. PICK g : LoopTo(g, n, cmds, kind)
    BY <1>2
  <2> DEFINE h == [i \in 0 .. n + 1 |-> IF i = n + 1 THEN Stays(g[n], cmds[n + 1], kind) ELSE g[i]]
             body == [i \in 0 .. n + 1 |->
                        IF i = 0 THEN <<>>
                        ELSE IF Group(cmds[i].kind) = Group(kind) THEN h[i - 1]
                             ELSE Append(h[i - 1], cmds[i])]
  <2>2. ASSUME NEW i \in 0 .. n + 1 PROVE h[i] = body[i]
    <3>1. CASE i = n + 1
      <4>1. i # 0 /\ i - 1 = n /\ n \in 0 .. n + 1 /\ n # n + 1 /\ n + 1 \in 0 .. n + 1
        BY <3>1
      <4>2. h[n] = g[n]
        BY <4>1
      <4>3. h[i] = Stays(g[n], cmds[n + 1], kind)
        BY <3>1
      <4> QED BY <3>1, <4>1, <4>2, <4>3 DEF Stays
    <3>2. CASE i # n + 1
      <4>1. i \in 0 .. n
        BY <3>2
      <4>2. h[i] = g[i]
        BY <3>2
      <4>3. g[i] = IF i = 0 THEN <<>>
                   ELSE IF Group(cmds[i].kind) = Group(kind) THEN g[i - 1]
                        ELSE Append(g[i - 1], cmds[i])
        BY <2>1, <4>1 DEF LoopTo
      <4>4. i # 0 => h[i - 1] = g[i - 1]
        BY <4>1
      <4> QED BY <4>2, <4>3, <4>4
    <3> QED BY <3>1, <3>2
  <2>3. h = body
    BY <2>2
  <2>4. LoopTo(h, n + 1, cmds, kind)
    BY <2>3 DEF LoopTo
  <2> QED BY <2>4
<1> HIDE DEF S
<1>3. Nat \subseteq S
  BY <1>1, <1>2, SetInduction
<1> QED BY <1>3 DEF S

(* What the loop holds after n commands. *)
KeptOf(s, n, cmds, kind) ==
  /\ s \in Seq(Cmd)
  /\ \A p \in 1 .. Len(s) : \E i \in 1 .. n : s[p] = cmds[i]
  /\ \A p \in 1 .. Len(s) : Group(s[p].kind) # Group(kind)
  /\ \A i \in 1 .. n : Group(cmds[i].kind) # Group(kind) => \E p \in 1 .. Len(s) : s[p] = cmds[i]
  /\ Ascending(s)

LEMMA StaysKept ==
  ASSUME NEW cmds \in Seq(Cmd), Ascending(cmds), NEW kind, NEW n \in Nat, n + 1 <= Len(cmds),
         NEW s, KeptOf(s, n, cmds, kind)
  PROVE  KeptOf(Stays(s, cmds[n + 1], kind), n + 1, cmds, kind)
<1> DEFINE c == cmds[n + 1]
           t == Append(s, c)
<1>1. Len(cmds) \in Nat /\ n + 1 \in 1 .. Len(cmds) /\ c \in Cmd
  BY LenProperties, ElementOfSeq
<1>2. s \in Seq(Cmd) /\ Len(s) \in Nat
  BY LenProperties DEF KeptOf
<1>3. CASE Group(c.kind) = Group(kind)
  <2>1. \A i \in 1 .. n + 1 : i \in 1 .. n \/ i = n + 1
    BY <1>1
  <2>2. \A i \in 1 .. n : i \in 1 .. n + 1
    BY <1>1
  <2> QED BY <1>3, <2>1, <2>2 DEF KeptOf, Stays
<1>4. CASE Group(c.kind) # Group(kind)
  <2> HIDE DEF c
  <2>1. /\ t \in Seq(Cmd) /\ Len(t) = Len(s) + 1
        /\ \A p \in 1 .. Len(s) : t[p] = s[p]
        /\ t[Len(s) + 1] = c
    BY <1>1, <1>2, AppendProperties
  <2> HIDE DEF t
  <2>2. \A p \in 1 .. Len(t) : p \in 1 .. Len(s) \/ p = Len(s) + 1
    BY <1>2, <2>1
  <2>3. Len(s) + 1 \in 1 .. Len(t) /\ \A p \in 1 .. Len(s) : p \in 1 .. Len(t)
    BY <1>2, <2>1
  <2>4. n + 1 \in 1 .. n + 1 /\ c = cmds[n + 1]
    BY DEF c
  <2>5. \A p \in 1 .. Len(t) : \E i \in 1 .. n + 1 : t[p] = cmds[i]
    <3>1. \A i \in 1 .. n : i \in 1 .. n + 1
      OBVIOUS
    <3> QED BY <2>1, <2>2, <2>4, <3>1 DEF KeptOf
  <2>6. \A p \in 1 .. Len(t) : Group(t[p].kind) # Group(kind)
    BY <1>4, <2>1, <2>2 DEF KeptOf
  <2>7. \A i \in 1 .. n + 1 : Group(cmds[i].kind) # Group(kind) => \E p \in 1 .. Len(t) : t[p] = cmds[i]
    <3>1. \A i \in 1 .. n + 1 : i \in 1 .. n \/ i = n + 1
      OBVIOUS
    <3> QED BY <2>1, <2>3, <2>4, <3>1 DEF KeptOf
  <2>8. Ascending(t)
    <3> SUFFICES ASSUME NEW p \in 1 .. Len(t), NEW q \in 1 .. Len(t), p < q
                 PROVE  t[p].n < t[q].n
      BY DEF Ascending
    <3>1. p \in 1 .. Len(s)
      BY <1>2, <2>1
    <3>2. CASE q \in 1 .. Len(s)
      BY <2>1, <3>1, <3>2 DEF KeptOf, Ascending
    <3>3. CASE q = Len(s) + 1
      <4>1. PICK i \in 1 .. n : s[p] = cmds[i]
        BY <3>1 DEF KeptOf
      <4>2. i \in 1 .. Len(cmds) /\ i < n + 1
        BY <1>1
      <4>3. cmds[i].n < c.n
        BY <1>1, <2>4, <4>2 DEF Ascending
      <4> QED BY <2>1, <3>1, <3>3, <4>1, <4>3
    <3> QED BY <2>2, <3>2, <3>3
  <2> QED BY <1>4, <2>1, <2>4, <2>5, <2>6, <2>7, <2>8 DEF KeptOf, Stays, t
<1> QED BY <1>3, <1>4

LEMMA StandingKept ==
  ASSUME NEW cmds \in Seq(Cmd), Ascending(cmds), NEW kind
  PROVE  KeptOf(Standing(cmds, kind), Len(cmds), cmds, kind)
<1>1. Len(cmds) \in Nat
  BY LenProperties
<1> DEFINE g == CHOOSE g : LoopTo(g, Len(cmds), cmds, kind)
<1>2. LoopTo(g, Len(cmds), cmds, kind)
  BY <1>1, LoopEnds
<1>3. Standing(cmds, kind) = g[Len(cmds)]
  BY DEF Standing, LoopTo
<1> HIDE DEF g
<1> DEFINE S == {n \in Nat : n <= Len(cmds) => KeptOf(g[n], n, cmds, kind)}
<1>4. 0 \in S
  <2>1. g[0] = <<>>
    BY <1>1, <1>2 DEF LoopTo
  <2>2. KeptOf(<<>>, 0, cmds, kind)
    BY EmptySeq DEF KeptOf, Ascending
  <2> QED BY <2>1, <2>2
<1>5. ASSUME NEW n \in Nat, n \in S PROVE n + 1 \in S
  <2> SUFFICES ASSUME n + 1 <= Len(cmds) PROVE KeptOf(g[n + 1], n + 1, cmds, kind)
    OBVIOUS
  <2>1. KeptOf(g[n], n, cmds, kind)
    BY <1>1, <1>5
  <2>2. n + 1 \in 0 .. Len(cmds) /\ n + 1 # 0 /\ (n + 1) - 1 = n
    BY <1>1
  <2>3. g[n + 1] = Stays(g[n], cmds[n + 1], kind)
    BY <1>2, <2>2 DEF LoopTo, Stays
  <2> QED BY <2>1, <2>3, StaysKept
<1> HIDE DEF S
<1>6. Nat \subseteq S
  BY <1>4, <1>5, SetInduction
<1> QED BY <1>1, <1>3, <1>6 DEF S

(* coalesce keeps the order, drops only what the new command makes moot,    *)
(* and, unless that command folds nothing, keeps one command of a group.    *)
LEMMA Coalesced ==
  ASSUME NEW cmds \in Seq(Cmd), Ascending(cmds), OnePerGroup(cmds), NEW v \in Cmd,
         \A i \in 1 .. Len(cmds) : cmds[i].n < v.n
  PROVE  LET out == Coalesce(cmds, v)
         IN  /\ out \in Seq(Cmd) /\ out # <<>> /\ Ascending(out)
             /\ \A p \in 1 .. Len(out) : out[p] = v \/ \E i \in 1 .. Len(cmds) : out[p] = cmds[i]
             /\ \E p \in 1 .. Len(out) : out[p] = v
             /\ \A i \in 1 .. Len(cmds) :
                  \/ \E p \in 1 .. Len(out) : out[p] = cmds[i]
                  \/ Moots(v.kind, cmds[i].kind)
             /\ v.kind # "other" => OnePerGroup(out)
<1> DEFINE out == Coalesce(cmds, v)
           Goal == /\ out \in Seq(Cmd) /\ out # <<>> /\ Ascending(out)
                   /\ \A p \in 1 .. Len(out) : out[p] = v \/ \E i \in 1 .. Len(cmds) : out[p] = cmds[i]
                   /\ \E p \in 1 .. Len(out) : out[p] = v
                   /\ \A i \in 1 .. Len(cmds) :
                        \/ \E p \in 1 .. Len(out) : out[p] = cmds[i]
                        \/ Moots(v.kind, cmds[i].kind)
                   /\ v.kind # "other" => OnePerGroup(out)
<1> SUFFICES Goal
  OBVIOUS
<1>1. /\ Len(cmds) \in Nat /\ \A i \in 1 .. Len(cmds) : cmds[i] \in Cmd
      /\ v.n \in Int /\ \A i \in 1 .. Len(cmds) : cmds[i].n \in Int
  <2>1. \A i \in 1 .. Len(cmds) : cmds[i] \in Cmd
    BY ElementOfSeq
  <2> QED BY <2>1, LenProperties DEF Cmd
<1>2. CASE v.kind = "media"
  <2>1. out = <<v>>
    BY <1>2 DEF Coalesce
  <2> HIDE DEF out
  <2>2. out \in Seq(Cmd) /\ Len(out) = 1 /\ out[1] = v
    BY <2>1
  <2>3. \A p \in 1 .. Len(out) : p = 1
    BY <2>2
  <2>4. out # <<>> /\ 1 \in 1 .. Len(out)
    BY <2>2, EmptySeq
  <2> QED BY <1>2, <2>2, <2>3, <2>4 DEF Ascending, OnePerGroup, Moots, out
(* What is appended comes last; so it is kept, and what was there in order. *)
<1>3. ASSUME NEW kept \in Seq(Cmd), Ascending(kept), out = Append(kept, v),
             \A p \in 1 .. Len(kept) : \E i \in 1 .. Len(cmds) : kept[p] = cmds[i],
             \A i \in 1 .. Len(cmds) :
               \/ \E p \in 1 .. Len(kept) : kept[p] = cmds[i]
               \/ Moots(v.kind, cmds[i].kind),
             v.kind # "other" => \A p \in 1 .. Len(kept) : Group(kept[p].kind) # Group(v.kind)
      PROVE  Goal
  <2> HIDE DEF out
  <2>1. /\ out \in Seq(Cmd) /\ out # <<>> /\ Len(out) = Len(kept) + 1 /\ Len(kept) \in Nat
        /\ \A p \in 1 .. Len(kept) : out[p] = kept[p]
        /\ out[Len(kept) + 1] = v
    BY <1>3, AppendProperties, LenProperties
  <2>2. \A p \in 1 .. Len(out) : p \in 1 .. Len(kept) \/ p = Len(kept) + 1
    BY <2>1
  <2>3. Len(kept) + 1 \in 1 .. Len(out) /\ \A p \in 1 .. Len(kept) : p \in 1 .. Len(out)
    BY <2>1
  <2>4. \A p \in 1 .. Len(kept) : kept[p].n < v.n
    BY <1>3
  <2>5. Ascending(out)
    <3> SUFFICES ASSUME NEW p \in 1 .. Len(out), NEW q \in 1 .. Len(out), p < q
                 PROVE  out[p].n < out[q].n
      BY DEF Ascending
    <3>1. p \in 1 .. Len(kept)
      BY <2>1
    <3> QED BY <1>3, <2>1, <2>2, <2>4, <3>1 DEF Ascending
  <2>6. ASSUME v.kind # "other" PROVE OnePerGroup(out)
    <3> SUFFICES ASSUME NEW p \in 1 .. Len(out), NEW q \in 1 .. Len(out),
                        Group(out[p].kind) = Group(out[q].kind)
                 PROVE  p = q
      BY DEF OnePerGroup
    <3>1. CASE p \in 1 .. Len(kept) /\ q \in 1 .. Len(kept)
      <4>1. PICK i \in 1 .. Len(cmds) : kept[p] = cmds[i]
        BY <1>3, <3>1
      <4>2. PICK j \in 1 .. Len(cmds) : kept[q] = cmds[j]
        BY <1>3, <3>1
      <4>3. kept[p] = kept[q]
        BY <2>1, <3>1, <4>1, <4>2 DEF OnePerGroup
      <4>4. kept[p].n \in Int /\ kept[q].n = kept[p].n
        BY <1>1, <4>1, <4>3
      <4>5. ~(p < q) /\ ~(q < p)
        BY <1>3, <3>1, <4>4 DEF Ascending
      <4> QED BY <3>1, <4>5
    <3>2. CASE p = Len(kept) + 1 \/ q = Len(kept) + 1
      BY <1>3, <2>1, <2>2, <2>6, <3>2
    <3> QED BY <2>2, <3>1, <3>2
  <2> QED BY <1>3, <2>1, <2>2, <2>3, <2>5, <2>6
<1>4. CASE v.kind = "other"
  <2>1. out = Append(cmds, v)
    BY <1>4 DEF Coalesce
  <2> HIDE DEF out, Goal
  <2> QED BY <1>3, <1>4, <2>1
<1>5. CASE v.kind \in {"play", "pause", "seek"}
  <2> DEFINE kept == Standing(cmds, v.kind)
  <2>1. out = Append(kept, v)
    BY <1>5 DEF Coalesce
  <2>2. KeptOf(kept, Len(cmds), cmds, v.kind)
    BY StandingKept
  <2> HIDE DEF out, Goal, kept
  <2>3. /\ kept \in Seq(Cmd) /\ Ascending(kept)
        /\ \A p \in 1 .. Len(kept) : \E i \in 1 .. Len(cmds) : kept[p] = cmds[i]
        /\ \A p \in 1 .. Len(kept) : Group(kept[p].kind) # Group(v.kind)
    BY <2>2 DEF KeptOf
  <2>4. \A i \in 1 .. Len(cmds) :
          (\E p \in 1 .. Len(kept) : kept[p] = cmds[i]) \/ Moots(v.kind, cmds[i].kind)
    BY <2>2 DEF KeptOf, Moots
  <2> QED BY <1>3, <2>1, <2>3, <2>4
<1>6. v.kind \in Kind
  BY DEF Cmd
<1> HIDE DEF Goal
<1> QED BY <1>2, <1>4, <1>5, <1>6 DEF Kind

-----------------------------------------------------------------------------
(***************************************************************************)
(* The type invariant by what the steps touch together.                    *)
(***************************************************************************)
Buckets == [count : 0 .. Burst, last : 0 .. MaxTime, window : 0 .. MaxTime]

Timers ==
  /\ retry \in DOMAIN due \cup fired \cup {NoTimer}
  /\ DOMAIN due \subseteq Timer /\ \A t \in DOMAIN due : due[t] \in Nat
  /\ fired \subseteq Timer

Limiting ==
  now \in 0 .. MaxTime /\ joined \in BOOLEAN /\ bucket \in Buckets /\ grants \in Seq(Nat)

Queueing ==
  /\ pending \in Seq(Cmd) /\ OnePerGroup(pending) /\ batch \in Seq(Cmd)
  /\ sent \in Seq(Kind)
  /\ applied \subseteq 1 .. MaxSent /\ refused \subseteq 1 .. MaxSent

LEMMA TypeParts == TypeOK <=> Timers /\ Limiting /\ Queueing
BY DEF TypeOK, Timers, Limiting, Queueing, Buckets, OnePerGroup

(***************************************************************************)
(* The limit.                                                              *)
(***************************************************************************)
LEMMA Allowed ==
  ASSUME NEW b \in Buckets, NEW t \in 0 .. MaxTime
  PROVE  LET a == Allow(b, t)
         IN  /\ a.bucket \in Buckets /\ a.bucket.last = t /\ a.ok \in BOOLEAN
             /\ \/ /\ Rested(b, t) /\ a.ok /\ a.bucket.count = 1
                   /\ Burst = 1 => a.bucket.window = t
                \/ /\ ~Rested(b, t) /\ b.count < Burst
                   /\ a.ok /\ a.bucket.count = b.count + 1
                   /\ b.count + 1 = Burst => a.bucket.window = t
                \/ /\ ~Rested(b, t) /\ b.count = Burst /\ t - b.window >= Interval
                   /\ a.ok /\ a.bucket.count = Burst /\ a.bucket.window = t
                \/ /\ ~Rested(b, t) /\ b.count = Burst
                   /\ ~a.ok /\ a.bucket.count = Burst /\ a.bucket.window = b.window
<1> USE LimitAssumption
<1>0. b = [count |-> b.count, last |-> b.last, window |-> b.window]
      /\ b.count \in 0 .. Burst /\ b.last \in 0 .. MaxTime /\ b.window \in 0 .. MaxTime
  BY DEF Buckets
<1> DEFINE r == IF Rested(b, t) THEN [b EXCEPT !.count = 0, !.window = 0] ELSE b
<1>1. CASE Rested(b, t)
  <2>1. r = [count |-> 0, last |-> b.last, window |-> 0]
    BY <1>0, <1>1
  <2>2. Allow(b, t) = [ok |-> TRUE,
                       bucket |-> [count |-> 1, last |-> t, window |-> IF 1 = Burst THEN t ELSE 0]]
    BY <1>1, <2>1 DEF Allow, Spend
  <2> QED BY <1>1, <2>2 DEF Buckets
<1>2. CASE ~Rested(b, t) /\ b.count < Burst
  <2>1. Allow(b, t) = [ok |-> TRUE,
                       bucket |-> [count |-> b.count + 1, last |-> t,
                                   window |-> IF b.count + 1 = Burst THEN t ELSE b.window]]
    BY <1>0, <1>2 DEF Allow, Spend
  <2> QED BY <1>0, <1>2, <2>1 DEF Buckets
<1>3. CASE ~Rested(b, t) /\ ~(b.count < Burst) /\ t - b.window >= Interval
  <2>1. Allow(b, t) = [ok |-> TRUE, bucket |-> [count |-> b.count, last |-> t, window |-> t]]
    BY <1>0, <1>3 DEF Allow
  <2> QED BY <1>0, <1>3, <2>1 DEF Buckets
<1>4. CASE ~Rested(b, t) /\ ~(b.count < Burst) /\ ~(t - b.window >= Interval)
  <2>1. Allow(b, t) = [ok |-> FALSE, bucket |-> [count |-> b.count, last |-> t, window |-> b.window]]
    BY <1>0, <1>4 DEF Allow
  <2> QED BY <1>0, <1>4, <2>1 DEF Buckets
<1> QED BY <1>1, <1>2, <1>3, <1>4

(* Granted puts the newest grant in front and remembers a burst and one.    *)
LEMMA GrantedInFront ==
  ASSUME Limiting, Len(grants) <= Burst + 1, Granted
  PROVE  /\ grants' \in Seq(Nat)
         /\ Len(grants') = IF Len(grants) < Burst THEN Len(grants) + 1 ELSE Burst + 1
         /\ grants'[1] = now
         /\ \A i \in 2 .. Len(grants') : i - 1 \in 1 .. Len(grants) /\ grants'[i] = grants[i - 1]
<1> USE LimitAssumption
<1> DEFINE all == <<now>> \o grants
           k == IF Len(grants) < Burst THEN Len(grants) + 1 ELSE Burst + 1
<1>1. /\ now \in Nat /\ grants \in Seq(Nat) /\ Len(grants) \in Nat
      /\ <<now>> \in Seq(Nat) /\ Len(<<now>>) = 1 /\ <<now>>[1] = now
  BY LenProperties DEF Limiting
<1>2. /\ all \in Seq(Nat) /\ Len(all) = Len(grants) + 1
      /\ all[1] = now /\ \A i \in 2 .. Len(all) : all[i] = grants[i - 1]
  <2>1. /\ all \in Seq(Nat)
        /\ Len(all) = Len(<<now>>) + Len(grants)
        /\ \A i \in 1 .. Len(<<now>>) + Len(grants) :
              all[i] = IF i <= Len(<<now>>) THEN <<now>>[i] ELSE grants[i - Len(<<now>>)]
    BY <1>1, ConcatProperties
  <2> QED BY <1>1, <2>1
<1>3. k \in Nat /\ 1 <= k /\ k <= Len(all)
  BY <1>1, <1>2
<1>4. grants' = SubSeq(all, 1, k)
  BY DEF Granted
<1> HIDE DEF all, k
<1>5. /\ grants' \in Seq(Nat) /\ Len(grants') = k
      /\ \A i \in 1 .. k : grants'[i] = all[i]
  <2>1. \A i \in 1 .. k : all[i] \in Nat
    BY <1>2, <1>3, ElementOfSeq
  <2>2. \A i \in 1 .. k : all[1 + i - 1] = all[i]
    BY <1>3
  <2>3. /\ SubSeq(all, 1, k) \in Seq(Nat)
        /\ Len(SubSeq(all, 1, k)) = IF 1 <= k THEN k - 1 + 1 ELSE 0
        /\ \A i \in 1 .. k - 1 + 1 : SubSeq(all, 1, k)[i] = all[1 + i - 1]
    BY <1>3, <2>1, SubSeqProperties
  <2> QED BY <1>3, <1>4, <2>2, <2>3
<1>6. \A i \in 2 .. k : i \in 1 .. k /\ i \in 2 .. Len(all) /\ i - 1 \in 1 .. Len(grants)
  BY <1>1, <1>2, <1>3
<1>7. 1 \in 1 .. k
  BY <1>3
<1> QED BY <1>1, <1>2, <1>5, <1>6, <1>7 DEF k

(* One event at the limit, whoever it is for: what it lets through is the   *)
(* newest, and with the burst spent it comes an Interval after the last.    *)
LEMMA LimitStep ==
  ASSUME Limiting, NewestFirst, Budget, Paced, now' = now, joined' \in BOOLEAN,
         bucket' = Allow(bucket, now).bucket,
         \/ Allow(bucket, now).ok /\ Granted
         \/ ~Allow(bucket, now).ok /\ grants' = grants
  PROVE  Limiting' /\ NewestFirst' /\ Budget' /\ Paced'
<1> USE LimitAssumption
<1> DEFINE b == bucket
           a == Allow(bucket, now)
           n == Len(grants)
           k == Len(grants')
<1>0. /\ now \in 0 .. MaxTime /\ bucket \in Buckets /\ grants \in Seq(Nat)
      /\ b.count \in 0 .. Burst /\ b.last \in 0 .. MaxTime /\ b.window \in 0 .. MaxTime
      /\ n \in Nat /\ \A i \in 1 .. n : grants[i] \in Nat
  <2>1. grants \in Seq(Nat)
    BY DEF Limiting
  <2>2. \A i \in 1 .. n : grants[i] \in Nat
    BY <2>1, ElementOfSeq
  <2> QED BY <2>1, <2>2, LenProperties DEF Limiting, Buckets
<1>1. /\ a.bucket \in Buckets /\ a.bucket.last = now
      /\ \/ /\ Rested(b, now) /\ a.ok /\ a.bucket.count = 1
            /\ Burst = 1 => a.bucket.window = now
         \/ /\ ~Rested(b, now) /\ b.count < Burst
            /\ a.ok /\ a.bucket.count = b.count + 1
            /\ b.count + 1 = Burst => a.bucket.window = now
         \/ /\ ~Rested(b, now) /\ b.count = Burst /\ now - b.window >= Interval
            /\ a.ok /\ a.bucket.count = Burst /\ a.bucket.window = now
         \/ /\ ~Rested(b, now) /\ b.count = Burst
            /\ ~a.ok /\ a.bucket.count = Burst /\ a.bucket.window = b.window
  BY <1>0, Allowed
<1> HIDE DEF a
<1>2. bucket' = a.bucket /\ bucket'.last = now
  BY <1>1 DEF a
<1>3. ASSUME ~a.ok PROVE Limiting' /\ NewestFirst' /\ Budget' /\ Paced'
  <2>1. /\ grants' = grants /\ b.count = Burst /\ bucket'.count = Burst
        /\ bucket'.window = b.window
    BY <1>1, <1>2, <1>3 DEF a
  <2>2. Limiting'
    BY <1>0, <1>1, <1>2, <2>1 DEF Limiting
  <2>3. \A i \in 1 .. n : grants[i] <= now
    BY <1>0 DEF NewestFirst
  <2>4. NewestFirst'
    BY <1>0, <1>2, <2>1, <2>3 DEF NewestFirst
  <2>5. Budget' /\ Paced'
    BY <1>0, <2>1 DEF Budget, Paced
  <2> QED BY <2>2, <2>4, <2>5
<1>4. ASSUME a.ok PROVE Limiting' /\ NewestFirst' /\ Budget' /\ Paced'
  <2>1. /\ grants' \in Seq(Nat)
        /\ k = IF n < Burst THEN n + 1 ELSE Burst + 1
        /\ grants'[1] = now
        /\ \A i \in 2 .. k : i - 1 \in 1 .. n /\ grants'[i] = grants[i - 1]
    BY <1>4, GrantedInFront DEF Budget, a
  <2> HIDE DEF n, k
  <2>2. Limiting'
    BY <1>0, <1>1, <1>2, <2>1 DEF Limiting
  <2>3. \A i \in 1 .. n : grants[i] <= b.last /\ grants[i] <= now
    BY <1>0 DEF NewestFirst, n
  <2>4. \A i \in 1 .. k : i = 1 \/ (i \in 2 .. k /\ i - 1 \in 1 .. n)
    BY <2>1
  <2>5. \A i \in 1 .. k : grants'[i] \in Nat /\ grants'[i] <= now
    <3>1. ASSUME NEW i \in 2 .. k, i - 1 \in 1 .. n
          PROVE  grants'[i] \in Nat /\ grants'[i] <= now
      <4>1. grants[i - 1] \in Nat /\ grants[i - 1] <= now
        BY <1>0, <2>3, <3>1 DEF n
      <4> QED BY <2>1, <4>1
    <3>2. grants'[1] \in Nat /\ grants'[1] <= now
      BY <1>0, <2>1
    <3> QED BY <2>4, <3>1, <3>2
  <2>6. \A i, j \in 1 .. k : i <= j => grants'[i] >= grants'[j]
    <3> SUFFICES ASSUME NEW i \in 1 .. k, NEW j \in 1 .. k, i <= j
                 PROVE  grants'[i] >= grants'[j]
      OBVIOUS
    <3>1. CASE i = 1
      BY <1>0, <2>1, <2>5, <3>1
    <3>2. CASE i \in 2 .. k /\ i - 1 \in 1 .. n
      <4>1. j \in 2 .. k /\ j - 1 \in 1 .. n /\ i - 1 <= j - 1
        BY <2>1, <3>2
      <4>2. grants[i - 1] >= grants[j - 1]
        BY <3>2, <4>1 DEF NewestFirst, n
      <4> QED BY <2>1, <3>2, <4>1, <4>2
    <3> QED BY <2>4, <3>1, <3>2
  <2>7. NewestFirst'
    BY <1>0, <1>2, <2>5, <2>6 DEF NewestFirst, k
  <2>8. n <= Burst + 1 /\ b.count <= n /\ (b.count = 0 => n = 0) /\ k <= Burst + 1
    <3>1. grants = <<>> => n = 0
      BY EmptySeq DEF n
    <3> QED BY <1>0, <2>1, <3>1 DEF Budget, n
  (* After a long silence the last grant is a Cooldown away. *)
  <2>9. CASE Rested(b, now) /\ bucket'.count = 1 /\ (Burst = 1 => bucket'.window = now)
    <3>1. k >= 2 => grants'[1] - grants'[2] > Cooldown
      <4> SUFFICES ASSUME k >= 2 PROVE grants'[1] - grants'[2] > Cooldown
        OBVIOUS
      <4>1. 2 \in 2 .. k /\ 2 - 1 = 1 /\ 1 \in 1 .. n
        BY <1>0, <2>1, <2>8
      <4>2. grants'[2] = grants[1] /\ grants[1] <= b.last /\ grants[1] \in Nat
        BY <1>0, <2>1, <2>3, <4>1 DEF n
      <4>3. now - b.last > Cooldown
        BY <2>9 DEF Rested
      <4> QED BY <1>0, <2>1, <4>2, <4>3
    <3>2. k >= 1
      BY <1>0, <2>1 DEF n
    <3>3. Budget'
      BY <2>1, <2>8, <2>9, <3>1, <3>2 DEF Budget, k
    <3>4. Paced'
      BY <2>9, <3>1 DEF Paced, k
    <3> QED BY <2>2, <2>7, <3>3, <3>4
  (* Within a burst the gap before it moves one back. *)
  <2>10. CASE /\ b.count < Burst /\ bucket'.count = b.count + 1
              /\ b.count + 1 = Burst => bucket'.window = now
    <3> DEFINE c == b.count
    <3>0. c \in Nat /\ c + 1 <= Burst /\ k \in Nat /\ n \in Nat
      BY <1>0, <2>1, <2>10 DEF n
    <3>1. c + 1 <= k
      BY <1>0, <2>1, <2>8, <3>0
    <3>2. c + 1 < k => grants'[c + 1] - grants'[c + 2] > Cooldown
      <4> SUFFICES ASSUME c + 1 < k PROVE grants'[c + 1] - grants'[c + 2] > Cooldown
        OBVIOUS
      <4>1. c > 0 /\ c < n
        BY <2>1, <2>8, <3>0
      <4>2. grants[c] - grants[c + 1] > Cooldown
        BY <2>10, <4>1 DEF Budget, n
      <4>3. /\ c + 1 \in 2 .. k /\ (c + 1) - 1 = c
            /\ c + 2 \in 2 .. k /\ (c + 2) - 1 = c + 1
        BY <3>0, <4>1
      <4>4. grants'[c + 1] = grants[c] /\ grants'[c + 2] = grants[c + 1]
        BY <2>1, <4>3
      <4> QED BY <4>2, <4>4
    <3>3. (c + 1) + 1 = c + 2
      BY <3>0
    <3>4. k = 0 \/ k >= 1
      BY <3>0
    <3> HIDE DEF c
    <3>5. bucket'.count = c + 1 /\ (c + 1 = Burst => bucket'.window = grants'[1])
      BY <2>1, <2>10 DEF c
    <3>6. Budget'
      BY <2>8, <3>0, <3>1, <3>2, <3>3, <3>5 DEF Budget, k
    <3>7. Paced'
      <4> SUFFICES ASSUME k > Burst
                   PROVE  \/ grants'[1] - grants'[2] >= Interval
                          \/ \E i \in 1 .. Burst : grants'[i] - grants'[i + 1] > Cooldown
        BY DEF Paced, k
      <4>1. CASE c + 1 = Burst
        BY <3>0, <3>2, <3>3, <4>1
      <4>2. CASE c + 1 < Burst
        BY <3>0, <3>1, <3>2, <3>3, <4>2
      <4> QED BY <3>0, <4>1, <4>2
    <3> QED BY <2>2, <2>7, <3>6, <3>7
  (* Past it the window runs from the last grant. *)
  <2>11. CASE /\ b.count = Burst /\ now - b.window >= Interval
              /\ bucket'.count = Burst /\ bucket'.window = now
    <3>1. n >= Burst /\ k = Burst + 1 /\ b.window = grants[1]
      BY <1>0, <2>1, <2>8, <2>11 DEF Budget, n
    <3>2. grants'[2] = grants[1]
      BY <2>1, <3>1
    <3>3. k > Burst => grants'[1] - grants'[2] >= Interval
      BY <1>0, <2>1, <2>11, <3>1, <3>2
    <3>4. Paced'
      BY <3>3 DEF Paced, k
    <3>5. Budget'
      BY <2>1, <2>11, <3>1 DEF Budget, k
    <3> QED BY <2>2, <2>7, <3>4, <3>5
  <2> QED BY <1>1, <1>2, <1>4, <2>9, <2>10, <2>11
<1> QED BY <1>3, <1>4

(***************************************************************************)
(* The timers.                                                             *)
(***************************************************************************)
LEMMA Armed ==
  ASSUME Timers, NEW b \in Buckets, now \in 0 .. MaxTime,
         NEW running \in SUBSET Timer, Arm(b, running)
  PROVE  /\ retry' \in DOMAIN due'
         /\ DOMAIN due' \subseteq Timer /\ \A t \in DOMAIN due' : due'[t] \in Nat
<1> DEFINE free == Timer \ (DOMAIN due \cup running)
           t == CHOOSE x \in free : TRUE
<1>1. free # {} /\ retry' = t
      /\ due' = [x \in DOMAIN due \cup {t} |-> IF x = t THEN now + WaitFor(b, now) ELSE due[x]]
  BY DEF Arm
<1>2. t \in free
  BY <1>1
<1> HIDE DEF t
<1>3. now + WaitFor(b, now) \in Nat
  <2>1. b.count \in 0 .. Burst /\ b.window \in 0 .. MaxTime
    BY DEF Buckets
  <2>2. WaitFor(b, now) \in Nat
    BY <2>1, LimitAssumption DEF WaitFor
  <2> QED BY <2>2, LimitAssumption
<1> QED BY <1>1, <1>2, <1>3 DEF Timers

LEMMA TimersStep == Timers /\ Limiting /\ [Next]_vars => Timers'
<1> SUFFICES ASSUME Timers, Limiting, [Next]_vars PROVE Timers'
  OBVIOUS
<1>0. now \in 0 .. MaxTime /\ Allow(bucket, now).bucket \in Buckets
  BY Allowed DEF Limiting
<1>1. ASSUME UNCHANGED <<retry, due, fired>> PROVE Timers'
  BY <1>1 DEF Timers
<1>2. ASSUME Disarm, fired' = fired PROVE Timers'
  BY <1>2 DEF Timers, Disarm, StopRetry
<1>3. ASSUME NEW kind \in Kind, Send(kind) PROVE Timers'
  <2>1. CASE Arm(Allow(bucket, now).bucket, fired)
    <3>1. fired' = fired /\ fired \subseteq Timer
      BY <1>3 DEF Send, Timers
    <3> QED BY <1>0, <2>1, <3>1, Armed DEF Timers
  <2>2. CASE ~Arm(Allow(bucket, now).bucket, fired)
    <3>1. fired' = fired /\ (Disarm \/ UNCHANGED <<retry, due>>)
      BY <1>3, <2>2 DEF Send
    <3> QED BY <1>1, <1>2, <3>1
  <2> QED BY <2>1, <2>2
<1>4. ASSUME NEW t \in Timer, Fire(t) PROVE Timers'
  BY <1>4 DEF Fire, connVars, Timers
<1>5. ASSUME NEW t \in Timer, RetryCmd(t) PROVE Timers'
  <2>1. fired' = fired \ {t}
    BY <1>5 DEF RetryCmd
  <2>2. CASE retry' = NoTimer /\ due' = due
    BY <2>1, <2>2 DEF Timers
  <2>3. CASE Arm(Allow(bucket, now).bucket, fired \ {t})
    <3>1. fired \ {t} \in SUBSET Timer
      BY DEF Timers
    <3> QED BY <1>0, <2>1, <2>3, <3>1, Armed DEF Timers
  <2> QED BY <1>5, <2>2, <2>3 DEF RetryCmd
<1>6. CASE Leave
  BY <1>2, <1>6 DEF Leave
<1>7. CASE Passes \/ Rotate \/ UNCHANGED vars
  BY <1>1, <1>7 DEF Passes, Rotate, vars, connVars, timerVars
<1> QED BY <1>3, <1>4, <1>5, <1>6, <1>7 DEF Next

(***************************************************************************)
(* The queue.                                                              *)
(***************************************************************************)
Newest(kind) == [kind |-> kind, n |-> Len(sent) + 1]

(* What folding a command into the kept ones leaves. *)
Takes(out, v) ==
  /\ out \in Seq(Cmd) /\ Ascending(out)
  /\ \A p \in 1 .. Len(out) : out[p] = v \/ \E i \in 1 .. Len(pending) : out[p] = pending[i]
  /\ \E p \in 1 .. Len(out) : out[p] = v
  /\ \A i \in 1 .. Len(pending) :
       (\E p \in 1 .. Len(out) : out[p] = pending[i]) \/ Moots(v.kind, pending[i].kind)

LEMMA SendTakes ==
  ASSUME Queueing, Bookkeeping, NEW kind \in Kind, Len(sent) < MaxSent
  PROVE  /\ Takes(Coalesce(pending, Newest(kind)), Newest(kind))
         /\ kind # "other" => OnePerGroup(Coalesce(pending, Newest(kind)))
         /\ pending = <<>> => Takes(<<Newest(kind)>>, Newest(kind))
<1> DEFINE v == Newest(kind)
<1>1. v \in Cmd /\ v.kind = kind
  BY LenProperties, LimitAssumption DEF Newest, Cmd, Queueing
<1>2. \A i \in 1 .. Len(pending) : pending[i].n < v.n
  <2>1. \A i \in 1 .. Len(pending) : pending[i].n <= Len(sent) /\ pending[i].n \in Int
    <3>1. \A i \in 1 .. Len(pending) : pending[i] \in Cmd
      BY ElementOfSeq DEF Queueing
    <3> QED BY <3>1 DEF Bookkeeping, Recorded, Cmd
  <2> QED BY <2>1, LenProperties DEF Newest, Queueing
<1> HIDE DEF v
<1>3. ASSUME pending = <<>> PROVE Takes(<<v>>, v)
  <2>1. <<v>> \in Seq(Cmd) /\ Len(<<v>>) = 1 /\ <<v>>[1] = v /\ Len(pending) = 0
    BY <1>1, <1>3, EmptySeq
  <2> QED BY <2>1 DEF Takes, Ascending
<1>4. /\ pending \in Seq(Cmd) /\ Ascending(pending) /\ OnePerGroup(pending)
  BY DEF Queueing, Bookkeeping
<1>5. Takes(Coalesce(pending, v), v) /\ (kind # "other" => OnePerGroup(Coalesce(pending, v)))
  BY <1>1, <1>2, <1>4, Coalesced DEF Takes
<1> QED BY <1>3, <1>5 DEF v

(* Losing no one: whoever was accounted for still is, or the newest command *)
(* makes it moot, as it makes moot whatever that one had.                   *)
LEMMA StillNotLost ==
  ASSUME Queueing, Bookkeeping, NothingLost, joined, NEW kind \in Kind,
         sent' = Append(sent, kind), refused \subseteq refused',
         Len(sent) + 1 \in applied' \cup Numbers(pending)' \cup refused',
         \A i \in applied \cup Numbers(pending) :
           \/ i \in applied' \cup Numbers(pending)'
           \/ /\ Moots(kind, sent[i])
              /\ Len(sent) + 1 \in applied' \cup Numbers(pending)'
  PROVE  NothingLost'
<1> DEFINE n == Len(sent) + 1
           Held == applied \cup Numbers(pending)
<1>1. /\ Len(sent) \in Nat /\ Len(sent') = n /\ sent'[n] = kind
      /\ \A i \in 1 .. Len(sent) : sent'[i] = sent[i]
  BY AppendProperties, LenProperties DEF Queueing
<1> SUFFICES ASSUME NEW i \in 1 .. n
             PROVE  \/ i \in Held' \cup refused'
                    \/ \E j \in i + 1 .. n : Moots(sent'[j], sent'[i]) /\ j \in Held'
  BY <1>1 DEF NothingLost
<1> HIDE DEF Held
<1>2. CASE i = n
  BY <1>2 DEF Held
<1>3. CASE i \in 1 .. Len(sent) /\ i \in refused
  BY <1>3
<1>4. CASE i \in 1 .. Len(sent) /\ i \in Held
  <2>1. CASE i \in Held'
    BY <2>1
  <2>2. CASE Moots(kind, sent[i]) /\ n \in Held'
    <3>1. n \in i + 1 .. n
      BY <1>1, <1>4
    <3> QED BY <1>1, <1>4, <2>2, <3>1
  <2> QED BY <1>4, <2>1, <2>2 DEF Held
<1>5. CASE i \in 1 .. Len(sent)
           /\ \E j \in i + 1 .. Len(sent) : Moots(sent[j], sent[i]) /\ j \in Held
  <2>1. PICK j \in i + 1 .. Len(sent) : Moots(sent[j], sent[i]) /\ j \in Held
    BY <1>5
  <2>2. j \in 1 .. Len(sent) /\ j \in i + 1 .. n /\ n \in i + 1 .. n
    BY <1>1, <1>5
  <2>3. CASE j \in Held'
    BY <1>1, <1>5, <2>1, <2>2, <2>3
  <2>4. CASE Moots(kind, sent[j]) /\ n \in Held'
    <3>1. Moots(kind, sent[i])
      BY <2>1, <2>4 DEF Moots, Group
    <3> QED BY <1>1, <1>5, <2>2, <2>4, <3>1
  <2> QED BY <2>1, <2>3, <2>4 DEF Held
<1>6. i = n \/ i \in 1 .. Len(sent)
  BY <1>1
<1> QED BY <1>2, <1>3, <1>4, <1>5, <1>6 DEF NothingLost, Held

(* A command sent, and folded in: handed over with the kept ones, or kept.  *)
LEMMA SendKeeps ==
  ASSUME Queueing, Bookkeeping, NothingLost, joined,
         NEW kind \in Kind, Len(sent) < MaxSent, sent' = Append(sent, kind),
         NEW out, Takes(out, Newest(kind)), refused' = refused,
         \/ pending' = <<>> /\ applied' = applied \cup Numbers(out) /\ batch' = out
         \/ /\ pending' = out /\ applied' = applied /\ batch' = <<>>
            /\ OnePerGroup(out) /\ kind # "other"
  PROVE  /\ Queueing' /\ Bookkeeping' /\ NothingLost'
         /\ \A p \in 1 .. Len(out), i \in applied : i < out[p].n
<1> DEFINE n == Len(sent) + 1
           v == Newest(kind)
<1>1. /\ Len(sent) \in Nat /\ n \in Nat /\ Len(sent') = n /\ sent'[n] = kind
      /\ sent' \in Seq(Kind) /\ n <= MaxSent
      /\ \A i \in 1 .. Len(sent) : sent'[i] = sent[i] /\ i \in 1 .. n
  BY AppendProperties, LenProperties, LimitAssumption DEF Queueing
<1>2. v.n = n /\ v.kind = kind
  BY DEF Newest
<1>3. \A i \in 1 .. Len(pending) :
        /\ pending[i] \in Cmd /\ pending[i].n \in 1 .. Len(sent)
        /\ pending[i].kind = sent[pending[i].n] /\ pending[i].kind # "other"
        /\ \A j \in applied : j < pending[i].n
  <2>1. \A i \in 1 .. Len(pending) : pending[i] \in Cmd
    BY ElementOfSeq DEF Queueing
  <2>2. \A i \in 1 .. Len(pending) : pending[i].n \in 1 .. MaxSent
    BY <2>1 DEF Cmd
  <2> QED BY <1>1, <2>1, <2>2, LimitAssumption DEF Bookkeeping, Recorded
<1> HIDE DEF v, n
<1>4. /\ out \in Seq(Cmd) /\ Ascending(out)
      /\ \A p \in 1 .. Len(out) : out[p] = v \/ \E i \in 1 .. Len(pending) : out[p] = pending[i]
      /\ \E p \in 1 .. Len(out) : out[p] = v
      /\ \A i \in 1 .. Len(pending) :
           (\E p \in 1 .. Len(out) : out[p] = pending[i]) \/ Moots(kind, pending[i].kind)
  BY <1>2 DEF Takes, v
<1>5. \A p \in 1 .. Len(out) :
        /\ out[p].n \in 1 .. n /\ out[p].kind = sent'[out[p].n]
        /\ out[p].kind = "other" => kind = "other"
        /\ \A j \in applied : j < out[p].n
  <2> SUFFICES ASSUME NEW p \in 1 .. Len(out)
               PROVE  /\ out[p].n \in 1 .. n /\ out[p].kind = sent'[out[p].n]
                      /\ out[p].kind = "other" => kind = "other"
                      /\ \A j \in applied : j < out[p].n
    OBVIOUS
  <2>1. CASE out[p] = v
    <3>1. \A j \in applied : j < n
      BY <1>1 DEF Bookkeeping, Recorded, n
    <3> QED BY <1>1, <1>2, <2>1, <3>1
  <2>2. ASSUME NEW i \in 1 .. Len(pending), out[p] = pending[i]
        PROVE  /\ out[p].n \in 1 .. n /\ out[p].kind = sent'[out[p].n]
               /\ out[p].kind # "other" /\ \A j \in applied : j < out[p].n
    BY <1>1, <1>3, <2>2
  <2> QED BY <1>4, <2>1, <2>2
<1>6. Numbers(out) \subseteq 1 .. n /\ n \in Numbers(out)
  BY <1>2, <1>4, <1>5 DEF Numbers
<1>7. \A i \in Numbers(pending) : i \in Numbers(out) \/ Moots(kind, sent[i])
  <2> SUFFICES ASSUME NEW p \in 1 .. Len(pending)
               PROVE  pending[p].n \in Numbers(out) \/ Moots(kind, sent[pending[p].n])
    BY DEF Numbers
  <2> QED BY <1>3, <1>4 DEF Numbers
<1>8. Len(sent') <= MaxSent /\ applied \subseteq 1 .. n /\ refused' \subseteq 1 .. n
      /\ \A i \in 1 .. n : i \in 1 .. MaxSent
  BY <1>1, LimitAssumption DEF Bookkeeping, Recorded
<1>9. CASE pending' = <<>> /\ applied' = applied \cup Numbers(out) /\ batch' = out
  <2>1. Len(pending') = 0 /\ pending' \in Seq(Cmd) /\ OnePerGroup(pending')
    BY <1>9, EmptySeq DEF OnePerGroup
  <2>2. Queueing'
    BY <1>1, <1>4, <1>6, <1>8, <1>9, <2>1 DEF Queueing
  <2>3. Bookkeeping'
    <3>1. applied' \subseteq 1 .. Len(sent')
      BY <1>1, <1>6, <1>8, <1>9
    <3>2. \A p : p \notin 1 .. Len(pending')
      BY <2>1
    <3>3. Recorded'
      BY <1>1, <1>8, <3>1, <3>2 DEF Recorded
    <3> QED BY <3>2, <3>3 DEF Bookkeeping, Ascending
  <2>4. NothingLost'
    BY <1>6, <1>7, <1>9, StillNotLost DEF n
  <2> QED BY <1>5, <2>2, <2>3, <2>4
<1>10. CASE /\ pending' = out /\ applied' = applied /\ batch' = <<>>
            /\ OnePerGroup(out) /\ kind # "other"
  <2>1. batch' \in Seq(Cmd) /\ Numbers(pending)' = Numbers(out)
    BY <1>10, EmptySeq DEF Numbers
  <2>2. Queueing'
    BY <1>1, <1>4, <1>8, <1>10, <2>1 DEF Queueing
  <2>3. Bookkeeping'
    <3>1. Recorded'
      BY <1>1, <1>5, <1>8, <1>10 DEF Recorded
    <3> QED BY <1>4, <1>5, <1>10, <3>1 DEF Bookkeeping
  <2>4. NothingLost'
    BY <1>6, <1>7, <1>10, <2>1, StillNotLost DEF n
  <2> QED BY <1>5, <2>2, <2>3, <2>4
<1> QED BY <1>5, <1>9, <1>10

LEMMA QueueStep ==
  Queueing /\ Bookkeeping /\ NothingLost /\ [Next]_vars => Queueing' /\ Bookkeeping' /\ NothingLost'
<1> SUFFICES ASSUME Queueing, Bookkeeping, NothingLost, [Next]_vars
             PROVE  Queueing' /\ Bookkeeping' /\ NothingLost'
  OBVIOUS
<1> DEFINE Goal == Queueing' /\ Bookkeeping' /\ NothingLost'
<1>e. <<>> \in Seq(Cmd) /\ \A s : s = <<>> => Len(s) = 0
  BY EmptySeq
<1>1. ASSUME NEW kind \in Kind, Send(kind) PROVE Goal
  <2> DEFINE v == Newest(kind)
  <2>1. /\ joined /\ Len(sent) < MaxSent /\ sent' = Append(sent, kind) /\ joined' = joined
        /\ v = [kind |-> kind, n |-> Len(sent) + 1]
    BY <1>1 DEF Send, Newest
  <2>2. CASE refused' = refused
    <3> DEFINE out == IF pending = <<>> THEN <<v>> ELSE Coalesce(pending, v)
    <3>1. Takes(out, v) /\ Takes(Coalesce(pending, v), v)
          /\ (kind # "other" => OnePerGroup(Coalesce(pending, v)))
      BY <2>1, SendTakes
    <3>2. \/ pending' = <<>> /\ applied' = applied \cup Numbers(out) /\ batch' = out
          \/ /\ pending' = Coalesce(pending, v) /\ applied' = applied /\ batch' = <<>>
             /\ kind # "other"
          \/ kind = "other" /\ refused' = refused \cup {v.n}
      BY <1>1, <2>1 DEF Send, HandOver
    <3>3. ~(kind = "other" /\ refused' = refused \cup {v.n})
      BY <2>1, <2>2, LenProperties DEF Bookkeeping, Recorded, Queueing
    <3> HIDE DEF v, out
    <3> QED BY <2>1, <2>2, <3>1, <3>2, <3>3, SendKeeps DEF v
  <2>3. CASE refused' # refused
    <3>1. /\ refused' = refused \cup {Len(sent) + 1} /\ applied' = applied /\ pending' = pending
          /\ batch' = <<>>
      BY <1>1, <2>3 DEF Send
    <3>2. /\ sent' \in Seq(Kind) /\ Len(sent') = Len(sent) + 1 /\ Len(sent) \in Nat
          /\ \A i \in 1 .. Len(sent) : sent'[i] = sent[i]
      BY <2>1, AppendProperties, LenProperties DEF Queueing
    <3>3. \A p \in 1 .. Len(pending) : pending[p].n \in 1 .. MaxSent
      <4>1. \A p \in 1 .. Len(pending) : pending[p] \in Cmd
        BY ElementOfSeq DEF Queueing
      <4> QED BY <4>1 DEF Cmd
    <3>0. Len(sent) + 1 \in 1 .. MaxSent /\ Len(sent) + 1 \in 1 .. Len(sent')
          /\ 1 .. Len(sent) \subseteq 1 .. Len(sent') /\ Len(sent') <= MaxSent
      BY <2>1, <3>2, LimitAssumption
    <3>4. Queueing'
      <4>1. applied' \subseteq 1 .. MaxSent /\ refused' \subseteq 1 .. MaxSent
        BY <3>0, <3>1 DEF Queueing
      <4> QED BY <1>e, <3>1, <3>2, <4>1 DEF Queueing
    <3>5. Bookkeeping'
      <4>1. Recorded'
        <5>1. applied' \subseteq 1 .. Len(sent') /\ refused' \subseteq 1 .. Len(sent')
          BY <3>0, <3>1 DEF Bookkeeping, Recorded
        <5>2. ASSUME NEW p \in 1 .. Len(pending)
              PROVE  /\ pending[p].n <= Len(sent') /\ pending[p].kind = sent'[pending[p].n]
                     /\ pending[p].kind # "other"
          <6>1. /\ pending[p].n \in 1 .. Len(sent) /\ pending[p].kind = sent[pending[p].n]
                /\ pending[p].kind # "other"
            BY <3>2, <3>3, <5>2, LimitAssumption DEF Bookkeeping, Recorded
          <6> QED BY <3>2, <6>1
        <5> QED BY <3>0, <3>1, <5>1, <5>2 DEF Recorded
      <4> QED BY <3>1, <4>1 DEF Bookkeeping
    <3>6. NothingLost'
      <4>1. Numbers(pending)' = Numbers(pending)
        BY <3>1 DEF Numbers
      <4> QED BY <2>1, <3>1, <4>1, StillNotLost
    <3> QED BY <3>4, <3>5, <3>6
  <2> QED BY <2>2, <2>3
<1>2. ASSUME UNCHANGED <<joined, pending, sent, applied, refused>>, batch' \in Seq(Cmd) PROVE Goal
  <2>1. Queueing'
    BY <1>2 DEF Queueing
  <2>2. Bookkeeping'
    BY <1>2 DEF Bookkeeping, Recorded
  <2>3. NothingLost'
    BY <1>2 DEF NothingLost, Numbers
  <2> QED BY <2>1, <2>2, <2>3
<1>3. ASSUME NEW t \in Timer, RetryCmd(t) PROVE Goal
  <2>1. CASE UNCHANGED <<pending, applied>> /\ batch' = <<>>
    BY <1>2, <1>3, <1>e, <2>1 DEF RetryCmd
  <2>2. CASE pending' = <<>> /\ batch' = pending /\ applied' = applied \cup Numbers(pending)
    <3>0. UNCHANGED <<joined, sent, refused>> /\ Len(pending') = 0
      BY <1>3, <1>e, <2>2 DEF RetryCmd
    <3>1. Numbers(pending) \subseteq 1 .. Len(sent)
      <4>1. \A p \in 1 .. Len(pending) : pending[p] \in Cmd
        BY ElementOfSeq DEF Queueing
      <4>2. \A p \in 1 .. Len(pending) : pending[p].n \in 1 .. MaxSent
        BY <4>1 DEF Cmd
      <4> QED BY <4>2, LenProperties, LimitAssumption
              DEF Numbers, Bookkeeping, Recorded, Queueing
    <3>2. Len(sent) \in Nat /\ Len(sent) <= MaxSent
      BY LenProperties DEF Queueing, Bookkeeping, Recorded
    <3>n. \A p : p \notin 1 .. Len(pending')
      BY <3>0
    <3>3. Queueing'
      <4>1. applied' \subseteq 1 .. MaxSent
        <5>1. 1 .. Len(sent) \subseteq 1 .. MaxSent
          BY <3>2, LimitAssumption
        <5> QED BY <2>2, <3>1, <5>1 DEF Queueing
      <4> QED BY <1>e, <2>2, <3>0, <3>n, <4>1 DEF Queueing, OnePerGroup
    <3>4. Bookkeeping'
      <4>1. applied' \subseteq 1 .. Len(sent)
        BY <2>2, <3>1 DEF Bookkeeping, Recorded
      <4> QED BY <3>0, <3>n, <4>1 DEF Bookkeeping, Recorded, Ascending
    <3>5. applied' \cup Numbers(pending)' = applied \cup Numbers(pending)
      BY <2>2, <3>0 DEF Numbers
    <3>6. NothingLost'
      BY <3>0, <3>5 DEF NothingLost
    <3> QED BY <3>3, <3>4, <3>6
  <2> QED BY <1>3, <2>1, <2>2 DEF RetryCmd, HandOver
<1>4. CASE Leave
  <2>1. /\ joined' = FALSE /\ pending' = <<>> /\ Len(pending') = 0 /\ batch' = <<>>
        /\ UNCHANGED <<sent, applied, refused>>
    BY <1>4, <1>e DEF Leave
  <2> QED BY <1>e, <2>1 DEF Queueing, OnePerGroup, Bookkeeping, Recorded, Ascending, NothingLost
<1>5. ASSUME Passes \/ Rotate \/ \E t \in Timer : Fire(t) PROVE Goal
  <2>1. UNCHANGED <<joined, pending, sent, applied, refused>> /\ batch' = <<>>
    BY <1>5 DEF Passes, Rotate, Fire, connVars
  <2> QED BY <1>2, <1>e, <2>1
<1>6. CASE UNCHANGED vars
  BY <1>2, <1>6 DEF vars, Queueing
<1> QED BY <1>1, <1>3, <1>4, <1>5, <1>6 DEF Next

-----------------------------------------------------------------------------
LEMMA CmdInit == Init => CmdInv
<1> SUFFICES ASSUME Init PROVE CmdInv
  OBVIOUS
<1> USE DEF Init
<1>1. Len(pending) = 0 /\ Len(sent) = 0 /\ Len(grants) = 0
      /\ <<>> \in Seq(Cmd) /\ <<>> \in Seq(Kind) /\ <<>> \in Seq(Nat)
  BY EmptySeq
<1>2. Timers /\ Limiting /\ Queueing
  BY <1>1, LimitAssumption DEF Timers, Limiting, Queueing, Buckets, OnePerGroup
<1>3. Bookkeeping /\ NothingLost
  BY <1>1, LimitAssumption DEF Bookkeeping, Recorded, Ascending, NothingLost
<1>4. NewestFirst /\ Budget /\ Paced
  BY <1>1, LimitAssumption DEF NewestFirst, Budget, Paced
<1> QED BY <1>2, <1>3, <1>4, TypeParts DEF CmdInv

LEMMA CmdStep == CmdInv /\ [Next]_vars => CmdInv'
<1> SUFFICES ASSUME CmdInv, [Next]_vars PROVE CmdInv'
  OBVIOUS
<1>0. Timers /\ Limiting /\ Queueing /\ Bookkeeping /\ NewestFirst /\ Budget /\ NothingLost /\ Paced
  BY TypeParts DEF CmdInv
<1>1. Timers'
  BY <1>0, TimersStep
<1>2. Queueing' /\ Bookkeeping' /\ NothingLost'
  BY <1>0, QueueStep
<1> DEFINE Limits == Limiting /\ NewestFirst /\ Budget /\ Paced
           Event == /\ UNCHANGED <<now, joined>>
                    /\ bucket' = Allow(bucket, now).bucket
                    /\ \/ Allow(bucket, now).ok /\ Granted
                       \/ ~Allow(bucket, now).ok /\ grants' = grants
<1>3. Limits'
  <2>1. ASSUME Event PROVE Limits'
    BY <1>0, <2>1, LimitStep DEF Limiting
  <2>2. ASSUME now' \in now .. MaxTime, joined' \in BOOLEAN, UNCHANGED <<bucket, grants>> PROVE Limits'
    <3>1. bucket.last \in Int /\ now \in 0 .. MaxTime
      BY <1>0 DEF Limiting, Buckets
    <3> QED BY <1>0, <2>2, <3>1, LimitAssumption DEF Limiting, NewestFirst, Budget, Paced
  <2>3. now \in now .. MaxTime /\ joined \in BOOLEAN
    BY <1>0, LimitAssumption DEF Limiting
  <2>4. ASSUME NEW kind \in Kind, Send(kind) PROVE Event
    BY <2>4 DEF Send
  <2>5. CASE Rotate
    <3>1. Event
      BY <2>5 DEF Rotate
    <3> HIDE DEF Limits, Event
    <3> QED BY <2>1, <3>1
  <2>6. ASSUME NEW t \in Timer, RetryCmd(t) PROVE Event \/ UNCHANGED <<now, joined, bucket, grants>>
    BY <2>6 DEF RetryCmd
  <2>7. CASE Passes
    <3>1. now' \in now .. MaxTime /\ UNCHANGED <<joined, bucket, grants>>
      BY <1>0, <2>7, LimitAssumption DEF Passes, connVars, Limiting
    <3> QED BY <2>2, <2>3, <3>1
  <2>8. CASE Leave
    <3>1. joined' \in BOOLEAN /\ UNCHANGED <<now, bucket, grants>>
      BY <2>8 DEF Leave
    <3> QED BY <2>2, <2>3, <3>1
  <2>9. ASSUME NEW t \in Timer, Fire(t) PROVE UNCHANGED <<now, joined, bucket, grants>>
    BY <2>9 DEF Fire, connVars
  <2>10. ASSUME UNCHANGED vars PROVE UNCHANGED <<now, joined, bucket, grants>>
    BY <2>10 DEF vars
  <2>11. ASSUME UNCHANGED <<now, joined, bucket, grants>> PROVE Limits'
    BY <2>2, <2>3, <2>11
  <2> HIDE DEF Limits, Event
  <2> QED BY <2>1, <2>4, <2>5, <2>6, <2>7, <2>8, <2>9, <2>10, <2>11 DEF Next
<1>4. TypeOK'
  BY <1>1, <1>2, <1>3 DEF TypeOK, Timers, Limiting, Queueing, Buckets, OnePerGroup
<1> QED BY <1>2, <1>3, <1>4 DEF CmdInv

LEMMA CmdCorrect == Spec => []CmdInv
BY CmdInit, CmdStep, PTL DEF Spec

(* No command of a member in the room is lost: it reached the room, is      *)
(* kept, was refused, or was made moot by a later one that was not lost     *)
(* either (handle, deferCmd, retryCmd, coalesce).                           *)
THEOREM CmdNothingLost == Spec => []NothingLost
<1>1. CmdInv => NothingLost
  BY DEF CmdInv
<1> QED BY <1>1, CmdCorrect, PTL

(* For every Burst: what the limit lets through next to a full burst comes  *)
(* an Interval after the last, unless a Cooldown of silence lies among the  *)
(* last Burst + 1, whichever of handlers and timers asked (throttle.allow). *)
THEOREM CmdPaced == Spec => []Paced
<1>1. CmdInv => Paced
  BY DEF CmdInv
<1> QED BY <1>1, CmdCorrect, PTL

(* The room hears the commands of a member in the order they were made, and *)
(* each at most once, across batches, folds and timers.                     *)
THEOREM CmdInSenderOrder == Spec => InSenderOrder
<1> DEFINE A == /\ \A i, j \in 1 .. Len(batch') : i < j => batch'[i].n < batch'[j].n
                /\ \A i \in Numbers(batch'), j \in applied : i > j
<1>1. CmdInv /\ [Next]_vars => [A]_vars
  <2> SUFFICES ASSUME CmdInv, Next PROVE A
    OBVIOUS
  <2>0. Queueing /\ Bookkeeping /\ NothingLost
    BY TypeParts DEF CmdInv
  <2>1. ASSUME batch' = <<>> PROVE A
    <3>1. Len(batch') = 0
      BY <2>1, EmptySeq
    <3> QED BY <3>1 DEF Numbers
  <2>2. ASSUME Ascending(batch'), \A p \in 1 .. Len(batch'), i \in applied : i < batch'[p].n PROVE A
    <3>1. ASSUME NEW p \in 1 .. Len(batch'), NEW i \in applied PROVE batch'[p].n > i
      BY <2>2, <3>1
    <3> QED BY <2>2, <3>1 DEF Numbers, Ascending
  <2>3. ASSUME NEW kind \in Kind, Send(kind) PROVE A
    <3> DEFINE v == Newest(kind)
               out == IF pending = <<>> THEN <<v>> ELSE Coalesce(pending, v)
    <3>1. /\ joined /\ Len(sent) < MaxSent /\ sent' = Append(sent, kind)
          /\ v = [kind |-> kind, n |-> Len(sent) + 1]
      BY <2>3 DEF Send, Newest
    <3>2. Takes(out, v)
      BY <2>0, <3>1, SendTakes
    <3>3. \/ batch' = <<>>
          \/ /\ pending' = <<>> /\ applied' = applied \cup Numbers(out) /\ batch' = out
             /\ refused' = refused
      BY <2>3, <3>1 DEF Send, HandOver
    <3> HIDE DEF v, out
    <3>4. batch' = out => Ascending(batch')
      BY <3>2 DEF Takes
    <3>5. CASE /\ pending' = <<>> /\ applied' = applied \cup Numbers(out) /\ batch' = out
               /\ refused' = refused
      <4>1. \A p \in 1 .. Len(out), i \in applied : i < out[p].n
        BY <2>0, <3>1, <3>2, <3>5, SendKeeps DEF v
      <4> QED BY <2>2, <3>4, <3>5, <4>1
    <3> QED BY <2>1, <3>3, <3>5
  <2>4. ASSUME NEW t \in Timer, RetryCmd(t) PROVE A
    <3>1. batch' = <<>> \/ batch' = pending
      BY <2>4 DEF RetryCmd, HandOver
    <3> QED BY <2>0, <2>1, <2>2, <3>1 DEF Bookkeeping
  <2>5. Passes \/ Leave \/ Rotate \/ (\E t \in Timer : Fire(t)) => batch' = <<>>
    BY DEF Passes, Leave, Rotate, Fire
  <2> QED BY <2>1, <2>3, <2>4, <2>5 DEF Next
<1>2. []CmdInv /\ [][Next]_vars => [][A]_vars
  BY <1>1, PTL
<1> QED BY <1>2, CmdCorrect, PTL DEF Spec, InSenderOrder

(* However long the limit stays shut, what is kept never grows beyond one   *)
(* media, one seek and one of play and pause (coalesce).                    *)
THEOREM CmdKeepsFew == Spec => [](Len(pending) <= 3)
<1>1. CmdInv => Len(pending) <= 3
  <2> SUFFICES ASSUME CmdInv, Len(pending) > 3 PROVE FALSE
    BY LenProperties, TypeParts DEF CmdInv, Queueing
  <2>1. \A p \in 1 .. Len(pending) : Group(pending[p].kind) \in {"media", "seek", "play"}
    <3>1. \A p \in 1 .. Len(pending) : pending[p] \in Cmd
      BY ElementOfSeq, TypeParts DEF CmdInv, Queueing
    <3> QED BY <3>1 DEF CmdInv, Bookkeeping, Recorded, Cmd, Kind, Group
  <2>2. {1, 2, 3, 4} \subseteq 1 .. Len(pending)
    BY LenProperties, TypeParts DEF CmdInv, Queueing
  <2>3. OnePerGroup(pending)
    BY TypeParts DEF CmdInv, Queueing
  <2>4. /\ Group(pending[1].kind) # Group(pending[2].kind)
        /\ Group(pending[1].kind) # Group(pending[3].kind)
        /\ Group(pending[1].kind) # Group(pending[4].kind)
        /\ Group(pending[2].kind) # Group(pending[3].kind)
        /\ Group(pending[2].kind) # Group(pending[4].kind)
        /\ Group(pending[3].kind) # Group(pending[4].kind)
    BY <2>2, <2>3 DEF OnePerGroup
  <2> QED BY <2>1, <2>2, <2>4
<1> QED BY <1>1, CmdCorrect, PTL

-----------------------------------------------------------------------------
(***************************************************************************)
(* Seeding.  An engine's fields, and the commands on their way.            *)
(***************************************************************************)
Fins == [key : Key, fresh : BOOLEAN, here : BOOLEAN]
Helds == [prev : Key, key : Key]
Conts == [key : Key, play : BOOLEAN, old : BOOLEAN]
Adopts == Media \cup {Null}
Acqs == {"detached", "conforming", "guarded", "steady"}
Jobs == {"none", "aimed", "overtaken"}
Links == {"down", "joined"}

Order == [kind : {"media", "play", "pause", "seek"},
          why : {"name", "seed", "carry", "start", "pressed", "chosen"},
          media : Key, if : Key \cup {Anything}, play : BOOLEAN]

(* An engine that is to seed knows that somebody moved the room since it    *)
(* set out, or its link is down and it will.                                *)
Remembers(e, o) == o /\ e.adopt # Null => e.foreign \/ (e.st = "down" /\ e.missed)

EngineFits(e, r, o) ==
  /\ e \in Engine
  /\ e.st = "joined" => e.view = r
  /\ Remembers(e, o)

SeedingInv ==
  /\ room \in Room /\ up \in [Member -> Seq(Order)] /\ eng \in [Member -> Engine]
  /\ over \in [Member -> BOOLEAN] /\ owed \in Member \cup {Nobody} /\ left \in 0..Events
  /\ \A m \in Member : EngineFits(eng[m], room, over[m])

SeedsOnlyItsOwn == \A m \in Member : SentSeed(m) => ~over[m]

LEMMA EngineShape ==
  Engine = [st : Links, welcomed : BOOLEAN, clock : BOOLEAN, hidden : BOOLEAN,
            local : Key, view : Room, missed : BOOLEAN, acq : Acqs, job : Jobs,
            adopt : Adopts, foreign : BOOLEAN, named : Key, fin : Fins, held : Helds, cont : Conts]
BY DEF Engine, Fins, Helds, Conts, Adopts, Acqs, Jobs, Links

LEMMA EngineFields ==
  ASSUME NEW e \in Engine
  PROVE  /\ e.st \in Links /\ e.welcomed \in BOOLEAN /\ e.clock \in BOOLEAN /\ e.hidden \in BOOLEAN
         /\ e.local \in Key /\ e.view \in Room /\ e.missed \in BOOLEAN /\ e.acq \in Acqs
         /\ e.job \in Jobs /\ e.adopt \in Adopts /\ e.foreign \in BOOLEAN /\ e.named \in Key
         /\ e.fin \in Fins /\ e.held \in Helds /\ e.cont \in Conts
BY EngineShape

LEMMA Values ==
  /\ NoMedia \in Key /\ Media \subseteq Key /\ Null \in Adopts /\ Media \subseteq Adopts
  /\ NoFinish \in Fins /\ NoHeld \in Helds /\ NoCont \in Conts
  /\ \A a \in Adopts : a # Null => a \in Media
  /\ "detached" \in Acqs /\ "conforming" \in Acqs /\ "guarded" \in Acqs /\ "steady" \in Acqs
  /\ "none" \in Jobs /\ "aimed" \in Jobs /\ "overtaken" \in Jobs
  /\ "down" \in Links /\ "joined" \in Links
BY DEF Key, Adopts, NoFinish, NoHeld, NoCont, Fins, Helds, Conts, Acqs, Jobs, Links

LEMMA RoomFields ==
  ASSUME NEW r \in Room
  PROVE  r.media \in Key /\ r.paused \in BOOLEAN
BY DEF Room

LEMMA FinFields ==
  ASSUME NEW f \in Fins, NEW b \in BOOLEAN
  PROVE  f.key \in Key /\ [f EXCEPT !.here = b] \in Fins /\ [f EXCEPT !.fresh = b] \in Fins
BY DEF Fins

LEMMA ContFields ==
  ASSUME NEW c \in Conts, NEW b \in BOOLEAN
  PROVE  c.key \in Key /\ c.play \in BOOLEAN /\ [c EXCEPT !.old = b] \in Conts
BY DEF Conts

LEMMA HeldFields ==
  ASSUME NEW h \in Helds
  PROVE  h.prev \in Key /\ h.key \in Key
BY DEF Helds

(***************************************************************************)
(* A step of one engine alone, and what it sends: it hears nothing, and    *)
(* seeds only if it is to and knows of no move.                            *)
(***************************************************************************)
Unmoved(e, n) ==
  /\ n \in Engine /\ n.st = e.st /\ n.view = e.view /\ n.missed = e.missed /\ n.foreign = e.foreign
  /\ n.adopt = e.adopt \/ n.adopt = Null

MaySeed(e) == e.st = "joined" /\ e.adopt # Null /\ ~e.foreign

Sends(e, cmds) ==
  /\ cmds \in Seq(Order)
  /\ \A i \in 1..Len(cmds) : cmds[i].why = "seed" => MaySeed(e)

Goes(e, next) == Unmoved(e, next.e) /\ Sends(e, next.cmds)

LEMMA UnmovedOfUnmoved ==
  ASSUME NEW c, NEW d, NEW e, Unmoved(c, d), Unmoved(d, e)
  PROVE  Unmoved(c, e)
BY DEF Unmoved

LEMMA UnmovedSelf ==
  ASSUME NEW e \in Engine
  PROVE  Unmoved(e, e)
BY DEF Unmoved

LEMMA UnmovedFits ==
  ASSUME NEW e, NEW n, NEW r, NEW o, EngineFits(e, r, o), Unmoved(e, n)
  PROVE  EngineFits(n, r, o)
BY DEF EngineFits, Unmoved, Remembers

LEMMA NothingSent ==
  ASSUME NEW e
  PROVE  Sends(e, <<>>)
BY DEF Sends

LEMMA OneSent ==
  ASSUME NEW e, NEW c \in Order, c.why = "seed" => MaySeed(e)
  PROVE  Sends(e, <<c>>)
<1>1. <<c>> \in Seq(Order) /\ Len(<<c>>) = 1 /\ <<c>>[1] = c
  OBVIOUS
<1> QED BY <1>1 DEF Sends

LEMMA BothSent ==
  ASSUME NEW e, NEW b, NEW c, Sends(e, b), Sends(e, c)
  PROVE  Sends(e, b \o c)
<1>1. b \in Seq(Order) /\ c \in Seq(Order) /\ Len(b) \in Nat /\ Len(c) \in Nat
  BY DEF Sends
<1>2. /\ b \o c \in Seq(Order) /\ Len(b \o c) = Len(b) + Len(c)
      /\ \A i \in 1..(Len(b) + Len(c)) : (b \o c)[i] = IF i <= Len(b) THEN b[i] ELSE c[i - Len(b)]
  BY <1>1, ConcatProperties
<1> DEFINE s == b \o c
<1> HIDE DEF s
<1>3. ASSUME NEW i \in 1..Len(s), s[i].why = "seed" PROVE MaySeed(e)
  <2>1. CASE i <= Len(b)
    BY <1>1, <1>2, <1>3, <2>1 DEF Sends, s
  <2>2. CASE i > Len(b)
    <3>1. i - Len(b) \in 1..Len(c) /\ s[i] = c[i - Len(b)]
      BY <1>1, <1>2, <2>2 DEF s
    <3> QED BY <1>3, <3>1 DEF Sends
  <2> QED BY <1>1, <1>2, <2>1, <2>2 DEF s
<1> QED BY <1>2, <1>3 DEF Sends, s

LEMMA CommandIs ==
  ASSUME NEW kind \in {"media", "play", "pause", "seek"},
         NEW why \in {"name", "seed", "carry", "start", "pressed", "chosen"},
         NEW k \in Key, NEW if \in Key \cup {Anything}
  PROVE  Command(kind, why, k, if) \in Order /\ Command(kind, why, k, if).why = why
BY DEF Command, Order

LEMMA PlayPut ==
  ASSUME NEW c \in Order, NEW b \in BOOLEAN
  PROVE  [c EXCEPT !.play = b] \in Order /\ [c EXCEPT !.play = b].why = c.why
BY DEF Order

LEMMA SilentGoes ==
  ASSUME NEW e, NEW n, Unmoved(e, n)
  PROVE  Goes(e, Silent(n))
BY NothingSent DEF Goes, Silent

(***************************************************************************)
(* One field at a time.                                                    *)
(***************************************************************************)
LEMMA ClockPut ==
  ASSUME NEW e \in Engine, NEW b \in BOOLEAN
  PROVE  Unmoved(e, [e EXCEPT !.clock = b])
BY EngineShape DEF Unmoved

LEMMA HiddenPut ==
  ASSUME NEW e \in Engine, NEW b \in BOOLEAN
  PROVE  Unmoved(e, [e EXCEPT !.hidden = b])
BY EngineShape DEF Unmoved

LEMMA LocalPut ==
  ASSUME NEW e \in Engine, NEW k \in Key
  PROVE  Unmoved(e, [e EXCEPT !.local = k])
BY EngineShape DEF Unmoved

LEMMA AcqPut ==
  ASSUME NEW e \in Engine, NEW k \in Acqs
  PROVE  Unmoved(e, [e EXCEPT !.acq = k])
BY EngineShape DEF Unmoved

LEMMA JobPut ==
  ASSUME NEW e \in Engine, NEW k \in Jobs
  PROVE  Unmoved(e, [e EXCEPT !.job = k])
BY EngineShape DEF Unmoved

LEMMA AdoptPut ==
  ASSUME NEW e \in Engine
  PROVE  Unmoved(e, [e EXCEPT !.adopt = Null])
BY EngineShape, Values DEF Unmoved

LEMMA FinPut ==
  ASSUME NEW e \in Engine, NEW k \in Fins
  PROVE  Unmoved(e, [e EXCEPT !.fin = k])
BY EngineShape DEF Unmoved

LEMMA HeldPut ==
  ASSUME NEW e \in Engine, NEW k \in Helds
  PROVE  Unmoved(e, [e EXCEPT !.held = k])
BY EngineShape DEF Unmoved

LEMMA ContPut ==
  ASSUME NEW e \in Engine, NEW k \in Conts
  PROVE  Unmoved(e, [e EXCEPT !.cont = k])
BY EngineShape DEF Unmoved

(***************************************************************************)
(* What an engine does by itself.                                          *)
(***************************************************************************)
LEMMA EpochUnmoved ==
  ASSUME NEW e \in Engine
  PROVE  Unmoved(e, NewMediaEpoch(e))
<1> DEFINE f == [e.fin EXCEPT !.here = FALSE]
           n == [[[e EXCEPT !.acq = "detached"] EXCEPT !.job = "none"] EXCEPT !.fin = f]
<1>1. f \in Fins
  BY EngineFields, FinFields
<1>2. NewMediaEpoch(e) = n
  BY EngineShape DEF NewMediaEpoch
<1> HIDE DEF f
<1> DEFINE a == [e EXCEPT !.acq = "detached"]
<1>3. Unmoved(e, a)
  BY AcqPut, Values
<1> HIDE DEF a
<1> DEFINE b == [a EXCEPT !.job = "none"]
<1>4. Unmoved(a, b)
  BY <1>3, JobPut, Values DEF Unmoved
<1> HIDE DEF b
<1>5. Unmoved(b, [b EXCEPT !.fin = f])
  BY <1>1, <1>4, FinPut DEF Unmoved
<1>6. Unmoved(e, [b EXCEPT !.fin = f])
  BY <1>3, <1>4, <1>5, UnmovedOfUnmoved
<1> QED BY <1>2, <1>6 DEF a, b

LEMMA RenamedUnmoved ==
  ASSUME NEW e \in Engine, NEW k \in Key
  PROVE  Unmoved(e, Renamed(e, k))
<1> DEFINE a == NewMediaEpoch(e)
           n == [a EXCEPT !.local = k, !.adopt = Null, !.fin = NoFinish, !.held = NoHeld]
<1>1. Unmoved(e, a) /\ a \in Engine
  BY EpochUnmoved DEF Unmoved
<1>2. Renamed(e, k) = n
  BY DEF Renamed
<1> HIDE DEF a
<1>3. Unmoved(a, n)
  BY <1>1, EngineShape, Values DEF Unmoved
<1> QED BY <1>1, <1>2, <1>3, UnmovedOfUnmoved

LEMMA CarryGoes ==
  ASSUME NEW e \in Engine, NEW p \in Key, NEW k \in Key
  PROVE  Goes(e, Carry(e, p, k))
<1> DEFINE h == [prev |-> p, key |-> k]
           b == ~e.view.paused
           c == [key |-> k, play |-> b, old |-> FALSE]
           s == [Command("media", "carry", k, p) EXCEPT !.play = b]
<1>1. h \in Helds /\ c \in Conts /\ b \in BOOLEAN /\ FALSE \in BOOLEAN
  BY EngineFields, RoomFields DEF Helds, Conts
<1>2. s \in Order /\ s.why = "carry"
  <2>1. Command("media", "carry", k, p) \in Order /\ Command("media", "carry", k, p).why = "carry"
    BY CommandIs
  <2> QED BY <1>1, <2>1, PlayPut
<1>3. Carry(e, p, k) = IF e.hidden THEN [e |-> [e EXCEPT !.held = h], cmds |-> <<>>]
                       ELSE [e |-> [e EXCEPT !.cont = c], cmds |-> <<s>>]
  BY DEF Carry
<1> HIDE DEF h, c, s, b
<1>4. Unmoved(e, [e EXCEPT !.held = h]) /\ Unmoved(e, [e EXCEPT !.cont = c])
  BY <1>1, HeldPut, ContPut
<1>5. Sends(e, <<s>>) /\ Sends(e, <<>>)
  BY <1>2, OneSent, NothingSent
<1>6. \A n, cs : LET x == [e |-> n, cmds |-> cs] IN x.e = n /\ x.cmds = cs
  OBVIOUS
<1> QED BY <1>3, <1>4, <1>5, <1>6 DEF Goes

LEMMA StartGoes ==
  ASSUME NEW e \in Engine
  PROVE  Goes(e, Start(e))
<1> DEFINE n == [e EXCEPT !.cont = NoCont]
           s == Command("play", "start", NoMedia, Anything)
           cs == IF e.cont.play THEN <<s>> ELSE <<>>
<1>1. Unmoved(e, n) /\ Unmoved(e, e)
  BY ContPut, Values, UnmovedSelf
<1>2. s \in Order /\ s.why = "start"
  <2>1. FALSE \in BOOLEAN /\ Anything \in Key \cup {Anything}
    OBVIOUS
  <2> HIDE DEF s
  <2> QED BY <2>1, Values, CommandIs DEF s
<1>3. Start(e) = IF e.cont.old THEN [e |-> n, cmds |-> <<>>]
                 ELSE IF e.cont = NoCont \/ e.cont.key # e.view.media THEN [e |-> e, cmds |-> <<>>]
                 ELSE [e |-> n, cmds |-> cs]
  BY DEF Start
<1> HIDE DEF n, s
<1>4. Sends(e, cs) /\ Sends(e, <<>>)
  BY <1>2, OneSent, NothingSent
<1> HIDE DEF cs
<1>5. \A x, ds : LET y == [e |-> x, cmds |-> ds] IN y.e = x /\ y.cmds = ds
  OBVIOUS
<1> QED BY <1>1, <1>3, <1>4, <1>5 DEF Goes

LEMMA SeedSent ==
  ASSUME NEW e, MaySeed(e), NEW playing \in BOOLEAN
  PROVE  Sends(e, Seed(playing))
<1> DEFINE s == Command("seek", "seed", NoMedia, Anything)
           p == Command("play", "seed", NoMedia, Anything)
<1>1. FALSE \in BOOLEAN /\ Anything \in Key \cup {Anything}
  OBVIOUS
<1>2. s \in Order /\ p \in Order
  BY <1>1, Values, CommandIs
<1>3. Seed(playing) = <<s>> \o IF playing THEN <<p>> ELSE <<>>
  BY DEF Seed
<1> HIDE DEF s, p
<1>4. Sends(e, <<s>>) /\ Sends(e, IF playing THEN <<p>> ELSE <<>>)
  BY <1>2, OneSent, NothingSent
<1> QED BY <1>3, <1>4, BothSent

LEMMA ToSteadyGoes ==
  ASSUME NEW e \in Engine, e.st = "joined", NEW playing \in BOOLEAN
  PROVE  /\ Goes(e, ToSteady(e, playing))
         /\ e.foreign \/ ~(e.adopt # Null /\ e.adopt = e.view.media) =>
              ToSteady(e, playing).cmds = <<>>
<1> DEFINE s == [e EXCEPT !.acq = "steady"]
           a == [s EXCEPT !.adopt = Null]
           cs == IF e.foreign THEN <<>> ELSE Seed(playing)
<1>1. Unmoved(e, s) /\ s \in Engine
  BY AcqPut, Values DEF Unmoved
<1>2. ToSteady(e, playing) = IF ~Seeds(e) THEN [e |-> s, cmds |-> <<>>] ELSE [e |-> a, cmds |-> cs]
  BY DEF ToSteady
<1>3. /\ Seeds(e) /\ ~e.foreign => MaySeed(e)
      /\ ~(e.adopt # Null /\ e.adopt = e.view.media) => ~Seeds(e)
  BY DEF MaySeed, Seeds
<1> HIDE DEF s
<1>4. Unmoved(e, a)
  BY <1>1, AdoptPut, UnmovedOfUnmoved
<1>5. Seeds(e) => Sends(e, cs)
  BY <1>3, SeedSent, NothingSent
<1>6. Sends(e, <<>>) /\ (e.foreign => cs = <<>>)
  BY NothingSent
<1> HIDE DEF a, cs
<1>7. \A x, ds : LET y == [e |-> x, cmds |-> ds] IN y.e = x /\ y.cmds = ds
  OBVIOUS
<1> QED BY <1>1, <1>2, <1>3, <1>4, <1>5, <1>6, <1>7 DEF Goes

(* What was quiet for a while goes on as it would have.                    *)
LEMMA ThenGoes ==
  ASSUME NEW e, NEW n, NEW next, Unmoved(e, n), Goes(n, next),
         MaySeed(n) => MaySeed(e)
  PROVE  Goes(e, next)
<1>1. Unmoved(e, next.e)
  BY UnmovedOfUnmoved DEF Goes
<1> QED BY <1>1 DEF Goes, Sends

LEMMA UnmovedMaySeed ==
  ASSUME NEW e, NEW n, Unmoved(e, n), MaySeed(n)
  PROVE  MaySeed(e)
BY DEF Unmoved, MaySeed

(***************************************************************************)
(* What an engine hears of the room.                                       *)
(***************************************************************************)
LEMMA MovedIs ==
  ASSUME NEW e \in Engine, NEW r \in Room
  PROVE  LET n == Moved(e, r)
         IN  /\ n \in Engine /\ n.st = e.st /\ n.view = r /\ n.missed = e.missed
             /\ n.adopt = e.adopt /\ n.foreign = e.foreign
<1> DEFINE job == IF e.job = "none" THEN e.job ELSE "overtaken"
           a == [e EXCEPT !.view = r, !.job = job]
           f == [a.fin EXCEPT !.here = FALSE]
           b == [a EXCEPT !.acq = "detached", !.job = "none", !.fin = f]
<1>1. job \in Jobs
  BY EngineFields, Values
<1>2. Moved(e, r) = IF r.media # e.view.media THEN NewMediaEpoch(a) ELSE a
  BY DEF Moved
<1> HIDE DEF job
<1>3. /\ a \in Engine /\ a.st = e.st /\ a.view = r /\ a.missed = e.missed
      /\ a.adopt = e.adopt /\ a.foreign = e.foreign
  BY <1>1, EngineShape
<1> HIDE DEF a
<1>4. NewMediaEpoch(a) = b
  BY <1>3, EngineShape DEF NewMediaEpoch
<1>5. f \in Fins
  <2>1. FALSE \in BOOLEAN /\ a.fin \in Fins
    BY <1>3, EngineFields
  <2> QED BY <2>1, FinFields
<1> HIDE DEF f
<1>6. /\ b \in Engine /\ b.st = a.st /\ b.view = a.view /\ b.missed = a.missed
      /\ b.adopt = a.adopt /\ b.foreign = a.foreign
  BY <1>3, <1>5, EngineShape, Values
<1> HIDE DEF b
<1> QED BY <1>2, <1>3, <1>4, <1>6

(* Whoever is in the room hears every move of it, and a seeder remembers    *)
(* those of others.                                                         *)
LEMMA TakenFits ==
  ASSUME NEW e, NEW q, NEW o \in BOOLEAN, EngineFits(e, q, o), e.st = "joined",
         NEW r \in Room, NEW own \in BOOLEAN
  PROVE  EngineFits(Taken(e, r, own), r, o \/ ~own)
<1> DEFINE foreign == e.foreign \/ (~own /\ e.adopt # Null)
           a == [e EXCEPT !.foreign = foreign]
           n == Moved(a, r)
<1>1. e \in Engine /\ foreign \in BOOLEAN
  BY EngineFields DEF EngineFits
<1>2. Taken(e, r, own) = n
  BY DEF Taken
<1>3. foreign <=> e.foreign \/ (~own /\ e.adopt # Null)
  OBVIOUS
<1> HIDE DEF foreign
<1>4. /\ a \in Engine /\ a.st = e.st /\ a.missed = e.missed /\ a.adopt = e.adopt
      /\ a.foreign = foreign
  BY <1>1, EngineShape
<1> HIDE DEF a
<1>5. /\ n \in Engine /\ n.st = a.st /\ n.view = r /\ n.missed = a.missed /\ n.adopt = a.adopt
      /\ n.foreign = a.foreign
  BY <1>4, MovedIs
<1> HIDE DEF n
<1>6. o \/ ~own => o \/ ~own
  OBVIOUS
<1>7. Remembers(n, o \/ ~own)
  BY <1>3, <1>4, <1>5 DEF EngineFits, Remembers
<1> QED BY <1>2, <1>5, <1>7 DEF EngineFits

(* A welcome makes up for what was missed. *)
LEMMA WelcomeFits ==
  ASSUME NEW e, NEW r \in Room, NEW o, EngineFits(e, r, o), e.st = "down"
  PROVE  EngineFits(Welcome(e, r), r, o)
<1> DEFINE foreign == e.foreign \/ (e.missed /\ e.adopt # Null)
           cont == IF e.cont.key = r.media THEN e.cont ELSE NoCont
           yes == TRUE
           no == FALSE
           a == [e EXCEPT !.st = "joined", !.missed = no, !.welcomed = yes, !.named = NoMedia,
                          !.foreign = foreign, !.cont = cont]
           b == [a EXCEPT !.view = r]
           c == Moved(a, r)
<1>1. e \in Engine /\ foreign \in BOOLEAN /\ cont \in Conts /\ yes \in BOOLEAN /\ no \in BOOLEAN
  BY EngineFields, Values DEF EngineFits
<1>2. Welcome(e, r) = IF e.welcomed THEN c ELSE b
  BY <1>1, EngineShape DEF Welcome
<1>3. foreign <=> e.foreign \/ (e.missed /\ e.adopt # Null)
  OBVIOUS
<1> HIDE DEF foreign, cont, yes, no
<1>4. a \in Engine /\ a.st = "joined" /\ a.adopt = e.adopt /\ a.foreign = foreign
  BY <1>1, EngineShape, Values
<1> HIDE DEF a
<1>5. c \in Engine /\ c.view = r /\ c.adopt = a.adopt /\ c.foreign = a.foreign
  BY <1>4, MovedIs
<1>6. b \in Engine /\ b.view = r /\ b.adopt = a.adopt /\ b.foreign = a.foreign
  BY <1>4, EngineShape
<1> HIDE DEF b, c
<1>7. EngineFits(b, r, o) /\ EngineFits(c, r, o)
  BY <1>3, <1>4, <1>5, <1>6 DEF EngineFits, Remembers
<1> QED BY <1>2, <1>7

(***************************************************************************)
(* Steps.                                                                  *)
(***************************************************************************)
Counts == owed \in Member \cup {Nobody} /\ left \in 0..Events

LEMMA SeedingInvIs ==
  ASSUME SeedingInv, NEW m \in Member
  PROVE  /\ eng[m] \in Engine /\ EngineFits(eng[m], room, over[m]) /\ up[m] \in Seq(Order)
         /\ over[m] \in BOOLEAN /\ room \in Room /\ Counts
         /\ over = [over EXCEPT ![m] = over[m]]
BY DEF SeedingInv, Counts

(* What was sent last is what a step added. *)
LEMMA BecomesSends ==
  ASSUME SeedingInv, NEW m \in Member, NEW next, Becomes(m, next), Sends(eng[m], next.cmds),
         NEW k \in Member, SentSeed(k)
  PROVE  k = m /\ MaySeed(eng[m])
<1> DEFINE cs == next.cmds
           u == up[m]
<1>1. up' = [up EXCEPT ![m] = u \o cs] /\ u \in Seq(Order) /\ cs \in Seq(Order)
  BY DEF Becomes, SeedingInv, Sends
<1>2. up'[m] = u \o cs /\ \A j \in Member : j # m => up'[j] = up[j]
  BY <1>1 DEF SeedingInv
<1>3. k = m
  <2>1. ASSUME k # m PROVE FALSE
    <3>1. up'[k] = up[k] /\ Len(up[k]) \in Nat
      BY <1>2, <2>1 DEF SeedingInv
    <3> QED BY <3>1 DEF SentSeed
  <2> QED BY <2>1
<1> HIDE DEF u, cs
<1>4. /\ Len(u) \in Nat /\ Len(cs) \in Nat /\ Len(u \o cs) = Len(u) + Len(cs)
      /\ \A i \in 1..(Len(u) + Len(cs)) : (u \o cs)[i] = IF i <= Len(u) THEN u[i] ELSE cs[i - Len(u)]
  BY <1>1, ConcatProperties
<1>5. Len(up'[m]) > Len(u) /\ up'[m][Len(u) + 1].why = "seed"
  BY <1>3 DEF SentSeed, u
<1>6. Len(cs) >= 1 /\ (u \o cs)[Len(u) + 1] = cs[1]
  <2>1. Len(cs) >= 1
    BY <1>2, <1>4, <1>5
  <2>2. Len(u) + 1 \in 1..(Len(u) + Len(cs)) /\ ~(Len(u) + 1 <= Len(u)) /\ Len(u) + 1 - Len(u) = 1
    BY <1>4, <2>1
  <2>3. (u \o cs)[Len(u) + 1] = cs[Len(u) + 1 - Len(u)]
    BY <1>4, <2>2
  <2> QED BY <2>1, <2>2, <2>3
<1>7. 1 \in 1..Len(cs) /\ cs[1].why = "seed"
  BY <1>2, <1>4, <1>5, <1>6
<1> QED BY <1>3, <1>7 DEF Sends, cs

LEMMA BecomesInv ==
  ASSUME SeedingInv, NEW m \in Member, NEW next, Becomes(m, next), Sends(eng[m], next.cmds),
         NEW o \in BOOLEAN, over' = [over EXCEPT ![m] = o], EngineFits(next.e, room, o),
         room' = room, Counts'
  PROVE  SeedingInv' /\ SeedsOnlyItsOwn
<1> DEFINE n == next.e
           cs == next.cmds
           u == up[m]
<1>1. /\ eng' = [eng EXCEPT ![m] = n] /\ up' = [up EXCEPT ![m] = u \o cs]
      /\ u \in Seq(Order) /\ cs \in Seq(Order) /\ n \in Engine
  BY DEF Becomes, SeedingInv, Sends, EngineFits
<1>2. u \o cs \in Seq(Order)
  BY <1>1, ConcatProperties
<1>3. /\ eng' \in [Member -> Engine] /\ up' \in [Member -> Seq(Order)] /\ over' \in [Member -> BOOLEAN]
      /\ eng'[m] = n /\ over'[m] = o
      /\ \A k \in Member : k # m => eng'[k] = eng[k] /\ over'[k] = over[k]
  BY <1>1, <1>2 DEF SeedingInv
<1>4. ASSUME NEW k \in Member PROVE EngineFits(eng'[k], room', over'[k])
  BY <1>3 DEF SeedingInv
<1>5. SeedingInv'
  BY <1>3, <1>4 DEF SeedingInv, Counts
<1>6. ASSUME NEW k \in Member, SentSeed(k) PROVE ~over[k]
  <2>1. k = m /\ MaySeed(eng[m])
    BY <1>6, BecomesSends
  <2> QED BY <2>1, SeedingInvIs DEF MaySeed, EngineFits, Remembers
<1> QED BY <1>5, <1>6 DEF SeedsOnlyItsOwn

LEMMA GoesInv ==
  ASSUME SeedingInv, NEW m \in Member, NEW next, Becomes(m, next), Goes(eng[m], next),
         over' = over, room' = room, Counts'
  PROVE  SeedingInv' /\ SeedsOnlyItsOwn
<1>1. EngineFits(next.e, room, over[m]) /\ Sends(eng[m], next.cmds)
  BY SeedingInvIs, UnmovedFits DEF Goes
<1> QED BY <1>1, SeedingInvIs, BecomesInv

LEMMA FewerSent ==
  ASSUME SeedingInv, NEW m \in Member, NEW s \in Seq(Order), up' = [up EXCEPT ![m] = s],
         Len(s) <= Len(up[m])
  PROVE  up' \in [Member -> Seq(Order)] /\ SeedsOnlyItsOwn
<1>1. up' \in [Member -> Seq(Order)] /\ \A k \in Member : up'[k] = IF k = m THEN s ELSE up[k]
  BY DEF SeedingInv
<1>2. ASSUME NEW k \in Member PROVE ~SentSeed(k)
  <2>1. Len(up[k]) \in Nat /\ Len(up[m]) \in Nat /\ Len(s) \in Nat
    BY DEF SeedingInv
  <2>2. Len(up'[k]) <= Len(up[k])
    BY <1>1, <2>1
  <2>3. Len(up'[k]) \in Nat
    BY <1>1
  <2> QED BY <2>1, <2>2, <2>3 DEF SentSeed
<1> QED BY <1>1, <1>2 DEF SeedsOnlyItsOwn

LEMMA ServeInv ==
  ASSUME SeedingInv, NEW m \in Member, Serve(m)
  PROVE  SeedingInv' /\ SeedsOnlyItsOwn
<1> DEFINE u == up[m]
           c == Head(u)
           r == After(c)
           e(n) == IF eng[n].st = "down" THEN [eng[n] EXCEPT !.missed = TRUE]
                   ELSE Taken(eng[n], r, n = m)
           o(n) == over[n] \/ n # m
           quiet == IF eng[m].st = "down" THEN eng[m] ELSE [eng[m] EXCEPT !.cont = NoCont]
<1>1. /\ u # <<>> /\ u \in Seq(Order) /\ up' = [up EXCEPT ![m] = Tail(u)] /\ left' = left /\ Counts
      /\ eng[m] \in Engine /\ room \in Room
  BY SeedingInvIs DEF Serve
<1>2. Tail(u) \in Seq(Order) /\ Len(Tail(u)) <= Len(u) /\ c \in Order
  BY <1>1, HeadTailProperties
<1>3. up' \in [Member -> Seq(Order)] /\ SeedsOnlyItsOwn
  BY <1>1, <1>2, FewerSent
<1>4. CASE Stale(c)
  <2>1. eng' = [eng EXCEPT ![m] = quiet] /\ UNCHANGED server
    BY <1>4 DEF Serve
  <2>2. Unmoved(eng[m], quiet)
    BY <1>1, ContPut, Values, UnmovedSelf
  <2> HIDE DEF quiet
  <2>3. /\ eng' \in [Member -> Engine] /\ eng'[m] = quiet
        /\ \A k \in Member : k # m => eng'[k] = eng[k]
    BY <2>1, <2>2 DEF SeedingInv, Unmoved
  <2>4. EngineFits(quiet, room, over[m])
    BY <2>2, SeedingInvIs, UnmovedFits
  <2>5. \A k \in Member : EngineFits(eng'[k], room, over[k])
    BY <2>3, <2>4 DEF SeedingInv
  <2> QED BY <1>1, <1>3, <2>1, <2>3, <2>5 DEF SeedingInv, server
<1>5. CASE ~Stale(c)
  <2>1. /\ room' = r /\ eng' = [n \in Member |-> e(n)] /\ over' = [n \in Member |-> o(n)]
        /\ owed' \in Member \cup {Nobody}
    BY <1>5 DEF Serve
  <2>2. r \in Room
    <3>1. c.media \in Key
      BY <1>2 DEF Order
    <3> HIDE DEF c
    <3> QED BY <1>1, <3>1, RoomFields DEF After, Room
  <2> HIDE DEF r
  <2>3. ASSUME NEW n \in Member PROVE EngineFits(e(n), r, o(n)) /\ o(n) \in BOOLEAN
    <3>1. eng[n] \in Engine /\ EngineFits(eng[n], room, over[n]) /\ over[n] \in BOOLEAN
      BY SeedingInvIs
    <3>2. CASE eng[n].st = "down"
      <4> DEFINE yes == TRUE
                 y == [eng[n] EXCEPT !.missed = yes]
      <4>1. e(n) = y /\ yes \in BOOLEAN /\ yes
        BY <3>2
      <4> HIDE DEF yes
      <4>2. y \in Engine /\ y.st = "down" /\ y.missed = yes
        BY <3>1, <3>2, <4>1, EngineShape
      <4> HIDE DEF y
      <4> QED BY <4>1, <4>2 DEF EngineFits, Remembers
    <3>3. CASE eng[n].st # "down"
      <4>1. eng[n].st = "joined"
        BY <3>1, <3>3, EngineFields DEF Links
      <4>2. (n = m) \in BOOLEAN /\ (over[n] \/ ~(n = m) <=> o(n)) /\ o(n) \in BOOLEAN
        BY <3>1
      <4> DEFINE own == n = m
      <4>3. EngineFits(Taken(eng[n], r, own), r, over[n] \/ ~own)
        <5>1. own \in BOOLEAN
          OBVIOUS
        <5> HIDE DEF own, e, o
        <5> QED BY <2>2, <3>1, <4>1, <5>1, TakenFits
      <4>4. e(n) = Taken(eng[n], r, own)
        BY <3>3
      <4>5. (over[n] \/ ~own) <=> o(n)
        OBVIOUS
      <4> HIDE DEF own, e, o
      <4> QED BY <4>2, <4>3, <4>4, <4>5 DEF EngineFits, Remembers
    <3> QED BY <3>2, <3>3
  <2> HIDE DEF e, o
  <2>4. eng' \in [Member -> Engine] /\ over' \in [Member -> BOOLEAN]
        /\ \A n \in Member : eng'[n] = e(n) /\ over'[n] = o(n)
    BY <2>1, <2>3 DEF EngineFits
  <2>5. \A n \in Member : EngineFits(eng'[n], r, over'[n])
    BY <2>3, <2>4
  <2> QED BY <1>1, <1>3, <2>1, <2>2, <2>4, <2>5 DEF SeedingInv, Counts
<1> QED BY <1>4, <1>5

LEMMA JoinsInv ==
  ASSUME SeedingInv, NEW m \in Member, Joins(m)
  PROVE  SeedingInv' /\ SeedsOnlyItsOwn
<1> DEFINE e == Welcome(eng[m], room)
           s == <<>>
<1>1. /\ eng' = [eng EXCEPT ![m] = e] /\ up' = [up EXCEPT ![m] = s] /\ UNCHANGED <<server, left>>
      /\ s \in Seq(Order) /\ Len(s) <= Len(up[m]) /\ eng[m].st = "down"
  BY SeedingInvIs DEF Joins
<1> HIDE DEF s
<1>2. up' \in [Member -> Seq(Order)] /\ SeedsOnlyItsOwn
  BY <1>1, FewerSent
<1>3. EngineFits(e, room, over[m])
  BY <1>1, SeedingInvIs, WelcomeFits
<1> HIDE DEF e
<1>4. /\ eng' \in [Member -> Engine] /\ eng'[m] = e /\ \A k \in Member : k # m => eng'[k] = eng[k]
  BY <1>1, <1>3 DEF SeedingInv, EngineFits
<1>5. \A k \in Member : EngineFits(eng'[k], room, over[k])
  BY <1>3, <1>4 DEF SeedingInv
<1> QED BY <1>1, <1>2, <1>4, <1>5 DEF SeedingInv, server

(* Who names a room sets out anew. *)
LEMMA NamesInv ==
  ASSUME SeedingInv, NEW m \in Member, Names(m)
  PROVE  SeedingInv' /\ SeedsOnlyItsOwn
<1> DEFINE e == eng[m]
           k == e.local
           no == FALSE
           n == [e EXCEPT !.named = k, !.adopt = k, !.foreign = no]
           c == Command("media", "name", k, NoMedia)
           next == [e |-> n, cmds |-> <<c>>]
<1>1. /\ e \in Engine /\ EngineFits(e, room, over[m]) /\ Counts /\ k \in Key /\ k # NoMedia
      /\ no \in BOOLEAN /\ ~no
  BY SeedingInvIs, EngineFields DEF Names
<1>2. /\ Becomes(m, next) /\ over' = [over EXCEPT ![m] = no] /\ room' = room /\ Counts'
  BY <1>1 DEF Names, Counts
<1>3. k \in Adopts
  BY <1>1 DEF Key, Adopts
<1>4. c \in Order /\ c.why = "name"
  BY <1>1, Values, CommandIs
<1>5. Sends(e, <<c>>)
  <2> HIDE DEF c
  <2> QED BY <1>4, OneSent
<1>6. next.e = n /\ next.cmds = <<c>>
  OBVIOUS
<1> HIDE DEF no, k, c
<1>7. n \in Engine /\ n.st = e.st /\ n.view = e.view
  BY <1>1, <1>3, EngineShape
<1> HIDE DEF n
<1>8. EngineFits(n, room, no)
  BY <1>1, <1>7 DEF EngineFits, Remembers
<1> HIDE DEF next
<1> QED BY <1>1, <1>2, <1>5, <1>6, <1>8, BecomesInv

LEMMA CountsKept ==
  ASSUME Counts, owed' = owed \/ owed' = Nobody, left' = left \/ (left > 0 /\ left' = left - 1)
  PROVE  Counts'
BY SeedingAssumption DEF Counts

LEMMA UnowedCounts ==
  ASSUME NEW m, Unowed(m)
  PROVE  owed' = owed \/ owed' = Nobody
BY DEF Unowed

LEMMA StepsInv ==
  ASSUME SeedingInv, NEW m \in Member, Steps(m)
  PROVE  SeedingInv' /\ SeedsOnlyItsOwn
<1> DEFINE e == eng[m]
<1>1. e \in Engine /\ EngineFits(e, room, over[m]) /\ Counts
  BY SeedingInvIs
<1>2. ASSUME NEW next, Becomes(m, next), Goes(e, next), UNCHANGED <<server, left>>
      PROVE  SeedingInv' /\ SeedsOnlyItsOwn
  <2>1. over' = over /\ room' = room /\ Counts'
    BY <1>1, <1>2 DEF server, Counts
  <2> QED BY <1>2, <2>1, GoesInv
<1>3. CASE ClockSettles(m)
  <2> DEFINE yes == TRUE
             n == [e EXCEPT !.clock = yes]
  <2>1. Becomes(m, Silent(n)) /\ UNCHANGED <<server, left>> /\ yes \in BOOLEAN
    BY <1>3 DEF ClockSettles
  <2> HIDE DEF yes
  <2>2. Goes(e, Silent(n))
    BY <1>1, <2>1, ClockPut, SilentGoes
  <2> QED BY <1>2, <2>1, <2>2
<1>4. CASE CarriesWhenShown(m)
  <2> DEFINE h == [e EXCEPT !.held = NoHeld]
             next == IF e.held.prev = e.view.media THEN Carry(h, e.held.prev, e.held.key) ELSE Silent(h)
  <2>1. Becomes(m, next) /\ UNCHANGED <<server, left>>
    BY <1>4 DEF CarriesWhenShown
  <2>2. Unmoved(e, h) /\ h \in Engine
    BY <1>1, HeldPut, Values DEF Unmoved
  <2>3. e.held.prev \in Key /\ e.held.key \in Key
    BY <1>1, EngineFields, HeldFields
  <2> HIDE DEF h, e
  <2>4. Goes(h, Carry(h, e.held.prev, e.held.key))
    BY <2>2, <2>3, CarryGoes
  <2>5. Goes(e, Carry(h, e.held.prev, e.held.key)) /\ Goes(e, Silent(h))
    BY <2>2, <2>4, ThenGoes, UnmovedMaySeed, SilentGoes
  <2>6. Goes(e, next)
    BY <2>5
  <2> HIDE DEF next
  <2> QED BY <1>2, <2>1, <2>6
<1>5. CASE Acquire(m)
  <2> DEFINE a == IF e.foreign THEN [e EXCEPT !.adopt = Null] ELSE e
             g == [a EXCEPT !.acq = "guarded"]
             c == [a EXCEPT !.acq = "conforming", !.job = "aimed"]
             n == IF a.adopt # Null /\ a.adopt = a.view.media THEN g ELSE c
  <2>1. Becomes(m, Silent(n)) /\ UNCHANGED <<server, left>>
    BY <1>5 DEF Acquire
  <2>2. Unmoved(e, a) /\ a \in Engine
    BY <1>1, AdoptPut, UnmovedSelf DEF Unmoved
  <2> HIDE DEF a
  <2>3. Unmoved(a, g)
    BY <2>2, AcqPut, Values
  <2>4. Unmoved(a, c)
    BY <2>2, EngineShape, Values DEF Unmoved
  <2> HIDE DEF g, c
  <2>5. Unmoved(e, n)
    BY <2>2, <2>3, <2>4, UnmovedOfUnmoved
  <2>6. Goes(e, Silent(n))
    BY <2>5, SilentGoes
  <2> QED BY <1>2, <2>1, <2>6
<1>6. CASE Conformed(m)
  <2> DEFINE r == [e EXCEPT !.job = "none"]
             g == [r EXCEPT !.acq = "guarded"]
             d == [r EXCEPT !.acq = "detached"]
             s == IF e.acq = "conforming" THEN g ELSE r
             x == IF e.acq = "conforming" THEN d ELSE r
             next == IF CanAim(e) /\ e.job = "aimed" THEN Start(s) ELSE Silent(x)
  <2>1. Becomes(m, next) /\ UNCHANGED <<server, left>>
    BY <1>6 DEF Conformed
  <2>2. Unmoved(e, r) /\ r \in Engine
    BY <1>1, JobPut, Values DEF Unmoved
  <2> HIDE DEF r
  <2>3. Unmoved(e, g) /\ Unmoved(e, d)
    BY <2>2, AcqPut, Values, UnmovedOfUnmoved
  <2>4. Unmoved(e, s) /\ Unmoved(e, x) /\ s \in Engine
    BY <2>2, <2>3 DEF Unmoved
  <2> HIDE DEF s, x
  <2>5. Goes(e, Start(s)) /\ Goes(e, Silent(x))
    BY <2>4, StartGoes, ThenGoes, UnmovedMaySeed, SilentGoes
  <2>6. Goes(e, next)
    BY <2>5
  <2> HIDE DEF next
  <2> QED BY <1>2, <2>1, <2>6
<1>7. CASE Settle(m)
  <2>1. PICK playing \in BOOLEAN : Becomes(m, ToSteady(e, playing))
    BY <1>7 DEF Settle
  <2>2. e.st = "joined" /\ UNCHANGED <<server, left>>
    BY <1>7 DEF Settle, CanAim
  <2>3. Goes(e, ToSteady(e, playing))
    BY <1>1, <2>2, ToSteadyGoes
  <2> QED BY <1>2, <2>1, <2>2, <2>3
<1> QED BY <1>3, <1>4, <1>5, <1>6, <1>7, ServeInv, JoinsInv, NamesInv DEF Steps

LEMMA PressesInv ==
  ASSUME SeedingInv, NEW m \in Member, NEW kind \in {"play", "pause", "seek"}, Presses(m, kind)
  PROVE  SeedingInv' /\ SeedsOnlyItsOwn
<1> DEFINE e == eng[m]
           seeding == e.adopt # Null /\ e.adopt = e.view.media
           adopt == IF seeding /\ e.foreign THEN Null ELSE e.adopt
           playing == kind = "play"
           p == [e EXCEPT !.adopt = adopt]
           t == IF e.acq = "steady" THEN Silent(e) ELSE ToSteady(p, playing)
           c == Command(kind, "pressed", NoMedia, Anything)
           ds == t.cmds \o <<c>>
           both == [t EXCEPT !.cmds = ds]
           next == IF e.acq # "steady" /\ seeding /\ ~e.foreign THEN t ELSE both
<1>1. e \in Engine /\ Counts /\ e.st = "joined"
  BY SeedingInvIs DEF Presses
<1>2. Becomes(m, next) /\ room' = room /\ over' = over /\ Counts'
  BY <1>1, CountsKept DEF Presses, server, Happens
<1>3. Unmoved(e, p) /\ p \in Engine /\ p.st = "joined"
  <2>1. adopt = e.adopt \/ adopt = Null
    OBVIOUS
  <2>2. adopt \in Adopts
    BY <1>1, EngineFields, Values
  <2> HIDE DEF adopt
  <2> QED BY <1>1, <2>1, <2>2, EngineShape DEF Unmoved
<1>4. playing \in BOOLEAN
  OBVIOUS
<1> HIDE DEF p, adopt, playing
<1>5. Goes(e, ToSteady(p, playing))
  BY <1>3, <1>4, ToSteadyGoes, ThenGoes, UnmovedMaySeed
<1>6. Goes(e, Silent(e))
  BY <1>1, UnmovedSelf, SilentGoes
<1>7. Goes(e, t) /\ DOMAIN t = {"e", "cmds"} /\ t = [e |-> t.e, cmds |-> t.cmds]
  BY <1>5, <1>6 DEF Silent, ToSteady
<1> HIDE DEF t
<1>8. c \in Order /\ c.why = "pressed"
  <2>1. kind \in {"media", "play", "pause", "seek"} /\ Anything \in Key \cup {Anything}
    OBVIOUS
  <2> QED BY <2>1, Values, CommandIs
<1> HIDE DEF c
<1>9. Sends(e, ds)
  BY <1>7, <1>8, OneSent, BothSent DEF Goes
<1> HIDE DEF ds
<1>10. both.e = t.e /\ both.cmds = ds
  BY <1>7
<1> HIDE DEF both
<1>11. Goes(e, both)
  BY <1>7, <1>9, <1>10 DEF Goes
<1>12. Goes(e, next)
  BY <1>7, <1>11
<1> HIDE DEF next
<1> QED BY <1>2, <1>12, GoesInv

LEMMA NavigatesInv ==
  ASSUME SeedingInv, NEW m \in Member, NEW k \in Key, Navigates(m, k)
  PROVE  SeedingInv' /\ SeedsOnlyItsOwn
<1> DEFINE e == eng[m]
           n == Renamed(e, k)
           next == IF MayContinue(e, e.fin, e.local, k) THEN Carry(n, e.local, k) ELSE Silent(n)
<1>1. e \in Engine /\ Counts /\ e.local \in Key
  BY SeedingInvIs, EngineFields
<1>2. Becomes(m, next) /\ room' = room /\ over' = over /\ Counts'
  BY <1>1, CountsKept, UnowedCounts DEF Navigates, Happens
<1>3. Unmoved(e, n) /\ n \in Engine
  BY <1>1, RenamedUnmoved DEF Unmoved
<1> HIDE DEF n, e
<1>4. Goes(e, Carry(n, e.local, k)) /\ Goes(e, Silent(n))
  BY <1>1, <1>3, CarryGoes, ThenGoes, UnmovedMaySeed, SilentGoes
<1>5. Goes(e, next)
  BY <1>4
<1> HIDE DEF next
<1> QED BY <1>2, <1>5, GoesInv DEF e

LEMMA OutsideInv ==
  ASSUME SeedingInv, NEW m \in Member, Outside(m)
  PROVE  SeedingInv' /\ SeedsOnlyItsOwn
<1> DEFINE e == eng[m]
           yes == TRUE
           no == FALSE
<1>1. /\ e \in Engine /\ EngineFits(e, room, over[m]) /\ Counts /\ yes \in BOOLEAN /\ no \in BOOLEAN
      /\ e.local \in Key /\ e.fin \in Fins
  BY SeedingInvIs, EngineFields
<1>2. ASSUME NEW next, Becomes(m, next), Goes(e, next), room' = room, over' = over,
             owed' = owed \/ owed' = Nobody, left' = left \/ (left > 0 /\ left' = left - 1)
      PROVE  SeedingInv' /\ SeedsOnlyItsOwn
  <2>1. Counts'
    BY <1>1, <1>2, CountsKept
  <2> QED BY <1>2, <2>1, GoesInv
<1> HIDE DEF e, yes, no
<1>3. CASE Finishes(m)
  <2> DEFINE f == [key |-> e.local, fresh |-> TRUE, here |-> TRUE]
             n == [e EXCEPT !.fin = f]
  <2>1. Becomes(m, Silent(n)) /\ UNCHANGED server /\ left > 0 /\ left' = left - 1
    BY <1>3 DEF Finishes, Happens, e
  <2>2. f \in Fins
    BY <1>1 DEF Fins
  <2> HIDE DEF f
  <2>3. Goes(e, Silent(n))
    BY <1>1, <2>2, FinPut, SilentGoes
  <2> HIDE DEF n
  <2> QED BY <1>2, <2>1, <2>3 DEF server
<1>4. CASE ScrubsBack(m)
  <2>1. Becomes(m, Silent([e EXCEPT !.fin = NoFinish])) /\ UNCHANGED server /\ left > 0 /\ left' = left - 1
    BY <1>4 DEF ScrubsBack, Happens, e
  <2>2. Goes(e, Silent([e EXCEPT !.fin = NoFinish]))
    BY <1>1, FinPut, Values, SilentGoes
  <2> QED BY <1>2, <2>1, <2>2 DEF server
<1>5. CASE Wanes(m)
  <2> DEFINE f == [e.fin EXCEPT !.fresh = no]
             n == [e EXCEPT !.fin = f, !.held = NoHeld]
  <2>1. Becomes(m, Silent(n)) /\ UNCHANGED <<server, left>>
    <3>1. n = [e EXCEPT !.fin.fresh = FALSE, !.held = NoHeld]
      BY <1>1, EngineShape DEF no
    <3> HIDE DEF n
    <3> QED BY <1>5, <3>1 DEF Wanes, e
  <2>2. f \in Fins
    BY <1>1, FinFields
  <2> HIDE DEF f
  <2>3. Unmoved(e, n)
    BY <1>1, <2>2, EngineShape, Values DEF Unmoved
  <2> HIDE DEF n
  <2>4. Goes(e, Silent(n))
    BY <2>3, SilentGoes
  <2> QED BY <1>2, <2>1, <2>4 DEF server
<1>6. CASE GrowsOld(m)
  <2> DEFINE c == [e.cont EXCEPT !.old = yes]
             n == [e EXCEPT !.cont = c]
  <2>1. /\ Becomes(m, Silent(n)) /\ Unowed(m) /\ UNCHANGED <<room, over, left>>
    <3>1. n = [e EXCEPT !.cont.old = TRUE]
      BY <1>1, EngineShape DEF yes
    <3> HIDE DEF n
    <3> QED BY <1>6, <3>1 DEF GrowsOld, e
  <2>2. c \in Conts
    BY <1>1, EngineFields, ContFields
  <2> HIDE DEF c
  <2>3. Goes(e, Silent(n))
    BY <1>1, <2>2, ContPut, SilentGoes
  <2> HIDE DEF n
  <2> QED BY <1>2, <2>1, <2>3, UnowedCounts
<1>7. CASE Hides(m)
  <2> DEFINE n == [e EXCEPT !.hidden = yes]
  <2>1. /\ Becomes(m, Silent(n)) /\ Unowed(m) /\ UNCHANGED <<room, over>> /\ left > 0 /\ left' = left - 1
    BY <1>7 DEF Hides, Happens, e, yes
  <2>2. Goes(e, Silent(n))
    BY <1>1, HiddenPut, SilentGoes
  <2> HIDE DEF n
  <2> QED BY <1>2, <2>1, <2>2, UnowedCounts
<1>8. CASE Shows(m)
  <2> DEFINE n == [e EXCEPT !.hidden = no]
  <2>1. Becomes(m, Silent(n)) /\ UNCHANGED <<server, left>>
    BY <1>8 DEF Shows, e, no
  <2>2. Goes(e, Silent(n))
    BY <1>1, HiddenPut, SilentGoes
  <2> HIDE DEF n
  <2> QED BY <1>2, <2>1, <2>2 DEF server
<1>9. CASE MovesHere(m)
  <2> DEFINE c == Command("media", "chosen", e.local, e.view.media)
             next == [e |-> e, cmds |-> <<c>>]
  <2>1. /\ Becomes(m, next) /\ Unowed(m) /\ UNCHANGED <<room, over>> /\ left > 0 /\ left' = left - 1
    BY <1>9 DEF MovesHere, Happens, e
  <2>2. c \in Order /\ c.why = "chosen"
    <3>1. e.view.media \in Key \cup {Anything}
      BY <1>1, EngineFields, RoomFields
    <3> QED BY <1>1, <3>1, CommandIs
  <2> HIDE DEF c
  <2>3. Sends(e, <<c>>) /\ Unmoved(e, e)
    BY <1>1, <2>2, OneSent, UnmovedSelf
  <2>4. next.e = e /\ next.cmds = <<c>>
    OBVIOUS
  <2> HIDE DEF next
  <2>5. Goes(e, next)
    BY <2>3, <2>4 DEF Goes
  <2> QED BY <1>2, <2>1, <2>5, UnowedCounts
<1>10. CASE LosesLink(m)
  <2> DEFINE job == IF e.job = "none" THEN e.job ELSE "overtaken"
             n == [e EXCEPT !.st = "down", !.clock = no, !.job = job]
  <2>1. /\ Becomes(m, Silent(n)) /\ room' = room /\ over' = over /\ e.st = "joined"
        /\ owed' = owed \/ owed' = Nobody
        /\ left > 0 /\ left' = left - 1
    BY <1>10, UnowedCounts DEF LosesLink, Happens, e, no
  <2>2. job \in Jobs
    BY <1>1, EngineFields, Values
  <2> HIDE DEF job
  <2>3. n \in Engine /\ n.st = "down" /\ n.adopt = e.adopt /\ n.foreign = e.foreign
    BY <1>1, <2>2, EngineShape, Values
  <2> HIDE DEF n
  <2>4. EngineFits(n, room, over[m])
    BY <1>1, <2>1, <2>3 DEF EngineFits, Remembers
  <2> DEFINE next == Silent(n)
  <2>5. next.e = n /\ next.cmds = <<>>
    BY DEF Silent
  <2>6. Counts' /\ over' = [over EXCEPT ![m] = over[m]] /\ over[m] \in BOOLEAN
    BY <1>1, <2>1, CountsKept, SeedingInvIs
  <2>7. Becomes(m, next)
    BY <2>1
  <2> HIDE DEF next
  <2>8. Sends(eng[m], next.cmds)
    BY <2>5, NothingSent
  <2>9. EngineFits(next.e, room, over[m])
    BY <2>4, <2>5
  <2> QED BY <2>1, <2>6, <2>7, <2>8, <2>9, BecomesInv
<1>11. ASSUME NEW k \in Key, Navigates(m, k) PROVE SeedingInv' /\ SeedsOnlyItsOwn
  BY <1>11, NavigatesInv
<1>12. ASSUME NEW kind \in {"play", "pause", "seek"}, Presses(m, kind)
       PROVE  SeedingInv' /\ SeedsOnlyItsOwn
  BY <1>12, PressesInv
<1> QED BY <1>3, <1>4, <1>5, <1>6, <1>7, <1>8, <1>9, <1>10, <1>11, <1>12 DEF Outside

LEMMA SeedingInitInv == SeedingInit => SeedingInv
<1> SUFFICES ASSUME SeedingInit PROVE SeedingInv
  OBVIOUS
<1>1. PICK at \in [Member -> Key] :
        /\ room = [media |-> at[Creator], paused |-> TRUE]
        /\ eng = [m \in Member |->
             Engine0(at[m], IF m = Creator /\ at[m] # NoMedia THEN at[m] ELSE Null)]
  BY DEF SeedingInit
<1>2. room \in Room
  <2>1. at[Creator] \in Key /\ TRUE \in BOOLEAN
    BY SeedingAssumption
  <2> QED BY <1>1, <2>1 DEF Room
<1>3. ASSUME NEW k \in Key, NEW a \in Adopts
      PROVE  Engine0(k, a) \in Engine /\ Engine0(k, a).st = "down"
  <2> DEFINE v == [media |-> NoMedia, paused |-> TRUE]
  <2>1. v \in Room
    <3>1. TRUE \in BOOLEAN
      OBVIOUS
    <3> QED BY <3>1, Values DEF Room
  <2>2. Engine0(k, a) =
          [st |-> "down", welcomed |-> FALSE, clock |-> FALSE, hidden |-> FALSE, local |-> k,
           view |-> v, missed |-> FALSE, acq |-> "detached", job |-> "none", adopt |-> a,
           foreign |-> FALSE, named |-> NoMedia, fin |-> NoFinish, held |-> NoHeld, cont |-> NoCont]
    BY DEF Engine0
  <2> HIDE DEF v
  <2>3. FALSE \in BOOLEAN
    OBVIOUS
  <2> QED BY <2>1, <2>2, <2>3, EngineShape, Values
<1>4. ASSUME NEW m \in Member PROVE eng[m] \in Engine /\ eng[m].st = "down" /\ ~over[m]
  <2> DEFINE a == IF m = Creator /\ at[m] # NoMedia THEN at[m] ELSE Null
  <2>1. at[m] \in Key /\ a \in Adopts
    BY Values DEF Key, Adopts
  <2>2. eng[m] = Engine0(at[m], a)
    BY <1>1
  <2> HIDE DEF a
  <2> QED BY <1>3, <2>1, <2>2 DEF SeedingInit
<1>5. \A m \in Member : EngineFits(eng[m], room, over[m])
  BY <1>4 DEF EngineFits, Remembers
<1>6. eng \in [Member -> Engine]
  BY <1>1, <1>4
<1>7. up \in [Member -> Seq(Order)] /\ over \in [Member -> BOOLEAN] /\ left \in 0..Events
      /\ owed \in Member \cup {Nobody}
  BY SeedingAssumption DEF SeedingInit
<1> QED BY <1>2, <1>5, <1>6, <1>7 DEF SeedingInv

LEMMA SeedingNextInv ==
  SeedingInv /\ [SeedingNext]_seedingVars => SeedingInv' /\ (SeedsOnlyItsOwn \/ UNCHANGED seedingVars)
<1> SUFFICES ASSUME SeedingInv, [SeedingNext]_seedingVars
             PROVE  SeedingInv' /\ (SeedsOnlyItsOwn \/ UNCHANGED seedingVars)
  OBVIOUS
<1>1. CASE SeedingNext
  BY <1>1, StepsInv, OutsideInv DEF SeedingNext
<1>2. CASE UNCHANGED seedingVars
  BY <1>2 DEF SeedingInv, seedingVars
<1> QED BY <1>1, <1>2

(* An engine that is joined has the room the server has, and every engine  *)
(* that is to seed the room remembers, or will hear in its welcome, that   *)
(* somebody moved it since.                                                *)
THEOREM SeedingCorrect == SeedingSpec => []SeedingInv
BY SeedingInitInv, SeedingNextInv, PTL DEF SeedingSpec

(* An engine that is joined has the room the server has, whatever commands *)
(* and welcomes came in which order.                                       *)
THEOREM SeedingTypesHold == SeedingSpec => []SeedingTypes
<1>1. SeedingInv => SeedingTypes
  BY DEF SeedingInv, SeedingTypes, EngineFits
<1> QED BY <1>1, SeedingCorrect, PTL

(* Nobody seeds the room over what others did with it since they set out:  *)
(* neither a creator nor a namer, however long its player took to settle,  *)
(* and whatever it missed while its link was down.                         *)
THEOREM NobodySeedsOverAMove == SeedingSpec => NoSeedOverAMove
<1>1. SeedingInv /\ [SeedingNext]_seedingVars =>
        [\A m \in Member : SentSeed(m) => ~over[m]]_seedingVars
  BY SeedingNextInv DEF SeedsOnlyItsOwn
<1> QED BY <1>1, SeedingCorrect, PTL DEF SeedingSpec, NoSeedOverAMove
=============================================================================
