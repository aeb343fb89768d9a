---------------------------- MODULE PlayerProofs ----------------------------
(***************************************************************************)
(* What is proved of Player for every page, every pick of the watcher and  *)
(* every seek: that the apply queue waits for nothing that will not come,  *)
(* and that a seek nobody disturbed, landed by its player, is never called  *)
(* one that did not hold.                                                  *)
(*                                                                         *)
(* The invariant says of the seek that is waited for what the element will *)
(* report and where it will be then.  It needs that an element without     *)
(* media has nothing to report: whoever takes the media takes the reports. *)
(***************************************************************************)
EXTENDS Player, Detector, TLAPS, WellFoundedInduction

Element ==
  [here : BOOLEAN, media : BOOLEAN, paused : BOOLEAN, at : 0..End,
   start : 0..End, seeking : BOOLEAN, reports : Nat]

Wait == [on : E, to : Target, disturbed : BOOLEAN, snapped : BOOLEAN, silent : BOOLEAN]

(* What x will report of s, or why nothing has to be. *)
Awaited(s, x) ==
  x.seeking \/ x.reports > 0 \/ (~x.media /\ x.start > 0) \/ s.silent

(* Where x stands for s, which nobody disturbed and no player snapped away. *)
Near(at, to) == Abs(at - Lands(to)) <= Tolerance

OnItsWay(s, x) ==
  /\ x.seeking => x.at = Lands(s.to)
  /\ x.reports > 0 => Near(x.at, s.to)
  /\ ~x.media => x.start \in {0, Lands(s.to)}

Fits(s, x) == Awaited(s, x) /\ (~s.disturbed /\ ~s.snapped => OnItsWay(s, x))

Quiet(x) == ~x.media => ~x.seeking /\ x.reports = 0

Inv ==
  /\ TypeOK
  /\ \A e \in E : Quiet(el[e])
  /\ ground = target
  /\ seek # None => seek.on = target /\ Fits(seek, el[seek.on])

-----------------------------------------------------------------------------
(* The pick. *)

LEMMA Figures ==
  ASSUME TypeOK
  PROVE  /\ \A e \in E : Area(e) \in Nat /\ Ready(e) \in {0, 1, 4} /\ el[e].media \in BOOLEAN
         /\ E \subseteq Nat /\ Last \in Nat
BY PlayerAssumption DEF TypeOK, Area, Ready, E

(* Of two elements one beats the other, and what beats it beats what it beats. *)
LEMMA BeatsOrders ==
  ASSUME TypeOK
  PROVE  /\ \A e, f \in E : e # f => Beats(e, f) \/ Beats(f, e)
         /\ \A e, f, g \in E : Beats(e, f) /\ Beats(f, g) => Beats(e, g)
<1> DEFINE sound(x) == IF AudiblyPlaying(x) THEN 1 ELSE 0
<1>1. \A e \in E : /\ Area(e) \in Nat /\ Ready(e) \in Nat /\ sound(e) \in Nat /\ e \in Nat
  BY Figures
<1>2. \A e, f : Beats(e, f) <=>
        \/ sound(e) > sound(f)
        \/ sound(e) = sound(f) /\ Area(e) > Area(f)
        \/ sound(e) = sound(f) /\ Area(e) = Area(f) /\ Ready(e) > Ready(f)
        \/ sound(e) = sound(f) /\ Area(e) = Area(f) /\ Ready(e) = Ready(f) /\ e < f
  BY DEF Beats
<1> HIDE DEF sound
<1>3. \A e, f \in E : e # f => Beats(e, f) \/ Beats(f, e)
  BY <1>1, <1>2
<1>4. \A e, f, g \in E : Beats(e, f) /\ Beats(f, g) => Beats(e, g)
  BY <1>1, <1>2
<1> QED BY <1>3, <1>4

(* Some element of any that there are beats the others: the smallest number *)
(* of elements among which none does would have one fewer below it.         *)
LEMMA BestFound ==
  ASSUME TypeOK, NEW videos \in SUBSET E, videos # {}
  PROVE  Best(videos) \in videos
<1> DEFINE Wins(S) == \E e \in S : \A f \in S \ {e} : Beats(e, f)
           Bad == {n \in Nat : n <= Last /\ \E S \in SUBSET (1 .. n) : S # {} /\ ~Wins(S)}
<1>1. Last \in Nat /\ E = 1 .. Last
  BY Figures DEF E
<1>2. Bad = {}
  <2> SUFFICES ASSUME Bad # {} PROVE FALSE
    OBVIOUS
  <2>1. PICK n \in Bad : \A m \in Bad : ~(<<m, n>> \in OpToRel(<, Nat))
    <3>1. Bad \subseteq Nat
      OBVIOUS
    <3> HIDE DEF Bad
    <3> QED BY <3>1, WFMin, NatLessThanWellFounded, Zenon
  <2>2. PICK S \in SUBSET (1 .. n) : S # {} /\ ~Wins(S)
    OBVIOUS
  <2>3. n \in Nat /\ n <= Last /\ n # 0
    <3>1. n \in Nat /\ n <= Last
      BY <2>1
    <3>2. 1 .. 0 = {}
      OBVIOUS
    <3> HIDE DEF Bad
    <3> QED BY <2>2, <3>1, <3>2
  <2>4. n - 1 \in Nat /\ n - 1 <= Last /\ n - 1 < n
    BY <1>1, <2>3
  <2>5. n - 1 \notin Bad
    <3>1. <<n - 1, n>> \in OpToRel(<, Nat)
      BY <2>3, <2>4 DEF OpToRel
    <3> QED BY <2>1, <3>1
  <2>6. \A R \in SUBSET (1 .. n - 1) : R # {} => Wins(R)
    BY <2>4, <2>5
  <2> DEFINE R == S \ {n}
  <2>7. R \in SUBSET (1 .. n - 1) /\ S \subseteq E /\ n \in E
    BY <1>1, <2>3
  <2>8. CASE n \notin S
    <3>1. R = S
      BY <2>8
    <3> QED BY <2>2, <2>6, <2>7, <3>1
  <2>9. CASE n \in S /\ R = {}
    <3>1. S \ {n} = {}
      BY <2>9
    <3> QED BY <2>2, <2>9, <3>1
  <2>10. CASE n \in S /\ R # {}
    <3>1. PICK b \in R : \A f \in R \ {b} : Beats(b, f)
      BY <2>6, <2>7, <2>10
    <3>2. b # n /\ b \in E /\ b \in S
      BY <2>7, <3>1
    <3>3. CASE Beats(b, n)
      <4>1. \A f \in S \ {b} : Beats(b, f)
        BY <3>1, <3>3
      <4> QED BY <2>2, <3>2, <4>1
    <3>4. CASE Beats(n, b)
      <4>1. ASSUME NEW f \in S \ {n} PROVE Beats(n, f)
        <5>1. f = b \/ (f \in R \ {b} /\ f \in E)
          BY <2>7
        <5> QED BY <2>7, <3>1, <3>2, <3>4, <5>1, BeatsOrders
      <4> QED BY <2>2, <2>10, <4>1
    <3> QED BY <2>7, <3>2, <3>3, <3>4, BeatsOrders
  <2> QED BY <2>8, <2>9, <2>10
<1>3. Wins(videos)
  <2>1. Last \notin Bad /\ Last <= Last
    <3> HIDE DEF Bad
    <3> QED BY <1>1, <1>2
  <2> HIDE DEF Wins
  <2>2. \A S \in SUBSET (1 .. Last) : S # {} => Wins(S)
    BY <1>1, <2>1
  <2> QED BY <1>1, <2>2
<1> QED BY <1>3, Zenon DEF Best

LEMMA Picked ==
  ASSUME TypeOK
  PROVE  PickVideo(Candidates, target) \in E \cup {None}
<1>1. Candidates \in SUBSET E
  BY DEF Candidates
<1>2. Best(Candidates) \in Candidates \cup {None}
  BY <1>1, BestFound DEF Best
<1>3. PickVideo(Candidates, target) \in {target, Best(Candidates)}
  BY DEF PickVideo
<1> QED BY <1>1, <1>2, <1>3 DEF TypeOK

-----------------------------------------------------------------------------
(* The seek, and what the element does. *)

LEMMA Landings ==
  /\ \A x \in Int : Lands(x) \in 0 .. End
  /\ \A x \in 0 .. End : Lands(x) = x
  /\ \A x \in 0 .. End : Abs(x - x) <= Tolerance
  /\ Target \subseteq Int /\ Other \subseteq 0 .. End
BY PlayerAssumption DEF Lands, Abs

LEMMA WrittenElement ==
  ASSUME TypeOK, NEW e \in E, NEW x \in Int, Quiet(el[e])
  PROVE  LET w == Written(e, x)
         IN  /\ w \in Element /\ Quiet(w) /\ w.media = el[e].media /\ w.reports = el[e].reports
             /\ w.media => w.seeking /\ w.at = Lands(x)
             /\ ~w.media => w.start = Lands(x)
<1>1. el[e] \in Element /\ Lands(x) \in 0 .. End
  BY Landings DEF TypeOK, Element
<1> QED BY <1>1 DEF Written, Element, Quiet

(* One element changes; a seek that is on it still fits it. *)
LEMMA ElementInv ==
  ASSUME Inv, NEW e \in E, NEW w \in Element, Quiet(w),
         el' = [el EXCEPT ![e] = w],
         seek' = None \/ (/\ seek # None
                          /\ seek' \in Wait /\ seek'.on = seek.on
                          /\ (seek.on # e => seek' = seek)
                          /\ (seek.on = e => Fits(seek', w))),
         ended' \in {"none", "landed", "elsewhere", "timeout", "abandoned"},
         UNCHANGED <<moved, target, ground>>, left' \in 0 .. Events
  PROVE  Inv'
<1>1. el \in [E -> Element] /\ el' \in [E -> Element]
  BY DEF Inv, TypeOK, Element
<1>2. \A f \in E : el'[f] = IF f = e THEN w ELSE el[f]
  BY <1>1
<1>3. TypeOK'
  BY <1>1 DEF Inv, TypeOK, Element, Wait
<1>4. \A f \in E : Quiet(el'[f])
  BY <1>2 DEF Inv
<1>5. seek' # None => seek'.on = target' /\ Fits(seek', el'[seek'.on])
  BY <1>2 DEF Inv, TypeOK
<1> QED BY <1>3, <1>4, <1>5 DEF Inv

LEMMA InitInv == Init => Inv
<1> SUFFICES ASSUME Init PROVE Inv
  OBVIOUS
<1>1. /\ el \in [E -> [here : BOOLEAN, media : {FALSE}, paused : {TRUE}, at : {0},
                        start : {0}, seeking : {FALSE}, reports : {0}]]
      /\ moved = TRUE /\ target = None /\ ground = None /\ seek = None /\ ended = "none"
      /\ left = Events
  BY DEF Init
<1>2. 0 \in 0 .. End /\ Events \in 0 .. Events
  BY PlayerAssumption
<1>3. \A e \in E : /\ el[e] \in Element /\ ~el[e].seeking /\ el[e].reports = 0
  <2> SUFFICES ASSUME NEW e \in E
               PROVE  el[e] \in Element /\ ~el[e].seeking /\ el[e].reports = 0
    OBVIOUS
  <2>1. el[e] \in [here : BOOLEAN, media : {FALSE}, paused : {TRUE}, at : {0},
                   start : {0}, seeking : {FALSE}, reports : {0}]
    BY <1>1
  <2>2. /\ {FALSE} \subseteq BOOLEAN /\ {TRUE} \subseteq BOOLEAN /\ {0} \subseteq 0 .. End
        /\ {0} \subseteq Nat
    BY <1>2
  <2>3. el[e] \in Element
    BY <2>1, <2>2 DEF Element
  <2> QED BY <2>1, <2>3
<1>4. el \in [E -> Element]
  BY <1>1, <1>3
<1>5. TypeOK
  BY <1>1, <1>2, <1>4 DEF TypeOK, Element
<1> QED BY <1>1, <1>3, <1>5 DEF Inv, Quiet

LEMMA SeekToInv == ASSUME Inv, NEW x \in Target, SeekTo(x) PROVE Inv'
<1> DEFINE w == Written(target, x)
           s == [on |-> target, to |-> x, disturbed |-> FALSE, snapped |-> FALSE,
                 silent |-> ~el[target].media /\ Lands(x) = 0]
<1>1. /\ TypeOK /\ target \in E /\ Quiet(el[target]) /\ seek = None /\ x \in Int
      /\ ground = target
  BY Landings DEF Inv, TypeOK, SeekTo
<1>2. /\ el' = [el EXCEPT ![target] = w] /\ seek' = s /\ ended' = "none"
      /\ UNCHANGED <<moved, target, ground>> /\ left' \in 0 .. Events
  BY PlayerAssumption DEF SeekTo, Happens, Inv, TypeOK
<1>3. /\ w \in Element /\ Quiet(w) /\ w.media = el[target].media /\ w.reports = el[target].reports
      /\ w.media => w.seeking /\ w.at = Lands(x)
      /\ ~w.media => w.start = Lands(x)
  BY <1>1, WrittenElement
<1> HIDE DEF w
<1>4. /\ s \in Wait /\ s.on = target /\ s.to = x /\ ~s.disturbed
      /\ s.silent <=> ~el[target].media /\ Lands(x) = 0
  BY <1>1 DEF Wait
<1> HIDE DEF s
<1>5. Lands(x) \in 0 .. End /\ Abs(Lands(x) - Lands(x)) <= Tolerance
  BY <1>1, Landings
<1>6. Fits(s, w)
  BY <1>3, <1>4, <1>5 DEF Fits, Awaited, OnItsWay, Quiet, Near, Element
<1>7. el \in [E -> Element] /\ el' \in [E -> Element]
  BY <1>1, <1>2, <1>3 DEF TypeOK, Element
<1>8. \A f \in E : el'[f] = IF f = target THEN w ELSE el[f]
  BY <1>2, <1>7
<1>9. TypeOK'
  BY <1>1, <1>2, <1>4, <1>7 DEF TypeOK, Element, Wait
<1>10. \A f \in E : Quiet(el'[f])
  BY <1>3, <1>8 DEF Inv
<1> QED BY <1>1, <1>2, <1>4, <1>6, <1>8, <1>9, <1>10 DEF Inv

LEMMA SeekedInv == ASSUME Inv, NEW e \in E, Seeked(e) PROVE Inv'
<1> DEFINE w == [el[e] EXCEPT !.reports = @ - 1]
<1>1. /\ el[e] \in Element /\ el[e].reports > 0 /\ Quiet(el[e])
  BY DEF Inv, TypeOK, Element, Seeked
<1>2. /\ w \in Element /\ Quiet(w) /\ w.seeking = el[e].seeking /\ w.at = el[e].at
      /\ w.media = el[e].media /\ w.start = el[e].start /\ w.reports < el[e].reports
      /\ w.reports \in Nat
  BY <1>1 DEF Element, Quiet
<1>3. /\ el' = [el EXCEPT ![e] = w]
      /\ UNCHANGED <<moved, target, ground>> /\ left' \in 0 .. Events
  BY DEF Seeked, Inv, TypeOK
<1> HIDE DEF w
<1>4. \/ seek' = None /\ ended' \in {"landed", "elsewhere"}
      \/ seek' = seek /\ ended' = "none" /\ (seek # None /\ seek.on = e => el[e].seeking)
  BY DEF Seeked, Done, Over, Waits
<1>5. CASE seek' = None
  BY <1>2, <1>3, <1>4, <1>5, ElementInv
<1>6. CASE seek' # None
  <2>1. seek' = seek /\ ended' = "none" /\ seek # None /\ seek \in Wait
    BY <1>4, <1>6 DEF Inv, TypeOK, Wait
  <2>2. seek.on = e => Fits(seek, w)
    BY <1>1, <1>2, <1>4, <1>6 DEF Inv, Fits, Awaited, OnItsWay
  <2> QED BY <1>2, <1>3, <2>1, <2>2, ElementInv
<1> QED BY <1>5, <1>6

LEMMA ArrivesInv == ASSUME Inv, NEW e \in E, Arrives(e) PROVE Inv'
<1> DEFINE far(at) == seek # None /\ seek.on = e /\ Abs(at - el[e].at) > Tolerance
           s == [seek EXCEPT !.snapped = TRUE]
<1>1. /\ el[e] \in Element /\ el[e].seeking /\ Quiet(el[e])
  BY DEF Inv, TypeOK, Element, Arrives
<1>2. PICK at \in 0 .. End :
        /\ el' = [el EXCEPT ![e].seeking = FALSE, ![e].at = at, ![e].reports = @ + 1]
        /\ seek' = IF far(at) THEN s ELSE seek
  BY DEF Arrives
<1> DEFINE w == [el[e] EXCEPT !.seeking = FALSE, !.at = at, !.reports = @ + 1]
<1>3. /\ w \in Element /\ Quiet(w) /\ ~w.seeking /\ w.at = at /\ w.media
      /\ w.reports > 0
  <2>1. el[e].media /\ el[e].reports + 1 \in Nat /\ el[e].reports + 1 > 0
    BY <1>1 DEF Element, Quiet
  <2>2. /\ w \in Element /\ w.seeking = FALSE /\ w.at = at /\ w.media = el[e].media
        /\ w.reports = el[e].reports + 1
    BY <1>1, <1>2, <2>1 DEF Element
  <2> HIDE DEF w
  <2> QED BY <2>1, <2>2 DEF Quiet
<1>4. /\ el' = [el EXCEPT ![e] = w] /\ ended' = "none"
      /\ UNCHANGED <<moved, target, ground>> /\ left' \in 0 .. Events
  BY <1>2 DEF Arrives, Inv, TypeOK
<1> HIDE DEF w
<1>5. CASE seek # None /\ far(at)
  <2>1. s \in Wait /\ s.on = seek.on /\ s.snapped /\ seek' = s
    BY <1>2, <1>5 DEF Inv, TypeOK, Wait
  <2>2. Fits(s, w)
    BY <1>3, <2>1 DEF Fits, Awaited
  <2> HIDE DEF s
  <2> QED BY <1>3, <1>4, <1>5, <2>1, <2>2, ElementInv
<1>6. CASE seek # None /\ ~far(at)
  <2>1. seek \in Wait /\ seek' = seek
    BY <1>2, <1>6 DEF Inv, TypeOK, Wait
  <2>2. seek.on = e /\ ~seek.disturbed /\ ~seek.snapped => Near(at, seek.to)
    <3>1. SUFFICES ASSUME seek.on = e, ~seek.disturbed, ~seek.snapped PROVE Near(at, seek.to)
      OBVIOUS
    <3>2. el[e].at = Lands(seek.to)
      BY <1>1, <1>6, <3>1 DEF Inv, Fits, OnItsWay
    <3>3. Abs(at - el[e].at) <= Tolerance
      <4>1. at - el[e].at \in Int /\ Tolerance \in Int
        BY <1>1, <1>2, PlayerAssumption DEF Element
      <4> QED BY <1>6, <3>1, <4>1 DEF Abs
    <3> QED BY <3>2, <3>3 DEF Near
  <2>3. seek.on = e => Fits(seek, w)
    BY <1>3, <2>2 DEF Fits, Awaited, OnItsWay
  <2> QED BY <1>3, <1>4, <1>6, <2>1, <2>3, ElementInv
<1>7. CASE seek = None
  <2>1. seek' = seek
    BY <1>2, <1>7
  <2> QED BY <1>3, <1>4, <1>7, <2>1, ElementInv
<1> QED BY <1>5, <1>6, <1>7

LEMMA LoadsInv == ASSUME Inv, NEW e \in E, Loads(e) PROVE Inv'
<1> DEFINE x == el[e]
           seeking == x.start > 0
           w == [x EXCEPT !.media = TRUE, !.start = 0, !.at = x.start, !.seeking = seeking]
<1>1. /\ x \in Element /\ ~x.media /\ Quiet(x) /\ x.start \in 0 .. End /\ 0 \in 0 .. End
  BY PlayerAssumption DEF Inv, TypeOK, Element, Loads
<1>2. el \in [E -> Element]
  BY DEF Inv, TypeOK, Element
<1>3. /\ el' = [el EXCEPT ![e] = w] /\ seek' = seek /\ ended' = "none"
      /\ UNCHANGED <<moved, target, ground>> /\ left' \in 0 .. Events
  BY <1>2 DEF Loads, Waits, Inv, TypeOK
<1>3a. (seeking <=> x.start > 0) /\ seeking \in BOOLEAN
  OBVIOUS
<1> HIDE DEF seeking
<1>4. /\ w \in Element /\ w.media /\ w.at = x.start /\ w.seeking = seeking
      /\ w.reports = x.reports
  BY <1>1, <1>3a DEF Element
<1> HIDE DEF w
<1>5. Quiet(w) /\ w.reports = 0
  BY <1>1, <1>4 DEF Quiet
<1>6. CASE seek # None
  <2>1. seek \in Wait
    BY <1>6 DEF Inv, TypeOK, Wait
  <2>2. seek.on = e => Fits(seek, w)
    <3> SUFFICES ASSUME seek.on = e PROVE Fits(seek, w)
      OBVIOUS
    <3>1. Fits(seek, x)
      BY <1>6 DEF Inv
    <3>2. Awaited(seek, w)
      BY <1>1, <1>3a, <1>4, <3>1, Zenon DEF Fits, Awaited, Quiet
    <3>3. ~seek.disturbed /\ ~seek.snapped => OnItsWay(seek, w)
      BY <1>1, <1>3a, <1>4, <1>5, <3>1 DEF Fits, OnItsWay
    <3> QED BY <3>2, <3>3 DEF Fits
  <2> QED BY <1>3, <1>4, <1>5, <1>6, <2>1, <2>2, ElementInv
<1>7. CASE seek = None
  BY <1>3, <1>4, <1>5, <1>7, ElementInv
<1> QED BY <1>6, <1>7

LEMMA EmptiesInv == ASSUME Inv, NEW e \in E, Empties(e) PROVE Inv'
<1> DEFINE w == [here |-> el[e].here, media |-> FALSE, paused |-> TRUE, at |-> 0,
                 start |-> 0, seeking |-> FALSE, reports |-> 0]
           s == [seek EXCEPT !.silent = TRUE]
<1>1. el \in [E -> Element] /\ 0 \in 0 .. End
  BY PlayerAssumption DEF Inv, TypeOK, Element
<1>2. /\ el' = [el EXCEPT ![e] = w] /\ ended' = "none"
      /\ seek' = IF seek # None /\ seek.on = e THEN s ELSE seek
      /\ UNCHANGED <<moved, target, ground>> /\ left' \in 0 .. Events
  BY <1>1, PlayerAssumption DEF Empties, Happens, Inv, TypeOK
<1>3. /\ w \in Element /\ Quiet(w) /\ ~w.seeking /\ w.reports = 0 /\ w.start = 0
  BY <1>1 DEF Element, Quiet
<1> HIDE DEF w
<1>4. CASE seek # None
  <2>1. seek \in Wait
    BY <1>4 DEF Inv, TypeOK, Wait
  <2>2. s \in Wait /\ s.on = seek.on /\ s.silent
    BY <2>1 DEF Wait
  <2>3. Fits(s, w)
    BY <1>3, <2>2 DEF Fits, Awaited, OnItsWay
  <2> HIDE DEF s
  <2> QED BY <1>2, <1>3, <1>4, <2>1, <2>2, <2>3, ElementInv
<1>5. CASE seek = None
  BY <1>2, <1>3, <1>5, ElementInv
<1> QED BY <1>4, <1>5

LEMMA ScrubInv == ASSUME Inv, NEW e \in E, NEW x \in Other, Scrub(e, x) PROVE Inv'
<1> DEFINE w == Written(e, x)
           s == [seek EXCEPT !.disturbed = TRUE]
<1>1. /\ x \in Int /\ TypeOK /\ Quiet(el[e]) /\ el[e].media
  BY Landings DEF Inv, Scrub
<1>2. /\ el' = [el EXCEPT ![e] = w] /\ ended' = "none"
      /\ seek' = IF seek # None /\ seek.on = e THEN s ELSE seek
      /\ UNCHANGED <<moved, target, ground>> /\ left' \in 0 .. Events
  BY PlayerAssumption DEF Scrub, Happens, Inv, TypeOK
<1>3. /\ w \in Element /\ Quiet(w) /\ w.seeking
  BY <1>1, WrittenElement
<1> HIDE DEF w
<1>4. CASE seek # None
  <2>1. seek \in Wait
    BY <1>4 DEF Inv, TypeOK, Wait
  <2>2. s \in Wait /\ s.on = seek.on /\ s.disturbed
    BY <2>1 DEF Wait
  <2>3. Fits(s, w)
    BY <1>3, <2>2 DEF Fits, Awaited
  <2> HIDE DEF s
  <2> QED BY <1>2, <1>3, <1>4, <2>1, <2>2, <2>3, ElementInv
<1>5. CASE seek = None
  BY <1>2, <1>3, <1>5, ElementInv
<1> QED BY <1>4, <1>5

LEMMA PageInv == ASSUME Inv, NEW e \in E, PlaysOrPauses(e) \/ ComesOrGoes(e) PROVE Inv'
<1>1. el \in [E -> Element] /\ el[e] \in Element
  BY DEF Inv, TypeOK, Element
<1>2. PICK w \in {[el[e] EXCEPT !.paused = ~@], [el[e] EXCEPT !.here = ~@]} : el' = [el EXCEPT ![e] = w]
  BY DEF PlaysOrPauses, ComesOrGoes
<1>3. /\ seek' = seek /\ ended' = "none"
      /\ UNCHANGED <<moved, target, ground>> /\ left' \in 0 .. Events
  BY PlayerAssumption DEF PlaysOrPauses, ComesOrGoes, Happens, Waits, Inv, TypeOK
<1>4. /\ w \in Element /\ w.media = el[e].media /\ w.seeking = el[e].seeking
      /\ w.reports = el[e].reports /\ w.at = el[e].at /\ w.start = el[e].start
  BY <1>1 DEF Element
<1>5. Quiet(w)
  BY <1>4 DEF Inv, Quiet
<1>6. CASE seek # None
  <2>1. seek \in Wait /\ (seek.on = e => Fits(seek, w))
    BY <1>4, <1>6 DEF Inv, TypeOK, Wait, Fits, Awaited, OnItsWay
  <2> QED BY <1>2, <1>3, <1>4, <1>5, <1>6, <2>1, ElementInv
<1>7. CASE seek = None
  BY <1>2, <1>3, <1>4, <1>5, <1>7, ElementInv
<1> QED BY <1>6, <1>7

LEMMA WatcherInv == ASSUME Inv, Check \/ TimesOut \/ Navigate PROVE Inv'
<1>1. CASE Check
  <2> DEFINE e == PickVideo(Candidates, target)
  <2>1. e \in E \cup {None}
    BY Picked DEF Inv
  <2>2. /\ moved' = FALSE /\ target' = e /\ UNCHANGED <<el, left>>
        /\ \/ seek' = None /\ ended' = "abandoned"
           \/ seek = None /\ seek' = seek /\ ended' = "none"
        /\ ground' = IF e = None /\ target = None THEN ground ELSE e
    BY <1>1 DEF Check, SetTarget, Over, Waits
  <2> HIDE DEF e
  <2>3. ground' = target' /\ seek' = None
    BY <2>2 DEF Inv
  <2>4. TypeOK'
    BY <2>1, <2>2, <2>3 DEF Inv, TypeOK
  <2> QED BY <2>2, <2>3, <2>4 DEF Inv
<1>2. CASE TimesOut
  BY <1>2 DEF TimesOut, Over, Inv, TypeOK
<1>3. CASE Navigate
  BY <1>3, PlayerAssumption DEF Navigate, Happens, Waits, Inv, TypeOK
<1> QED BY <1>1, <1>2, <1>3

LEMMA NextInv == Inv /\ [Next]_vars => Inv'
<1> SUFFICES ASSUME Inv, [Next]_vars PROVE Inv'
  OBVIOUS
<1>1. ASSUME NEW x \in Target, SeekTo(x) PROVE Inv'
  BY <1>1, SeekToInv
<1>2. ASSUME NEW e \in E,
             Seeked(e) \/ Arrives(e) \/ Loads(e) \/ Empties(e) \/ PlaysOrPauses(e) \/ ComesOrGoes(e)
      PROVE  Inv'
  BY <1>2, SeekedInv, ArrivesInv, LoadsInv, EmptiesInv, PageInv
<1>3. ASSUME NEW e \in E, NEW x \in Other, Scrub(e, x) PROVE Inv'
  BY <1>3, ScrubInv
<1>4. CASE UNCHANGED vars
  BY <1>4 DEF vars, Inv, TypeOK
<1> QED BY <1>1, <1>2, <1>3, <1>4, WatcherInv DEF Next

(* The invariant holds in every state of the specification. *)
THEOREM PlayerCorrect == Spec => []Inv
<1> QED BY InitInv, NextInv, PTL DEF Spec

(* Nothing is left behind on an element that is gone, or on a report that   *)
(* will not come: the apply queue waits only for a seek of the adapter's    *)
(* own element that it will still report, or that has nothing to report and *)
(* waits out its timeout (html5.ts seekTo, swappable.ts setTarget).         *)
THEOREM PlayerLeavesNothingBehind == Spec => []NothingIsLeftBehind
<1>1. Inv => NothingIsLeftBehind
  BY DEF Inv, NothingIsLeftBehind, Fits, Awaited
<1> QED BY <1>1, PlayerCorrect, PTL

(* A seek is refused as one that did not hold only if somebody else wrote   *)
(* the position or the player itself snapped past the tolerance, wherever   *)
(* players snap to: not for a target past the end, nor for the report of an *)
(* older seek (done's clamp, the tolerance, the order of its tests).        *)
THEOREM PlayerUndisturbedSeeksHold == Spec => UndisturbedSeeksHold
<1> DEFINE Holds == seek # None /\ seek' = None /\ ended' = "elsewhere"
                      => seek.disturbed \/ seek.snapped
<1>1. Inv /\ [Next]_vars => [Holds]_vars
  <2> SUFFICES ASSUME Inv, [Next]_vars, seek # None, seek' = None, ended' = "elsewhere"
               PROVE  seek.disturbed \/ seek.snapped
    OBVIOUS
  <2>1. PICK e \in E : Seeked(e)
    BY DEF Next, vars, SeekTo, TimesOut, Arrives, Loads, Empties, PlaysOrPauses, ComesOrGoes,
       Scrub, Navigate, Check, SetTarget, Over, Waits
  <2>2. /\ el[e].reports > 0 /\ seek.on = e
        /\ ~Near(el[e].at, seek.to)
    BY <2>1 DEF Seeked, Done, Over, Waits, Near
  <2>3. Fits(seek, el[e])
    BY <2>2 DEF Inv
  <2> QED BY <2>2, <2>3 DEF Fits, OnItsWay
<1>2. []Inv /\ [][Next]_vars => [][Holds]_vars
  BY <1>1, PTL
<1> QED BY <1>2, PlayerCorrect, PTL DEF Spec, UndisturbedSeeksHold

(* The types of the module's state; in particular the watcher's pick is an  *)
(* element of the page or none, for any sizes and hints (pickVideo).        *)
THEOREM PlayerTypeCorrect == Spec => []TypeOK
<1>1. Inv => TypeOK
  BY DEF Inv
<1> QED BY <1>1, PlayerCorrect, PTL

-----------------------------------------------------------------------------
(***************************************************************************)
(* What is proved of Detector, for every threshold, delay, length of a     *)
(* held reading and jump: no seek and no press is made up, and none is     *)
(* missed.  A look judges the position with what it remembers of the last  *)
(* one, so the invariant says how far the element can be from what is      *)
(* remembered, and whose doing it is that its play state is another.       *)
(***************************************************************************)

Read == video.pos - video.held

(* Of a reading that is held, and of the seek of a transition. *)
ReadingHeld ==
  /\ video.held <= video.pos
  /\ video.frozen => video.ready
  /\ video.held > 0 => video.frozen /\ ~video.paused
  /\ apply.on => ~video.ready
  /\ since.sought => video.held <= since.time

(* What the detector remembers of one look belongs together. *)
Baseline ==
  /\ det.seen => det.based
  /\ det.based /\ ~det.seen => det.known = det.at
  /\ det.stalled => det.seen /\ det.known = det.at
  /\ det.stalled /\ ~det.suspended => det.reach \in det.at .. det.at + MaxFrozen

(* Whose doing it is that the play state is not the one taken down. *)
Blame ==
  /\ video.byBrowser => video.hidden /\ video.paused /\ ~video.loud
  /\ det.audible => video.loud
  /\ since.by = "browser" /\ video.paused => video.byBrowser
  /\ det.paused # "none" => (since.by = "nobody" <=> det.paused = YesNo(video.paused))

(* Where playback alone takes the element from the last look, also when    *)
(* the reading was held then; a seek starts from there.                    *)
Reached(pos) == det.at <= pos /\ pos <= det.at + MaxFrozen + since.time
Continuous ==
  det.seen /\ ~apply.on =>
    IF since.sought THEN Reached(since.from) ELSE det.at <= Read /\ Reached(video.pos)

(* While a transition is applied: where it put the element, or where a     *)
(* look has seen it.                                                       *)
AppliedSeek == apply.on /\ ~since.moved => Read = apply.pos \/ (det.based => Read = det.known)

(* No seek is unaccounted for: what is remembered explains the position.   *)
Explained ==
  /\ det.at <= Read
  /\ IF det.stalled
     THEN /\ ~det.suspended => video.pos <= det.reach + Late + since.time
          /\ since.caught \/ Read <= det.at + since.time
     ELSE \/ video.pos <= det.at + since.time
          \/ det.known = det.at /\ video.pos <= det.at + since.time + Late
  /\ video.frozen => Read = det.at
  /\ video.frozen /\ ~video.paused =>
       \/ since.event /\ video.held = 0
       \/ det.paused = "no" /\ ((det.seen /\ ~det.suspended) \/ video.held <= since.time)
Unmoved ==
  ~since.moved /\ ~since.lag /\ ~apply.on => IF det.based THEN Explained ELSE video.held <= since.time

DetectorInv ==
  /\ DetectorTypes /\ ReadingHeld /\ Baseline /\ Blame
  /\ Continuous /\ AppliedSeek /\ Unmoved

USE DetectorAssumption

LEMMA DetectorInvInit == DetectorInit => DetectorInv
  BY DEF DetectorInit, DetectorInv, DetectorTypes, Videos, Detectors, Happenings, ReadingHeld,
         Baseline, Blame, Continuous, AppliedSeek, Unmoved, Nothing, Detector0, NotApplying, Pos, Lag,
         Delay

LEMMA DetectorInvStutter == DetectorInv /\ UNCHANGED detectorVars => DetectorInv'
  BY DEF DetectorInv, DetectorTypes, ReadingHeld, Baseline, Blame, Continuous, AppliedSeek,
         Unmoved, Explained, Reached, Read, detectorVars

LEMMA ZeroIsInRange == 0 \in Pos /\ 0 \in Lag /\ 0 \in Delay
  BY DEF Pos, Lag, Delay

LEMMA DoingsStayCounted == DetectorTypes /\ Occurs => doings' \in 0..Doings
  BY DEF DetectorTypes, Occurs

(* What happens between two looks keeps it, one action after the other.    *)
LEMMA TickKeeps == ASSUME DetectorInv, Tick PROVE DetectorInv'
<1>. USE DEF DetectorInv, Tick
<1>1. DetectorTypes'
  <2>. USE DEF DetectorTypes
  <2>1. video' \in Videos
    <3>1. /\ (IF ~video.paused /\ video.ready THEN video.pos + 1 ELSE video.pos) \in Pos
          /\ (IF ~video.paused /\ video.ready /\ video.frozen THEN video.held + 1 ELSE video.held) \in Lag
      BY DEF Videos, Pos, Lag
    <3>. QED
      BY <3>1 DEF Videos
  <2>3. since' \in Happenings
    <3>1. since.time + 1 \in Delay
      BY DEF Happenings, Delay
    <3>. QED
      BY <3>1 DEF Happenings
  <2>4. /\ room' \in [pos : Pos, paused : BOOLEAN, queued : BOOLEAN]
        /\ apply' \in [on : BOOLEAN, pos : Pos, paused : BOOLEAN]
        /\ doings' \in 0..Doings
    <3>1. ~room.paused => room.pos + 1 \in Pos
      BY DEF Pos
    <3>. QED
      BY <3>1
  <2>. QED
    BY <2>1, <2>3, <2>4
<1>2. ReadingHeld'
  BY DEF ReadingHeld, DetectorTypes, Videos, Happenings, Delay, Lag, Pos
<1>3. Baseline' /\ Blame'
  BY DEF Baseline, Blame
<1>4. Continuous'
  BY DEF Continuous, Reached, Read, DetectorTypes, Videos, Detectors, Happenings, Delay, Lag, Pos
<1>5. AppliedSeek'
  BY DEF AppliedSeek, Read, ReadingHeld
<1>6. Unmoved'
  BY DEF Unmoved, Explained, Read, DetectorTypes, Videos, Detectors, Happenings, Delay, Lag, Pos
<1>. QED
  BY <1>1, <1>2, <1>3, <1>4, <1>5, <1>6

LEMMA ThawsKeeps == ASSUME DetectorInv, Thaws PROVE DetectorInv'
<1>. USE DEF DetectorInv, Thaws
<1>1. DetectorTypes'
  <2>. USE DEF DetectorTypes
  <2>1. video' \in Videos
    BY ZeroIsInRange DEF Videos
  <2>2. since' \in Happenings
    <3>1. (since.caught \/ video.held > 0) \in BOOLEAN
      OBVIOUS
    <3>. QED
      BY <3>1 DEF Happenings
  <2>. QED
    BY <2>1, <2>2
<1>2. ReadingHeld'
  BY DEF ReadingHeld, DetectorTypes, Videos, Happenings, Delay, Pos
<1>3. Baseline'
  BY DEF Baseline
<1>4. Blame'
  BY DEF Blame
<1>5. Continuous'
  BY DEF Continuous, Reached, Read, DetectorTypes, Videos, Pos
<1>6. AppliedSeek'
  BY DEF AppliedSeek, ReadingHeld
<1>7. Unmoved'
  BY DEF Unmoved, Explained, Read, DetectorTypes, Videos, Happenings, Delay, Lag, Pos, ReadingHeld
<1>. QED
  BY <1>1, <1>2, <1>3, <1>4, <1>5, <1>6, <1>7

LEMMA BuffersKeeps == ASSUME DetectorInv, Buffers PROVE DetectorInv'
<1>. USE DEF DetectorInv, Buffers
<1>1. DetectorTypes'
  BY DoingsStayCounted DEF DetectorTypes, Videos
<1>2. ReadingHeld'
  BY DEF ReadingHeld
<1>3. Baseline'
  BY DEF Baseline
<1>4. Blame'
  BY DEF Blame
<1>5. Continuous'
  BY DEF Continuous, Reached, Read
<1>6. AppliedSeek'
  BY DEF AppliedSeek
<1>7. Unmoved'
  BY DEF Unmoved, Explained, Read
<1>. QED
  BY <1>1, <1>2, <1>3, <1>4, <1>5, <1>6, <1>7

LEMMA PressesKeeps == ASSUME DetectorInv, Presses PROVE DetectorInv'
<1>. USE DEF DetectorInv, Presses, Changed
<1>1. DetectorTypes'
  BY ZeroIsInRange, DoingsStayCounted DEF DetectorTypes, Videos, Happenings
<1>2. ReadingHeld'
  BY DEF ReadingHeld
<1>3. Baseline'
  BY DEF Baseline
<1>4. Blame'
  BY DEF Blame, DetectorTypes, Videos, Detectors, Happenings, YesNo
<1>5. Continuous'
  BY DEF Continuous, Reached, Read
<1>6. AppliedSeek'
  BY DEF AppliedSeek, Read
<1>7. Unmoved'
  BY DEF Unmoved, Explained, Read
<1>. QED
  BY <1>1, <1>2, <1>3, <1>4, <1>5, <1>6, <1>7

LEMMA UnmutesKeeps == ASSUME DetectorInv, Unmutes PROVE DetectorInv'
<1>. USE DEF DetectorInv, Unmutes
<1>1. DetectorTypes'
  BY DoingsStayCounted DEF DetectorTypes, Videos
<1>2. ReadingHeld'
  BY DEF ReadingHeld
<1>3. Baseline'
  BY DEF Baseline
<1>4. Blame'
  BY DEF Blame
<1>5. Continuous'
  BY DEF Continuous, Reached, Read
<1>6. AppliedSeek'
  BY DEF AppliedSeek, Read
<1>7. Unmoved'
  BY DEF Unmoved, Explained, Read
<1>. QED
  BY <1>1, <1>2, <1>3, <1>4, <1>5, <1>6, <1>7

LEMMA HidesKeeps == ASSUME DetectorInv, Hides PROVE DetectorInv'
<1>. USE DEF DetectorInv, Hides
<1>1. DetectorTypes'
  BY DoingsStayCounted DEF DetectorTypes, Videos
<1>2. ReadingHeld'
  BY DEF ReadingHeld
<1>3. Baseline'
  BY DEF Baseline
<1>4. Blame'
  BY DEF Blame
<1>5. Continuous'
  BY DEF Continuous, Reached, Read
<1>6. AppliedSeek'
  BY DEF AppliedSeek, Read
<1>7. Unmoved'
  BY DEF Unmoved, Explained, Read
<1>. QED
  BY <1>1, <1>2, <1>3, <1>4, <1>5, <1>6, <1>7

LEMMA BackgroundPauseKeeps == ASSUME DetectorInv, BackgroundPause PROVE DetectorInv'
<1>. USE DEF DetectorInv, BackgroundPause, Changed
<1>1. DetectorTypes'
  BY ZeroIsInRange, DoingsStayCounted DEF DetectorTypes, Videos, Happenings
<1>2. ReadingHeld'
  BY DEF ReadingHeld
<1>3. Baseline'
  BY DEF Baseline
<1>4. Blame'
  BY DEF Blame, DetectorTypes, Detectors, YesNo
<1>5. Continuous'
  BY DEF Continuous, Reached, Read
<1>6. AppliedSeek'
  BY DEF AppliedSeek, Read
<1>7. Unmoved'
  BY DEF Unmoved, Explained, Read
<1>. QED
  BY <1>1, <1>2, <1>3, <1>4, <1>5, <1>6, <1>7

LEMMA ShowsKeeps == ASSUME DetectorInv, Shows PROVE DetectorInv'
<1>. USE DEF DetectorInv, Shows, Changed
<1>1. DetectorTypes'
  <2>. USE DEF DetectorTypes
  <2>1. video' \in Videos
    BY ZeroIsInRange DEF Videos
  <2>3. since' \in Happenings
    BY ZeroIsInRange DEF Happenings
  <2>. QED
    BY <2>1, <2>3, DoingsStayCounted
<1>2. ReadingHeld'
  BY DEF ReadingHeld
<1>3. Baseline'
  BY DEF Baseline
<1>4. Blame'
  BY DEF Blame, DetectorTypes, Detectors, YesNo
<1>5. Continuous'
  BY DEF Continuous, Reached, Read
<1>6. AppliedSeek'
  BY DEF AppliedSeek, Read
<1>7. Unmoved'
  BY DEF Unmoved, Explained, Read, DetectorTypes, Videos, Lag, ReadingHeld
<1>. QED
  BY <1>1, <1>2, <1>3, <1>4, <1>5, <1>6, <1>7

LEMMA ApplySeekKeeps == ASSUME DetectorInv, ApplySeek PROVE DetectorInv'
<1>. USE DEF DetectorInv, ApplySeek
<1>1. DetectorTypes'
  BY ZeroIsInRange, DoingsStayCounted DEF DetectorTypes, Videos, Happenings
<1>2. ReadingHeld'
  BY DEF ReadingHeld, DetectorTypes, Happenings, Delay, Pos
<1>3. Baseline'
  BY DEF Baseline
<1>4. Blame'
  BY DEF Blame
<1>5. Continuous'
  BY DEF Continuous
<1>6. AppliedSeek'
  BY DEF AppliedSeek, Read, DetectorTypes, Pos
<1>7. Unmoved'
  BY DEF Unmoved
<1>. QED
  BY <1>1, <1>2, <1>3, <1>4, <1>5, <1>6, <1>7

LEMMA ReopensKeeps == ASSUME DetectorInv, Reopens PROVE DetectorInv'
<1>. USE DEF DetectorInv, Reopens, Reset, Nothing, Detector0
<1>1. DetectorTypes'
  <2>. USE DEF DetectorTypes
  <2>1. video' \in Videos
    BY ZeroIsInRange DEF Videos
  <2>2. det' \in Detectors
    <3>1. det.suspended \in BOOLEAN /\ det.audible \in BOOLEAN
      BY DEF Detectors
    <3>2. det' = [known |-> 0, based |-> FALSE, at |-> 0, seen |-> FALSE, stalled |-> FALSE,
                  reach |-> 0, suspended |-> det.suspended, audible |-> det.audible,
                  paused |-> "none"]
      OBVIOUS
    <3>3. \A u, v \in BOOLEAN :
            [known |-> 0, based |-> FALSE, at |-> 0, seen |-> FALSE, stalled |-> FALSE,
             reach |-> 0, suspended |-> u, audible |-> v, paused |-> "none"]
            \in [known : Int, based : BOOLEAN, at : Int, seen : BOOLEAN, stalled : BOOLEAN,
                reach : Int, suspended : BOOLEAN, audible : BOOLEAN,
                paused : {"none", "yes", "no"}]
      OBVIOUS
    <3>. QED
      BY <3>1, <3>2, <3>3 DEF Detectors
  <2>3. since' \in Happenings
    <3>1. (video.held > 0) \in BOOLEAN
      BY DEF Videos, Lag
    <3>. QED
      BY <3>1, ZeroIsInRange DEF Happenings
  <2>. QED
    BY <2>1, <2>2, <2>3, DoingsStayCounted
<1>2. ReadingHeld'
  BY DEF ReadingHeld
<1>3. Baseline'
  BY DEF Baseline
<1>4. Blame'
  BY DEF Blame
<1>5. Continuous'
  BY DEF Continuous
<1>6. AppliedSeek'
  BY DEF AppliedSeek
<1>7. Unmoved'
  BY DEF Unmoved, DetectorTypes, Videos, Lag, ReadingHeld
<1>. QED
  BY <1>1, <1>2, <1>3, <1>4, <1>5, <1>6, <1>7

LEMMA SeeksKeeps ==
  ASSUME DetectorInv, NEW by \in Jumps, NEW ready \in BOOLEAN, NEW frozen \in BOOLEAN,
         Seeks(by, ready, frozen)
  PROVE  DetectorInv'
<1>. USE DEF DetectorInv, Seeks
<1>1. DetectorTypes'
  <2>. USE DEF DetectorTypes
  <2>1. video' \in Videos
    <3>1. video.pos - video.held + by \in Pos
      OBVIOUS
    <3>. QED
      BY ZeroIsInRange DEF Videos
  <2>3. since' \in Happenings
    BY DEF Happenings, Videos
  <2>. QED
    BY <2>1, <2>3, DoingsStayCounted
<1>2. ReadingHeld'
  BY DEF ReadingHeld, DetectorTypes, Happenings, Delay, Pos
<1>3. Baseline'
  BY DEF Baseline
<1>4. Blame'
  BY DEF Blame
<1>5. Continuous'
  BY DEF Continuous, Reached
<1>6. AppliedSeek'
  BY DEF AppliedSeek
<1>7. Unmoved'
  BY DEF Unmoved
<1>. QED
  BY <1>1, <1>2, <1>3, <1>4, <1>5, <1>6, <1>7

LEMMA RoomMovesKeeps ==
  ASSUME DetectorInv, NEW by \in Jumps \cup {0}, NEW paused \in BOOLEAN, RoomMoves(by, paused)
  PROVE  DetectorInv'
<1>. USE DEF DetectorInv, RoomMoves
<1>1. DetectorTypes'
  BY ZeroIsInRange, DoingsStayCounted DEF DetectorTypes, Videos, Happenings
<1>2. ReadingHeld'
  BY DEF ReadingHeld
<1>3. Baseline'
  BY DEF Baseline
<1>4. Blame'
  BY DEF Blame
<1>5. Continuous'
  BY DEF Continuous, Reached, Read
<1>6. AppliedSeek'
  BY DEF AppliedSeek, Read
<1>7. Unmoved'
  BY DEF Unmoved, Explained, Read
<1>. QED
  BY <1>1, <1>2, <1>3, <1>4, <1>5, <1>6, <1>7

LEMMA ApplyPressKeeps ==
  ASSUME DetectorInv, NEW ready \in BOOLEAN, NEW frozen \in BOOLEAN, ApplyPress(ready, frozen)
  PROVE  DetectorInv'
<1>. USE DEF DetectorInv, ApplyPress, Rebaseline, State, Nothing, YesNo, NotApplying
<1>1. DetectorTypes'
  <2>. USE DEF DetectorTypes
  <2>1. video' \in Videos
    BY ZeroIsInRange DEF Videos
  <2>2. det' \in Detectors
    <3>1. video'.pos - video'.held \in Int
      BY DEF Videos, Pos, Lag
    <3>. QED
      BY <3>1 DEF Detectors
  <2>3. since' \in Happenings
    BY ZeroIsInRange DEF Happenings
  <2>4. /\ room' \in [pos : Pos, paused : BOOLEAN, queued : BOOLEAN]
        /\ apply' \in [on : BOOLEAN, pos : Pos, paused : BOOLEAN]
        /\ doings' \in 0..Doings
    BY ZeroIsInRange DEF Videos
  <2>. QED
    BY <2>1, <2>2, <2>3, <2>4
<1>2. ReadingHeld'
  BY DEF ReadingHeld
<1>3. Baseline'
  BY DEF Baseline, DetectorTypes, Videos, Lag, Pos
<1>4. Blame'
  BY DEF Blame
<1>5. Continuous'
  BY DEF Continuous, Reached, Read, DetectorTypes, Videos, Happenings, Delay, Lag, Pos
<1>6. AppliedSeek'
  BY DEF AppliedSeek
<1>7. Unmoved'
  BY DEF Unmoved, Explained, Read, DetectorTypes, Videos, Happenings, Delay, Lag, Pos, ReadingHeld
<1>. QED
  BY <1>1, <1>2, <1>3, <1>4, <1>5, <1>6, <1>7

(* A sample of the player, and what Judge may make of it: e is the detector *)
(* once it knows whether the player is heard, x where the room is, dt the  *)
(* time since the last look.                                               *)
Samples == [read : Int, paused : BOOLEAN, hidden : BOOLEAN, ready : BOOLEAN,
            loud : BOOLEAN, held : BOOLEAN]

Ref(d, s) == IF d.suspended \/ ~d.based THEN s.read ELSE d.known
Took(d, s) == IF d.suspended THEN YesNo(s.paused) ELSE d.paused
BrowsersPause(d, s) == s.paused /\ s.hidden /\ ~d.audible
HeldStill(d, s, dt) ==
  /\ d.seen /\ ~s.paused /\ Took(d, s) = "no"
  /\ IF dt = 0 THEN s.held ELSE 2 * (s.read - d.at) < dt

SuspendsAs(d, s, j) ==
  /\ BrowsersPause(d, s) /\ s.ready /\ j.obs = "suspended" /\ j.d.suspended
  /\ j.d.known = s.read /\ j.d.paused = YesNo(s.paused)
  /\ j.d.seen = d.seen /\ j.d.based = d.based /\ j.d.stalled = d.stalled

StallsAs(d, s, x, dt, j) ==
  LET hi == IF ~d.stalled /\ Took(d, s) = "no" THEN Ref(d, s) + dt ELSE Ref(d, s)
      far == IF d.stalled THEN d.reach + (IF s.paused THEN 0 ELSE dt) ELSE hi
      sought == Jumped(Outside(s.read, Ref(d, s), hi), s, x)
      other == Took(d, s) \notin {"none", YesNo(s.paused)}
  IN /\ ~(BrowsersPause(d, s) /\ s.ready) /\ (~s.ready \/ HeldStill(d, s, dt))
     /\ ~j.d.suspended /\ j.d.seen /\ j.d.based /\ j.d.stalled /\ j.d.known = s.read
     /\ j.d.reach = IF sought THEN s.read
                    ELSE Least(s.read + MaxFrozen, Most(s.read, far))
     /\ j.d.paused = IF sought \/ BrowsersPause(d, s) THEN Took(d, s) ELSE YesNo(s.paused)
     /\ j.obs = IF sought THEN "seek" ELSE IF ~BrowsersPause(d, s) /\ other THEN "playstate" ELSE "stall"

RunsAs(d, s, x, dt, j) ==
  LET known == IF d.stalled THEN s.read ELSE IF s.paused THEN Ref(d, s) ELSE Ref(d, s) + dt
      hi == Most(Ref(d, s), d.reach) + (IF s.paused THEN 0 ELSE dt)
      gap == IF d.stalled THEN Outside(s.read, Ref(d, s), hi) ELSE Magnitude(s.read - known)
      other == Took(d, s) \notin {"none", YesNo(s.paused)}
  IN /\ ~(BrowsersPause(d, s) /\ s.ready) /\ s.ready /\ ~HeldStill(d, s, dt)
     /\ ~j.d.suspended /\ j.d.seen /\ j.d.based /\ ~j.d.stalled
     /\ j.d.known = IF Jumped(gap, s, x) THEN s.read ELSE known
     /\ j.d.paused = YesNo(s.paused)
     /\ j.obs = IF Jumped(gap, s, x) THEN "seek" ELSE IF other THEN "playstate" ELSE "idle"

Hears(d, s) == [d EXCEPT !.audible = @ \/ (~s.paused /\ s.loud)]

ComesBackAs(e, s) ==
  IF e.suspended
  THEN [e EXCEPT !.suspended = FALSE, !.paused = YesNo(s.paused), !.known = s.read, !.based = TRUE]
  ELSE e
ReadyAs(b, s) ==
  [b EXCEPT !.at = s.read, !.seen = TRUE, !.based = TRUE, !.known = IF b.based THEN @ ELSE s.read]

(* The detector that Stalled and Running are given, field by field. *)
LEMMA ReadyFields ==
  ASSUME NEW e \in Detectors, NEW s \in Samples
  PROVE LET b == ComesBackAs(e, s) 
            c == ReadyAs(b, s)
        IN /\ b \in Detectors /\ c \in Detectors
           /\ b.suspended = FALSE /\ b.paused = Took(e, s) /\ b.at = e.at /\ b.seen = e.seen
           /\ c.at = s.read /\ c.seen = TRUE /\ c.based = TRUE /\ c.known = Ref(e, s) /\ c.suspended = FALSE
           /\ c.paused = Took(e, s) /\ c.reach = e.reach /\ c.stalled = e.stalled /\ c.audible = e.audible
<1>1. ComesBackAs(e, s) \in Detectors
  BY DEF ComesBackAs, Detectors, Samples, YesNo
<1>2. ReadyAs(ComesBackAs(e, s), s) \in Detectors
  BY <1>1 DEF ReadyAs, Detectors, Samples
<1>. QED
  BY <1>1, <1>2 DEF ComesBackAs, ReadyAs, Took, Ref

(* A look suspends, stalls or runs, and each says what it leaves behind. *)
LEMMA JudgeIsOneOfThree ==
  ASSUME NEW d \in Detectors, NEW s \in Samples, NEW x \in Int, NEW dt \in Nat
  PROVE  LET j == Judge(d, s, x, dt)
             e == Hears(d, s)
         IN /\ j.d \in Detectors /\ j.d.at = s.read
            /\ j.d.audible = (d.audible \/ (~s.paused /\ s.loud))
            /\ SuspendsAs(e, s, j) \/ StallsAs(e, s, x, dt, j) \/ RunsAs(e, s, x, dt, j)
<1>. DEFINE e == Hears(d, s)
            b == ComesBackAs(e, s)
            c == ReadyAs(b, s)
<1>1. e \in Detectors /\ e.audible = (d.audible \/ (~s.paused /\ s.loud))
  BY DEF Hears, Detectors
<1>2. /\ b \in Detectors /\ c \in Detectors
      /\ b.suspended = FALSE /\ b.paused = Took(e, s) /\ b.at = e.at /\ b.seen = e.seen
      /\ c.at = s.read /\ c.seen = TRUE /\ c.based = TRUE /\ c.known = Ref(e, s) /\ c.suspended = FALSE
      /\ c.paused = Took(e, s) /\ c.reach = e.reach /\ c.stalled = e.stalled /\ c.audible = e.audible
  <2>. HIDE DEF e
  <2>. QED
    BY <1>1, ReadyFields DEF b, c
<1>3. Judge(d, s, x, dt) =
        CASE BrowserPaused(e, s) -> Suspended(e, s)
          [] ~BrowserPaused(e, s) /\ (~s.ready \/ Frozen(b, s, dt)) -> Stalled(c, s, x, dt)
          [] OTHER -> Running(c, s, x, dt)
  BY DEF Judge, Hears, ComesBackAs, ReadyAs
<1>4. Frozen(b, s, dt) <=> HeldStill(e, s, dt)
  <2>. HIDE DEF e, b
  <2>. QED BY <1>2 DEF Frozen, HeldStill
<1>. HIDE DEF e, b, c
<1>5. BrowserPaused(e, s) <=> BrowsersPause(e, s) /\ s.ready
  BY DEF BrowserPaused, BrowsersPause
<1>6. CASE BrowserPaused(e, s)
  <2>1. Judge(d, s, x, dt) = Suspended(e, s)
    BY <1>3, <1>6
  <2>2. LET j == Suspended(e, s)
        IN j.d \in Detectors /\ j.d.at = s.read /\ j.d.audible = e.audible /\ SuspendsAs(e, s, j)
    BY <1>1, <1>5, <1>6 DEF Suspended, SuspendsAs, Detectors, Samples, YesNo
  <2>. QED
    BY <2>1, <2>2, <1>1 DEF e
<1>7. CASE ~BrowserPaused(e, s) /\ (~s.ready \/ Frozen(b, s, dt))
  <2>1. Judge(d, s, x, dt) = Stalled(c, s, x, dt)
    BY <1>3, <1>7
  <2>2. LET j == Stalled(c, s, x, dt)
        IN j.d \in Detectors /\ j.d.at = s.read /\ j.d.audible = e.audible /\ StallsAs(e, s, x, dt, j)
    <3>1. s.read \in Int /\ Ref(e, s) \in Int
      BY <1>1 DEF Ref, Detectors, Samples
    <3>. DEFINE hi == IF ~e.stalled /\ Took(e, s) = "no" THEN Ref(e, s) + dt ELSE Ref(e, s)
                sought == Jumped(Outside(s.read, Ref(e, s), hi), s, x)
                quiet == s.paused /\ s.hidden /\ ~e.audible
                far == IF e.stalled THEN e.reach + (IF s.paused THEN 0 ELSE dt) ELSE hi
                r == IF sought THEN s.read ELSE Least(s.read + MaxFrozen, Most(s.read, far))
                p == IF sought \/ quiet THEN Took(e, s) ELSE YesNo(s.paused)
                other == Took(e, s) \notin {"none", YesNo(s.paused)}
    <3>2. Stalled(c, s, x, dt).d = [c EXCEPT !.stalled = TRUE, !.known = s.read, !.reach = r, !.paused = p]
      BY <1>2 DEF Stalled
    <3>3. Stalled(c, s, x, dt).obs =
            IF sought THEN "seek" ELSE IF ~quiet /\ other THEN "playstate" ELSE "stall"
      BY <1>2 DEF Stalled
    <3>4. hi \in Int /\ far \in Int
      BY <1>2 DEF Detectors
    <3>5. r \in Int /\ p \in {"none", "yes", "no"}
      <4>. HIDE DEF hi, far, sought, quiet
      <4>. QED BY <1>1, <1>2, <3>1, <3>4 DEF Least, Most, YesNo, Detectors
    <3>6. quiet = BrowsersPause(e, s)
      BY <1>2 DEF BrowsersPause
    <3>. HIDE DEF r, p, quiet
    <3>7. LET n == Stalled(c, s, x, dt).d
          IN /\ n \in Detectors /\ n.at = s.read /\ n.audible = e.audible /\ n.suspended = FALSE
             /\ n.seen /\ n.based /\ n.stalled /\ n.known = s.read /\ n.reach = r /\ n.paused = p
      <4>. HIDE DEF hi, far, sought, other, c, e
      <4>1. LET n == [c EXCEPT !.stalled = TRUE, !.known = s.read, !.reach = r, !.paused = p]
            IN /\ n \in Detectors /\ n.at = c.at /\ n.audible = c.audible
               /\ n.suspended = c.suspended /\ n.seen = c.seen /\ n.based = c.based
               /\ n.stalled /\ n.known = s.read /\ n.reach = r /\ n.paused = p
        BY <1>2, <3>5 DEF Detectors
      <4>. QED
        BY <4>1, <3>2, <1>2
    <3>8. StallsAs(e, s, x, dt, Stalled(c, s, x, dt))
      <4>1. ~(BrowsersPause(e, s) /\ s.ready) /\ (~s.ready \/ HeldStill(e, s, dt))
        BY <1>4, <1>5, <1>7
      <4>. HIDE DEF hi, far, sought, other
      <4>2. Stalled(c, s, x, dt).obs =
              IF sought THEN "seek" ELSE IF ~BrowsersPause(e, s) /\ other THEN "playstate" ELSE "stall"
        BY <3>3, <3>6
      <4>3. p = IF sought \/ BrowsersPause(e, s) THEN Took(e, s) ELSE YesNo(s.paused)
        BY <3>6 DEF p
      <4>4. r = IF sought THEN s.read ELSE Least(s.read + MaxFrozen, Most(s.read, far))
        BY DEF r
      <4>. HIDE DEF c, e
      <4>. QED
        BY <4>1, <4>2, <4>3, <4>4, <3>7 DEF StallsAs, hi, far, sought, other
    <3>. QED
      BY <3>7, <3>8
  <2>. QED
    BY <2>1, <2>2, <1>1 DEF e
<1>8. CASE ~BrowserPaused(e, s) /\ ~(~s.ready \/ Frozen(b, s, dt))
  <2>1. Judge(d, s, x, dt) = Running(c, s, x, dt)
    BY <1>3, <1>8
  <2>2. LET j == Running(c, s, x, dt)
        IN j.d \in Detectors /\ j.d.at = s.read /\ j.d.audible = e.audible /\ RunsAs(e, s, x, dt, j)
    <3>1. s.read \in Int /\ Ref(e, s) \in Int
      BY <1>1 DEF Ref, Detectors, Samples
    <3>. DEFINE known == IF e.stalled THEN s.read
                         ELSE IF s.paused THEN Ref(e, s) ELSE Ref(e, s) + dt
                hi == Most(Ref(e, s), e.reach) + (IF s.paused THEN 0 ELSE dt)
                gap == IF e.stalled THEN Outside(s.read, Ref(e, s), hi)
                       ELSE Magnitude(s.read - known)
                sought == Jumped(gap, s, x)
                k == IF sought THEN s.read ELSE known
                other == Took(e, s) \notin {"none", YesNo(s.paused)}
    <3>2. Running(c, s, x, dt).d = [c EXCEPT !.stalled = FALSE, !.known = k, !.paused = YesNo(s.paused)]
      BY <1>2 DEF Running
    <3>3. Running(c, s, x, dt).obs = IF sought THEN "seek" ELSE IF other THEN "playstate" ELSE "idle"
      BY <1>2 DEF Running
    <3>4. known \in Int
      BY <3>1
    <3>5. k \in Int /\ YesNo(s.paused) \in {"none", "yes", "no"}
      <4>. HIDE DEF known, sought
      <4>. QED BY <3>1, <3>4 DEF YesNo
    <3>. HIDE DEF k
    <3>7. LET n == Running(c, s, x, dt).d
          IN /\ n \in Detectors /\ n.at = s.read /\ n.audible = e.audible /\ n.suspended = FALSE
             /\ n.seen /\ n.based /\ ~n.stalled /\ n.known = k /\ n.paused = YesNo(s.paused)
      <4>. HIDE DEF hi, known, gap, sought, other, c, e
      <4>1. LET n == [c EXCEPT !.stalled = FALSE, !.known = k, !.paused = YesNo(s.paused)]
            IN /\ n \in Detectors /\ n.at = c.at /\ n.audible = c.audible
               /\ n.suspended = c.suspended /\ n.seen = c.seen /\ n.based = c.based
               /\ n.stalled = FALSE /\ n.known = k /\ n.paused = YesNo(s.paused)
        BY <1>2, <3>5 DEF Detectors
      <4>. QED
        BY <4>1, <3>2, <1>2
    <3>8. RunsAs(e, s, x, dt, Running(c, s, x, dt))
      <4>1. ~(BrowsersPause(e, s) /\ s.ready) /\ s.ready /\ ~HeldStill(e, s, dt)
        BY <1>4, <1>5, <1>8
      <4>. QED
        BY <4>1, <3>3, <3>7 DEF RunsAs, k
    <3>. QED
      BY <3>7, <3>8
  <2>. QED
    BY <2>1, <2>2, <1>1 DEF e
<1>. QED
  BY <1>6, <1>7, <1>8

(* Which looks take a seek of the member's into the baseline (Look). *)
Settled(j) ==
  \/ j.obs = "suspended"
  \/ j.obs = "seek" /\ since.sought
  \/ video.held = 0 /\ (j.obs = "seek" \/ j.d.stalled \/ det.stalled)

LookedAs(j, s, e, dt) ==
  /\ s \in Samples /\ e \in Detectors /\ dt \in Delay
  /\ det' = j.d /\ j.d \in Detectors /\ j.d.at = s.read
  /\ j.d.audible = (det.audible \/ (~s.paused /\ s.loud))
  /\ SuspendsAs(e, s, j) \/ StallsAs(e, s, room.pos, dt, j) \/ RunsAs(e, s, room.pos, dt, j)
  /\ said' = Sent(j.obs, s, j.d.stalled)
  /\ since'.time = 0 /\ since'.from = 0 /\ ~since'.sought /\ ~since'.event /\ ~since'.caught
  /\ since'.moved = (since.moved /\ ~Settled(j)) /\ since'.lag = (since.lag /\ ~Settled(j))
  /\ since'.by = IF j.d.paused = YesNo(s.paused) THEN "nobody" ELSE since.by
  /\ since' \in Happenings
  /\ room' = CASE Sent(j.obs, s, j.d.stalled) = "seek" -> [room EXCEPT !.pos = s.read]
               [] Sent(j.obs, s, j.d.stalled) = "playstate" -> [room EXCEPT !.pos = s.read, !.paused = s.paused]
               [] OTHER -> room
  /\ UNCHANGED <<video, apply, doings>>

LEMMA LookIsOneOfThree ==
  ASSUME DetectorInv, Look
  PROVE  LET s == State(video)
         IN \E j : LookedAs(j, s, Hears(det, s), IF det.seen THEN since.time ELSE 0)
<1>. DEFINE s == State(video)
            dt == IF det.seen THEN since.time ELSE 0
            j == Judge(det, s, room.pos, dt)
<1>0. s \in Samples /\ s.read = Read /\ Read \in Pos /\ room.pos \in Int
  BY DEF State, Samples, DetectorInv, DetectorTypes, Videos, ReadingHeld, Read, Pos, Lag
<1>1. dt \in Delay /\ dt \in Nat
  BY DEF DetectorInv, DetectorTypes, Happenings, Delay
<1>2. det \in Detectors
  BY DEF DetectorInv, DetectorTypes
<1>3. Hears(det, s) \in Detectors
  BY <1>2 DEF Hears, Detectors
<1>4. /\ j.d \in Detectors /\ j.d.at = s.read
      /\ j.d.audible = (det.audible \/ (~s.paused /\ s.loud))
      /\ \/ SuspendsAs(Hears(det, s), s, j) \/ StallsAs(Hears(det, s), s, room.pos, dt, j)
         \/ RunsAs(Hears(det, s), s, room.pos, dt, j)
  <2>. HIDE DEF s, dt
  <2>. QED BY <1>0, <1>1, <1>2, JudgeIsOneOfThree
<1>5. det' = j.d /\ said' = Sent(j.obs, s, j.d.stalled)
      /\ UNCHANGED <<video, apply, doings>>
  BY DEF Look
<1>6. since' = [Nothing EXCEPT !.moved = since.moved /\ ~Settled(j),
                                   !.lag = since.lag /\ ~Settled(j),
                                   !.by = IF j.d.paused = YesNo(s.paused) THEN "nobody" ELSE since.by]
  BY DEF Look, Settled
<1>7. room' = CASE Sent(j.obs, s, j.d.stalled) = "seek" -> [room EXCEPT !.pos = s.read]
                    [] Sent(j.obs, s, j.d.stalled) = "playstate" -> [room EXCEPT !.pos = s.read, !.paused = s.paused]
                    [] OTHER -> room
  BY DEF Look
<1>. HIDE DEF s, dt, j
<1>8. /\ since.by \in {"nobody", "member", "browser"} /\ since.moved \in BOOLEAN
      /\ since.lag \in BOOLEAN
  BY DEF DetectorInv, DetectorTypes, Happenings
<1>9. /\ since'.time = 0 /\ since'.from = 0 /\ ~since'.sought /\ ~since'.event /\ ~since'.caught
      /\ since'.moved = (since.moved /\ ~Settled(j)) /\ since'.lag = (since.lag /\ ~Settled(j))
      /\ since'.by = IF j.d.paused = YesNo(s.paused) THEN "nobody" ELSE since.by
  BY <1>6 DEF Nothing
<1>10. since' \in Happenings
  BY <1>6, <1>8, ZeroIsInRange DEF Nothing, Happenings
<1>11. s \in Samples /\ Hears(det, s) \in Detectors /\ dt \in Delay
  BY <1>0, <1>1, <1>3
<1>12. LookedAs(j, s, Hears(det, s), dt)
  BY <1>4, <1>5, <1>7, <1>9, <1>10, <1>11 DEF LookedAs
<1>. QED
  BY <1>12 DEF s, dt

Sampled(s, e) ==
  /\ s.read = Read /\ s.paused = video.paused /\ s.hidden = video.hidden
  /\ s.ready = video.ready /\ s.loud = video.loud /\ s.held = video.frozen
  /\ e.known = det.known /\ e.based = det.based /\ e.at = det.at /\ e.seen = det.seen
  /\ e.stalled = det.stalled /\ e.reach = det.reach /\ e.suspended = det.suspended
  /\ e.paused = det.paused /\ e.audible = (det.audible \/ (~s.paused /\ s.loud))

LEMMA SampledFields ==
  ASSUME det \in Detectors
  PROVE  Sampled(State(video), Hears(det, State(video)))
<1>. DEFINE s == State(video)
<1>1. /\ s.read = Read /\ s.paused = video.paused /\ s.hidden = video.hidden
      /\ s.ready = video.ready /\ s.loud = video.loud /\ s.held = video.frozen
  BY DEF State, Read
<1>. HIDE DEF s
<1>. QED
  BY <1>1 DEF Sampled, Hears, s

(* A look keeps the invariant.  The hard case is a held reading after a    *)
(* seek that was taken in: the range kept for the resume (stallReach), or  *)
(* the reference itself, follows the element closely enough.               *)
LEMMA LookKeeps == ASSUME DetectorInv, Look PROVE DetectorInv'
<1>. DEFINE s == State(video)
            e == Hears(det, s)
            dt == IF det.seen THEN since.time ELSE 0
<1>1. PICK j : LookedAs(j, s, e, dt)
  BY LookIsOneOfThree
<1>2. Sampled(s, e)
  BY SampledFields DEF DetectorInv, DetectorTypes
<1>. USE DEF LookedAs, Sampled
<1>. HIDE DEF s, e, dt
<1>3. /\ Read \in Pos /\ Read = video.pos - video.held /\ video.pos \in Int /\ video.held \in Nat
      /\ video.held <= MaxFrozen
  BY DEF Read, DetectorInv, DetectorTypes, Videos, ReadingHeld, Pos, Lag
<1>4. DetectorTypes'
  <2>1. j.obs \in {"idle", "seek", "playstate", "stall", "suspended"}
    BY <1>1 DEF SuspendsAs, StallsAs, RunsAs
  <2>2. said' \in {"idle", "seek", "playstate", "stall", "suspended", "echo"}
    BY <2>1, <1>1 DEF Sent
  <2>3. s.read \in Pos /\ s.paused \in BOOLEAN
    BY <1>1, <1>2, <1>3 DEF Samples
  <2>4. room \in [pos : Pos, paused : BOOLEAN, queued : BOOLEAN]
    BY DEF DetectorInv, DetectorTypes
  <2>5. room' \in [pos : Pos, paused : BOOLEAN, queued : BOOLEAN]
    BY <1>1, <2>3, <2>4
  <2>. QED
    BY <1>1, <2>2, <2>5 DEF DetectorInv, DetectorTypes
<1>5. ReadingHeld'
  BY <1>1 DEF DetectorInv, ReadingHeld
<1>6. Baseline'
  <2>1. \A x \in Int : Least(s.read + MaxFrozen, Most(s.read, x)) \in s.read .. s.read + MaxFrozen
    BY <1>2, <1>3 DEF Least, Most
  <2>2. CASE SuspendsAs(e, s, j)
    BY <2>2, <1>1, <1>2 DEF DetectorInv, Baseline, SuspendsAs
  <2>3. CASE StallsAs(e, s, room.pos, dt, j)
    <3>1. PICK x \in Int : j.d.reach = s.read \/ j.d.reach = Least(s.read + MaxFrozen, Most(s.read, x))
      <4>1. dt \in Int /\ e.reach \in Int /\ e.known \in Int /\ s.read \in Int
        BY <1>1 DEF Delay, Detectors
      <4>. DEFINE hi == IF ~e.stalled /\ Took(e, s) = "no" THEN Ref(e, s) + dt ELSE Ref(e, s)
                  far == IF e.stalled THEN e.reach + (IF s.paused THEN 0 ELSE dt) ELSE hi
      <4>2. far \in Int
        BY <4>1 DEF Ref
      <4>3. j.d.reach = s.read \/ j.d.reach = Least(s.read + MaxFrozen, Most(s.read, far))
        BY <2>3 DEF StallsAs
      <4>. QED
        BY <4>2, <4>3
    <3>2. j.d.reach \in s.read .. s.read + MaxFrozen
      BY <3>1, <2>1, <1>2, <1>3
    <3>. QED
      BY <3>2, <2>3, <1>1 DEF Baseline, StallsAs
  <2>4. CASE RunsAs(e, s, room.pos, dt, j)
    BY <2>4, <1>1 DEF Baseline, RunsAs
  <2>. QED
    BY <1>1, <2>2, <2>3, <2>4
<1>7. Blame'
  BY <1>1, <1>2 DEF DetectorInv, Blame, SuspendsAs, StallsAs, RunsAs, Took, Happenings
<1>8. Continuous'
  BY <1>1, <1>2, <1>3 DEF Continuous, Reached, Read
<1>9. AppliedSeek'
  BY <1>1, <1>2 DEF DetectorInv, ReadingHeld, AppliedSeek, Read, SuspendsAs, StallsAs, RunsAs
<1>10. ASSUME ~since'.moved, ~since'.lag, ~apply.on, det'.based PROVE Explained'
  <2>. USE DEF DetectorInv
  <2>1. det'.at = Read /\ Read' = Read /\ since'.time = 0 /\ video' = video
        /\ video.pos = Read + video.held
    BY <1>1, <1>2, <1>3 DEF Read
  <2>2. /\ det.known \in Int /\ det.at \in Int /\ det.reach \in Int /\ Late \in Nat
        /\ dt \in Nat /\ dt <= Late /\ since.time \in Nat /\ since.time <= Late
        /\ det.seen => dt = since.time
        /\ ~det.seen => dt = 0
    BY DEF DetectorTypes, Detectors, Happenings, Delay, dt
  <2>3. video.held > 0 => video.frozen /\ ~video.paused /\ video.ready
    BY DEF ReadingHeld
  <2>4. since.sought => video.held <= Late
    BY <2>2, <1>3 DEF ReadingHeld
  <2>5. det'.at <= Read' /\ (video'.frozen => Read' = det'.at)
    BY <1>3, <2>1
  <2>6. video'.frozen /\ ~video'.paused => det'.paused = "no" /\ det'.seen /\ ~det'.suspended
    <3>1. SUFFICES ASSUME video.frozen, ~video.paused
                   PROVE  det'.paused = "no" /\ det'.seen /\ ~det'.suspended
      BY <2>1
    <3>2. video.ready
      BY <3>1 DEF ReadingHeld
    <3>. QED
      BY <3>1, <3>2, <1>1, <1>2 DEF SuspendsAs, StallsAs, RunsAs, BrowsersPause, HeldStill, YesNo
  <2>7. Read' <= det'.at + since'.time
    BY <1>3, <2>1 DEF Pos
  <2>11. ASSUME video.held > Late, ~since.moved, ~since.lag
         PROVE  /\ det.based /\ det.seen /\ ~det.suspended /\ det.paused = "no" /\ Read = det.at
                /\ video.frozen /\ ~video.paused /\ video.ready
                /\ dt = since.time
                /\ det.stalled => det.known = det.at /\ video.pos <= det.reach + Late + dt
                /\ ~det.stalled => det.known = det.at /\ video.pos <= det.at + Late + dt
    <3>1. video.held > 0 /\ video.frozen /\ ~video.paused /\ video.ready
      BY <2>3, <2>11, <1>3
    <3>2. ~apply.on
      BY <1>1, <1>10
    <3>3. det.based
      BY <2>2, <2>11, <3>2, <1>3 DEF Unmoved
    <3>4. Explained
      BY <2>11, <3>2, <3>3 DEF Unmoved
    <3>5. ~det.suspended /\ det.paused = "no" /\ det.seen /\ Read = det.at
      BY <3>1, <3>4, <2>2, <2>11, <1>3 DEF Explained
    <3>6. dt = since.time
      BY <3>5, <2>2
    <3>7. CASE det.stalled
      <4>1. det.known = det.at /\ video.pos <= det.reach + Late + since.time
        BY <3>4, <3>5, <3>7 DEF Explained, Baseline
      <4>. QED
        BY <3>1, <3>3, <3>5, <3>6, <3>7, <4>1
    <3>8. CASE ~det.stalled
      BY <3>1, <3>3, <3>4, <3>8, <1>3, <2>2, <2>11 DEF Explained
    <3>. QED
      BY <3>7, <3>8
  <2>13. since.moved \/ since.lag => Settled(j)
    <3>1. /\ since'.moved = (since.moved /\ ~Settled(j)) /\ ~since'.moved
          /\ since'.lag = (since.lag /\ ~Settled(j)) /\ ~since'.lag
      BY <1>1, <1>10
    <3>. QED
      BY <3>1, Zenon
  <2>12. video.held > Late /\ j.obs # "suspended" => ~since.moved /\ ~since.lag
    <3>1. ~(video.held = 0 /\ video.held > Late)
      BY <1>3, <2>2
    <3>2. since.sought => ~(video.held > Late)
      BY <1>3, <2>4
    <3>. QED
      BY <2>13, <3>1, <3>2 DEF Settled
  <2>8. ASSUME det'.stalled, ~det'.suspended PROVE video.pos <= det'.reach + Late
    <3>1. StallsAs(e, s, room.pos, dt, j)
      BY <2>8, <1>1 DEF SuspendsAs, RunsAs
    <3>2. det'.reach \in Int /\ det'.reach >= Read
      BY <1>6, <2>1, <2>8 DEF Baseline
    <3>3. CASE video.held <= Late
      BY <1>3, <3>2, <3>3
    <3>4. CASE video.held > Late
      <4>1. j.obs # "suspended"
        BY <3>1 DEF StallsAs
      <4>2. ~since.moved /\ ~since.lag
        BY <3>4, <4>1, <2>12
      <4>. DEFINE hi == IF ~e.stalled /\ Took(e, s) = "no" THEN Ref(e, s) + dt ELSE Ref(e, s)
                  far == IF e.stalled THEN e.reach + (IF s.paused THEN 0 ELSE dt) ELSE hi
                  sought == Jumped(Outside(s.read, Ref(e, s), hi), s, room.pos)
      <4>3. Ref(e, s) = Read /\ Took(e, s) = "no"
        BY <2>11, <3>4, <4>2, <1>2 DEF Ref, Took
      <4>4. hi \in Int /\ hi >= Read /\ far \in Int
            /\ far = IF det.stalled THEN det.reach + dt ELSE Read + dt
        BY <4>3, <1>2, <2>2, <2>11, <3>4, <4>2
      <4>5. j.d.reach = IF sought THEN s.read ELSE Least(s.read + MaxFrozen, Most(s.read, far))
        BY <3>1 DEF StallsAs
      <4>. HIDE DEF hi, far
      <4>6. ~sought
        <5>1. Outside(s.read, Ref(e, s), hi) = 0
          BY <4>3, <4>4, <1>2, <1>3 DEF Outside
        <5>. QED
          BY <5>1 DEF Jumped
      <4>. HIDE DEF sought
      <4>7. det'.reach = Least(Read + MaxFrozen, Most(Read, far))
        BY <4>5, <4>6, <1>1, <1>2
      <4>9. det'.reach >= far \/ det'.reach = Read + MaxFrozen
        <5>1. \A a, b, c \in Int : a <= c => LET r == Least(c, Most(a, b)) IN r >= b \/ r = c
          BY DEF Least, Most
        <5>2. Read \in Int /\ Read + MaxFrozen \in Int /\ Read <= Read + MaxFrozen
          BY <1>3 DEF Pos
        <5>. QED
          BY <4>4, <4>7, <5>1, <5>2
      <4>8. video.pos <= far + Late
        BY <4>4, <2>11, <3>4, <4>2, <2>2
      <4>. QED
        BY <4>4, <4>8, <4>9, <3>2, <1>3
    <3>. QED
      BY <3>3, <3>4, <1>3
  <2>9. ASSUME ~det'.stalled
        PROVE  video.pos <= det'.at \/ (det'.known = det'.at /\ video.pos <= det'.at + Late)
    <3>1. CASE video.held = 0
      BY <3>1, <2>1, <1>3
    <3>2. CASE video.held > 0
      <4>1. video.frozen /\ ~video.paused /\ video.ready
        BY <3>2, <2>3
      <4>2. RunsAs(e, s, room.pos, dt, j)
        BY <4>1, <2>9, <1>1, <1>2 DEF StallsAs, SuspendsAs, BrowsersPause
      <4>3. j.obs # "suspended" /\ ~HeldStill(e, s, dt)
        BY <4>2 DEF RunsAs
      <4>4. CASE since.moved \/ since.lag
        <5>1. j.obs = "seek" /\ since.sought
          <6>1. video.held # 0
            BY <3>2, <1>3
          <6>. QED
            BY <6>1, <4>3, <4>4, <2>13 DEF Settled
        <5>2. j.d.known = s.read
          BY <4>2, <5>1 DEF RunsAs
        <5>. QED
          BY <5>1, <5>2, <2>4, <1>1, <1>2, <1>3
      <4>5. CASE ~since.moved /\ ~since.lag
        <5>0. ~apply.on
          BY <1>1, <1>10
        <5>1. CASE ~det.based
          <6>1. video.held <= Late /\ ~det.seen /\ ~det.stalled /\ dt = 0
            BY <5>0, <5>1, <4>5, <2>2, <1>3 DEF Unmoved, Baseline
          <6>2. Ref(e, s) = s.read /\ s.read \in Int
            BY <5>1, <1>1, <1>2 DEF Ref, Samples
          <6>3. j.d.known = s.read
            BY <4>2, <6>1, <6>2 DEF RunsAs
          <6>. QED
            BY <6>1, <6>3, <1>1, <1>2, <1>3
        <5>2. CASE det.based
          <6>1. Explained
            BY <5>0, <5>2, <4>5 DEF Unmoved
          <6>2. /\ Read = det.at /\ det.paused = "no"
                /\ (det.seen /\ ~det.suspended) \/ video.held <= since.time
            BY <6>1, <4>1, <3>2, <1>3 DEF Explained
          <6>3. CASE det.seen
            <7>1. Took(e, s) = "no"
              BY <6>2, <4>1, <1>2 DEF Took, YesNo
            <7>2. HeldStill(e, s, dt)
              BY <6>2, <6>3, <7>1, <4>1, <1>2, <2>2 DEF HeldStill
            <7>. QED
              BY <7>2, <4>3
          <6>4. CASE ~det.seen
            <7>1. video.held <= Late /\ dt = 0 /\ ~det.stalled /\ det.known = det.at
              BY <6>2, <6>4, <5>2, <2>2, <1>3 DEF Baseline
            <7>2. Ref(e, s) = Read /\ s.read = Read /\ Read \in Int
              BY <6>2, <7>1, <1>2, <2>2 DEF Ref
            <7>3. j.d.known = s.read
              BY <4>2, <7>1, <7>2, <1>2 DEF RunsAs
            <7>. QED
              BY <7>1, <7>3, <2>1, <1>1, <1>2, <1>3
          <6>. QED
            BY <6>3, <6>4
        <5>. QED
          BY <5>1, <5>2
      <4>. QED
        BY <4>4, <4>5
    <3>. QED
      BY <3>1, <3>2, <1>3
  <2>10. det'.at \in Int /\ det'.reach \in Int /\ det'.known \in Int
    BY <1>1 DEF Detectors
  <2>. QED
    BY <2>1, <2>5, <2>6, <2>7, <2>8, <2>9, <2>10 DEF Explained
<1>11. ~det'.based => video.held = 0
  BY <1>1, <1>2, <1>3 DEF DetectorInv, ReadingHeld, SuspendsAs, StallsAs, RunsAs, BrowsersPause
<1>12. Unmoved'
  BY <1>1, <1>10, <1>11 DEF Unmoved
<1>. QED
  BY <1>4, <1>5, <1>6, <1>7, <1>8, <1>9, <1>12 DEF DetectorInv

(* The detector's invariant holds for good: every action keeps it. *)
THEOREM DetectorInvariant == DetectorSpec => []DetectorInv
<1>1. DetectorInit => DetectorInv
  BY DetectorInvInit
<1>2. DetectorInv /\ [DetectorNext]_detectorVars => DetectorInv'
  <2>. SUFFICES ASSUME DetectorInv, DetectorNext PROVE DetectorInv'
    BY DetectorInvStutter
  <2>1. CASE \E by \in Jumps, ready, frozen \in BOOLEAN : Seeks(by, ready, frozen)
    BY <2>1, SeeksKeeps
  <2>2. CASE \E by \in Jumps \cup {0}, paused \in BOOLEAN : RoomMoves(by, paused)
    BY <2>2, RoomMovesKeeps
  <2>3. CASE \E ready, frozen \in BOOLEAN : ApplyPress(ready, frozen)
    BY <2>3, ApplyPressKeeps
  <2>. QED
    BY <2>1, <2>2, <2>3, LookKeeps, TickKeeps, ThawsKeeps, BuffersKeeps, PressesKeeps,
       UnmutesKeeps, HidesKeeps, ShowsKeeps,
       BackgroundPauseKeeps, ApplySeekKeeps, ReopensKeeps DEF DetectorNext
<1>. QED
  BY <1>1, <1>2, PTL DEF DetectorSpec

(* The detector, the element and what is remembered of it are of their     *)
(* types.                                                                  *)
THEOREM DetectorTypesHold == DetectorSpec => []DetectorTypes
<1>1. DetectorInv => DetectorTypes
  BY DEF DetectorInv
<1>. QED
  BY <1>1, DetectorInvariant, PTL

(* A press is not suspended over, and is no other member's echo. *)
LEMMA PressIsHeardNow ==
  ASSUME DetectorInv, Look, since.by = "member", video.paused # room.paused, det.paused # "none",
         ~Silent, ~apply.on
  PROVE  said' \in {"seek", "playstate"}
<1>. DEFINE s == State(video)
            e == Hears(det, s)
            dt == IF det.seen THEN since.time ELSE 0
<1>1. PICK j : LookedAs(j, s, e, dt)
  BY LookIsOneOfThree
<1>2. Sampled(s, e)
  BY SampledFields DEF DetectorInv, DetectorTypes
<1>. USE DEF LookedAs, Sampled
<1>. HIDE DEF s, e, dt
<1>3. ~BrowsersPause(e, s)
  BY <1>2 DEF Silent, BrowsersPause
<1>4. Took(e, s) \notin {"none", YesNo(s.paused)}
  BY <1>2 DEF Silent, Took, DetectorInv, Blame
<1>5. j.obs \in {"seek", "playstate"}
  BY <1>1, <1>3, <1>4 DEF SuspendsAs, StallsAs, RunsAs
<1>. QED
  BY <1>1, <1>2, <1>5 DEF Sent, Own

(* A press is reported by the look its event makes, as a press or behind a *)
(* seek, unless it cannot be told from the browser's (act, evaluate).      *)
THEOREM EveryPressIsHeard == DetectorSpec => PressIsHeard
<1>1. DetectorInv => (Look /\ since.by = "member" /\ video.paused # room.paused /\ det.paused # "none"
                /\ ~Silent /\ ~apply.on => said' \in {"seek", "playstate"})
  BY PressIsHeardNow
<1>. QED
  BY <1>1, DetectorInvariant, PTL DEF PressIsHeard, DetectorSpec

(* A jump out of reach is outside every range a look allows for. *)
LEMMA SeekIsSeenNow ==
  ASSUME DetectorInv, Look, OutOfReach, ~Silent
  PROVE  said' = "seek"
<1>. DEFINE s == State(video)
            e == Hears(det, s)
            dt == IF det.seen THEN since.time ELSE 0
<1>1. PICK j : LookedAs(j, s, e, dt)
  BY LookIsOneOfThree
<1>2. Sampled(s, e)
  BY SampledFields DEF DetectorInv, DetectorTypes
<1>. USE DEF LookedAs, Sampled
<1>. HIDE DEF s, e, dt
<1>3. /\ Read \in Int /\ room.pos \in Int /\ det.known \in Int /\ det.at \in Int /\ det.reach \in Int
      /\ since.from \in Int /\ since.time \in Nat /\ since.time <= Late /\ dt \in Nat /\ dt <= Late
  BY <1>1 DEF DetectorInv, DetectorTypes, Videos, Detectors, Happenings, Delay, Pos, Lag, Read
<1>4. Ref(e, s) = det.known
  BY <1>2 DEF Ref, Silent, OutOfReach, DetectorInv, Baseline
<1>5. det.stalled => det.reach <= det.at + MaxFrozen
  BY DEF Silent, DetectorInv, Baseline
<1>6. det.at <= since.from /\ since.from <= det.at + MaxFrozen + since.time
  BY DEF OutOfReach, DetectorInv, Continuous, Reached
<1>. DEFINE drift == Magnitude(det.known - det.at)
<1>7. drift \in Nat /\ det.at - drift <= det.known /\ det.known <= det.at + drift
  BY <1>3 DEF Magnitude
<1>8. Magnitude(Read - since.from) > 2 * Late + MaxFrozen + Threshold + drift
      /\ Magnitude(Read - room.pos) > Threshold
  BY DEF OutOfReach, Read
<1>. HIDE DEF drift
<1>9. \/ Read + Late + Threshold < det.known /\ Read + Late + Threshold < det.at
      \/ /\ Read > det.known + 2 * Late + Threshold
         /\ Read > det.at + MaxFrozen + 2 * Late + Threshold
  BY <1>3, <1>6, <1>7, <1>8 DEF Magnitude
<1>10. ~BrowsersPause(e, s)
  BY <1>2 DEF Silent, BrowsersPause
<1>11. CASE StallsAs(e, s, room.pos, dt, j)
  <2>. DEFINE hi == IF ~e.stalled /\ Took(e, s) = "no" THEN Ref(e, s) + dt ELSE Ref(e, s)
  <2>1. hi \in Int /\ hi <= det.known + Late
    BY <1>3, <1>4
  <2>2. j.obs = "seek" \/ ~Jumped(Outside(s.read, Ref(e, s), hi), s, room.pos)
    BY <1>11 DEF StallsAs
  <2>. HIDE DEF hi
  <2>3. Outside(s.read, Ref(e, s), hi) > Threshold
    BY <2>1, <1>2, <1>3, <1>4, <1>9 DEF Outside
  <2>. QED
    BY <2>2, <2>3, <1>1, <1>2, <1>8 DEF Jumped, Sent, Own, OutOfReach
<1>12. CASE RunsAs(e, s, room.pos, dt, j)
  <2>. DEFINE known == IF e.stalled THEN s.read ELSE IF s.paused THEN Ref(e, s) ELSE Ref(e, s) + dt
              hi == Most(Ref(e, s), e.reach) + (IF s.paused THEN 0 ELSE dt)
              gap == IF e.stalled THEN Outside(s.read, Ref(e, s), hi) ELSE Magnitude(s.read - known)
  <2>1. j.obs = "seek" \/ ~Jumped(gap, s, room.pos)
    BY <1>12 DEF RunsAs
  <2>2. ASSUME e.stalled PROVE gap > Threshold
    <3>1. hi \in Int /\ (hi <= det.known + Late \/ hi <= det.at + MaxFrozen + Late)
      BY <2>2, <1>2, <1>3, <1>4, <1>5 DEF Most
    <3>. HIDE DEF hi
    <3>2. gap > Threshold
      BY <3>1, <2>2, <1>2, <1>3, <1>4, <1>9 DEF Outside
    <3>. QED
      BY <3>2
  <2>3. ASSUME ~e.stalled PROVE gap > Threshold
    <3>1. known \in Int /\ det.known <= known /\ known <= det.known + Late
      BY <2>3, <1>3, <1>4
    <3>. HIDE DEF known
    <3>2. gap > Threshold
      BY <3>1, <2>3, <1>2, <1>3, <1>9 DEF Magnitude
    <3>. QED
      BY <3>2
  <2>4. gap > Threshold
    BY <2>2, <2>3
  <2>. HIDE DEF gap
  <2>. QED
    BY <2>1, <2>4, <1>1, <1>2, <1>8 DEF Jumped, Sent, Own, OutOfReach
<1>. QED
  BY <1>1, <1>10, <1>11, <1>12 DEF SuspendsAs

(* A jump that playback, a held reading and the drift of the reference do  *)
(* not explain is reported by the next look, stalled or not.               *)
THEOREM EverySeekIsSeen == DetectorSpec => SeekIsSeen
<1>1. DetectorInv => (Look /\ OutOfReach /\ ~Silent => said' = "seek")
  BY SeekIsSeenNow
<1>. QED
  BY <1>1, DetectorInvariant, PTL DEF SeekIsSeen, DetectorSpec

(* What the browser paused and nobody pressed is explained away. *)
LEMMA PressesAreTheMembers ==
  ASSUME DetectorInv, Look, said' = "playstate"
  PROVE  since.by = "member" \/ Forgotten
<1>. DEFINE s == State(video)
            e == Hears(det, s)
            dt == IF det.seen THEN since.time ELSE 0
<1>1. PICK j : LookedAs(j, s, e, dt)
  BY LookIsOneOfThree
<1>2. Sampled(s, e)
  BY SampledFields DEF DetectorInv, DetectorTypes
<1>. USE DEF LookedAs, Sampled
<1>. HIDE DEF s, e, dt
<1>3. j.obs = "playstate"
  BY <1>1 DEF Sent
<1>4. ~BrowsersPause(e, s) /\ Took(e, s) \notin {"none", YesNo(s.paused)}
  BY <1>1, <1>3 DEF SuspendsAs, StallsAs, RunsAs
<1>5. ~det.suspended /\ since.by # "nobody"
  BY <1>2, <1>4 DEF Took, DetectorInv, Blame
<1>6. since.by = "browser" => ~video.paused
  BY <1>2, <1>4 DEF BrowsersPause, DetectorInv, Blame
<1>7. since.by \in {"nobody", "member", "browser"}
  BY DEF DetectorInv, DetectorTypes, Happenings
<1>. QED
  BY <1>5, <1>6, <1>7 DEF Forgotten

(* Of a position that is explained, no gap is beyond the threshold: of one *)
(* that ran or froze on the way at most Late and the drift, of one that    *)
(* resumes at most twice Late.                                             *)
LEMMA SeeksAreTheMembers ==
  ASSUME 2 * Late <= Threshold, DetectorInv, Look,
         ~since.moved, ~since.lag, ~RanDry, ~Drifted
  PROVE  said' # "seek"
<1>. DEFINE s == State(video)
            e == Hears(det, s)
            dt == IF det.seen THEN since.time ELSE 0
<1>1. PICK j : LookedAs(j, s, e, dt)
  BY LookIsOneOfThree
<1>2. Sampled(s, e)
  BY SampledFields DEF DetectorInv, DetectorTypes
<1>. USE DEF LookedAs, Sampled
<1>3. ~det.seen => dt = 0
  OBVIOUS
<1>. HIDE DEF s, e, dt
<1>4. /\ Read \in Int /\ room.pos \in Int /\ det.known \in Int /\ det.at \in Int /\ det.reach \in Int
      /\ since.time \in Nat /\ since.time <= Late /\ dt \in Nat /\ dt <= Late
      /\ video.pos \in Int /\ Read <= video.pos
  BY <1>1 DEF DetectorInv, DetectorTypes, Videos, Detectors, Happenings, Delay, Pos, Lag, Read
<1>. DEFINE hi == IF ~e.stalled /\ Took(e, s) = "no" THEN Ref(e, s) + dt ELSE Ref(e, s)
            known == IF s.paused THEN Ref(e, s) ELSE Ref(e, s) + dt
            top == Most(Ref(e, s), e.reach) + (IF s.paused THEN 0 ELSE dt)
<1>5. Ref(e, s) \in Int /\ Ref(e, s) = IF det.suspended \/ ~det.based THEN Read ELSE det.known
  BY <1>2, <1>4 DEF Ref
<1>6. ASSUME StallsAs(e, s, room.pos, dt, j), Outside(Read, Ref(e, s), hi) <= Threshold
      PROVE  j.obs # "seek"
  <2>1. Outside(Read, Ref(e, s), hi) \in Int
    BY <1>4, <1>5 DEF Outside
  <2>. QED
    BY <1>2, <1>6, <2>1 DEF StallsAs, Jumped
<1>7. ASSUME RunsAs(e, s, room.pos, dt, j),
             IF e.stalled THEN Outside(Read, Ref(e, s), top) <= Threshold
             ELSE Magnitude(Read - known) <= Threshold
      PROVE  j.obs # "seek"
  <2>. DEFINE gap == IF e.stalled THEN Outside(s.read, Ref(e, s), top)
                     ELSE Magnitude(s.read - (IF e.stalled THEN s.read ELSE known))
  <2>1. gap \in Int /\ gap <= Threshold
    <3>1. known \in Int /\ top \in Int
      BY <1>2, <1>4, <1>5 DEF Most
    <3>. QED
      BY <1>2, <1>4, <1>5, <1>7, <3>1 DEF Outside, Magnitude
  <2>2. j.obs # "seek" \/ Jumped(gap, s, room.pos)
    BY <1>7 DEF RunsAs
  <2>. HIDE DEF gap
  <2>. QED
    BY <2>1, <2>2 DEF Jumped
<1>. HIDE DEF hi, known, top
<1>8. /\ hi = (IF ~det.stalled /\ Took(e, s) = "no" THEN Ref(e, s) + dt ELSE Ref(e, s))
      /\ known = (IF video.paused THEN Ref(e, s) ELSE Ref(e, s) + dt)
      /\ top = Most(Ref(e, s), det.reach) + (IF video.paused THEN 0 ELSE dt)
  BY <1>2 DEF hi, known, top
<1>9. /\ hi \in Int /\ Ref(e, s) <= hi
      /\ known \in Int /\ Ref(e, s) <= known /\ known <= Ref(e, s) + dt
      /\ top \in Int /\ Ref(e, s) <= top /\ det.reach + (IF video.paused THEN 0 ELSE dt) <= top
  BY <1>4, <1>5, <1>8 DEF Most
<1>10. CASE SuspendsAs(e, s, j)
  BY <1>1, <1>10 DEF SuspendsAs, Sent
<1>11. ASSUME Ref(e, s) = Read, det.stalled \/ dt = 0 \/ det.suspended \/ StallsAs(e, s, room.pos, dt, j)
       PROVE  j.obs # "seek" \/ SuspendsAs(e, s, j)
  <2>1. Outside(Read, Ref(e, s), hi) <= Threshold /\ Outside(Read, Ref(e, s), top) <= Threshold
    BY <1>4, <1>9, <1>11 DEF Outside
  <2>2. Magnitude(Read - known) <= Threshold
    BY <1>4, <1>9, <1>11 DEF Magnitude
  <2>. QED
    BY <1>1, <1>6, <1>7, <2>1, <2>2
<1>12. CASE apply.on
  <2>1. ~video.ready
    BY <1>12 DEF DetectorInv, ReadingHeld
  <2>2. SuspendsAs(e, s, j) \/ StallsAs(e, s, room.pos, dt, j)
    BY <2>1, <1>1, <1>2 DEF RunsAs
  <2>3. CASE Read = apply.pos
    <3>1. j.obs = "seek" => Own(j.obs, s, j.d.stalled)
      BY <1>12, <2>3, <1>2, <1>4 DEF Own, Magnitude
    <3>. QED
      BY <3>1, <1>1 DEF Sent
  <2>4. CASE det.based => Read = det.known
    <3>1. Ref(e, s) = Read
      BY <2>4, <1>5
    <3>2. j.obs # "seek" \/ SuspendsAs(e, s, j)
      BY <2>2, <3>1, <1>11
    <3>. QED
      BY <3>2, <1>1, <1>10 DEF Sent
  <2>. QED
    BY <1>12, <2>3, <2>4 DEF DetectorInv, AppliedSeek
<1>13. CASE ~apply.on
  <2>1. CASE ~det.based
    <3>1. dt = 0 /\ Ref(e, s) = Read
      BY <2>1, <1>3, <1>5 DEF DetectorInv, Baseline
    <3>. QED
      BY <3>1, <1>1, <1>10, <1>11 DEF Sent
  <2>2. CASE det.based /\ det.suspended
    <3>1. Ref(e, s) = Read
      BY <2>2, <1>5
    <3>. QED
      BY <2>2, <3>1, <1>1, <1>10, <1>11 DEF Sent
  <2>3. CASE det.based /\ ~det.suspended
    <3>1. Explained
      BY <1>13, <2>3 DEF DetectorInv, Unmoved
    <3>2. Ref(e, s) = det.known /\ det.at <= Read
      BY <2>3, <3>1, <1>5 DEF Explained
    <3>3. CASE det.stalled
      <4>1. det.known = det.at /\ det.seen
        BY <3>3 DEF DetectorInv, Baseline
      <4>2. video.pos <= det.reach + Late + since.time
        BY <3>1, <3>3, <2>3 DEF Explained
      <4>3. dt = since.time
        BY <4>1 DEF dt
      <4>4. ASSUME StallsAs(e, s, room.pos, dt, j) PROVE j.obs # "seek"
        <5>1. Read <= det.at + Late
          <6>1. CASE ~video.ready
            BY <6>1, <3>1, <3>3, <1>4 DEF Explained, RanDry
          <6>2. CASE HeldStill(e, s, dt)
            <7>1. IF dt = 0 THEN video.frozen ELSE 2 * (Read - det.at) < dt
              BY <6>2, <1>2 DEF HeldStill
            <7>. QED
              BY <7>1, <3>1, <1>4 DEF Explained
          <6>. QED
            BY <4>4, <6>1, <6>2, <1>2 DEF StallsAs
        <5>2. Outside(Read, Ref(e, s), hi) <= Threshold
          BY <5>1, <3>2, <4>1, <1>4, <1>9 DEF Outside
        <5>. QED
          BY <4>4, <5>2, <1>6
      <4>5. ASSUME RunsAs(e, s, room.pos, dt, j) PROVE j.obs # "seek"
        <5>1. Outside(Read, Ref(e, s), top) <= Threshold
          BY <3>2, <4>1, <4>2, <1>4, <1>9 DEF Outside
        <5>. QED
          BY <3>3, <4>5, <5>1, <1>2, <1>7
      <4>. QED
        BY <4>4, <4>5, <1>1, <1>10 DEF Sent
    <3>4. CASE ~det.stalled
      <4>1. \/ Read <= det.at + Late
            \/ det.known = det.at /\ Read <= det.at + 2 * Late
        BY <3>1, <3>4, <1>4 DEF Explained
      <4>2. det.known - det.at <= Threshold - Late /\ det.at - det.known <= Threshold - Late
        BY <1>4 DEF Drifted, Magnitude
      <4>3. Outside(Read, Ref(e, s), hi) <= Threshold
        BY <3>2, <4>1, <4>2, <1>4, <1>9 DEF Outside
      <4>4. Magnitude(Read - known) <= Threshold
        BY <3>2, <4>1, <4>2, <1>4, <1>9 DEF Magnitude
      <4>. QED
        BY <3>4, <4>3, <4>4, <1>1, <1>2, <1>6, <1>7, <1>10 DEF Sent
    <3>. QED
      BY <3>3, <3>4
  <2>. QED
    BY <2>1, <2>2, <2>3
<1>. QED
  BY <1>12, <1>13

(* Nothing that stalls, freezes, catches up, is paused by the browser or   *)
(* moved by the room reads as the member's doing, but for the four things  *)
(* the property names, if the timer is at most half a threshold late: a    *)
(* look may be Late behind the element twice, once when it froze and once  *)
(* when it runs again.                                                     *)
THEOREM NothingIsEverMadeUp ==
  ASSUME 2 * Late <= Threshold
  PROVE  DetectorSpec => NothingIsMadeUp
<1>1. DetectorInv /\ Look /\ said' = "seek" => since.moved \/ since.lag \/ RanDry \/ Drifted
  BY SeeksAreTheMembers, Zenon
<1>2. DetectorInv /\ Look /\ said' = "playstate" => since.by = "member" \/ Forgotten
  BY PressesAreTheMembers, Zenon
<1>. QED
  BY <1>1, <1>2, DetectorInvariant, PTL DEF NothingIsMadeUp, DetectorSpec
=============================================================================
