--------------------------- MODULE AdoptionProofs ---------------------------
(***************************************************************************)
(* Proofs about Adoption, for any descriptors, servers, pages and tabs:    *)
(* what a pin may give a page, that a host a built-in describes is never   *)
(* left to the generic rule, and that an automatic update undoes nobody's  *)
(* decision. The first two rest on what Registry does with one descriptor  *)
(* or one host; those facts come first. Then, for any registry, where a    *)
(* link somebody sent may take a member (MediaKey); and, for any names,    *)
(* what the comparisons of host patterns are worth (Template).             *)
(***************************************************************************)
EXTENDS Adoption, MediaKey, TLAPS, SequenceTheorems, WellFoundedInduction

(* d gives every page the key that e gives it, or none, on the same hosts. *)
Within(d, e) ==
  /\ e.id = d.id /\ e.hosts = d.hosts
  /\ \A path \in Path : KeyFor(d, path) \in {KeyFor(e, path), NoKey}

OneText(S) == \A d, e \in S : d.id = e.id => d = e
OnePin(P) == \A a, b \in P : a.d.id = b.d.id => a = b

(* What is true of a pin, of any set of pins and of any copy of the store, *)
(* given the texts ag that were agreed to and what co was agreed to        *)
(* replace. Both only grow.                                                *)
PinFits(a, ag, co) ==
  /\ a \in Pin
  /\ \E e \in ag : Within(a.d, e)
  /\ a.replace => \E b \in Id : <<a.d.id, b>> \in co
PinsFit(P, ag, co) == OnePin(P) /\ \A a \in P : PinFits(a, ag, co)
StateFits(s, ag, co) == s \in State /\ OneText(s.user) /\ PinsFit(s.pins, ag, co)

Job == [at : {"idle", "fetching", "landing"}, before : Seen, write : SUBSET Pin]

(* An update on its way to the store changes only what somebody else has   *)
(* changed since it last looked.                                           *)
Fresh(j, pins, ids) == j.at = "landing" => Moved(pins, j.write) \subseteq ids

History ==
  /\ shim \in {"extension", "userscript"}
  /\ shipped \subseteq Shippable
  /\ agreed \subseteq Offered /\ consent \subseteq Id \X Id

Inv ==
  /\ History
  /\ StateFits(area, agreed, consent)
  /\ copy \in [Surface -> State]
  /\ \A p \in Surface : StateFits(copy[p], agreed, consent)
  /\ upd \in [Tab -> Job] /\ touched \in [Tab -> SUBSET Id]
  /\ \A t \in Tab : /\ PinsFit(upd[t].write, agreed, consent)
                    /\ Fresh(upd[t], area.pins, touched[t])

-----------------------------------------------------------------------------
(* Numbers.                                                                *)

LEMMA LeastNatural ==
  ASSUME NEW T \in SUBSET Nat, T # {}
  PROVE  \E x \in T : \A y \in T : x <= y
<1>1. \E x \in T : \A y \in T : ~(<<y, x>> \in OpToRel(<, Nat))
  BY WFMin, NatLessThanWellFounded, Zenon
<1>2. PICK x \in T : \A y \in T : ~(<<y, x>> \in OpToRel(<, Nat))
  BY <1>1
<1>3. ASSUME NEW y \in T PROVE x <= y
  <2>1. ~(<<y, x>> \in {ss \in Nat \X Nat : ss[1] < ss[2]})
    BY <1>2 DEF OpToRel
  <2> QED BY <2>1
<1> QED BY <1>3

LEMMA GreatestNatural ==
  ASSUME NEW T \in SUBSET Nat, T # {}, NEW n \in Nat, \A x \in T : x <= n
  PROVE  \E x \in T : \A y \in T : y <= x
<1> DEFINE B == {b \in Nat : \A x \in T : x <= b}
<1>1. PICK b \in B : \A c \in B : b <= c
  <2>1. B \in SUBSET Nat /\ B # {}
    OBVIOUS
  <2> HIDE DEF B
  <2> QED BY <2>1, LeastNatural
<1>2. b \in T
  <2>1. SUFFICES ASSUME b \notin T PROVE FALSE
    OBVIOUS
  <2>2. b \in Nat /\ \A x \in T : x \in Nat /\ x < b
    <3>1. \A x \in T : x \in Nat /\ x <= b /\ x # b
      BY <2>1
    <3> QED BY <3>1
  <2>3. b - 1 \in Nat /\ \A x \in T : x <= b - 1
    <3> HIDE DEF B
    <3>1. PICK x \in T : TRUE
      OBVIOUS
    <3>2. b - 1 \in Nat
      BY <2>2, <3>1
    <3> QED BY <2>2, <3>2
  <2>4. b - 1 \in B
    BY <2>3
  <2>5. b <= b - 1
    BY <1>1, <2>4
  <2> QED BY <2>3, <2>5
<1> QED BY <1>2

-----------------------------------------------------------------------------
(* Keys.                                                                   *)

LEMMA DescriptorFields ==
  ASSUME NEW d \in Descriptor
  PROVE  /\ d.id \in Id /\ d.hosts \subseteq Pattern /\ d.rules \in Seq(Rule)
         /\ DOMAIN d.rules = 1..Len(d.rules) /\ Len(d.rules) \in Nat
BY DEF Descriptor

(* The rule that names a page is the first that matches it. *)
LEMMA FirstMatchIs ==
  ASSUME NEW d \in Descriptor, NEW path, NEW i \in Matching(d, path),
         \A j \in Matching(d, path) : i <= j
  PROVE  FirstMatch(d, path) = i
<1>1. Matching(d, path) \subseteq Nat
  BY DescriptorFields DEF Matching
<1>2. \A k \in Matching(d, path) : (\A j \in Matching(d, path) : k <= j) => k = i
  BY <1>1
<1> QED BY <1>2 DEF FirstMatch

(* diffDescriptors: a change that widens nothing leaves every page its key *)
(* or takes it away.                                                       *)
LEMMA NarrowedIsWithin ==
  ASSUME NEW d \in Descriptor, NEW e \in Descriptor, MayAutoAdopt(e, d)
  PROVE  Within(d, e)
<1>1. /\ e.id = d.id /\ e.hosts = d.hosts /\ e.prefix = d.prefix /\ RulesKept(e, d)
      /\ d.fallback => e.fallback
  <2>1. /\ e.id = d.id /\ ~(e.hosts # d.hosts) /\ RulesKept(e, d) /\ ~(e.prefix # d.prefix)
        /\ ~(~e.fallback /\ d.fallback)
    BY DEF MayAutoAdopt, Widens
  <2> QED BY <2>1
<1>2. /\ DOMAIN d.rules = 1..Len(d.rules) /\ Len(d.rules) \in Nat
      /\ DOMAIN e.rules = 1..Len(e.rules) /\ Len(e.rules) \in Nat
  BY DescriptorFields
<1>3. /\ Len(d.rules) <= Len(e.rules)
      /\ \A i \in 1..Len(d.rules) : d.rules[i] = e.rules[i]
      /\ Len(d.rules) = Len(e.rules) \/ ~d.fallback
  BY <1>1, <1>2 DEF RulesKept
<1>4. ASSUME NEW path \in Path
      PROVE  KeyFor(d, path) \in {KeyFor(e, path), NoKey}
  <2> DEFINE M == Matching(d, path)
             N == Matching(e, path)
  <2>1. /\ M = {i \in 1..Len(d.rules) : path \in DOMAIN d.rules[i]}
        /\ N = {i \in 1..Len(e.rules) : path \in DOMAIN e.rules[i]}
    BY <1>2 DEF Matching
  <2>2. M \subseteq N /\ \A i \in N : i \in M \/ i > Len(d.rules)
    BY <1>2, <1>3, <2>1
  <2>3. CASE M # {}
    <3>1. PICK i \in M : \A j \in M : i <= j
      <4>1. M \in SUBSET Nat
        BY <1>2, <2>1
      <4> HIDE DEF M
      <4> QED BY <2>3, <4>1, LeastNatural
    <3>2. i \in N /\ i \in 1..Len(d.rules) /\ \A j \in N : i <= j
      BY <1>2, <2>1, <2>2, <3>1
    <3>3. FirstMatch(d, path) = i /\ FirstMatch(e, path) = i
      BY <3>1, <3>2, FirstMatchIs
    <3>4. d.rules[i] = e.rules[i]
      BY <1>3, <3>2
    <3>5. KeyFor(d, path) = <<d.prefix, d.rules[i][path]>>
      BY <2>3, <3>3 DEF KeyFor
    <3>6. KeyFor(e, path) = <<e.prefix, e.rules[i][path]>>
      BY <3>2, <3>3 DEF KeyFor
    <3> QED BY <1>1, <3>4, <3>5, <3>6
  <2>4. CASE M = {} /\ ~d.fallback
    BY <2>4 DEF KeyFor
  <2>5. CASE M = {} /\ d.fallback
    <3>1. N = {}
      BY <1>2, <1>3, <2>1, <2>2, <2>5
    <3>2. KeyFor(d, path) = <<d.prefix, path>> /\ KeyFor(e, path) = <<e.prefix, path>>
      BY <1>1, <2>5, <3>1 DEF KeyFor
    <3> QED BY <1>1, <3>2
  <2> QED BY <2>3, <2>4, <2>5
<1> QED BY <1>1, <1>4 DEF Within

LEMMA WithinIsTransitive ==
  ASSUME NEW c, NEW d, NEW e, Within(c, d), Within(d, e)
  PROVE  Within(c, e)
BY DEF Within

LEMMA WithinItself == \A d : Within(d, d)
BY DEF Within

-----------------------------------------------------------------------------
(* The store. Every decision leaves a state that fits, if the state it was *)
(* taken on did.                                                           *)

LEMMA StateFields ==
  ASSUME NEW s \in State
  PROVE  /\ s.user \in SUBSET Own /\ s.pins \in SUBSET Pin /\ s.auto \in SUBSET Server
         /\ \A u \in SUBSET Own : LET r == [s EXCEPT !.user = u]
                                  IN  r \in State /\ r.user = u /\ r.pins = s.pins
         /\ \A q \in SUBSET Pin : LET r == [s EXCEPT !.pins = q]
                                  IN  r \in State /\ r.pins = q /\ r.user = s.user
         /\ \A a \in SUBSET Server : LET r == [s EXCEPT !.auto = a]
                                     IN  r \in State /\ r.pins = s.pins /\ r.user = s.user
BY DEF State

LEMMA PinFields ==
  ASSUME NEW a \in Pin
  PROVE  a.d \in Offered /\ a.d \in Descriptor /\ a.d.id \in Id /\ a.server \in Server
BY TextAssumption, DescriptorFields DEF Pin

LEMMA StateFitsMore ==
  ASSUME NEW ag, NEW co, NEW ag2, NEW co2, ag \subseteq ag2, co \subseteq co2
  PROVE  /\ \A P : PinsFit(P, ag, co) => PinsFit(P, ag2, co2)
         /\ \A s : StateFits(s, ag, co) => StateFits(s, ag2, co2)
<1>1. \A P : PinsFit(P, ag, co) => PinsFit(P, ag2, co2)
  BY DEF PinsFit, PinFits
<1> QED BY <1>1 DEF StateFits

LEMMA FewerPinsFit ==
  ASSUME NEW P, NEW Q, NEW ag, NEW co, Q \subseteq P, PinsFit(P, ag, co)
  PROVE  PinsFit(Q, ag, co)
BY DEF PinsFit, OnePin

LEMMA WithUserFits ==
  ASSUME NEW s, NEW ag, NEW co, StateFits(s, ag, co), NEW d \in Own
  PROVE  StateFits(WithUser(s, d), ag, co)
<1> DEFINE u == Drop(s.user, d.id) \cup {d}
<1>1. s \in State /\ s.user \in SUBSET Own
  BY StateFields DEF StateFits
<1>2. u \in SUBSET Own /\ OneText(u)
  BY <1>1 DEF StateFits, OneText, Drop
<1>3. WithUser(s, d) = [s EXCEPT !.user = u]
  BY DEF WithUser
<1> HIDE DEF u
<1> QED BY <1>1, <1>2, <1>3, StateFields DEF StateFits

LEMMA WithoutUserFits ==
  ASSUME NEW s, NEW ag, NEW co, StateFits(s, ag, co), NEW id
  PROVE  StateFits(WithoutUser(s, id), ag, co)
<1> DEFINE u == Drop(s.user, id)
<1>1. s \in State /\ s.user \in SUBSET Own
  BY StateFields DEF StateFits
<1>2. u \in SUBSET Own /\ OneText(u)
  BY <1>1 DEF StateFits, OneText, Drop
<1>3. WithoutUser(s, id) = [s EXCEPT !.user = u]
  BY DEF WithoutUser
<1> HIDE DEF u
<1> QED BY <1>1, <1>2, <1>3, StateFields DEF StateFits

LEMMA WithoutPinFits ==
  ASSUME NEW s, NEW ag, NEW co, StateFits(s, ag, co), NEW id
  PROVE  StateFits(WithoutPin(s, id), ag, co)
<1> DEFINE q == DropPin(s.pins, id)
<1>1. s \in State /\ s.pins \in SUBSET Pin
  BY StateFields DEF StateFits
<1>2. q \in SUBSET Pin /\ PinsFit(q, ag, co)
  BY <1>1, FewerPinsFit DEF StateFits, DropPin
<1>3. WithoutPin(s, id) = [s EXCEPT !.pins = q]
  BY DEF WithoutPin
<1> HIDE DEF q
<1> QED BY <1>1, <1>2, <1>3, StateFields DEF StateFits

LEMMA WithAutoFits ==
  ASSUME NEW s, NEW ag, NEW co, StateFits(s, ag, co), NEW server \in Server
  PROVE  StateFits(WithAuto(s, server), ag, co)
<1> DEFINE a == IF server \in s.auto THEN s.auto \ {server} ELSE s.auto \cup {server}
<1>1. s \in State /\ a \in SUBSET Server
  BY StateFields DEF StateFits
<1>2. WithAuto(s, server) = [s EXCEPT !.auto = a]
  BY DEF WithAuto
<1> HIDE DEF a
<1> QED BY <1>1, <1>2, StateFields DEF StateFits

(* An adoption: the text is agreed to, and so is all it replaces now.      *)
LEMMA WithPinFits ==
  ASSUME NEW s, NEW ag, NEW co, StateFits(s, ag, co),
         shipped \subseteq Shippable, NEW server \in Server, NEW d \in Offered
  PROVE  StateFits(WithPin(s, server, d),
                   ag \cup {d}, co \cup {<<d.id, b.id>> : b \in Replaced(shipped, d)})
<1> DEFINE ag2 == ag \cup {d}
           co2 == co \cup {<<d.id, b.id>> : b \in Replaced(shipped, d)}
           replace == Replaced(shipped, d) # {}
           pin == [d |-> d, server |-> server, replace |-> replace]
           kept == DropPin(s.pins, d.id)
           q == kept \cup {pin}
<1>1. s \in State /\ s.pins \in SUBSET Pin /\ OneText(s.user) /\ PinsFit(s.pins, ag, co)
  BY StateFields DEF StateFits
<1>2. pin \in Pin /\ pin.d = d /\ pin.replace = replace
  BY DEF Pin
<1>3. replace => \E b \in Id : <<d.id, b>> \in co2
  <2>1. \A b \in Replaced(shipped, d) : b \in shipped
    BY DEF Replaced, Displaced
  <2>2. \A b \in Replaced(shipped, d) : b.id \in Id
    BY <2>1, TextAssumption, DescriptorFields
  <2> QED BY <2>2
<1> HIDE DEF pin
<1>4. PinFits(pin, ag2, co2)
  BY <1>2, <1>3, WithinItself DEF PinFits
<1>5. PinsFit(kept, ag2, co2) /\ kept \in SUBSET Pin /\ \A a \in kept : a.d.id # d.id
  <2>1. PinsFit(kept, ag, co) /\ kept \in SUBSET Pin /\ \A a \in kept : a.d.id # d.id
    BY <1>1, FewerPinsFit DEF DropPin
  <2>2. ag \subseteq ag2 /\ co \subseteq co2
    OBVIOUS
  <2> HIDE DEF kept, ag2, co2
  <2> QED BY <2>1, <2>2, StateFitsMore
<1> HIDE DEF kept, ag2, co2, replace
<1>6. PinsFit(q, ag2, co2) /\ q \in SUBSET Pin
  BY <1>2, <1>4, <1>5 DEF PinsFit, OnePin
<1>7. WithPin(s, server, d) = [s EXCEPT !.pins = q]
  BY DEF WithPin, pin, kept, replace
<1> HIDE DEF q
<1>8. StateFits(WithPin(s, server, d), ag2, co2)
  BY <1>1, <1>6, <1>7, StateFields DEF StateFits
<1> QED BY <1>8 DEF ag2, co2

-----------------------------------------------------------------------------
(* What moved between two sets of pins.                                    *)

LEMMA MovedIsADistance ==
  ASSUME NEW P, NEW Q, NEW R
  PROVE  /\ Moved(P, P) = {}
         /\ Moved(Q, R) \subseteq Moved(P, R) \cup Moved(P, Q)
         /\ Pinned(P) = Pinned(Q) => Moved(P, Q) = {}
BY DEF Moved

LEMMA MovedAreIds ==
  ASSUME NEW P \in SUBSET Pin, NEW Q \in SUBSET Pin
  PROVE  Moved(P, Q) \subseteq Id
<1>1. \A a \in P \cup Q : a.d.id \in Id
  BY PinFields
<1> QED BY <1>1 DEF Moved, Pinned

-----------------------------------------------------------------------------
(* The steps.                                                              *)

LEMMA InitInv == Init => Inv
<1> SUFFICES ASSUME Init PROVE Inv
  OBVIOUS
<1>1. Empty \in State /\ Empty.pins = {} /\ Empty.user = {}
  BY DEF Empty, State
<1>2. Idle \in Job /\ Idle.write = {} /\ Idle.at = "idle"
  BY DEF Idle, Job, Nothing, Seen
<1>3. \A ag, co : PinsFit({}, ag, co) /\ StateFits(Empty, ag, co)
  BY <1>1 DEF PinsFit, OnePin, StateFits, OneText
<1>4. History
  BY TextAssumption DEF Init, History
<1> HIDE DEF Empty, Idle
<1> QED BY <1>1, <1>2, <1>3, <1>4 DEF Init, Inv, Fresh

(* A page, or a menu, writes what a decision made of the state it had. *)
LEMMA DecideInv ==
  ASSUME Inv, NEW p \in Surface, NEW s, Decide(p, s), shim' = shim,
         agreed \subseteq agreed', agreed' \subseteq Offered,
         consent \subseteq consent', consent' \subseteq Id \X Id,
         StateFits(s, agreed', consent')
  PROVE  Inv'
<1>1. /\ copy' = [copy EXCEPT ![p] = s] /\ area' = s /\ shipped' = shipped /\ upd' = upd
      /\ touched' = [t \in Tab |-> touched[t] \cup Moved(area.pins, s.pins)]
  BY DEF Decide
<1>2. History'
  BY <1>1 DEF Inv, History
<1>3. s \in State /\ s.pins \in SUBSET Pin /\ area.pins \in SUBSET Pin
  BY StateFields DEF StateFits, Inv
<1>4. copy' \in [Surface -> State] /\ copy'[p] = s /\ \A o \in Surface : o # p => copy'[o] = copy[o]
  BY <1>1, <1>3 DEF Inv
<1>5. \A o \in Surface : StateFits(copy'[o], agreed', consent')
  BY <1>4, StateFitsMore DEF Inv
<1>6. touched' \in [Tab -> SUBSET Id]
  BY <1>1, <1>3, MovedAreIds DEF Inv
<1>7. ASSUME NEW t \in Tab
      PROVE  PinsFit(upd'[t].write, agreed', consent') /\ Fresh(upd'[t], s.pins, touched'[t])
  <2>1. PinsFit(upd[t].write, agreed, consent) /\ Fresh(upd[t], area.pins, touched[t])
    BY DEF Inv
  <2>2. touched'[t] = touched[t] \cup Moved(area.pins, s.pins)
    BY <1>1
  <2>3. Moved(s.pins, upd[t].write) \subseteq Moved(area.pins, upd[t].write) \cup Moved(area.pins, s.pins)
    BY MovedIsADistance
  <2> QED BY <1>1, <2>1, <2>2, <2>3, StateFitsMore DEF Fresh
<1> QED BY <1>1, <1>2, <1>4, <1>5, <1>6, <1>7 DEF Inv

(* A decision with nothing to agree to. *)
LEMMA PlainDecisionInv ==
  ASSUME Inv, NEW p \in Surface, NEW s, Decide(p, s), UNCHANGED <<agreed, consent>>, shim' = shim,
         StateFits(s, agreed, consent)
  PROVE  Inv'
<1>1. agreed \subseteq Offered /\ consent \subseteq Id \X Id
  BY DEF Inv, History
<1> QED BY <1>1, DecideInv

LEMMA AdoptInv ==
  ASSUME Inv, NEW p \in Surface, NEW server \in Server, NEW d \in Offered, Adopt(p, server, d),
         shim' = shim
  PROVE  Inv'
<1> DEFINE s == WithPin(copy[p], server, d)
           more == {<<d.id, b.id>> : b \in Replaced(shipped, d)}
<1>1. /\ shipped \subseteq Shippable /\ agreed \subseteq Offered /\ consent \subseteq Id \X Id
      /\ StateFits(copy[p], agreed, consent)
  BY DEF Inv, History
<1>2. Decide(p, s) /\ agreed' = agreed \cup {d} /\ consent' = consent \cup more
  BY DEF Adopt, Agrees
<1>3. more \subseteq Id \X Id
  <2>1. \A b \in Replaced(shipped, d) : b \in shipped
    BY DEF Replaced, Displaced
  <2> QED BY <1>1, <2>1, TextAssumption, DescriptorFields
<1>4. StateFits(s, agreed', consent')
  BY <1>1, <1>2, WithPinFits
<1> HIDE DEF s, more
<1> QED BY <1>1, <1>2, <1>3, <1>4, DecideInv

LEMMA UserInv ==
  ASSUME Inv, NEW p \in Surface, Options(p) \/ Opened(p), shim' = shim
  PROVE  Inv'
<1>1. StateFits(copy[p], agreed, consent) /\ StateFits(area, agreed, consent)
  BY DEF Inv
<1>2. ASSUME NEW d \in Own, SaveUser(p, d) \/ MenuSave(p, d) PROVE Inv'
  <2>1. StateFits(WithUser(copy[p], d), agreed, consent) /\ StateFits(WithUser(area, d), agreed, consent)
    BY <1>1, WithUserFits
  <2> QED BY <1>2, <2>1, PlainDecisionInv DEF SaveUser, MenuSave
<1>3. ASSUME NEW id \in Id, RemoveUser(p, id) \/ MenuRemove(p, id) PROVE Inv'
  <2>1. StateFits(WithoutUser(copy[p], id), agreed, consent) /\ StateFits(WithoutUser(area, id), agreed, consent)
    BY <1>1, WithoutUserFits
  <2> QED BY <1>3, <2>1, PlainDecisionInv DEF RemoveUser, MenuRemove
<1>4. ASSUME NEW id \in Id, Unadopt(p, id) PROVE Inv'
  <2>1. StateFits(WithoutPin(copy[p], id), agreed, consent)
    BY <1>1, WithoutPinFits
  <2> QED BY <1>4, <2>1, PlainDecisionInv DEF Unadopt
<1>5. ASSUME NEW s \in Server, SetAutoAdopt(p, s) PROVE Inv'
  <2>1. StateFits(WithAuto(copy[p], s), agreed, consent)
    BY <1>1, WithAutoFits
  <2> QED BY <1>5, <2>1, PlainDecisionInv DEF SetAutoAdopt
<1>6. CASE MenuSwitches(p)
  <2>1. \A s \in Server : StateFits(WithAuto(area, s), agreed, consent)
    BY <1>1, WithAutoFits
  <2>2. \A id \in Id : StateFits(WithoutPin(area, id), agreed, consent)
    BY <1>1, WithoutPinFits
  <2> QED BY <1>6, <2>1, <2>2, PlainDecisionInv DEF MenuSwitches
<1>7. ASSUME NEW s \in Server, NEW d \in Offered, Adopt(p, s, d) \/ MenuAdopt(p, s, d) PROVE Inv'
  <2>1. Adopt(p, s, d)
    BY <1>7 DEF Adopt, MenuAdopt
  <2> QED BY <2>1, AdoptInv
<1> QED BY <1>2, <1>3, <1>4, <1>5, <1>6, <1>7 DEF Options, Opened

LEMMA RefreshInv ==
  ASSUME Inv, NEW p \in Surface, Refresh(p), shim' = shim
  PROVE  Inv'
<1>1. /\ copy' = [copy EXCEPT ![p] = area]
      /\ UNCHANGED <<shipped, area, upd, agreed, consent, touched>>
  BY DEF Refresh
<1>2. area \in State
  BY DEF Inv, StateFits
<1>3. copy' \in [Surface -> State] /\ \A o \in Surface : copy'[o] = IF o = p THEN area ELSE copy[o]
  BY <1>1, <1>2 DEF Inv
<1>4. \A o \in Surface : StateFits(copy'[o], agreed, consent)
  BY <1>3 DEF Inv
<1> QED BY <1>1, <1>3, <1>4 DEF Inv, History

LEMMA UpgradeInv ==
  ASSUME Inv, NEW b \in Shippable, Upgrade(b), shim' = shim
  PROVE  Inv'
<1>1. /\ copy' = [p \in Surface |-> area] /\ upd' = [t \in Tab |-> Idle]
      /\ shipped' = shipped \cup {b} /\ UNCHANGED <<area, agreed, consent, touched>>
  BY DEF Upgrade
<1>2. Idle \in Job /\ Idle.write = {} /\ Idle.at = "idle"
  BY DEF Idle, Job, Nothing, Seen
<1>3. area \in State /\ StateFits(area, agreed, consent) /\ \A ag, co : PinsFit({}, ag, co)
  BY DEF Inv, StateFits, PinsFit, OnePin
<1>4. History'
  BY <1>1 DEF Inv, History
<1> HIDE DEF Idle
<1>5. upd' \in [Tab -> Job] /\ copy' \in [Surface -> State]
  BY <1>1, <1>2, <1>3
<1> QED BY <1>1, <1>2, <1>3, <1>4, <1>5 DEF Inv, Fresh

(* What an automatic update writes: the pins there are, some of them with a *)
(* text that widens nothing.                                               *)
LEMMA MergeFits ==
  ASSUME Inv, NEW before \in Seen, NEW s \in Server, NEW offered \in SUBSET Offered,
         \A d, e \in offered : d.id = e.id => d = e
  PROVE  LET q == Merge(Updated(before, s, offered))
         IN  q \in SUBSET Pin /\ PinsFit(q, agreed, consent) /\ Pinned(q) = Pinned(area.pins)
<1> DEFINE changes == Updated(before, s, offered)
           old == {x[1] : x \in changes}
           new == {x[2] : x \in changes}
           q == (area.pins \ old) \cup new
<1>1. area.pins \in SUBSET Pin /\ PinsFit(area.pins, agreed, consent) /\ OnePin(area.pins)
  BY StateFields DEF Inv, StateFits, PinsFit
<1>2. ASSUME NEW x \in changes
      PROVE  /\ x[1] \in area.pins /\ x[2] \in Pin /\ x[2].d \in offered
             /\ x[2] = [x[1] EXCEPT !.d = x[2].d] /\ MayAutoAdopt(x[1].d, x[2].d)
  <2>1. /\ x \in Pin \X Pin /\ x[1] \in Updatable(before, s, x[2].d) /\ Still(x[1], s)
        /\ x \in {<<a, [a EXCEPT !.d = d]>> : a \in before.pins, d \in offered}
    BY DEF Updated
  <2>2. PICK a \in before.pins, d \in offered : x = <<a, [a EXCEPT !.d = d]>>
    BY <2>1
  <2>3. x[1] = a /\ x[2] = [a EXCEPT !.d = d] /\ a \in Pin
    BY <2>1, <2>2
  <2>4. x[2].d = d
    BY <2>3 DEF Pin
  <2> QED BY <2>1, <2>2, <2>3, <2>4 DEF Updatable, Still
<1> HIDE DEF changes
<1>3. ASSUME NEW x \in changes
      PROVE  /\ x[2].d.id = x[1].d.id
             /\ PinFits(x[2], agreed, consent)
  <2>1. /\ x[1] \in area.pins /\ x[2] \in Pin /\ x[2].d \in offered /\ x[1] \in Pin
        /\ x[2] = [x[1] EXCEPT !.d = x[2].d] /\ MayAutoAdopt(x[1].d, x[2].d)
    BY <1>1, <1>2
  <2>2. x[1].d \in Descriptor /\ x[2].d \in Descriptor
    BY <2>1, PinFields
  <2>3. Within(x[2].d, x[1].d) /\ x[2].d.id = x[1].d.id
    BY <2>1, <2>2, NarrowedIsWithin DEF MayAutoAdopt
  <2>4. PinFits(x[1], agreed, consent)
    BY <1>1, <2>1 DEF PinsFit
  <2>5. PICK e \in agreed : Within(x[1].d, e)
    BY <2>4 DEF PinFits
  <2>6. Within(x[2].d, e)
    BY <2>3, <2>5, WithinIsTransitive
  <2>7. x[2].replace = x[1].replace
    BY <2>1 DEF Pin
  <2> QED BY <2>1, <2>3, <2>4, <2>6, <2>7 DEF PinFits
<1>4. \A a \in q : PinFits(a, agreed, consent)
  BY <1>1, <1>3 DEF PinsFit
<1>5. q \in SUBSET Pin
  BY <1>4 DEF PinFits
<1>6. ASSUME NEW x \in changes, NEW y \in changes, x[2].d.id = y[2].d.id PROVE x[2] = y[2]
  <2>1. x[1] = y[1]
    <3>1. x[1] \in area.pins /\ y[1] \in area.pins /\ x[1].d.id = y[1].d.id
      BY <1>2, <1>3, <1>6
    <3> QED BY <1>1, <3>1 DEF OnePin
  <2>2. x[2].d = y[2].d
    BY <1>2, <1>6
  <2> QED BY <1>2, <2>1, <2>2
<1>7. ASSUME NEW x \in changes, NEW a \in area.pins, a \notin old PROVE x[2].d.id # a.d.id
  BY <1>1, <1>2, <1>3, <1>7 DEF OnePin
<1>8. OnePin(q)
  BY <1>1, <1>6, <1>7 DEF OnePin
<1>9. Pinned(q) = Pinned(area.pins)
  <2>1. ASSUME NEW a \in q PROVE \E b \in area.pins : b.d.id = a.d.id
    <3>1. CASE a \in new
      <4>1. PICK x \in changes : a = x[2]
        BY <3>1
      <4> QED BY <1>2, <1>3, <4>1
    <3>2. CASE a \in area.pins
      BY <3>2
    <3> QED BY <3>1, <3>2
  <2>2. ASSUME NEW a \in area.pins PROVE \E b \in q : b.d.id = a.d.id
    <3>1. CASE a \in old
      <4>1. PICK x \in changes : a = x[1]
        BY <3>1
      <4>2. x[2] \in q /\ x[2].d.id = a.d.id
        BY <1>3, <4>1
      <4> QED BY <4>2
    <3>2. CASE a \notin old
      BY <3>2
    <3> QED BY <3>1, <3>2
  <2> QED BY <2>1, <2>2 DEF Pinned
<1> QED BY <1>4, <1>5, <1>8, <1>9 DEF Merge, PinsFit, changes

LEMMA JobInv ==
  ASSUME Inv, NEW t \in Tab, shim' = shim,
         NEW j \in Job, upd' = [upd EXCEPT ![t] = j],
         NEW ids \in SUBSET Id, touched' = [touched EXCEPT ![t] = ids],
         PinsFit(j.write, agreed, consent), Fresh(j, area.pins, ids),
         UNCHANGED <<shipped, area, copy, agreed, consent>>
  PROVE  Inv'
<1>1. /\ upd' \in [Tab -> Job] /\ touched' \in [Tab -> SUBSET Id]
      /\ upd'[t] = j /\ touched'[t] = ids
      /\ \A u \in Tab : u # t => upd'[u] = upd[u] /\ touched'[u] = touched[u]
  BY DEF Inv
<1>2. History'
  BY DEF Inv, History
<1>3. \A u \in Tab : PinsFit(upd'[u].write, agreed, consent) /\ Fresh(upd'[u], area.pins, touched'[u])
  BY <1>1 DEF Inv
<1> QED BY <1>1, <1>2, <1>3 DEF Inv

LEMMA UpdateInv ==
  ASSUME Inv, NEW t \in Tab, Update(t), shim' = shim
  PROVE  Inv'
<1>1. upd[t] \in Job /\ area \in State /\ area.pins \in SUBSET Pin /\ area.auto \in SUBSET Server
  BY StateFields DEF Inv, StateFits
<1>2. /\ upd[t].write \in SUBSET Pin /\ upd[t].before \in Seen
      /\ PinsFit(upd[t].write, agreed, consent) /\ Fresh(upd[t], area.pins, touched[t])
  BY <1>1 DEF Inv, Job
<1>3. Idle \in Job /\ Idle.write = {} /\ Idle.at = "idle" /\ Nothing \in Seen
  BY DEF Idle, Job, Nothing, Seen
<1>4. \A ag, co : PinsFit({}, ag, co)
  BY DEF PinsFit, OnePin
<1> HIDE DEF Idle, Nothing
<1>5. CASE Look(t)
  <2> DEFINE seen == [pins |-> area.pins, auto |-> area.auto]
             j == [at |-> "fetching", before |-> seen, write |-> {}]
  <2>1. upd' = [upd EXCEPT ![t] = j] /\ UNCHANGED <<shipped, area, copy, agreed, consent, touched>>
    BY <1>5 DEF Look
  <2>2. j \in Job /\ j.write = {} /\ j.at = "fetching"
    BY <1>1 DEF Job, Seen
  <2>3. touched' = [touched EXCEPT ![t] = touched[t]] /\ touched[t] \in SUBSET Id
    BY <2>1 DEF Inv
  <2> HIDE DEF j
  <2>4. PinsFit(j.write, agreed, consent) /\ Fresh(j, area.pins, touched[t])
    BY <1>4, <2>2 DEF Fresh
  <2> QED BY <2>1, <2>2, <2>3, <2>4, JobInv
<1>6. ASSUME NEW s \in Server, NEW offered \in SUBSET Offered, Answered(t, s, offered)
      PROVE  Inv'
  <2> DEFINE changes == Updated(upd[t].before, s, offered)
             q == Merge(changes)
             l == [at |-> "landing", before |-> Nothing, write |-> q]
             j == IF changes = {} THEN Idle ELSE l
             none == {}
  <2>1. /\ upd' = [upd EXCEPT ![t] = j] /\ touched' = [touched EXCEPT ![t] = none]
        /\ none \in SUBSET Id
        /\ UNCHANGED <<shipped, area, copy, agreed, consent>>
        /\ \A d, e \in offered : d.id = e.id => d = e
    BY <1>6 DEF Answered
  <2>2. q \in SUBSET Pin /\ PinsFit(q, agreed, consent) /\ Pinned(q) = Pinned(area.pins)
    BY <1>2, <2>1, MergeFits
  <2> HIDE DEF q, changes
  <2>3. l \in Job /\ l.write = q
    BY <1>3, <2>2 DEF Job
  <2> HIDE DEF l
  <2>4. j \in Job /\ PinsFit(j.write, agreed, consent) /\ Fresh(j, area.pins, none)
    <3>1. Moved(area.pins, q) = {}
      BY <2>2, MovedIsADistance
    <3> QED BY <1>3, <1>4, <2>2, <2>3, <3>1 DEF Fresh
  <2> HIDE DEF j, none
  <2> QED BY <2>1, <2>4, JobInv
<1>7. CASE Land(t)
  <2> DEFINE q == upd[t].write
  <2>1. /\ area' = [area EXCEPT !.pins = q] /\ upd' = [upd EXCEPT ![t] = Idle]
        /\ touched' = [u \in Tab |-> touched[u] \cup Moved(area.pins, q)]
        /\ UNCHANGED <<shipped, copy, agreed, consent>>
    BY <1>7 DEF Land
  <2>2. q \in SUBSET Pin /\ PinsFit(q, agreed, consent)
    BY <1>2
  <2> HIDE DEF q
  <2>3. area' \in State /\ area'.pins = q /\ area'.user = area.user
    BY <1>1, <2>1, <2>2, StateFields
  <2>4. StateFits(area', agreed, consent)
    BY <2>2, <2>3 DEF Inv, StateFits
  <2>5. /\ upd' \in [Tab -> Job] /\ touched' \in [Tab -> SUBSET Id]
        /\ \A u \in Tab : /\ upd'[u] = IF u = t THEN Idle ELSE upd[u]
                          /\ touched'[u] = touched[u] \cup Moved(area.pins, q)
    BY <1>1, <1>3, <2>1, <2>2, MovedAreIds DEF Inv
  <2>6. ASSUME NEW u \in Tab
        PROVE  PinsFit(upd'[u].write, agreed, consent) /\ Fresh(upd'[u], q, touched'[u])
    <3>1. CASE u = t
      <4>1. upd'[u] = Idle
        BY <2>5, <3>1
      <4>2. PinsFit(Idle.write, agreed, consent) /\ Fresh(Idle, q, touched'[u])
        BY <1>3, <1>4 DEF Fresh
      <4> QED BY <4>1, <4>2
    <3>2. CASE u # t
      <4>1. PinsFit(upd[u].write, agreed, consent) /\ Fresh(upd[u], area.pins, touched[u])
        BY DEF Inv
      <4>2. Moved(q, upd[u].write) \subseteq Moved(area.pins, upd[u].write) \cup Moved(area.pins, q)
        BY MovedIsADistance
      <4> QED BY <2>5, <3>2, <4>1, <4>2 DEF Fresh
    <3> QED BY <3>1, <3>2
  <2>7. History'
    BY <2>1 DEF Inv, History
  <2> QED BY <2>1, <2>3, <2>4, <2>5, <2>6, <2>7 DEF Inv
<1> QED BY <1>5, <1>6, <1>7 DEF Update

LEMMA NextInv == Inv /\ [Next]_vars => Inv'
<1> SUFFICES ASSUME Inv, [Next]_vars PROVE Inv'
  OBVIOUS
<1>1. CASE Next
  BY <1>1, RefreshInv, UserInv, UpdateInv, UpgradeInv DEF Next
<1>2. CASE UNCHANGED vars
  BY <1>2 DEF Inv, History, vars
<1> QED BY <1>1, <1>2

(* Every list in the store, every copy of it and every write on its way    *)
(* holds one descriptor an id, each with an agreement behind it.           *)
THEOREM AdoptionCorrect == Spec => []Inv
BY InitInv, NextInv, PTL DEF Spec

(* What is stored and read is of the types the code gives it, with one     *)
(* descriptor for an id.                                                   *)
THEOREM AdoptionTypeCorrect == Spec => []TypeOK
<1>1. Inv => TypeOK
  BY DEF Inv, History, StateFits, OneText, PinsFit, OnePin, TypeOK, OneAnId, Job
<1> QED BY <1>1, AdoptionCorrect, PTL

(* However many updates were taken unasked, a pin gives a page the key of a *)
(* text the user agreed to, or none, and claims that text's hosts.         *)
THEOREM AdoptionPinsNameWhatWasAgreed == Spec => []PinsNameWhatWasAgreed
<1>1. Inv => PinsNameWhatWasAgreed
  BY DEF Inv, StateFits, PinsFit, PinFits, Within, PinsNameWhatWasAgreed
<1> QED BY <1>1, AdoptionCorrect, PTL

(* An automatic update that lands adds no pin and drops none, unless       *)
(* somebody else did since it last looked.                                 *)
THEOREM AdoptionUpdatesOnlyReplace == Spec => UpdatesOnlyReplace
<1> DEFINE A == \A t \in Tab : Land(t) => Moved(area.pins, area'.pins) \subseteq touched[t]
<1>1. Inv /\ [Next]_vars => [A]_vars
  <2> SUFFICES ASSUME Inv, NEW t \in Tab, Land(t)
               PROVE  Moved(area.pins, area'.pins) \subseteq touched[t]
    OBVIOUS
  <2>1. area \in State /\ upd[t] \in Job /\ Fresh(upd[t], area.pins, touched[t])
    BY DEF Inv, StateFits
  <2>2. upd[t].write \in SUBSET Pin
    BY <2>1 DEF Job
  <2>3. area'.pins = upd[t].write /\ upd[t].at = "landing"
    BY <2>1, <2>2, StateFields DEF Land
  <2> QED BY <2>1, <2>3 DEF Fresh
<1>2. []Inv /\ [][Next]_vars => [][A]_vars
  BY <1>1, PTL
<1> QED BY <1>2, AdoptionCorrect, PTL DEF Spec, UpdatesOnlyReplace

-----------------------------------------------------------------------------
(* Who speaks for a host.                                                  *)

LEMMA ScoresAre ==
  ASSUME NEW h \in Host
  PROVE  /\ \A p \in Pattern : Score[p][h] \in Nat /\ Probe[p] \in Host
         /\ \A p \in Pattern : Score[p][Probe[p]] \in Nat
         /\ \E n \in Nat : \A p \in Pattern : Score[p][h] <= n
<1>1. /\ \A p \in Pattern : \A g \in Host : Score[p][g] \in Nat
      /\ \A p \in Pattern : Probe[p] \in Host
  BY ScoreAssumption
<1>2. PICK m \in Pattern : \A q \in Pattern : Score[q][h] <= Score[m][h]
  BY ScoreAssumption
<1> QED BY <1>1, <1>2

(* Of those that claim a host, however many, some claim it best. *)
LEMMA SomeClaimIsBest ==
  ASSUME NEW reg \in SUBSET Entry, NEW h \in Host, Claimants(reg, h) # {}
  PROVE  Tied(reg, h) # {}
<1> DEFINE C == Claimants(reg, h)
           T == {Score[p][h] : p \in {q \in Pattern : \E e \in C : q \in e.d.hosts}}
<1>1. \A e \in C : /\ e \in reg /\ e.d \in Descriptor /\ e.d.hosts \subseteq Pattern
                   /\ \E p \in e.d.hosts : Score[p][h] > 0
  BY DescriptorFields DEF Claimants, Claimed, Entry
<1>2. PICK n \in Nat : \A p \in Pattern : Score[p][h] <= n
  BY ScoresAre
<1>3. \A p \in Pattern : Score[p][h] \in Nat
  BY ScoresAre
<1>4. T \in SUBSET Nat /\ T # {} /\ \A x \in T : x <= n
  BY <1>1, <1>2, <1>3
<1>5. PICK m \in T : \A y \in T : y <= m
  <2> HIDE DEF T
  <2> QED BY <1>4, GreatestNatural
<1>6. PICK p \in Pattern, e \in C : p \in e.d.hosts /\ m = Score[p][h]
  BY <1>5
<1>7. ASSUME NEW f \in C PROVE AsSpecific(e.d, f.d, h)
  <2>1. ASSUME NEW q \in f.d.hosts PROVE Score[p][h] >= Score[q][h]
    <3>1. q \in Pattern /\ Score[q][h] \in T
      BY <1>1
    <3>2. Score[q][h] <= m /\ Score[q][h] \in Nat /\ m \in Nat
      BY <1>3, <1>4, <1>5, <3>1
    <3> QED BY <1>6, <3>2
  <2> QED BY <1>6, <2>1 DEF AsSpecific
<1> QED BY <1>6, <1>7 DEF Tied

LEMMA TheOne ==
  ASSUME NEW S, One(S)
  PROVE  The(S) \in S /\ S = {The(S)}
BY DEF One, The

(* What lookup answers: an entry that claims the host best, the built-in   *)
(* that does among the built-ins, or none.                                 *)
LEMMA LookupIs ==
  ASSUME NEW reg \in SUBSET Entry, NEW ship, NEW h \in Host
  PROVE  LET l == Lookup(reg, ship, h)
         IN  /\ l.entry \in Tied(reg, h) \cup BuiltinsOf(reg) \cup {NoEntry}
             /\ l.entry = NoEntry =>
                  \/ l.blocked
                  \/ /\ Claimants(reg, h) = {}
                     /\ ~ \E b \in ship : /\ Claimed(b, h)
                                          /\ \E e \in reg : e.tier # "built-in" /\ e.d.id = b.id
                  \/ ~ Described(ship, h)
<1> DEFINE tied == Tied(reg, h)
           own == Tied(BuiltinsOf(reg), h)
           taken == \E b \in ship : /\ Claimed(b, h)
                                    /\ \E e \in reg : e.tier # "built-in" /\ e.d.id = b.id
           l == Lookup(reg, ship, h)
<1>1. tied \subseteq reg /\ own \subseteq BuiltinsOf(reg) /\ BuiltinsOf(reg) \subseteq reg
  BY DEF Tied, Claimants, BuiltinsOf
<1>2. NoEntry \notin reg
  BY SentinelAssumption
<1>3. l = CASE One(tied) -> [entry |-> The(tied), blocked |-> FALSE]
            [] tied = {} -> [entry |-> NoEntry, blocked |-> taken]
            [] ~One(tied) /\ tied # {} /\ One(own) -> [entry |-> The(own), blocked |-> FALSE]
            [] OTHER -> [entry |-> NoEntry, blocked |-> own # {} \/ Described(ship, h)]
  BY DEF Lookup
<1>4. One(tied) => tied # {}
  BY DEF One
<1>5. tied = {} => Claimants(reg, h) = {}
  BY SomeClaimIsBest
<1> HIDE DEF tied, own, taken, l
<1>6. CASE One(tied)
  <2>1. l = [entry |-> The(tied), blocked |-> FALSE]
    BY <1>3, <1>4, <1>6
  <2>2. l.entry \in tied
    BY <1>6, <2>1, TheOne
  <2> QED BY <1>1, <1>2, <2>2 DEF tied, l
<1>7. CASE tied = {}
  <2>1. l = [entry |-> NoEntry, blocked |-> taken]
    BY <1>3, <1>4, <1>7
  <2> QED BY <1>5, <1>7, <2>1 DEF taken, l
<1>8. CASE ~One(tied) /\ tied # {} /\ One(own)
  <2>1. l = [entry |-> The(own), blocked |-> FALSE]
    BY <1>3, <1>8
  <2>2. l.entry \in own
    BY <1>8, <2>1, TheOne
  <2> QED BY <1>1, <1>2, <2>2 DEF l
<1>9. CASE ~One(tied) /\ tied # {} /\ ~One(own)
  <2> DEFINE shut == own # {} \/ Described(ship, h)
  <2>1. l = [entry |-> NoEntry, blocked |-> shut]
    BY <1>3, <1>9
  <2>2. shut \/ ~Described(ship, h)
    OBVIOUS
  <2> HIDE DEF shut
  <2>3. l.entry = NoEntry /\ l.blocked = shut
    BY <2>1
  <2>4. l.blocked \/ ~Described(ship, h)
    BY <2>2, <2>3
  <2> QED BY <2>3, <2>4 DEF l
<1> QED BY <1>4, <1>6, <1>7, <1>8, <1>9

(* What is in force: descriptors of the tier they say, and every built-in  *)
(* or something else with its id.                                          *)
LEMMA InForceAre ==
  ASSUME Inv
  PROVE  /\ Now \in SUBSET Entry
         /\ \A e \in Now : e.tier = "server" => \E a \in area.pins : e.d = a.d /\ InForce(shipped, a)
         /\ \A e \in Now : e.tier = "built-in" => e.d \in shipped
         /\ \A b \in shipped : \/ [d |-> b, tier |-> "built-in"] \in Now
                               \/ \E e \in Now : e.tier # "built-in" /\ e.d.id = b.id
<1> DEFINE own == UserEntries(area.user)
           all == ServerEntries(shipped, area.pins)
           srv == Without(all, own)
           bi == Without(BuiltinEntries(shipped), own \cup srv)
<1>1. /\ area.user \subseteq Own /\ area.pins \subseteq Pin /\ shipped \subseteq Shippable
  BY StateFields DEF Inv, StateFits, History
<1>2. /\ \A u \in area.user : u \in Descriptor
      /\ \A a \in area.pins : a.d \in Descriptor
      /\ \A b \in shipped : b \in Descriptor
  BY <1>1, TextAssumption, PinFields
<1>3. Now = own \cup srv \cup bi
  BY DEF Now, BuildRegistry
<1>4. \A e \in own : e \in Entry /\ e.tier = "user"
  BY <1>2 DEF UserEntries, Entry, Tier
<1>5. ASSUME NEW e \in all
      PROVE  e \in Entry /\ e.tier = "server" /\ \E a \in area.pins : e.d = a.d /\ InForce(shipped, a)
  <2>1. PICK a \in area.pins : InForce(shipped, a) /\ e = [d |-> a.d, tier |-> "server"]
    BY DEF ServerEntries
  <2> QED BY <1>2, <2>1 DEF Entry, Tier
<1>6. \A e \in BuiltinEntries(shipped) : e \in Entry /\ e.tier = "built-in" /\ e.d \in shipped
  BY <1>2 DEF BuiltinEntries, Entry, Tier
<1>7. srv \subseteq all /\ bi \subseteq BuiltinEntries(shipped)
  BY DEF Without
<1>8. ASSUME NEW b \in shipped
      PROVE  [d |-> b, tier |-> "built-in"] \in bi \/ \E e \in own \cup srv : e.d.id = b.id
  <2> DEFINE e == [d |-> b, tier |-> "built-in"]
  <2>1. e \in BuiltinEntries(shipped) /\ e.d = b
    BY DEF BuiltinEntries
  <2> HIDE DEF e
  <2>2. e \in bi \/ \E o \in own \cup srv : o.d.id = e.d.id
    BY <2>1 DEF Without
  <2> QED BY <2>1, <2>2 DEF e
<1> HIDE DEF own, all, srv, bi
<1>9. \A e \in own \cup srv : e.tier # "built-in" /\ e \in Now
  BY <1>3, <1>4, <1>5, <1>7
<1>10. Now \in SUBSET Entry
  BY <1>3, <1>4, <1>5, <1>6, <1>7
<1>11. \A e \in Now : e.tier = "server" => \E a \in area.pins : e.d = a.d /\ InForce(shipped, a)
  BY <1>3, <1>4, <1>5, <1>6, <1>7
<1>12. \A e \in Now : e.tier = "built-in" => e.d \in shipped
  BY <1>3, <1>4, <1>5, <1>6, <1>7
<1> QED BY <1>3, <1>8, <1>9, <1>10, <1>11, <1>12

(* displacedBuiltins finds whoever claims a host as specifically as a      *)
(* built-in does: it tries one host for every pattern, and that is enough. *)
LEMMA ProbesAreEnough ==
  ASSUME NEW d \in Descriptor, NEW b \in Descriptor, NEW h \in Host,
         Claimed(b, h), AsSpecific(d, b, h)
  PROVE  \E p \in d.hosts : /\ Claimed(b, Probe[p])
                            /\ \A q \in b.hosts : Score[p][Probe[p]] >= Score[q][Probe[p]]
<1>1. d.hosts \subseteq Pattern /\ b.hosts \subseteq Pattern
  BY DescriptorFields
<1>2. PICK q \in b.hosts : Score[q][h] > 0
  BY DEF Claimed
<1>3. PICK p \in d.hosts : Score[p][h] >= Score[q][h]
  BY DEF AsSpecific
<1>4. p \in Pattern /\ q \in Pattern
  BY <1>1
<1>5. /\ Probe[p] \in Host
      /\ \A r \in Pattern : \A g \in Host : Score[r][g] \in Nat
  BY <1>4, ScoreAssumption
<1>6. Score[q][h] <= Score[p][h]
  BY <1>3, <1>4, <1>5
<1>7. Score[q][Probe[p]] > 0
  BY <1>2, <1>4, <1>6, ProbeAssumption
<1>8. \A r \in b.hosts : Score[r][Probe[p]] <= Score[p][Probe[p]]
  BY <1>1, <1>4, ProbeAssumption
<1>9. \A r \in b.hosts : Score[p][Probe[p]] >= Score[r][Probe[p]]
  BY <1>1, <1>4, <1>5, <1>8
<1> QED BY <1>7, <1>9 DEF Claimed

(* A host that a shipped built-in describes never gets the generic key, and *)
(* what a server offered takes neither its hosts nor its keys unless the   *)
(* user agreed to a replacement.                                           *)
THEOREM AdoptionDescribedHostsAreKept == Spec => []DescribedHostsAreKept
<1>1. ASSUME Inv PROVE DescribedHostsAreKept
  <2>1. /\ Now \in SUBSET Entry
        /\ \A e \in Now : e.tier = "server" => \E a \in area.pins : e.d = a.d /\ InForce(shipped, a)
        /\ \A e \in Now : e.tier = "built-in" => e.d \in shipped
        /\ \A b \in shipped : \/ [d |-> b, tier |-> "built-in"] \in Now
                              \/ \E e \in Now : e.tier # "built-in" /\ e.d.id = b.id
    BY <1>1, InForceAre
  <2>2. shipped \subseteq Descriptor
    BY <1>1, TextAssumption DEF Inv, History
  <2>3. ASSUME NEW h \in Host, Described(shipped, h)
        PROVE  Lookup(Now, shipped, h).entry # NoEntry \/ Lookup(Now, shipped, h).blocked
    <3>1. PICK b \in shipped : Claimed(b, h)
      BY <2>3 DEF Described
    <3>2. CASE [d |-> b, tier |-> "built-in"] \in Now
      <4>1. Claimants(Now, h) # {}
        BY <3>1, <3>2 DEF Claimants
      <4> QED BY <2>1, <2>3, <4>1, LookupIs
    <3>3. CASE \E e \in Now : e.tier # "built-in" /\ e.d.id = b.id
      BY <2>1, <2>3, <3>1, <3>3, LookupIs
    <3> QED BY <2>1, <3>2, <3>3
  <2>4. ASSUME NEW e \in Now, e.tier = "server", ~ \E b \in Id : <<e.d.id, b>> \in consent
        PROVE  /\ \A b \in shipped : b.prefix # e.d.prefix
               /\ \A h \in Host :
                    (\E f \in Now : f.tier = "built-in" /\ Claimed(f.d, h))
                      => Lookup(Now, shipped, h).entry # e
    <3>1. PICK a \in area.pins : e.d = a.d /\ InForce(shipped, a)
      BY <2>1, <2>4
    <3>2. PinFits(a, agreed, consent)
      BY <1>1 DEF Inv, StateFits, PinsFit
    <3>3. e.d \in Descriptor /\ ~a.replace
      BY <2>4, <3>1, <3>2, PinFields DEF PinFits
    <3>4. Replaced(shipped, e.d) = {}
      BY <3>1, <3>3 DEF InForce
    <3>5. \A b \in shipped : b.id # e.d.id /\ b \notin Displaced(shipped, e.d)
      BY <3>4 DEF Replaced
    <3>6. \A b \in shipped : b.prefix # e.d.prefix
      BY <3>5 DEF Displaced
    <3>7. ASSUME NEW h \in Host, NEW f \in Now, f.tier = "built-in", Claimed(f.d, h),
                 Lookup(Now, shipped, h).entry = e
          PROVE  FALSE
      <4>1. e # NoEntry /\ e \notin BuiltinsOf(Now)
        BY <2>1, <2>4, SentinelAssumption DEF BuiltinsOf
      <4>2. e \in Tied(Now, h)
        BY <2>1, <3>7, <4>1, LookupIs
      <4>3. f \in Claimants(Now, h) /\ f.d \in shipped /\ f.d \in Descriptor
        BY <2>1, <2>2, <3>7 DEF Claimants
      <4>4. AsSpecific(e.d, f.d, h)
        BY <4>2, <4>3 DEF Tied
      <4>5. f.d \in Displaced(shipped, e.d)
        <5>1. \E p \in e.d.hosts : /\ Claimed(f.d, Probe[p])
                                   /\ \A q \in f.d.hosts : Score[p][Probe[p]] >= Score[q][Probe[p]]
          BY <3>3, <3>7, <4>3, <4>4, ProbesAreEnough
        <5> QED BY <3>5, <4>3, <5>1 DEF Displaced
      <4> QED BY <3>5, <4>3, <4>5
    <3> QED BY <3>6, <3>7
  <2> QED BY <2>3, <2>4 DEF DescribedHostsAreKept
<1> QED BY <1>1, AdoptionCorrect, PTL

-----------------------------------------------------------------------------
(* Links (mediakey.ts).                                                    *)

(* A page, with the field names of Provider. *)
Url(Names, Texts, Searches) ==
  [https : BOOLEAN, host : Names, port : Nat, path : Seq(Texts), search : Searches, extra : BOOLEAN]

(* A path whose trailing slashes are dropped has none left to drop. *)
LEMMA GenericPathIsItsOwn ==
  ASSUME NEW Texts, NEW u, u.path \in Seq(Texts), GenericPath(u) # None,
         NEW v, v.path = GenericPath(u)
  PROVE  GenericPath(v) = GenericPath(u)
<1>. DEFINE Full(w) == {i \in DOMAIN w.path : w.path[i] # <<>>}
            last == CHOOSE i \in Full(u) : \A j \in Full(u) : j <= i
<1>1. Len(u.path) \in Nat /\ DOMAIN u.path = 1..Len(u.path)
  OBVIOUS
<1>2. Full(u) # {} /\ GenericPath(u) = SubSeq(u.path, 1, last)
  BY DEF GenericPath
<1>3. last \in Full(u) /\ \A j \in Full(u) : j <= last
  <2>1. Full(u) \in SUBSET Nat /\ \A i \in Full(u) : i <= Len(u.path)
    BY <1>1
  <2>. HIDE DEF Full
  <2>2. \E i \in Full(u) : \A j \in Full(u) : j <= i
    BY <1>1, <1>2, <2>1, GreatestNatural
  <2>. QED
    BY <2>2
<1>. HIDE DEF last
<1>4. last \in 1..Len(u.path)
  BY <1>1, <1>3
<1>5. /\ v.path \in Seq(Texts) /\ Len(v.path) = last /\ DOMAIN v.path = 1..last
      /\ \A i \in 1..last : v.path[i] = u.path[i]
  BY <1>1, <1>2, <1>4
<1>6. last \in Full(v) /\ \A j \in Full(v) : j <= last
  BY <1>3, <1>4, <1>5
<1>7. (CHOOSE i \in Full(v) : \A j \in Full(v) : j <= i) = last
  <2>1. \A i \in Full(v) : i \in Nat
    BY <1>4, <1>5
  <2>. HIDE DEF Full
  <2>2. ASSUME NEW i \in Full(v), \A j \in Full(v) : j <= i PROVE i = last
    <3>1. i <= last /\ last <= i /\ i \in Nat /\ last \in Nat
      BY <1>6, <2>1, <2>2
    <3>. QED
      BY <3>1
  <2>. QED
    BY <1>6, <2>2
<1>8. GenericPath(v) = SubSeq(v.path, 1, last)
  BY <1>6, <1>7 DEF GenericPath
<1>9. SubSeq(v.path, 1, last) = v.path
  BY <1>4, <1>5
<1>. QED
  BY <1>8, <1>9

(* What a descriptor writes is on the usual port, with no fragment. *)
LEMMA RawWatchFields ==
  \A d, u : RawWatch(d, u) # None => RawWatch(d, u).port = 443 /\ RawWatch(d, u).extra = FALSE
<1>. TAKE d, u
<1>. QED
  BY DEF RawWatch

(* followableUrl: whatever the registry says of the hosts, and whatever URL *)
(* another member sent, where a member is taken is named exactly as the    *)
(* room's media is, and has no credentials or fragment. A described        *)
(* provider's is https on the usual port, on a host the descriptor claims  *)
(* and the member may be taken to, or the member's own; any other stays on *)
(* the member's origin, with no query, and is taken as it stands when it is *)
(* sent on.                                                                *)
THEOREM FollowedLinksArePlain ==
  ASSUME NEW Names, NEW Texts, NEW Searches, <<>> \in Searches, NEW reg,
         NEW u \in Url(Names, Texts, Searches), NEW here, NEW roomKey,
         NEW t, t = FollowableUrl(u, roomKey, here, reg), t # None
  PROVE  /\ NormalizeMediaKey(t, reg) = roomKey /\ t.extra = FALSE
         /\ LET e == reg.speaks[t.host].entry
            IN  IF e = None
                THEN /\ Origin(t) = Origin(here) /\ t.search = <<>>
                     /\ FollowableUrl(t, roomKey, here, reg) = t
                ELSE /\ t.https /\ t.port = 443 /\ Claims(e.hosts, t.host)
                     /\ <<e, t.host>> \in reg.followable \/ here.host = t.host
<1>. DEFINE e == reg.speaks[u.host].entry
            mine(h) == <<e, h>> \in reg.followable \/ here.host = h
<1>1. /\ ~u.extra /\ roomKey # None /\ NormalizeMediaKey(u, reg) = roomKey
      /\ IF e = None THEN Origin(here) = Origin(u)
         ELSE u.https /\ mine(u.host) /\ WatchUrl(u, reg) # None /\ mine(WatchUrl(u, reg).host)
      /\ t = WatchUrl(u, reg)
  BY DEF FollowableUrl
<1>2. CASE e # None
  <2>1. /\ t = RawWatch(e, u) /\ RoundTrips(e, t, KeyOf(e, u))
        /\ reg.speaks[t.host].entry = e
    BY <1>1, <1>2 DEF WatchUrl
  <2>2. KeyOf(e, u) = roomKey /\ NormalizeMediaKey(t, reg) = KeyOf(e, t)
    BY <1>1, <1>2, <2>1 DEF NormalizeMediaKey
  <2>3. KeyOf(e, t) = roomKey /\ t.https /\ Claims(e.hosts, t.host)
    BY <2>1, <2>2 DEF RoundTrips
  <2>4. t.port = 443 /\ t.extra = FALSE
    BY <2>1, RawWatchFields
  <2>. QED
    BY <1>1, <1>2, <2>1, <2>2, <2>3, <2>4
<1>3. CASE e = None
  <2>1. /\ ~reg.speaks[u.host].blocked /\ GenericPath(u) # None
        /\ t = [u EXCEPT !.path = GenericPath(u), !.search = <<>>, !.extra = FALSE]
    BY <1>1, <1>3 DEF WatchUrl
  <2>2. /\ t.path = GenericPath(u) /\ t.search = <<>> /\ t.extra = FALSE
        /\ t.https = u.https /\ t.host = u.host /\ t.port = u.port
    BY <2>1 DEF Url
  <2>3. GenericPath(t) = GenericPath(u)
    <3>1. u.path \in Seq(Texts)
      BY DEF Url
    <3>. QED
      BY <2>1, <2>2, <3>1, GenericPathIsItsOwn
  <2>4. NormalizeMediaKey(t, reg) = NormalizeMediaKey(u, reg)
    BY <1>3, <2>1, <2>2, <2>3 DEF NormalizeMediaKey
  <2>5. FollowableUrl(t, roomKey, here, reg) = t
    <3>1. WatchUrl(t, reg) = [t EXCEPT !.path = GenericPath(u), !.search = <<>>, !.extra = FALSE]
      BY <1>3, <2>1, <2>2, <2>3 DEF WatchUrl
    <3>2. WatchUrl(t, reg) = t
      BY <2>1, <2>2, <3>1 DEF Url
    <3>. QED
      BY <1>1, <1>3, <2>2, <2>4, <3>2 DEF FollowableUrl, Origin
  <2>. QED
    BY <1>1, <1>3, <2>2, <2>4, <2>5 DEF Origin
<1>. QED
  BY <1>2, <1>3

-----------------------------------------------------------------------------
(* Hosts (template.ts).                                                    *)

(* A pattern is a name, or every name below one; a name is its labels. *)
Patterns(Labels) == [wild : BOOLEAN, base : Seq(Labels)]
EndsIn(long, short) ==
  /\ Len(short) <= Len(long)
  /\ \A i \in 1..Len(short) : short[i] = long[Len(long) - Len(short) + i]

LEMMA SuffixIsEnd ==
  ASSUME NEW Labels, NEW s \in Seq(Labels), NEW t \in Seq(Labels)
  PROVE  IsSuffix(s, t) <=> EndsIn(t, s)
<1>. DEFINE r(w) == [i \in 1..Len(w) |-> w[(Len(w) - i) + 1]]
<1>1. Len(s) \in Nat /\ Len(t) \in Nat
  OBVIOUS
<1>2. /\ r(s) \in Seq(Labels) /\ Len(r(s)) = Len(s)
      /\ r(t) \in Seq(Labels) /\ Len(r(t)) = Len(t)
  BY <1>1
<1>3. Reverse(s) = r(s) /\ Reverse(t) = r(t)
  BY DEF Reverse
<1>4. ASSUME Len(s) <= Len(t)
      PROVE  SubSeq(r(s), 1, Len(s)) = SubSeq(r(t), 1, Len(s))
               <=> \A i \in 1..Len(s) : r(s)[i] = r(t)[i]
  <2>. HIDE DEF r
  <2>1. /\ SubSeq(r(s), 1, Len(s)) \in Seq(Labels) /\ Len(SubSeq(r(s), 1, Len(s))) = Len(s)
        /\ SubSeq(r(t), 1, Len(s)) \in Seq(Labels) /\ Len(SubSeq(r(t), 1, Len(s))) = Len(s)
        /\ \A i \in 1..Len(s) : SubSeq(r(s), 1, Len(s))[i] = r(s)[i]
                                /\ SubSeq(r(t), 1, Len(s))[i] = r(t)[i]
    BY <1>1, <1>2, <1>4
  <2>. QED
    BY <2>1, SeqEqual
<1>5. ASSUME Len(s) <= Len(t)
      PROVE  (\A i \in 1..Len(s) : r(s)[i] = r(t)[i]) <=> EndsIn(t, s)
  <2>1. ASSUME \A i \in 1..Len(s) : r(s)[i] = r(t)[i], NEW i \in 1..Len(s)
        PROVE  s[i] = t[Len(t) - Len(s) + i]
    <3>1. Len(s) - i + 1 \in 1..Len(s)
      BY <1>1, <2>1
    <3>2. r(s)[Len(s) - i + 1] = r(t)[Len(s) - i + 1]
      BY <2>1, <3>1
    <3>. QED
      BY <1>1, <1>5, <3>1, <3>2
  <2>2. ASSUME EndsIn(t, s), NEW i \in 1..Len(s) PROVE r(s)[i] = r(t)[i]
    <3>1. Len(s) - i + 1 \in 1..Len(s)
      BY <1>1, <2>2
    <3>2. s[Len(s) - i + 1] = t[Len(t) - Len(s) + (Len(s) - i + 1)]
      BY <2>2, <3>1 DEF EndsIn
    <3>. QED
      BY <1>1, <1>5, <3>1, <3>2
  <2>. QED
    BY <1>5, <2>1, <2>2 DEF EndsIn
<1>. HIDE DEF r
<1>6. IsSuffix(s, t) <=> Len(s) <= Len(t) /\ SubSeq(r(s), 1, Len(s)) = SubSeq(r(t), 1, Len(s))
  BY <1>2, <1>3 DEF IsSuffix, IsPrefix
<1>. QED
  BY <1>4, <1>5, <1>6 DEF EndsIn

(* hostScore, without the arithmetic. *)
LEMMA ScoreIs ==
  ASSUME NEW Labels, NEW p \in Patterns(Labels), NEW h \in Seq(Labels)
  PROVE  /\ p.wild => /\ HostScore(p, h) > 0 <=>
                           Len(p.base) > 0 /\ Len(p.base) < Len(h) /\ EndsIn(h, p.base)
                      /\ HostScore(p, h) > 0 => HostScore(p, h) = 2 * Len(p.base)
         /\ ~p.wild => /\ HostScore(p, h) > 0 <=> h = p.base
                       /\ HostScore(p, h) > 0 => HostScore(p, h) = 2 * Len(p.base) + 1
<1>1. p.base \in Seq(Labels) /\ Len(p.base) \in Nat
  BY DEF Patterns
<1>2. IsSuffix(p.base, h) <=> EndsIn(h, p.base)
  BY <1>1, SuffixIsEnd
<1>. QED
  BY <1>1, <1>2 DEF HostScore

LEMMA EndsOfEnds ==
  ASSUME NEW Labels, NEW a \in Seq(Labels), NEW b \in Seq(Labels), NEW c \in Seq(Labels)
  PROVE  /\ EndsIn(a, b) /\ EndsIn(b, c) => EndsIn(a, c)
         /\ EndsIn(a, b) /\ EndsIn(a, c) /\ Len(c) <= Len(b) => EndsIn(b, c)
<1>1. Len(a) \in Nat /\ Len(b) \in Nat /\ Len(c) \in Nat
  OBVIOUS
<1>2. ASSUME EndsIn(a, b), Len(c) <= Len(b), NEW i \in 1..Len(c)
      PROVE  b[Len(b) - Len(c) + i] = a[Len(a) - Len(c) + i]
  <2>1. Len(b) - Len(c) + i \in 1..Len(b)
    BY <1>1, <1>2
  <2>2. b[Len(b) - Len(c) + i] = a[Len(a) - Len(b) + (Len(b) - Len(c) + i)]
    BY <1>2, <2>1 DEF EndsIn
  <2>3. Len(a) - Len(b) + (Len(b) - Len(c) + i) = Len(a) - Len(c) + i
    BY <1>1, <1>2
  <2>. QED
    BY <2>2, <2>3
<1>3. ASSUME EndsIn(a, b), EndsIn(b, c) PROVE EndsIn(a, c)
  <2>1. Len(c) <= Len(b) /\ Len(b) <= Len(a)
    BY <1>3 DEF EndsIn
  <2>2. \A i \in 1..Len(c) : c[i] = b[Len(b) - Len(c) + i]
    BY <1>3 DEF EndsIn
  <2>. QED
    BY <1>1, <1>2, <1>3, <2>1, <2>2 DEF EndsIn
<1>4. ASSUME EndsIn(a, b), EndsIn(a, c), Len(c) <= Len(b) PROVE EndsIn(b, c)
  <2>1. \A i \in 1..Len(c) : c[i] = a[Len(a) - Len(c) + i]
    BY <1>4 DEF EndsIn
  <2>. QED
    BY <1>2, <1>4, <2>1 DEF EndsIn
<1>. QED
  BY <1>3, <1>4

(* A name with one label more in front ends as the name does. *)
LEMMA OneLabelMore ==
  ASSUME NEW Labels, NEW l \in Labels, NEW b \in Seq(Labels)
  PROVE  /\ <<l>> \o b \in Seq(Labels) /\ Len(<<l>> \o b) = Len(b) + 1
         /\ EndsIn(<<l>> \o b, b)
<1>1. <<l>> \in Seq(Labels) /\ Len(<<l>>) = 1 /\ Len(b) \in Nat
  OBVIOUS
<1>2. <<l>> \o b \in Seq(Labels) /\ Len(<<l>> \o b) = Len(b) + 1
  BY <1>1
<1>3. \A i \in 1..Len(b) : (<<l>> \o b)[1 + i] = b[i]
  BY <1>1
<1>. QED
  BY <1>1, <1>2, <1>3 DEF EndsIn

(* coveredBy: a pattern that others cover claims no host they do not, so a *)
(* rule, a page host or a watch URL of a descriptor that compiles stays on *)
(* the descriptor's hosts. A wildcard is tried on one name it claims, and  *)
(* one is enough.                                                          *)
THEOREM CoveredClaimsNoMore ==
  ASSUME NEW Labels, "x" \in Labels, NEW p \in Patterns(Labels),
         NEW ps \in SUBSET Patterns(Labels), CoveredBy(p, ps),
         NEW h \in Seq(Labels), HostScore(p, h) > 0
  PROVE  Claims(ps, h)
<1>1. CASE p \in ps
  BY <1>1 DEF Claims
<1>2. CASE p \notin ps
  <2>1. PICK q \in ps : q.wild /\ HostScore(q, Under(p)) > 0
    BY <1>2 DEF CoveredBy
  <2>2. q \in Patterns(Labels) /\ p.base \in Seq(Labels) /\ q.base \in Seq(Labels)
        /\ p.wild \in BOOLEAN
    BY DEF Patterns
  <2>3. CASE ~p.wild
    <3>1. h = p.base /\ Under(p) = p.base
      BY <2>3, ScoreIs DEF Under
    <3>. QED
      BY <2>1, <3>1 DEF Claims
  <2>4. CASE p.wild
    <3>1. /\ Under(p) = <<"x">> \o p.base /\ Under(p) \in Seq(Labels)
          /\ Len(Under(p)) = Len(p.base) + 1 /\ EndsIn(Under(p), p.base)
      BY <2>2, <2>4, OneLabelMore DEF Under
    <3>2. Len(q.base) > 0 /\ Len(q.base) < Len(Under(p)) /\ EndsIn(Under(p), q.base)
      BY <2>1, <2>2, <3>1, ScoreIs
    <3>3. Len(p.base) < Len(h) /\ EndsIn(h, p.base)
      BY <2>4, ScoreIs
    <3>4. Len(q.base) \in Nat /\ Len(p.base) \in Nat /\ Len(h) \in Nat
      BY <2>2
    <3>5. Len(q.base) <= Len(p.base)
      BY <3>1, <3>2, <3>4
    <3>6. EndsIn(p.base, q.base)
      BY <2>2, <3>1, <3>2, <3>5, EndsOfEnds
    <3>7. EndsIn(h, q.base)
      BY <2>2, <3>3, <3>6, EndsOfEnds
    <3>8. Len(q.base) < Len(h)
      BY <3>3, <3>4, <3>5
    <3>9. HostScore(q, h) > 0
      BY <2>1, <2>2, <3>2, <3>7, <3>8, ScoreIs
    <3>. QED
      BY <3>9 DEF Claims
  <2>. QED
    BY <2>2, <2>3, <2>4
<1>. QED
  BY <1>1, <1>2

(* hostScore: of two patterns that claim a host, the one that claims fewer *)
(* hosts scores higher there, so the most specific descriptor is found by  *)
(* comparing numbers.                                                      *)
THEOREM NarrowerPatternsWin ==
  ASSUME NEW Labels, "x" \in Labels, NEW p \in Patterns(Labels), NEW q \in Patterns(Labels),
         NEW h \in Seq(Labels), HostScore(p, h) > 0,
         \A g \in Seq(Labels) : HostScore(p, g) > 0 => HostScore(q, g) > 0,
         \E g \in Seq(Labels) : HostScore(q, g) > 0 /\ ~(HostScore(p, g) > 0)
  PROVE  HostScore(p, h) > HostScore(q, h)
<1>1. /\ p.base \in Seq(Labels) /\ q.base \in Seq(Labels)
      /\ Len(p.base) \in Nat /\ Len(q.base) \in Nat /\ Len(h) \in Nat
      /\ p.wild \in BOOLEAN /\ q.wild \in BOOLEAN
  BY DEF Patterns
<1>2. HostScore(q, h) > 0
  OBVIOUS
<1>3. PICK g \in Seq(Labels) : HostScore(q, g) > 0 /\ ~(HostScore(p, g) > 0)
  OBVIOUS
<1>4. CASE ~p.wild /\ ~q.wild
  <2>1. h = p.base /\ h = q.base /\ g = q.base
    BY <1>2, <1>3, <1>4, ScoreIs
  <2>. QED
    BY <1>3, <2>1
<1>5. CASE ~p.wild /\ q.wild
  <2>1. /\ h = p.base /\ HostScore(p, h) = 2 * Len(p.base) + 1
        /\ Len(q.base) < Len(h) /\ HostScore(q, h) = 2 * Len(q.base)
    BY <1>2, <1>5, ScoreIs
  <2>. QED
    BY <1>1, <2>1
<1>6. CASE p.wild /\ ~q.wild
  <2>. DEFINE longer == <<"x">> \o h
  <2>1. longer \in Seq(Labels) /\ Len(longer) = Len(h) + 1 /\ EndsIn(longer, h)
    BY OneLabelMore
  <2>2. h = q.base
    BY <1>2, <1>6, ScoreIs
  <2>3. Len(p.base) > 0 /\ Len(p.base) < Len(h) /\ EndsIn(h, p.base)
    BY <1>6, ScoreIs
  <2>. HIDE DEF longer
  <2>4. EndsIn(longer, p.base) /\ Len(p.base) < Len(longer)
    BY <1>1, <2>1, <2>3, EndsOfEnds
  <2>5. HostScore(p, longer) > 0
    BY <1>6, <2>1, <2>3, <2>4, ScoreIs
  <2>6. longer = q.base
    BY <1>6, <2>1, <2>5, ScoreIs
  <2>. QED
    BY <1>1, <2>1, <2>2, <2>6
<1>7. CASE p.wild /\ q.wild
  <2>1. /\ Len(p.base) > 0 /\ Len(p.base) < Len(h) /\ EndsIn(h, p.base)
        /\ Len(q.base) > 0 /\ Len(q.base) < Len(h) /\ EndsIn(h, q.base)
        /\ HostScore(p, h) = 2 * Len(p.base) /\ HostScore(q, h) = 2 * Len(q.base)
    BY <1>2, <1>7, ScoreIs
  <2>2. Len(q.base) < Len(g) /\ EndsIn(g, q.base)
    BY <1>3, <1>7, ScoreIs
  <2>3. ASSUME Len(p.base) <= Len(q.base) PROVE FALSE
    <3>1. EndsIn(q.base, p.base)
      BY <1>1, <2>1, <2>3, EndsOfEnds
    <3>2. EndsIn(g, p.base)
      BY <1>1, <2>2, <3>1, EndsOfEnds
    <3>3. Len(p.base) < Len(g)
      <4>1. Len(g) \in Nat
        OBVIOUS
      <4>. QED
        BY <1>1, <2>2, <2>3, <4>1
    <3>. QED
      BY <1>3, <1>7, <2>1, <3>2, <3>3, ScoreIs
  <2>. QED
    BY <1>1, <2>1, <2>3
<1>. QED
  BY <1>1, <1>4, <1>5, <1>6, <1>7
=============================================================================
