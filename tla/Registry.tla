----------------------------- MODULE Registry -----------------------------
(***************************************************************************)
(* Provider descriptors: which one speaks for a host, what key it gives a  *)
(* page, what a change to one widens, and which are in force             *)
(* (core/src/providers: registry.ts, adoption.ts, descriptor.ts).          *)
(*                                                                         *)
(* A descriptor is what the rules below compare. An identity rule is the   *)
(* key body it gives each path it matches; a host pattern is how           *)
(* specifically it claims each host (Provider says how both come about).   *)
(***************************************************************************)
EXTENDS Naturals, Sequences

CONSTANTS
    Id,         \* descriptor ids
    Host,       \* hostnames, lower case
    Pattern,    \* host patterns: a name, or *.name
    Path,       \* page paths that name something
    Prefix,     \* key prefixes
    Body,       \* key bodies the identity rules give
    Continuation, \* `continues` rules
    Score,      \* Score[p][h]: hostScore(p, h), 0 for no match
    Probe,      \* Probe[p]: the host a pattern is tried on
    NoEntry,    \* lookup found no descriptor
    NoKey       \* the page names no media

Rule == UNION {[paths -> Body] : paths \in SUBSET Path}

Descriptor ==
    [id : Id, hosts : SUBSET Pattern, prefix : Prefix, rules : Seq(Rule),
     fallback : BOOLEAN, canon : Host, cont : SUBSET Continuation]

Tier == {"built-in", "server", "user"}
Entry == [d : Descriptor, tier : Tier]

\* A host has only so many labels to match.
ASSUME ScoreAssumption ==
    /\ Score \in [Pattern -> [Host -> Nat]]
    /\ Probe \in [Pattern -> Host]
    /\ \A h \in Host : \E p \in Pattern : \A q \in Pattern : Score[q][h] <= Score[p][h]
\* Of two patterns that claim one host, the less specific claims all that the
\* other does; and nobody has a label to claim a probe by.
ASSUME ProbeAssumption ==
    \A p, q \in Pattern :
        /\ Score[q][Probe[p]] <= Score[p][Probe[p]]
        /\ \A h \in Host : Score[q][h] > 0 /\ Score[q][h] <= Score[p][h] => Score[q][Probe[p]] > 0
ASSUME SentinelAssumption == NoEntry \notin Entry

---------------------------------------------------------------------------
(* A descriptor, and the keys it gives. *)

Claimed(d, h) == \E p \in d.hosts : Score[p][h] > 0

\* d claims h at least as specifically as e does: compares bestHostScore.
AsSpecific(d, e, h) ==
    \A q \in e.hosts : \E p \in d.hosts : Score[p][h] >= Score[q][h]

Matching(d, path) == {i \in DOMAIN d.rules : path \in DOMAIN d.rules[i]}
FirstMatch(d, path) ==
    CHOOSE i \in Matching(d, path) : \A j \in Matching(d, path) : i <= j

\* A rule names the page, or the generic path does if the descriptor says so.
KeyFor(d, path) ==
    IF Matching(d, path) # {}
    THEN <<d.prefix, d.rules[FirstMatch(d, path)][path]>>
    ELSE IF d.fallback THEN <<d.prefix, path>> ELSE NoKey

---------------------------------------------------------------------------
(* Which entry speaks for a host. `shipped` is the compiled-in built-ins,  *)
(* whether they are in force or replaced.                                  *)

Claimants(reg, h) == {e \in reg : Claimed(e.d, h)}
Tied(reg, h) ==
    {e \in Claimants(reg, h) : \A f \in Claimants(reg, h) : AsSpecific(e.d, f.d, h)}

BuiltinsOf(reg) == {e \in reg : e.tier = "built-in"}
Described(shipped, h) == \E b \in shipped : Claimed(b, h)

One(S) == \E e \in S : S = {e}
The(S) == CHOOSE e \in S : TRUE

\* Nobody claims it, so the generic rule does, whoever the host was taken from.
MutLookup(reg, shipped, h) ==
    LET tied == Tied(reg, h)
    IN  [entry   |-> IF One(tied) THEN The(tied) ELSE NoEntry,
         blocked |-> tied # {} /\ ~One(tied) /\ Described(shipped, h)]

\* The most specific claim wins; a tie applies the built-in in force, else
\* neither; and where a built-in describes the host, nothing generic does.
Lookup(reg, shipped, h) ==
    LET tied == Tied(reg, h)
        own  == Tied(BuiltinsOf(reg), h)
    IN  CASE One(tied) -> [entry |-> The(tied), blocked |-> FALSE]
          [] tied = {} ->
               [entry   |-> NoEntry,
                blocked |-> \E b \in shipped :
                               /\ Claimed(b, h)
                               /\ \E e \in reg : e.tier # "built-in" /\ e.d.id = b.id]
          [] ~One(tied) /\ tied # {} /\ One(own) -> [entry |-> The(own), blocked |-> FALSE]
          [] OTHER -> [entry   |-> NoEntry,
                       blocked |-> own # {} \/ Described(shipped, h)]

\* The key of a page: the descriptor's, none, or host and path.
MediaKey(reg, shipped, h, path) ==
    LET l == Lookup(reg, shipped, h)
    IN  IF l.entry # NoEntry THEN KeyFor(l.entry.d, path)
        ELSE IF l.blocked THEN NoKey ELSE <<h, path>>

---------------------------------------------------------------------------
(* What is in force. A pin is a server's descriptor the user took on.      *)

\* Built-ins a descriptor with another id would take a host or the key
\* prefix from.
Displaced(shipped, d) ==
    {b \in shipped :
        /\ b.id # d.id
        /\ \/ b.prefix = d.prefix
           \/ \E p \in d.hosts :
                 /\ Claimed(b, Probe[p])
                 /\ \A q \in b.hosts : Score[p][Probe[p]] >= Score[q][Probe[p]]}

\* All it would replace: those, and the one with its id.
Replaced(shipped, d) == {b \in shipped : b.id = d.id} \cup Displaced(shipped, d)

InForce(shipped, pin) == pin.replace \/ Replaced(shipped, pin.d) = {}

ServerEntries(shipped, pins) ==
    {[d |-> a.d, tier |-> "server"] : a \in {p \in pins : InForce(shipped, p)}}
UserEntries(user) == {[d |-> u, tier |-> "user"] : u \in user}
BuiltinEntries(shipped) == {[d |-> b, tier |-> "built-in"] : b \in shipped}

\* By id: the user's own, else the pin in force, else the built-in.
Without(entries, over) == {e \in entries : \A o \in over : o.d.id # e.d.id}
BuildRegistry(shipped, pins, user) ==
    LET own  == UserEntries(user)
        srv  == Without(ServerEntries(shipped, pins), own)
    IN  own \cup srv \cup Without(BuiltinEntries(shipped), own \cup srv)

---------------------------------------------------------------------------
(* What a change does. *)

\* The order of the rules does not matter.
MutRulesKept(before, after) ==
    /\ \A i \in DOMAIN after.rules : \E j \in DOMAIN before.rules : after.rules[i] = before.rules[j]
    /\ Len(after.rules) = Len(before.rules) \/ ~after.fallback

\* Rules dropped from the end, and their pages left without a key.
RulesKept(before, after) ==
    /\ Len(after.rules) <= Len(before.rules)
    /\ \A i \in DOMAIN after.rules : after.rules[i] = before.rules[i]
    /\ Len(after.rules) = Len(before.rules) \/ ~after.fallback

Widens(before, after) ==
    \/ before.hosts # after.hosts
    \/ before.canon # after.canon
    \/ ~RulesKept(before, after)
    \/ ~before.fallback /\ after.fallback
    \/ before.prefix # after.prefix
    \/ ~(after.cont \subseteq before.cont)

MayAutoAdopt(before, after) == before.id = after.id /\ ~Widens(before, after)

===========================================================================
