------------------------------ MODULE Provider ------------------------------
(***************************************************************************)
(* One provider descriptor: whether it compiles, the key and the watch URL *)
(* it gives a page, and which media carry on from which                    *)
(* (core/src/providers/descriptor.ts).                                     *)
(*                                                                         *)
(* A page is [https, host, port, path, search, extra]: the search is a     *)
(* function of decoded values, extra says it has credentials or a          *)
(* fragment. A watch template is a host and the text templates of its path *)
(* and of its query's values. A key is <<prefix, body>>, a prefix a        *)
(* sequence as host names are.                                             *)
(***************************************************************************)
EXTENDS Template, FiniteSets

CONSTANTS
    MaxRules, MaxHosts, MaxContinues, MaxExamples,   \* MAX_RULES, ...
    Implemented,  \* fields this client honours
    None          \* no key, no watch URL, no rule, no query

ASSUME ProviderAssumption ==
    /\ MaxRules \in Nat /\ MaxHosts \in Nat /\ MaxContinues \in Nat /\ MaxExamples \in Nat

---------------------------------------------------------------------------
(* What it says of a page.                                                 *)

\* The captures of a rule: of the path, and of the query over them.
CapturesOf(rule, u) ==
    LET p == MatchPath(rule.path, u.path)
        q == IF rule.query = None THEN <<>> ELSE MatchQuery(rule.query, u.search)
    IN  IF \/ rule.hosts # None /\ ~Claims(rule.hosts, u.host)
           \/ p = NoMatch \/ q = NoMatch
        THEN NoMatch
        ELSE [n \in DOMAIN p \cup DOMAIN q |-> IF n \in DOMAIN q THEN q[n] ELSE p[n]]

RulesFor(d, u) == {i \in DOMAIN d.identity : CapturesOf(d.identity[i], u) # NoMatch}
RuleFor(d, u) ==
    IF RulesFor(d, u) = {} THEN None
    ELSE d.identity[CHOOSE i \in RulesFor(d, u) : \A j \in RulesFor(d, u) : i <= j]

\* The path, its trailing slashes dropped.
GenericPath(u) ==
    LET full == {i \in DOMAIN u.path : u.path[i] # <<>>}
    IN  IF full = {} THEN None
        ELSE SubSeq(u.path, 1, CHOOSE i \in full : \A j \in full : j <= i)

Joined(path) == Concat([i \in DOMAIN path |-> <<Slash>> \o path[i]])

KeyOf(d, u) ==
    LET r == RuleFor(d, u)
    IN  IF r # None THEN <<d.keyPrefix, Substitute(r.key, CapturesOf(r, u), FALSE)>>
        ELSE IF d.pathFallback /\ GenericPath(u) # None
        THEN <<d.keyPrefix, Joined(GenericPath(u))>> ELSE None

RawWatch(d, u) ==
    LET r == RuleFor(d, u)
        c == CapturesOf(r, u)
    IN  IF r # None
        THEN [https |-> TRUE, host |-> r.watch.host, port |-> 443, extra |-> FALSE,
              path |-> Parsed(Tail(SplitAtSlash(Substitute(r.watch.path, c, TRUE)))),
              search |-> [k \in {q.name : q \in ToSet(r.watch.query)} |->
                            Substitute((CHOOSE q \in ToSet(r.watch.query) : q.name = k).value, c, FALSE)]]
        ELSE IF d.pathFallback /\ GenericPath(u) # None
        THEN [https |-> TRUE, host |-> d.canonicalHost, port |-> 443, extra |-> FALSE,
              path |-> GenericPath(u), search |-> <<>>]
        ELSE None

\* A produced watch URL must name the media it was produced for.
RoundTrips(d, watch, key) == watch.https /\ Claims(d.hosts, watch.host) /\ KeyOf(d, watch) = key

Evaluate(d, u) ==
    IF ~Claims(d.hosts, u.host) THEN [claimed |-> FALSE, key |-> None, watch |-> None]
    ELSE LET key == KeyOf(d, u)
             raw == IF key = None THEN None ELSE RawWatch(d, u)
         IN  [claimed |-> TRUE, key |-> key,
              watch |-> IF raw # None /\ RoundTrips(d, raw, key) THEN raw ELSE None]

---------------------------------------------------------------------------
(* Which media carry on from which.                                        *)

\* A key's body is matched as a path, and is not decoded.
MatchBody(segs, body) == MatchTexts(segs, SplitAtSlash(body))

Agree(a, b) == \A n \in DOMAIN a \cap DOMAIN b : a[n] = b[n]

ContinuesKey(d, prev, next) ==
    /\ prev[1] = d.keyPrefix /\ next[1] = d.keyPrefix /\ prev # next
    /\ \E i \in DOMAIN d.continues :
          LET a == MatchBody(d.continues[i].from, prev[2])
              b == MatchBody(d.continues[i].to, next[2])
          IN  a # NoMatch /\ b # NoMatch /\ Agree(a, b)

---------------------------------------------------------------------------
(* Whether it compiles.                                                    *)

\* checkStructure, beyond the types of the fields.
WellFormed(d) ==
    /\ d.requires \subseteq Implemented
    /\ d.hosts # {} /\ Cardinality(d.hosts) <= MaxHosts
    /\ \A p \in d.hosts \cup d.pageHosts : ValidHostPattern(p) /\ CoveredBy(p, d.hosts)
    /\ CoveredBy([wild |-> FALSE, base |-> d.canonicalHost], d.hosts)
    /\ Len(d.identity) <= MaxRules
    /\ \A i \in DOMAIN d.identity :
          d.identity[i].hosts # None =>
             \A p \in d.identity[i].hosts : ValidHostPattern(p) /\ CoveredBy(p, d.hosts)
FewEnough(d) == Len(d.continues) <= MaxContinues /\ Len(d.examples) <= MaxExamples

\* A watch template names a page of a host of the descriptor.
CheckWatchTemplate(w, d) == CoveredBy([wild |-> FALSE, base |-> w.host], d.hosts)
WatchText(w) ==
    <<[t |-> "lit", value |-> w.host]>> \o w.path
        \o Concat([i \in DOMAIN w.query |-> w.query[i].value])

RuleCompiles(d, r) ==
    LET inPath  == NamesOf(r.path)
        inQuery == IF r.query = None THEN <<>>
                   ELSE NamesOf([i \in DOMAIN r.query |-> r.query[i].seg])
        names   == ToSet(inPath \o inQuery)
    IN  /\ ValidPathTemplate(r.path)
        /\ r.query # None => ValidQueryTemplate(r.query, inPath)
        /\ ValidTextTemplate(r.key, names, Limits.keyTemplateLen)
        /\ ValidTextTemplate(WatchText(r.watch), names, Limits.watchTemplateLen)
        /\ CheckWatchTemplate(r.watch, d)
        \* /** with no query would name every page as media
        /\ ~(r.query = None /\ r.path = <<[t |-> "rest"]>>)

\* An example of a page says its key, and maybe its watch URL; of two keys,
\* whether the second carries on.
ExampleHolds(d, e) ==
    IF e.t = "page"
    THEN LET got == Evaluate(d, e.url)
         IN  /\ got.key = e.key
             /\ e.key # None => got.watch # None
             /\ "watch" \in DOMAIN e => got.watch = e.watch
    ELSE ContinuesKey(d, e.from, e.to) = e.continues

RunExamples(d) ==
    /\ \E i \in DOMAIN d.examples : d.examples[i].t = "page" /\ d.examples[i].key # None
    /\ \A i \in DOMAIN d.examples : ExampleHolds(d, d.examples[i])

Compiles(d) ==
    /\ WellFormed(d) /\ FewEnough(d)
    /\ \A i \in DOMAIN d.identity : RuleCompiles(d, d.identity[i])
    /\ \A i \in DOMAIN d.continues :
          ValidPathTemplate(d.continues[i].from) /\ ValidPathTemplate(d.continues[i].to)
    /\ RunExamples(d)

===========================================================================
