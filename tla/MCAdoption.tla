---------------------------- MODULE MCAdoption ----------------------------
(***************************************************************************)
(* Two sites. Built-in b describes all of x.com; c, that a later version   *)
(* brings, describes y.com. A server offers d on z.y.com in three versions *)
(* (the second drops its last rule, the third reorders them) and f on      *)
(* w.x.com and z.y.com. The user may take b's id for a descriptor of       *)
(* z.y.com. Every descriptor is compiled from templates.                   *)
(***************************************************************************)
EXTENDS Adoption, MCProvider

W == <<"w">> \o X
Z == <<"z">> \o Y

MCId == {"bb", "cc", "dd", "ff"}
MCPrefix == {<<id>> : id \in MCId}
MCHost == {W, <<"v">> \o X, Z, <<"x">> \o X, <<"x">> \o Y, <<"www", "o", "org">>}
MCPattern == {Below(X), Named(W), Below(Y), Named(Z)}
MCPath == {EpisodePath, ListPath}
MCBody == {<<"e", "/", "1">>, <<"e">>, <<"l">>}
MCContinuation == {NextEpisode}
MCScore == [p \in MCPattern |-> [h \in MCHost |-> HostScore(p, h)]]
MCProbe == [p \in MCPattern |-> Under(p)]

Make(id, hosts, home, rules, fallback) == Sample(id, hosts, home, rules, fallback, <<NextEpisode>>)
TextB == Make("bb", {Below(X)}, W, <<Episode(W)>>, FALSE)
TextC == Make("cc", {Below(Y)}, Z, <<Episode(Z)>>, FALSE)
TextD1 == Make("dd", {Named(Z)}, Z, <<Episode(Z), Section(Z)>>, FALSE)
TextD2 == Make("dd", {Named(Z)}, Z, <<Episode(Z)>>, FALSE)
TextD3 == [Make("dd", {Named(Z)}, Z, <<Section(Z), Episode(Z)>>, FALSE)
             EXCEPT !.examples[1].key = << <<"dd">>, <<"e">> >>]
TextF == Make("ff", {Named(W), Named(Z)}, Z, <<Episode(Z)>>, TRUE)
\* A descriptor of x.com whose keys look like those of z.y.com.
TextG == [Make("gg", {Named(W)}, W, <<Episode(W)>>, FALSE)
            EXCEPT !.keyPrefix = Z, !.examples[1].key[1] = Z]
OwnText == Make("bb", {Named(Z)}, Z, <<Episode(Z)>>, TRUE)

Offers == {TextB, TextC, TextD1, TextD2, TextD3, TextF, TextG, OwnText}

\* What the registry compares of a text: what its rules give the pages there are.
RuleOf(r) ==
    LET caps(path) == MatchPath(r.path, path)
    IN  [path \in {p \in MCPath : caps(p) # NoMatch} |-> Substitute(r.key, caps(path), FALSE)]
Compiled(d) ==
    [id |-> d.id, hosts |-> d.hosts, prefix |-> d.keyPrefix,
     rules |-> [i \in DOMAIN d.identity |-> RuleOf(d.identity[i])],
     fallback |-> d.pathFallback, canon |-> d.canonicalHost, cont |-> ToSet(d.continues)]

\* compileDescriptor takes them all, and the registry's key of a page is the
\* one the descriptor gives it.
ASSUME TextsCompile ==
    \A d \in Offers :
        /\ Compiles(d)
        /\ \A h \in MCHost, path \in MCPath :
              LET got == Evaluate(d, Page(h, path))
              IN  /\ got.claimed <=> Claimed(Compiled(d), h)
                  /\ got.claimed =>
                        IF RuleFor(d, Page(h, path)) = None
                        THEN (got.key = None) <=> KeyFor(Compiled(d), path) = NoKey
                        ELSE got.key = KeyFor(Compiled(d), path)

---------------------------------------------------------------------------
(* mediakey.ts, over the registries adoption can build of these texts.     *)

\* reg: what BuildRegistry gives; only the hosts of `granted` are the user's.
InUse(shipped1, reg, granted) ==
    LET text(e) == CHOOSE d \in Offers : Compiled(d) = e.d
        speaks  == [h \in MCHost |->
                      LET l == Lookup(reg, shipped1, h)
                      IN  [entry |-> IF l.entry = NoEntry THEN None ELSE text(l.entry),
                           blocked |-> l.blocked]]
    IN  [entries |-> {text(e) : e \in reg}, speaks |-> speaks,
         followable |-> {<<text(e), h>> : e \in reg, h \in MCHost}
                          \ {<<text(e), h>> : e \in {e \in reg : e.tier # "built-in"}, h \in MCHost \ granted}]

Registries ==
    {InUse(ship, BuildRegistry(ship, {[d |-> Compiled(d), server |-> "s", replace |-> TRUE] : d \in pins},
                               {Compiled(d) : d \in user}), granted) :
        ship \in {{Compiled(TextB)}, {Compiled(TextB), Compiled(TextC)}},
        pins \in SUBSET {TextD1, TextF, TextG}, user \in SUBSET {OwnText}, granted \in {{}, {Z}}}

Links ==
    [https : BOOLEAN, host : MCHost, port : {443, 8443}, extra : BOOLEAN,
     path : {EpisodePath, ListPath, Append(ListPath, <<>>), <<>>}, search : {<<>>, "v" :> <<"e">>}]
Keys(reg) == {NormalizeMediaKey(u, reg) : u \in Links} \ {None}

\* followableUrl: where a member is taken names the room's media, has no
\* credentials and is its own canonical form, whoever sent it; a described
\* provider's is https, on a host the user granted, a built-in's or the
\* member's own; any other stays on the member's origin, with no query.
ASSUME FollowedLinksAreSafe ==
    \A reg \in Registries, u \in Links, here \in {Page(W, ListPath), Page(<<"www", "o", "org">>, ListPath)} :
        LET key == NormalizeMediaKey(u, reg)
            t   == FollowableUrl(u, key, here, reg)
            e   == reg.speaks[t.host].entry
        IN  t # None =>
              /\ NormalizeMediaKey(t, reg) = key /\ ~t.extra
              /\ FollowableUrl(t, key, here, reg) = t
              /\ IF e = None THEN Origin(t) = Origin(here) /\ t.search = <<>>
                 ELSE t.https /\ t.port = 443 /\ (<<e, t.host>> \in reg.followable \/ t.host = here.host)

\* continuesMedia: nothing continues on a host no descriptor in force speaks
\* for, though one mints keys that look like that host's.
ASSUME OnlyTheDescribedContinue ==
    \A reg \in Registries : \A k, l \in Keys(reg) :
        /\ \A h \in MCHost :
              ContinuesMedia(k, l, reg, h) =>
                 \E e \in reg.entries : e.keyPrefix = l[1] /\ Claims(e.hosts, h)
        /\ ContinuesMedia(k, l, reg, None) =>
              \A u \in Links :
                 NormalizeMediaKey(u, reg) = l => reg.speaks[u.host].entry # None

MCOwn == {Compiled(OwnText)}
MCOffered == {Compiled(d) : d \in {TextD1, TextD2, TextD3, TextF}}
MCShippable == {Compiled(TextB), Compiled(TextC)}
MCFirst == {Compiled(TextB)}
===========================================================================
