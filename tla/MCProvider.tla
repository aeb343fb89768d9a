---------------------------- MODULE MCProvider ----------------------------
(***************************************************************************)
(* Small texts, hosts, templates and pages, and what the template language *)
(* and the descriptors are for, checked over all of them.                  *)
(***************************************************************************)
EXTENDS MediaKey, TLC

MCWord == {"e", "l", "1", "2", "."}
MCDigit == {"1", "2"}
MCEscape == ("/" :> "%2F") @@ ("+" :> "%2B")
MCLimits ==
    [segments |-> 3, queryParams |-> 2, idLen |-> 2, anyLen |-> 3, intLen |-> 1, literalLen |-> 2,
     keyTemplateLen |-> 7, watchTemplateLen |-> 14]

\* Host names and patterns over them: two sites, one under the other.
X == <<"x", "com">>
Y == <<"y", "com">>
HostNames == {X, <<"w">> \o X, <<"v", "w">> \o X, <<"x">> \o X, Y, <<"z">> \o Y, <<"x">> \o Y}
HostPatterns == [wild : BOOLEAN, base : {X, <<"w">> \o X, <<"x">> \o X, Y}]

\* Segments as a page has them, and as they are meant.
Texts == {<<"e">>, <<"1">>, <<"1", "2">>, <<"e", "/">>}
RawTexts == {<<>>, <<"e", "%FF">>} \cup {Encoded(text) : text \in Texts}
RawPaths == UNION {[1 .. n -> RawTexts] : n \in 0 .. 3}

Lit(value) == [t |-> "lit", value |-> value]
Cap(name, kind) == [t |-> "cap", name |-> name, kind |-> kind]
Segments(name) ==
    {Lit(<<"e">>), Cap(name, "id"), Cap(name, "int"), Cap(name, "any"),
     [t |-> "alt", name |-> name, alts |-> {<<"1">>, <<"e">>}]}
PathTemplates ==
    {<<>>, <<[t |-> "rest"]>>} \cup {<<a>> : a \in Segments("n")}
        \cup {<<a, b>> : a \in Segments("n"), b \in Segments("m") \cup {[t |-> "rest"]}}

\* The path with a template's captures put in.
Filled(segs, caps) ==
    [i \in DOMAIN segs |-> IF Captures(segs[i]) THEN caps[segs[i].name] ELSE segs[i].value]

---------------------------------------------------------------------------
(* The template language. *)

\* coveredBy: a pattern that is covered by others claims no host they do not.
ASSUME CoveredIsClaimed ==
    \A p \in HostPatterns, ps \in SUBSET HostPatterns :
        CoveredBy(p, ps) => \A h \in HostNames : HostScore(p, h) > 0 => Claims(ps, h)

\* hostScore: of two patterns that claim a host, the one that claims fewer
\* hosts scores higher there.
ASSUME NarrowerScoresHigher ==
    \A p, q \in HostPatterns, h \in HostNames :
        LET claimed(r) == {g \in HostNames : HostScore(r, g) > 0}
        IN  h \in claimed(p) /\ claimed(p) \subseteq claimed(q) /\ claimed(p) # claimed(q)
               => HostScore(p, h) > HostScore(q, h)

\* matchPath: what a template without ** captures, put back in it, is the
\* page's decoded path but for empty segments, so no two pages give the same
\* captures unless they decode alike; and no other values of the captures do.
ASSUME CapturesArePath ==
    \A segs \in {t \in PathTemplates : \A i \in DOMAIN t : t[i].t # "rest"}, path \in RawPaths :
        LET caps  == MatchPath(segs, path)
            texts == SelectSeq(DecodedPath(path), NotEmpty)
        IN  IF caps # NoMatch THEN Filled(segs, caps) = texts /\ ToSet(texts) \subseteq Texts
            ELSE \A c \in [ToSet(NamesOf(segs)) -> Texts] :
                    Filled(segs, c) = texts
                       => \E i \in DOMAIN segs : ~SegmentMatches(segs[i], texts[i])

\* matchPath: a doubled or a trailing slash never changes what is captured.
ASSUME SlashesDoNotFork ==
    \A segs \in PathTemplates, path \in RawPaths :
        MatchPath(segs, path) = MatchPath(segs, SelectSeq(path, NotEmpty))

---------------------------------------------------------------------------
(* Descriptors. *)

Page(host, path) ==
    [https |-> TRUE, host |-> host, port |-> 443, path |-> path, search |-> <<>>, extra |-> FALSE]
Var(name) == <<[t |-> "name", name |-> name]>>
Str(value) == <<[t |-> "lit", value |-> value]>>

\* /e/{n:int}, /{n}/**, and /l?v={n} watched as /{n} or as itself.
Episode(host) ==
    [hosts |-> None, path |-> <<Lit(<<"e">>), Cap("n", "int")>>, query |-> None,
     key |-> Str(<<"e", "/">>) \o Var("n"),
     watch |-> [host |-> host, path |-> Str(<<"/", "e", "/">>) \o Var("n"), query |-> <<>>]]
Section(host) ==
    [hosts |-> None, path |-> <<Cap("n", "any"), [t |-> "rest"]>>, query |-> None,
     key |-> Var("n"),
     watch |-> [host |-> host, path |-> Str(<<"/">>) \o Var("n"), query |-> <<>>]]
Watched(host) ==
    [hosts |-> {[wild |-> FALSE, base |-> host]}, path |-> <<Lit(<<"l">>)>>,
     query |-> <<[name |-> "v", seg |-> Cap("n", "any")]>>, key |-> Var("n"),
     watch |-> [host |-> host, path |-> Str(<<"/">>) \o Var("n"), query |-> <<>>]]
Sought(host) ==
    [Watched(host) EXCEPT !.watch = [host |-> host, path |-> Str(<<"/", "l">>),
                                     query |-> <<[name |-> "v", value |-> Var("n")]>>]]

EpisodePath == << <<"e">>, <<"1">> >>
ListPath == << <<"l">> >>
NextEpisode == [from |-> <<Lit(<<"e">>), Cap("n", "int")>>, to |-> <<Lit(<<"e">>), Cap("m", "int")>>]

Sample(id, hosts, home, identity, fallback, continues) ==
    [requires |-> {}, id |-> id, keyPrefix |-> <<id>>, hosts |-> hosts, pageHosts |-> {},
     canonicalHost |-> home, identity |-> identity, pathFallback |-> fallback,
     continues |-> continues,
     examples |-> <<[t |-> "page", url |-> Page(home, EpisodePath), key |-> << <<id>>, <<"e", "/", "1">> >>]>>]

Named(base) == [wild |-> FALSE, base |-> base]
Below(base) == [wild |-> TRUE, base |-> base]

Samples ==
    {Sample("s", {Below(X), Named(X)}, X, rules, fallback, <<NextEpisode>>) :
        rules \in {<<Episode(X)>>, <<Episode(X), Section(X)>>, <<Watched(X), Episode(X), Section(X)>>, <<Sought(X), Episode(X)>>},
        fallback \in BOOLEAN}
Pages ==
    [https : {TRUE}, host : {X, <<"w">> \o X, Y}, port : {443}, extra : {FALSE},
     path : {p \in RawPaths : Len(p) < 3} \cup {ListPath},
     search : {<<>>} \cup {"v" :> v : v \in {<<>>, <<"e", "/">>, DotDot}}]

\* The samples compile, and a field none of them may require does not.
ASSUME SamplesCompile ==
    \A d \in Samples : Compiles(d) /\ ~Compiles([d EXCEPT !.requires = {"ads"}])

\* evaluate: the watch URL given for a page is one of the descriptor's own
\* hosts, names the page's media, and is offered again for itself.
ASSUME WatchNamesItsMedia ==
    \A d \in Samples, u \in Pages :
        LET got == Evaluate(d, u)
        IN  got.watch # None =>
               LET again == Evaluate(d, got.watch)
               IN  again.claimed /\ again.key = got.key /\ again.watch = got.watch

\* roundTrips: a page that is named has a watch URL, unless the URL's path
\* would have a query's dot segment, which no URL keeps.
ASSUME OnlyDotsAreLost ==
    \A d \in Samples, u \in Pages :
        LET got == Evaluate(d, u)
        IN  got.key # None =>
               (got.watch = None <=> Watched(X) = RuleFor(d, u) /\ u.search = "v" :> DotDot)

\* continues: no media carries on from itself, and only media of the rule do.
ASSUME NothingContinuesItself ==
    \A d \in Samples :
        LET keys == {Evaluate(d, u).key : u \in {p \in Pages : p.search = <<>>}} \ {None}
        IN  \A k, l \in keys : ContinuesKey(d, k, l) => k # l /\ Head(k[2]) = "e" /\ Head(l[2]) = "e"

===========================================================================
