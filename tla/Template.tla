------------------------------ MODULE Template ------------------------------
(***************************************************************************)
(* The template language of provider descriptors                           *)
(* (core/src/providers/template.ts): host patterns, path and query         *)
(* templates, and the texts written with what they captured.               *)
(*                                                                         *)
(* A text is a sequence of atoms, which stand for a character each; "/" is *)
(* one, and so is a character written as a percent escape.                 *)
(***************************************************************************)
EXTENDS Naturals, Sequences, SequencesExt

CONSTANTS
    Word,      \* atoms of a word: letters, digits, . _ ~ -
    Digit,     \* those that are digits
    Escape,    \* the escaped atom of every atom encodeURIComponent escapes
    BadEscape, \* an escape that decodes to nothing
    Limits,    \* LIMITS
    NoMatch    \* the template does not match

ASSUME TemplateAssumption ==
    /\ Digit \subseteq Word
    /\ \A a, b \in DOMAIN Escape : Escape[a] = Escape[b] => a = b
    /\ Limits \in [{"segments", "queryParams", "idLen", "anyLen", "intLen", "literalLen",
                    "keyTemplateLen", "watchTemplateLen"} -> Nat]

Slash == "/"
Dot == <<".">>
DotDot == <<".", ".">>

OnlyOf(text, atoms) == \A i \in DOMAIN text : text[i] \in atoms
Distinct(s) == \A i, j \in DOMAIN s : s[i] = s[j] => i = j
Concat(texts) == FlattenSeq(texts)

---------------------------------------------------------------------------
(* Hosts: a name is its labels, a pattern may have a leading wildcard.      *)

ValidHostPattern(p) == Len(p.base) >= 2

\* How specifically the pattern claims the host; 0 for not at all.
HostScore(p, host) ==
    IF p.wild THEN IF Len(p.base) < Len(host) /\ IsSuffix(p.base, host) THEN 2 * Len(p.base) ELSE 0
    ELSE IF host = p.base THEN 2 * Len(p.base) + 1 ELSE 0

Claims(patterns, host) == \E p \in patterns : HostScore(p, host) > 0

\* A wildcard is tried on a label nobody has.
Under(p) == IF p.wild THEN <<"x">> \o p.base ELSE p.base
CoveredBy(p, patterns) ==
    \/ p \in patterns
    \/ \E q \in patterns : q.wild /\ HostScore(q, Under(p)) > 0

---------------------------------------------------------------------------
(* Segments: a literal, a capture of a kind, one of a few words, the rest.  *)

IsWord(text) == text # <<>> /\ OnlyOf(text, Word)

ValidSegment(seg) ==
    CASE seg.t = "lit" -> /\ IsWord(seg.value) /\ Len(seg.value) <= Limits.literalLen
                          /\ seg.value \notin {Dot, DotDot}
      [] seg.t = "cap" -> seg.kind \in {"id", "int", "any"}
      [] seg.t = "alt" -> \A a \in seg.alts : IsWord(a) /\ Len(a) <= Limits.literalLen
      [] seg.t = "rest" -> TRUE

Captures(seg) == seg.t \in {"cap", "alt"}
NamesOf(segs) ==
    LET caps == SelectSeq(segs, Captures) IN [i \in DOMAIN caps |-> caps[i].name]

\* parsePathTemplate, of the segments between the slashes.
ValidPathTemplate(segs) ==
    /\ Len(segs) <= Limits.segments
    /\ \A i \in DOMAIN segs : ValidSegment(segs[i]) /\ (segs[i].t = "rest" => i = Len(segs))
    /\ Distinct(NamesOf(segs))

\* parseQueryTemplate: a parameter is a sequence of its name and its segment.
ValidQueryTemplate(params, taken) ==
    /\ params # <<>> /\ Len(params) <= Limits.queryParams
    /\ \A i \in DOMAIN params : ValidSegment(params[i].seg) /\ params[i].seg.t # "rest"
    /\ LET names == NamesOf([i \in DOMAIN params |-> params[i].seg])
       IN  Distinct(names \o taken)

\* A segment that does not decode matches nothing.
SegmentMatches(seg, text) ==
    /\ text # <<BadEscape>>
    /\ CASE seg.t = "lit" -> text = seg.value
         [] seg.t = "alt" -> text \in seg.alts
         [] seg.t = "rest" -> FALSE
         [] seg.t = "cap" ->
              CASE seg.kind = "int" -> IsWord(text) /\ OnlyOf(text, Digit) /\ Len(text) <= Limits.intLen
                [] seg.kind = "id"  -> IsWord(text) /\ Len(text) <= Limits.idLen
                [] seg.kind = "any" -> text # <<>> /\ Len(text) <= Limits.anyLen

---------------------------------------------------------------------------
(* Matching.  A path is its raw segments, each percent-decoded once; empty  *)
(* ones do not count.                                                      *)

Unescaped(a) ==
    IF \E b \in DOMAIN Escape : Escape[b] = a
    THEN CHOOSE b \in DOMAIN Escape : Escape[b] = a ELSE a
Decoded(raw) ==
    IF BadEscape \in ToSet(raw) THEN <<BadEscape>>
    ELSE [i \in DOMAIN raw |-> Unescaped(raw[i])]
Encoded(text) == [i \in DOMAIN text |-> IF text[i] \in DOMAIN Escape THEN Escape[text[i]] ELSE text[i]]

Caught(segs, texts) ==
    [n \in ToSet(NamesOf(segs)) |->
        texts[CHOOSE i \in DOMAIN segs : Captures(segs[i]) /\ segs[i].name = n]]

NotEmpty(text) == text # <<>>

\* Left to right, nothing tried twice; ** takes what is left, and never looks.
MatchTexts(segs, all) ==
    LET texts == SelectSeq(all, NotEmpty)
        rest  == segs # <<>> /\ Last(segs).t = "rest"
        n     == IF rest THEN Len(segs) - 1 ELSE Len(segs)
    IN  IF /\ IF rest THEN Len(texts) >= n ELSE Len(texts) = n
           /\ \A i \in 1 .. n : SegmentMatches(segs[i], texts[i])
        THEN Caught(SubSeq(segs, 1, n), texts) ELSE NoMatch

DecodedPath(path) == [i \in DOMAIN path |-> Decoded(path[i])]
MatchPath(segs, path) == MatchTexts(segs, DecodedPath(path))

\* search: the first value of each parameter, decoded.
MatchQuery(params, search) ==
    IF \A i \in DOMAIN params :
          /\ params[i].name \in DOMAIN search
          /\ search[params[i].name] # <<>>
          /\ SegmentMatches(params[i].seg, search[params[i].name])
    THEN Caught([i \in DOMAIN params |-> params[i].seg],
                [i \in DOMAIN params |-> search[params[i].name]])
    ELSE NoMatch

---------------------------------------------------------------------------
(* Texts with placeholders.                                                *)

Substitute(parts, caps, encode) ==
    Concat([i \in DOMAIN parts |->
              IF parts[i].t = "lit" THEN parts[i].value
              ELSE IF parts[i].name \notin DOMAIN caps THEN <<>>
              ELSE IF encode THEN Encoded(caps[parts[i].name]) ELSE caps[parts[i].name]])

\* What is written between the braces is one atom long here.
ValidTextTemplate(parts, allowed, maxLen) ==
    /\ parts # <<>>
    /\ \A i \in DOMAIN parts : parts[i].t = "name" => parts[i].name \in allowed
    /\ Len(Substitute(parts, [n \in allowed |-> <<"{", n, "}">>], FALSE)) <= maxLen

\* What split("/") makes of a text, and a URL parser of a path: no dot segments.
SplitAtSlash(text) ==
    FoldLeft(LAMBDA acc, a : IF a = Slash THEN Append(acc, <<>>)
                             ELSE [acc EXCEPT ![Len(acc)] = Append(@, a)], << <<>> >>, text)
Parsed(path) ==
    FoldLeft(LAMBDA acc, s : IF Decoded(s) = Dot THEN acc
                             ELSE IF Decoded(s) = DotDot THEN SubSeq(acc, 1, Len(acc) - 1)
                             ELSE Append(acc, s), <<>>, path)

===========================================================================
