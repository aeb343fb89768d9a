------------------------------ MODULE MediaKey ------------------------------
(***************************************************************************)
(* What a page's media is called, where somebody else can open it, and     *)
(* where a member may be taken (core/src/adapter/mediakey.ts).             *)
(*                                                                         *)
(* The registry in force is [entries, speaks, followable]: its             *)
(* descriptors, what it says of every host ([entry, blocked], None for no  *)
(* entry), and the <<descriptor, host>> pairs a member may be taken to.    *)
(***************************************************************************)
EXTENDS Provider

ProviderId(host, reg) ==
    IF reg.speaks[host].entry # None THEN reg.speaks[host].entry.keyPrefix
    ELSE IF Head(host) = "www" THEN Tail(host) ELSE host

NormalizeMediaKey(u, reg) ==
    LET s == reg.speaks[u.host]
    IN  IF s.entry # None THEN KeyOf(s.entry, u)
        ELSE IF s.blocked \/ GenericPath(u) = None THEN None
        ELSE <<ProviderId(u.host, reg), Joined(GenericPath(u))>>

\* The canonical page, or the same without its query and fragment.
WatchUrl(u, reg) ==
    LET s   == reg.speaks[u.host]
        key == KeyOf(s.entry, u)
        raw == RawWatch(s.entry, u)
    IN  IF s.entry # None
        THEN IF /\ key # None /\ RoundTrips(s.entry, raw, key)
                /\ reg.speaks[raw.host].entry = s.entry
             THEN raw ELSE None
        ELSE IF s.blocked \/ GenericPath(u) = None THEN None
        ELSE [u EXCEPT !.path = GenericPath(u), !.search = <<>>, !.extra = FALSE]

Origin(u) == <<u.https, u.host, u.port>>

\* The URL somebody sent for the room's media, as a member at `here` may take it.
FollowableUrl(u, roomKey, here, reg) ==
    LET e       == reg.speaks[u.host].entry
        mine(h) == <<e, h>> \in reg.followable \/ here.host = h
        target  == WatchUrl(u, reg)
    IN  IF /\ ~u.extra
           /\ roomKey # None /\ NormalizeMediaKey(u, reg) = roomKey
           /\ IF e = None THEN Origin(here) = Origin(u)
              ELSE u.https /\ mine(u.host) /\ target # None /\ mine(target.host)
        THEN target ELSE None

\* Whether the generic rule gives some host the prefix: a dotted name.
GenericMints(prefix, reg) ==
    /\ Len(prefix) > 1 \/ prefix = <<"localhost">>
    /\ \E h \in {prefix, <<"www">> \o prefix} \cap DOMAIN reg.speaks :
          reg.speaks[h] = [entry |-> None, blocked |-> FALSE] /\ ProviderId(h, reg) = prefix

\* Whether the room may go on from one media to the next with nobody asked;
\* the page the next was read on may not be known.
ContinuesMedia(prev, next, reg, pageHost) ==
    LET owners == {e \in reg.entries : e.keyPrefix = prev[1]}
    IN  /\ prev # next /\ prev[1] = next[1]
        /\ \E e \in owners :
              /\ owners = {e}
              /\ IF pageHost # None THEN reg.speaks[pageHost].entry = e
                 ELSE ~GenericMints(prev[1], reg)
              /\ ContinuesKey(e, prev, next)

=============================================================================
