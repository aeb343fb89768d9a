----------------------------- MODULE Adoption -----------------------------
(***************************************************************************)
(* Who changes the stored descriptors, and when (core/src/providers/       *)
(* manage.ts, extension/src/options.ts and providers.ts).                  *)
(*                                                                         *)
(* The store is shared. A page where the user decides works on the copy it *)
(* read last and writes all of it; a tab that joined a server looks, lets  *)
(* the server answer, looks again, and writes the pins alone.              *)
(***************************************************************************)
EXTENDS Registry

CONSTANTS
    Own,        \* the descriptors the user may write or import
    Offered,    \* those a server may offer
    Shippable,  \* the built-ins some version of the client comes with
    First,      \* those of the version it starts with
    Server,     \* server origins
    Surface,    \* options pages of the extension, or menus of the userscript
    Tab         \* tabs that joined a room

ASSUME TextAssumption ==
    /\ Own \subseteq Descriptor /\ Offered \subseteq Descriptor
    /\ Shippable \subseteq Descriptor /\ First \subseteq Shippable

VARIABLES
    shim,       \* the client this profile has
    shipped,    \* the built-ins compiled into the running version
    area,       \* what is stored
    copy,       \* copy[p]: what a page believes is stored
    upd,        \* upd[t]: a tab's automatic update
    agreed,     \* history: texts the user adopted
    consent,    \* history: <<id, built-in>> pairs the user agreed to replace
    touched     \* touched[t]: ids pinned or dropped since t's second look

vars == <<shim, shipped, area, copy, upd, agreed, consent, touched>>

Pin == [d : Offered, server : Server, replace : BOOLEAN]
State == [user : SUBSET Own, pins : SUBSET Pin, auto : SUBSET Server]
Empty == [user |-> {}, pins |-> {}, auto |-> {}]
Seen == [pins : SUBSET Pin, auto : SUBSET Server]
Nothing == [pins |-> {}, auto |-> {}]
Idle == [at |-> "idle", before |-> Nothing, write |-> {}]

\* Every list of descriptors has one for an id.
OneAnId ==
    /\ \A u, w \in area.user : u.id = w.id => u = w
    /\ \A a1, a2 \in area.pins : a1.d.id = a2.d.id => a1 = a2

TypeOK ==
    /\ shim \in {"extension", "userscript"}
    /\ shipped \subseteq Shippable
    /\ area \in State /\ OneAnId
    /\ copy \in [Surface -> State]
    /\ upd \in [Tab -> [at : {"idle", "fetching", "landing"}, before : Seen, write : SUBSET Pin]]
    /\ agreed \subseteq Offered
    /\ consent \subseteq Id \X Id
    /\ touched \in [Tab -> SUBSET Id]

Init ==
    /\ shim \in {"extension", "userscript"}
    /\ shipped = First
    /\ area = Empty
    /\ copy = [p \in Surface |-> Empty]
    /\ upd = [t \in Tab |-> Idle]
    /\ agreed = {} /\ consent = {}
    /\ touched = [t \in Tab |-> {}]

MutStill(a, s) == s \in area.auto

Drop(S, id) == {x \in S : x.id # id}
DropPin(S, id) == {a \in S : a.d.id # id}

Pinned(pins) == {a.d.id : a \in pins}

\* What each decision makes of the state it is taken on (manage.ts).
WithUser(s, d) == [s EXCEPT !.user = Drop(@, d.id) \cup {d}]
WithoutUser(s, id) == [s EXCEPT !.user = Drop(@, id)]
WithPin(s, server, d) ==
    LET pin == [d |-> d, server |-> server, replace |-> Replaced(shipped, d) # {}]
    IN  [s EXCEPT !.pins = DropPin(@, d.id) \cup {pin}]
WithoutPin(s, id) == [s EXCEPT !.pins = DropPin(@, id)]
WithAuto(s, server) == [s EXCEPT !.auto = IF server \in @ THEN @ \ {server} ELSE @ \cup {server}]

\* Ids pinned in one of two sets and not in the other.
Moved(pins, others) ==
    (Pinned(pins) \ Pinned(others)) \cup (Pinned(others) \ Pinned(pins))

\* A page writes everything, from its own copy.
Decide(p, s) ==
    /\ copy' = [copy EXCEPT ![p] = s]
    /\ area' = s
    /\ touched' = [t \in Tab |-> touched[t] \cup Moved(area.pins, s.pins)]
    /\ UNCHANGED <<shipped, upd>>

---------------------------------------------------------------------------
(* The user. *)

\* A change event, or a menu that is opened: the page reads the store.
Refresh(p) ==
    /\ copy[p] # area
    /\ copy' = [copy EXCEPT ![p] = area]
    /\ UNCHANGED <<shipped, area, upd, agreed, consent, touched>>

SaveUser(p, d) ==
    /\ Decide(p, WithUser(copy[p], d))
    /\ UNCHANGED <<agreed, consent>>

RemoveUser(p, id) ==
    /\ \E u \in copy[p].user : u.id = id
    /\ Decide(p, WithoutUser(copy[p], id))
    /\ UNCHANGED <<agreed, consent>>

\* After a review of exactly this text; what it replaces was named and
\* confirmed, and if it replaces nothing nothing was asked.
Agrees(d) ==
    /\ agreed' = agreed \cup {d}
    /\ consent' = consent \cup {<<d.id, b.id>> : b \in Replaced(shipped, d)}
Adopt(p, s, d) == Decide(p, WithPin(copy[p], s, d)) /\ Agrees(d)

Unadopt(p, id) ==
    /\ id \in Pinned(copy[p].pins)
    /\ Decide(p, WithoutPin(copy[p], id))
    /\ UNCHANGED <<agreed, consent>>

SetAutoAdopt(p, s) ==
    /\ Decide(p, WithAuto(copy[p], s))
    /\ UNCHANGED <<agreed, consent>>

---------------------------------------------------------------------------
(* The userscript's menu: its dialogs read the store when they open, and   *)
(* block the tab; only an adoption waits for the file it is about.         *)

MenuSave(m, d) ==
    /\ Decide(m, WithUser(area, d))
    /\ UNCHANGED <<agreed, consent>>

MenuRemove(m, id) ==
    /\ Decide(m, WithoutUser(area, id))
    /\ UNCHANGED <<agreed, consent>>

\* fromServer: the list is shown, a switch or an id answers it at once ...
MenuSwitches(m) ==
    /\ \/ \E s \in Server : Decide(m, WithAuto(area, s))
       \/ \E id \in Id : Decide(m, WithoutPin(area, id))
    /\ UNCHANGED <<agreed, consent>>

\* ... and a number after the file has come (Refresh is the list's reading).
MenuAdopt(m, s, d) == Decide(m, WithPin(copy[m], s, d)) /\ Agrees(d)

---------------------------------------------------------------------------
(* autoUpdateStored: before, the server's answers, now, the write. *)

Look(t) ==
    /\ upd[t].at = "idle"
    /\ area.pins # {} /\ area.auto # {}
    /\ upd' = [upd EXCEPT ![t] = [at |-> "fetching", before |-> [pins |-> area.pins, auto |-> area.auto], write |-> {}]]
    /\ UNCHANGED <<shipped, area, copy, agreed, consent, touched>>

\* The pin an offered text may replace unasked, as `before` has it.
Updatable(before, s, d) ==
    {a \in before.pins :
        /\ a.server = s /\ a.d # d
        /\ s \in before.auto
        /\ MayAutoAdopt(a.d, d)}

\* Only over a pin that is still what it was, with auto-adopt still on.
Still(a, s) == a \in area.pins /\ s \in area.auto
Updated(before, s, offered) ==
    {<<a, [a EXCEPT !.d = d]>> : a \in before.pins, d \in offered}
        \cap {x \in Pin \X Pin : /\ x[1] \in Updatable(before, s, x[2].d)
                                 /\ Still(x[1], s)}
Merge(changes) ==
    (area.pins \ {x[1] : x \in changes}) \cup {x[2] : x \in changes}

\* The server's index and files, one text an id, and the second look.
Answered(t, s, offered) ==
    /\ upd[t].at = "fetching"
    /\ \A d, e \in offered : d.id = e.id => d = e
    /\ LET changes == Updated(upd[t].before, s, offered)
       IN  upd' = [upd EXCEPT ![t] =
                     IF changes = {} THEN Idle
                     ELSE [at |-> "landing", before |-> Nothing, write |-> Merge(changes)]]
    /\ touched' = [touched EXCEPT ![t] = {}]
    /\ UNCHANGED <<shipped, area, copy, agreed, consent>>

\* chrome.storage answers and writes in messages: the write lands later.
Land(t) ==
    /\ upd[t].at = "landing"
    /\ area' = [area EXCEPT !.pins = upd[t].write]
    /\ upd' = [upd EXCEPT ![t] = Idle]
    /\ touched' = [u \in Tab |-> touched[u] \cup Moved(area.pins, upd[t].write)]
    /\ UNCHANGED <<shipped, copy, agreed, consent>>

\* A new version of the client: pages and tabs of the old one are gone.
Upgrade(b) ==
    /\ b \notin shipped
    /\ shipped' = shipped \cup {b}
    /\ copy' = [p \in Surface |-> area]
    /\ upd' = [t \in Tab |-> Idle]
    /\ UNCHANGED <<area, agreed, consent, touched>>

Options(p) ==
    \/ \E d \in Own : SaveUser(p, d)
    \/ \E s \in Server, d \in Offered : Adopt(p, s, d)
    \/ \E id \in Id : RemoveUser(p, id) \/ Unadopt(p, id)
    \/ \E s \in Server : SetAutoAdopt(p, s)

Opened(m) ==
    \/ \E d \in Own : MenuSave(m, d)
    \/ \E id \in Id : MenuRemove(m, id)
    \/ MenuSwitches(m)
    \/ \E s \in Server, d \in Offered : MenuAdopt(m, s, d)

Update(t) ==
    \/ Look(t)
    \/ \E s \in Server, offered \in SUBSET Offered : Answered(t, s, offered)
    \/ Land(t)

Next ==
    /\ \/ \E p \in Surface :
            \/ Refresh(p)
            \/ shim = "extension" /\ Options(p)
            \/ shim = "userscript" /\ Opened(p)
       \/ \E t \in Tab : Update(t)
       \/ \E b \in Shippable : Upgrade(b)
    /\ UNCHANGED shim

Spec == Init /\ [][Next]_vars

---------------------------------------------------------------------------

Now == BuildRegistry(shipped, area.pins, area.user)

\* However many updates were taken unasked, a pin gives every page the key of
\* some text the user agreed to, or none, and claims the hosts that text did:
\* diffDescriptors' idea of "widens" composes.
PinsNameWhatWasAgreed ==
    \A a \in area.pins : \E d \in agreed :
        /\ d.id = a.d.id /\ d.hosts = a.d.hosts
        /\ \A path \in Path : KeyFor(a.d, path) \in {KeyFor(d, path), NoKey}

\* On a host that a shipped built-in describes, no page gets the generic key
\* (F20), whatever replaced the built-in and whoever ties with whom. And a pin
\* the user never agreed to put in a built-in's place neither speaks for a host
\* of a built-in in force nor mints a built-in's keys, also after a new version
\* brings a built-in that was not there when it was pinned.
DescribedHostsAreKept ==
    /\ \A h \in Host : Described(shipped, h) =>
          LET l == Lookup(Now, shipped, h) IN l.entry # NoEntry \/ l.blocked
    /\ \A e \in Now :
          /\ e.tier = "server"
          /\ ~ \E b \in Id : <<e.d.id, b>> \in consent
          => /\ \A b \in shipped : b.prefix # e.d.prefix
             /\ \A h \in Host :
                   (\E f \in Now : f.tier = "built-in" /\ Claimed(f.d, h))
                      => Lookup(Now, shipped, h).entry # e

\* An automatic update adds no pin and drops none, except where somebody
\* else did so since the update last looked.
UpdatesOnlyReplace ==
    [][\A t \in Tab : Land(t) =>
          Moved(area.pins, area'.pins) \subseteq touched[t]]_vars

\* adoption.ts:35: a pin stands in a built-in's place because "the user saw
\* the difference and chose this over the built-in". No run lists it, for it
\* does not hold: `replace` is kept with the pin and not with what it replaced,
\* so it covers the built-ins that a later version brings for the same hosts.
BuiltinsYieldToConsent ==
    \A h \in Host, b \in shipped :
        LET e == Lookup(Now, shipped, h).entry
        IN  /\ [d |-> b, tier |-> "built-in"] \in Now /\ Claimed(b, h)
            /\ e # NoEntry /\ e.tier = "server"
            => <<e.d.id, b.id>> \in consent

===========================================================================
