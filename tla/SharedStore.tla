---------------------------- MODULE SharedStore ----------------------------
(***************************************************************************)
(* One key of the settings that every tab of a profile shares: a           *)
(* synchronous cache over an asynchronous storage area                     *)
(* (core/app/sharedstore.ts).  A context's side of it is a record:         *)
(*   cache   what load returns                                             *)
(*   writes  values saved and not landed yet, oldest first (outstanding)   *)
(*   told    a change event is on its way to it                            *)
(*   back    the newest read-back: none, asked for, or got with its value. *)
(* An older read-back fails its version check whenever it comes, so only   *)
(* the newest is kept.                                                     *)
(***************************************************************************)
EXTENDS Sequences

Idle == [st |-> "idle"]
AskedBack == [st |-> "asked"]
GotBack(v) == [st |-> "got", val |-> v]

(* subscribed, then read once *)
Opened(v) == [cache |-> v, writes |-> <<>>, told |-> FALSE, back |-> Idle]

StoreOf(Val) ==
    [cache : Val, writes : Seq(Val), told : BOOLEAN,
     back : {Idle, AskedBack} \cup {GotBack(v) : v \in Val}]

(* save: the cache at once, the area later; a read-back under way is stale *)
Saved(s, v) == [s EXCEPT !.cache = v, !.writes = Append(@, v), !.back = Idle]

(* the oldest write lands; after the last one the key is read back *)
Landed(s) ==
    [s EXCEPT !.writes = Tail(@), !.back = IF Len(s.writes) = 1 THEN AskedBack ELSE @]

Notified(s) == [s EXCEPT !.told = TRUE]
Heard(s) == [s EXCEPT !.told = FALSE, !.back = AskedBack]
ReadBack(s, area) == [s EXCEPT !.back = GotBack(area)]
(* the read-back lands, unless a write of ours is still out *)
Settled(s) ==
    [s EXCEPT !.back = Idle, !.cache = IF s.writes = <<>> THEN s.back.val ELSE @]
=============================================================================
