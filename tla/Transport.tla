----------------------------- MODULE Transport -----------------------------
(***************************************************************************)
(* What an engine may count on from its transport, whichever shim it runs  *)
(* in (client/core/src/engine/transport.ts, the interface): of a           *)
(* connection it hears that it opened at most once, frames only after      *)
(* that, that it closed at most once; of one it has closed, nothing more.  *)
(* A transport may also fall silent and never say so.                      *)
(***************************************************************************)
VARIABLES at,     \* how far the connection is, as the engine has been told
          last    \* the last call of the engine, or callback to it

States == {"idle", "opening", "open"}

Init == at = "idle" /\ last = "none"

Connect == at = "idle" /\ at' = "opening" /\ last' = "connect"
OnOpen == at = "opening" /\ at' = "open" /\ last' = "onOpen"
OnFrame == at = "open" /\ at' = "open" /\ last' = "onFrame"
OnClose == at # "idle" /\ at' = "idle" /\ last' = "onClose"
Close == at' = "idle" /\ last' = "close"

Next == Connect \/ OnOpen \/ OnFrame \/ OnClose \/ Close
Spec == Init /\ [][Next]_<<at, last>>
=============================================================================
