------------------------------ MODULE Timeline ------------------------------
(***************************************************************************)
(* What the room promises about its timeline, whatever its schedule of     *)
(* pending transitions looks like inside (docs/PROTOCOL.md section 3).     *)
(*                                                                         *)
(*   here   the media position the room stands on at server time now       *)
(*   seq    how many commands it has applied                               *)
(*   due    the instant the newest command takes effect                    *)
(*   kind   the kind of the command the last step applied, "none" if it    *)
(*          applied none                                                   *)
(*                                                                         *)
(* Room.tla is shown to implement Spec.                                    *)
(***************************************************************************)
EXTENDS Integers

CONSTANT Slack   \* how late the sweeper may tick a room; see Room!SweepLag

VARIABLES now, seq, due, here, kind

vars == <<now, seq, due, here, kind>>

Init ==
  /\ now = 0 /\ seq = 0 /\ due = 0 /\ here = 0
  /\ kind = "none"

(* Time alone never takes the room backwards, nor ahead of real time. *)
Flow ==
  /\ now' > now
  /\ here' \in here .. here + (now' - now)
  /\ kind' = "none"
  /\ UNCHANGED <<seq, due>>

(* A play moves nobody: the room goes on from where it stands, never      *)
(* before a command that still waits for its instant.  Slack is what a     *)
(* release by a late sweep may already have played.                        *)
Play ==
  /\ kind' = "play"
  /\ here' \in here .. here + Slack
  /\ due' >= due

(* A pause stops the room at once.  Inside another command's lead it stops *)
(* where the room stands under the commands already acknowledged; else     *)
(* where the person who paused stands.                                     *)
Pause ==
  /\ kind' = "pause"
  /\ due' = now
  /\ IF now < due THEN here' = here ELSE here' \in Nat

(* A seek lands on its target at once and may not make the room run before *)
(* a pending command's instant; a media command starts over.               *)
Jump ==
  /\ kind' \in {"seek", "media"}
  /\ here' \in Nat
  /\ due' = now \/ due' >= due

(* Every command takes exactly one seq, at one instant. *)
Commanded ==
  /\ now' = now
  /\ seq' = seq + 1
  /\ Play \/ Pause \/ Jump

(* Everything that is not a command leaves the timeline alone. *)
Other ==
  /\ kind' = "none"
  /\ UNCHANGED <<now, seq, due, here>>

Next == Flow \/ Commanded \/ Other

Spec == Init /\ [][Next]_vars
=============================================================================
