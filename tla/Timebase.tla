------------------------------ MODULE Timebase ------------------------------
(***************************************************************************)
(* The anchor arithmetic every position question is answered with          *)
(* (server/internal/sync/anchor.go, and room.go's committedPosition).      *)
(*                                                                         *)
(* An anchor says where the room is: at server time `at` it is at media    *)
(* position `pos`, and from there it runs at rate 1 unless it is paused.   *)
(* Positions and times are in one unit (the code's milliseconds, scaled).  *)
(* The advisory mediaUrl that travels with `media` is left out.            *)
(***************************************************************************)
EXTENDS Integers

CONSTANTS
  MediaKeys,   \* normalised media identities a room can be on
  NoMedia      \* the empty mediaKey: the room names nothing

ASSUME MediaAssumption == NoMedia \notin MediaKeys

Anchor == [pos : Int, at : Int, paused : BOOLEAN, media : MediaKeys \cup {NoMedia}]

(* Where a perfectly synchronised player stands at time t. *)
Expected(a, t) == IF a.paused THEN a.pos ELSE a.pos + (t - a.at)

Reanchor(a, pos, t, paused) == [a EXCEPT !.pos = pos, !.at = t, !.paused = paused]

(* Rebase onto t without leaving the line. *)
Advance(a, t) == Reanchor(a, Expected(a, t), t, a.paused)

(* An anchor whose start is still to come has not begun to run. *)
CommittedPosition(a, t) == IF t < a.at THEN a.pos ELSE Expected(a, t)

Larger(x, y) == IF x < y THEN y ELSE x

ClampI(v, lo, hi) == IF v < lo THEN lo ELSE IF v > hi THEN hi ELSE v
=============================================================================
