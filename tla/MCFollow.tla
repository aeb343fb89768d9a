------------------------------ MODULE MCFollow ------------------------------
(* The tabs of one profile, a room, and the pages they move between. *)
EXTENDS Follow

CONSTANTS a, b, t1, t2
=============================================================================
