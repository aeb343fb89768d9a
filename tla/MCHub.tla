------------------------------- MODULE MCHub -------------------------------
(***************************************************************************)
(* A small instance of Hub: rooms of one seat and two visitors, so that a  *)
(* room can be full, swept, and rejoined while somebody is on the way in.  *)
(***************************************************************************)
EXTENDS Hub, TLC

CONSTANTS r1, r2, v1, v2
=============================================================================
