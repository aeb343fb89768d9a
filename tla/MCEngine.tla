------------------------------ MODULE MCEngine ------------------------------
(***************************************************************************)
(* Small instances of Engine.  One media and none are enough for the room  *)
(* and the page to part and meet again.                                    *)
(***************************************************************************)
EXTENDS Engine

CONSTANT k1
=============================================================================
