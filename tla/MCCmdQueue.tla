----------------------------- MODULE MCCmdQueue -----------------------------
(***************************************************************************)
(* A small instance of CmdQueue: a burst of one, then one event per two    *)
(* ticks (the code: ten, then one per 200 ms).                             *)
(***************************************************************************)
EXTENDS CmdQueue, TLC

CONSTANTS t1, t2, t3
=============================================================================
