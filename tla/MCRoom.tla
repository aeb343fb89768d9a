------------------------------- MODULE MCRoom -------------------------------
(***************************************************************************)
(* Small instances of Room for TLC.  One time unit stands for 500 ms: the  *)
(* floor of CmdDelay is 1 and its cap 4, GateTimeout 10 in the code, and   *)
(* less here so that a behaviour in which it expires stays short.          *)
(***************************************************************************)
EXTENDS Room, TLC

CONSTANTS k1, m1, m2

Cmd(kind, pos, media, ifMedia) ==
  [kind |-> kind, pos |-> pos, media |-> media, ifMedia |-> ifMedia]

(* Every kind, a position before the start, one off the line.             *)
FlowCommands ==
  { Cmd("play",  0, NoMedia, Always),
    Cmd("pause", 2, NoMedia, Always),
    Cmd("seek", -1, NoMedia, Always),
    Cmd("media", 1, k1, Always) }

(* What matters to the gate, and what OnCmd refuses: a compare-and-set     *)
(* that may lose, a media command naming nothing, a kind nobody knows.     *)
GateCommands ==
  { Cmd("play",  0, NoMedia, Always),
    Cmd("media", 0, k1, NoMedia),
    Cmd("media", 0, k1, Always),
    Cmd("media", 0, NoMedia, Always),
    Cmd("other", 0, NoMedia, Always) }

(* Ready, loading, buffering, on the way to new media, away, at the end.   *)
Rep(suspended, finished, acquiring, ready, buffered, lag) ==
  [suspended |-> suspended, finished |-> finished, acquiring |-> acquiring,
   ready |-> ready, buffered |-> buffered, rtt |-> lag]

Ready    == Rep(FALSE, FALSE, FALSE, TRUE, TRUE, 0)
FarReady == Rep(FALSE, FALSE, FALSE, TRUE, TRUE, MaxRtt)
Loading  == Rep(FALSE, FALSE, FALSE, FALSE, TRUE, 0)
Starved  == Rep(FALSE, FALSE, FALSE, TRUE, FALSE, 0)
Fetching == Rep(FALSE, FALSE, TRUE, TRUE, TRUE, 0)
Away     == Rep(TRUE, FALSE, FALSE, TRUE, TRUE, 0)
Ended    == Rep(FALSE, TRUE, FALSE, TRUE, TRUE, 0)

GateReports  == { Ready, Loading, Fetching, Away, Ended }
FlowReports  == { FarReady, Starved }

Interchangeable == Permutations({m1, m2})
=============================================================================
