----------------------------- MODULE MCDetector -----------------------------
(* A unit is half a second: the threshold is two, a held reading lags two *)
EXTENDS Detector

MCJumps == {-7, 3}
=============================================================================
