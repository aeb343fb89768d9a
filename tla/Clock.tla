-------------------------------- MODULE Clock --------------------------------
(***************************************************************************)
(* The member's estimate of the server's clock                             *)
(* (client/core/src/engine/clock.ts).                                      *)
(*                                                                         *)
(* Times are in quarters of a millisecond (Ms of them), in which the mean  *)
(* of two stamps is exact. A sample is its four stamps.                    *)
(***************************************************************************)
EXTENDS Integers

CONSTANTS Ms,        \* units in a millisecond
          Infinite   \* no round trip was measured

ASSUME ClockAssumption == Ms \in Nat \ {0} /\ Infinite \notin Nat

Slack == 3 * Ms      \* CONSISTENCY_SLACK_MS

\* A new ServerClock, and what reset() leaves.
Unmeasured == [offset |-> 0, best |-> Infinite, samples |-> 0, steps |-> 0]
ResetClock(c) == [Unmeasured EXCEPT !.steps = c.steps]

Measured(c) == c.best # Infinite
Rtt(s) == (s.t1 - s.t0) - (s.tSend - s.tRecv)
Offset(s) == ((s.tRecv - s.t0) + (s.tSend - s.t1)) \div 2

\* No path makes two offsets that far apart of one: twice the bound.
Contradicts(c, s) ==
    LET apart == Offset(s) - c.offset
        bound == Rtt(s) + c.best + 2 * Slack
    IN  Measured(c) /\ (2 * apart > bound \/ -2 * apart > bound)

\* addSample: the best round trip's offset, until one contradicts it.
AddSample(c, s) ==
    LET counted == [c EXCEPT !.samples = @ + 1]
    IN  IF Rtt(s) < 0 THEN counted
        ELSE IF Contradicts(c, s)
        THEN [counted EXCEPT !.best = Rtt(s), !.offset = Offset(s), !.steps = @ + 1]
        ELSE IF Measured(c) /\ Rtt(s) >= c.best THEN counted
        ELSE [counted EXCEPT !.best = Rtt(s), !.offset = Offset(s)]

ReadyClock(c) == c.samples >= 3 /\ Measured(c)
Uncertainty(c) == (IF Measured(c) THEN c.best ELSE 0) \div 2
ServerNow(c, now) == now + c.offset
ClientTime(c, at) == at - c.offset

===============================================================================
