------------------------------- MODULE MCLink -------------------------------
(***************************************************************************)
(* As many attempts as the faults can take, and one more. And the clock    *)
(* that a session's probes set, over every short run of samples.           *)
(***************************************************************************)
EXTENDS Link, Clock

MCPort == 1..(Faults + 1)

Whole(t) == Ms * (t \div Ms)                   \* as the server stamps
Rounded(t) == Whole(t + Ms \div 2)               \* as the member does

\* One probe, sent at t by the member's clock; the server's is `by` ahead; the
\* path takes `out` and `back`, the server `hold`.
Probe(t, by, out, hold, back) ==
    [t0 |-> Rounded(t), tRecv |-> Whole(t + by + out), tSend |-> Whole(t + by + out + hold),
     t1 |-> t + out + hold + back]

Probes(by) ==
    {Probe(t, by, out, hold, back) : t \in 100 .. 103, out \in {0, 6}, hold \in {0, 1}, back \in {0, 2, 6}}
Within(c, by) ==
    \A error \in {c.offset - by, by - c.offset} : 2 * error <= c.best + Slack

\* clock.ts, CONSISTENCY_SLACK_MS: samples of one offset never contradict one
\* another, whatever the path does, and the estimate is as good as it says.
ASSUME NoFalseSteps ==
    \A by \in {-7, 30} : \A s, r, q \in Probes(by) :
        LET c == AddSample(AddSample(AddSample(Unmeasured, s), r), q)
        IN  /\ c.steps = 0
            /\ Measured(c) => Within(c, by)
            /\ ReadyClock(c) <=> Measured(c)

\* addSample: when the offset moves, as it does while the machine sleeps, the
\* next sample finds out, or the estimate is not wrong by more than both
\* samples allow; with it found out, the estimate is as good as it says.
ASSUME MovedOffsetIsFound ==
    \A s \in Probes(0) : \A by \in {-40, -20, 10, 20, 30, 40} : \A r \in Probes(by) :
        LET before == AddSample(Unmeasured, s)
            after  == AddSample(before, r)
        IN  Measured(before) /\ Rtt(r) >= 0 =>
              IF after.offset = before.offset /\ after.steps = 0
              THEN \A error \in {after.offset - by, by - after.offset} :
                      2 * error <= before.best + 2 * Rtt(r) + 3 * Slack
              ELSE Within(after, by)
=============================================================================
