------------------------------ MODULE CmdQueue ------------------------------
(***************************************************************************)
(* One connection's commands on their way to the room: the rate limit, and *)
(* what becomes of the commands it refuses (server/internal/hub/live.go:   *)
(* handle, deferCmd, retryCmd, coalesce, leave; hub/ratelimit.go).         *)
(*                                                                         *)
(* A refused command is kept, folded onto the older ones, and a timer      *)
(* applies what is kept once the limit allows.  Handlers run under the     *)
(* room's mutex, so each is one action; a timer's goroutine waits for that *)
(* mutex, so between its firing and its run other handlers may come, and   *)
(* Stop no longer reaches it.                                              *)
(*                                                                         *)
(* Commands are numbered in the order their sender made them.  What the    *)
(* room does with one is Room.tla's.                                       *)
(***************************************************************************)
EXTENDS Integers, Sequences

CONSTANTS
  Burst,      \* events let through at once
  Interval,   \* 1000/sustained: then one event per this long
  Cooldown,   \* a silence longer than this starts a new burst
  Timer,      \* timer handles
  NoTimer,    \* c.retry = nil
  MaxSent,    \* bound on the number of commands
  MaxTime,    \* bound on the clock
  Quiet       \* from here on the member sends nothing more

ASSUME LimitAssumption ==
  /\ Burst \in Nat \ {0} /\ Interval \in Nat \ {0} /\ Cooldown \in Nat
  /\ MaxSent \in Nat /\ MaxTime \in Nat /\ Quiet \in Nat

ASSUME TimerAssumption == NoTimer \notin Timer

Kind == {"play", "pause", "seek", "media", "other"}

VARIABLES
  now,      \* the server clock
  joined,   \* l.conns[c.id] == c
  bucket,   \* the throttle: events counted, last event, start of the window
  pending,  \* the commands kept, folded
  retry,    \* c.retry: the timer it names, or NoTimer
  due,      \* timers that run, with when they fire
  fired,    \* timers whose goroutine waits for the room mutex
  sent,     \* history: the kinds of all commands sent, by number
  applied,  \* history: the numbers of those handed to the room
  refused,  \* history: the numbers of those answered rate_limited
  batch,    \* what the last step handed to the room, in order
  grants    \* history: when the limit last let an event through, newest first

connVars == <<joined, bucket, pending, retry>>
timerVars == <<due, fired>>
historyVars == <<sent, applied, refused, batch, grants>>
vars == <<now, joined, bucket, pending, retry, due, fired, sent, applied, refused, batch, grants>>

-----------------------------------------------------------------------------
(* The throttle. *)

Rested(b, t) == b.last # 0 /\ t - b.last > Cooldown

MutWindowUnset(b, t) == [count |-> b.count + 1, last |-> t, window |-> b.window]
(* The burst's last event starts the window. *)
Spend(b, t) == [count |-> b.count + 1, last |-> t,
                window |-> IF b.count + 1 = Burst THEN t ELSE b.window]

(* allow: whether an event may proceed, and the bucket it leaves. *)
Allow(b, t) ==
  LET r == IF Rested(b, t) THEN [b EXCEPT !.count = 0, !.window = 0] ELSE b
  IN  IF r.count < Burst THEN [ok |-> TRUE, bucket |-> Spend(r, t)]
      ELSE IF t - r.window >= Interval
           THEN [ok |-> TRUE, bucket |-> [r EXCEPT !.last = t, !.window = t]]
           ELSE [ok |-> FALSE, bucket |-> [r EXCEPT !.last = t]]

WaitFor(b, t) ==
  IF b.count < Burst \/ b.window + Interval - t < 1 THEN 1 ELSE b.window + Interval - t

-----------------------------------------------------------------------------
(* coalesce. *)

Cmd == [kind : Kind, n : 1 .. MaxSent]

Group(kind) == IF kind = "pause" THEN "play" ELSE kind

MutNewestWins(cmds, v) == <<v>>
MutInPlaceOfOldest(cmds, v) ==
  IF \E i \in 1 .. Len(cmds) : Group(cmds[i].kind) = Group(v.kind)
  THEN [i \in 1 .. Len(cmds) |-> IF Group(cmds[i].kind) = Group(v.kind) THEN v ELSE cmds[i]]
  ELSE Append(cmds, v)
(* The commands that one of this kind leaves standing: the loop over them. *)
Standing(cmds, kind) ==
  LET kept[i \in 0 .. Len(cmds)] ==
        IF i = 0 THEN <<>>
        ELSE IF Group(cmds[i].kind) = Group(kind) THEN kept[i - 1]
             ELSE Append(kept[i - 1], cmds[i])
  IN  kept[Len(cmds)]

(* A media replaces everything before it; a seek a seek; play and pause    *)
(* each other.  What replaces takes the place of the newest.               *)
Coalesce(cmds, v) ==
  CASE v.kind = "media" -> <<v>>
    [] v.kind = "other" -> Append(cmds, v)
    [] OTHER -> Append(Standing(cmds, v.kind), v)

-----------------------------------------------------------------------------
Init ==
  /\ now = 0
  /\ joined = TRUE
  /\ bucket = [count |-> 0, last |-> 0, window |-> 0]
  /\ pending = <<>>
  /\ retry = NoTimer
  /\ due = [t \in {} |-> 0]
  /\ fired = {}
  /\ sent = <<>> /\ applied = {} /\ refused = {}
  /\ batch = <<>>
  /\ grants = <<>>

Numbers(cmds) == {cmds[i].n : i \in 1 .. Len(cmds)}

(* Handing a batch to the room, and what the histories make of it. *)
HandOver(cmds) ==
  /\ batch' = cmds
  /\ applied' = applied \cup Numbers(cmds)

Granted == grants' = SubSeq(<<now>> \o grants, 1, IF Len(grants) < Burst THEN Len(grants) + 1
                                                   ELSE Burst + 1)

(* AfterFunc: a new timer, named by c.retry.  Which handle it gets is of   *)
(* no account.                                                             *)
Arm(b, running) ==
  LET free == Timer \ (DOMAIN due \cup running)
      t    == CHOOSE x \in free : TRUE
  IN  /\ free # {}
      /\ retry' = t
      /\ due' = [x \in DOMAIN due \cup {t} |-> IF x = t THEN now + WaitFor(b, now) ELSE due[x]]

(* Stop: it reaches the timer only if that has not fired. *)
StopRetry == [x \in DOMAIN due \ {retry} |-> due[x]]

MutKeepsHandle == retry' = retry /\ due' = StopRetry
Disarm == retry' = NoTimer /\ due' = StopRetry

Send(kind) ==
  LET v == [kind |-> kind, n |-> Len(sent) + 1]
      a == Allow(bucket, now)
  IN  /\ joined /\ now < Quiet /\ Len(sent) < MaxSent
      /\ sent' = Append(sent, kind)
      /\ bucket' = a.bucket
      /\ \/ /\ a.ok                       \* now, after whatever was kept
            /\ HandOver(IF pending = <<>> THEN <<v>> ELSE Coalesce(pending, v))
            /\ pending' = <<>>
            /\ Granted
            /\ IF pending = <<>> THEN UNCHANGED <<retry, due>>
               ELSE Disarm
            /\ UNCHANGED refused
         \/ /\ ~a.ok                      \* deferCmd
            /\ batch' = <<>>
            /\ IF kind = "other"
               THEN refused' = refused \cup {v.n} /\ UNCHANGED <<pending, retry, due>>
               ELSE /\ pending' = Coalesce(pending, v)
                    /\ IF retry = NoTimer THEN Arm(a.bucket, fired) ELSE UNCHANGED <<retry, due>>
                    /\ UNCHANGED refused
            /\ UNCHANGED <<applied, grants>>
      /\ UNCHANGED <<now, joined, fired>>

(* A rotate spends from the same bucket and is not kept when refused. *)
Rotate ==
  LET a == Allow(bucket, now)
  IN  /\ joined /\ now < Quiet
      /\ bucket' = a.bucket
      /\ IF a.ok THEN Granted ELSE UNCHANGED grants
      /\ batch' = <<>>
      /\ UNCHANGED <<now, joined, pending, retry, timerVars, sent, applied, refused>>

Fire(t) ==
  /\ t \in DOMAIN due /\ due[t] <= now
  /\ due' = [x \in DOMAIN due \ {t} |-> due[x]]
  /\ fired' = fired \cup {t}
  /\ batch' = <<>>
  /\ UNCHANGED <<now, connVars, sent, applied, refused, grants>>

(* retryCmd, once its goroutine has the mutex. *)
WorthRetrying == pending # <<>> /\ joined

RetryCmd(t) ==
  LET a == Allow(bucket, now)
  IN  /\ t \in fired
      /\ fired' = fired \ {t}
      /\ \/ /\ ~WorthRetrying
            /\ retry' = NoTimer
            /\ batch' = <<>>
            /\ UNCHANGED <<bucket, pending, due, applied, grants>>
         \/ /\ WorthRetrying /\ ~a.ok
            /\ bucket' = a.bucket
            /\ Arm(a.bucket, fired \ {t})
            /\ batch' = <<>>
            /\ UNCHANGED <<pending, applied, grants>>
         \/ /\ WorthRetrying /\ a.ok
            /\ bucket' = a.bucket
            /\ retry' = NoTimer
            /\ HandOver(pending)
            /\ pending' = <<>>
            /\ Granted
            /\ UNCHANGED due
      /\ UNCHANGED <<now, joined, sent, refused>>

Leave ==
  /\ joined
  /\ joined' = FALSE
  /\ Disarm
  /\ pending' = <<>>
  /\ batch' = <<>>
  /\ UNCHANGED <<now, bucket, fired, sent, applied, refused, grants>>

Passes ==
  /\ now < MaxTime
  /\ now' = now + 1
  /\ batch' = <<>>
  /\ UNCHANGED <<connVars, timerVars, sent, applied, refused, grants>>

Next ==
  \/ Passes
  \/ Leave
  \/ Rotate
  \/ \E kind \in Kind : Send(kind)
  \/ \E t \in Timer : Fire(t)
  \/ \E t \in Timer : RetryCmd(t)

Spec == Init /\ [][Next]_vars

(* The clock runs, a timer that is due fires, and its goroutine gets the   *)
(* mutex.  Nothing is asked of the member.                                 *)
Fairness ==
  /\ WF_vars(Passes)
  /\ \A t \in Timer : WF_vars(Fire(t)) /\ WF_vars(RetryCmd(t))

FairSpec == Spec /\ Fairness

-----------------------------------------------------------------------------
(* Types, and the bounds coalesce's comment promises: at most one media,    *)
(* one seek and one of play and pause are kept.                             *)
TypeOK ==
  /\ now \in 0 .. MaxTime
  /\ joined \in BOOLEAN
  /\ bucket \in [count : 0 .. Burst, last : 0 .. MaxTime, window : 0 .. MaxTime]
  /\ pending \in Seq(Cmd)
  /\ \A i, j \in 1 .. Len(pending) : Group(pending[i].kind) = Group(pending[j].kind) => i = j
  /\ retry \in DOMAIN due \cup fired \cup {NoTimer}
  /\ DOMAIN due \subseteq Timer /\ \A t \in DOMAIN due : due[t] \in Nat
  /\ fired \subseteq Timer
  /\ sent \in Seq(Kind)
  /\ applied \subseteq 1 .. MaxSent /\ refused \subseteq 1 .. MaxSent
  /\ batch \in Seq(Cmd)
  /\ grants \in Seq(Nat)

(* What a later command of the sender makes moot. *)
Moots(later, earlier) == later = "media" \/ Group(later) = Group(earlier)

(* However sends, timers and rotates interleave, no command of a member in  *)
(* the room is lost: it reached the room, it is kept, it was refused, or a  *)
(* later one of its kind or a media took its place and is not lost either   *)
(* (coalesce).                                                              *)
NothingLost ==
  joined => \A i \in 1 .. Len(sent) :
    \/ i \in applied \cup Numbers(pending) \cup refused
    \/ \E j \in i + 1 .. Len(sent) : Moots(sent[j], sent[i])
                                     /\ j \in applied \cup Numbers(pending)

(* The room hears a member's commands in the order the member made them,    *)
(* each at most once, across batches and timers (handle applies what was    *)
(* kept before the command that found the limit open).                      *)
InSenderOrder ==
  [][/\ \A i, j \in 1 .. Len(batch') : i < j => batch'[i].n < batch'[j].n
     /\ \A i \in Numbers(batch'), j \in applied : i > j]_vars

(* Keeping commands does not lift the limit: whatever it lets through after *)
(* a burst comes an Interval after what it let through before that, whoever *)
(* asks (handle, retryCmd, a stray timer); only a silence longer than the   *)
(* cooldown among the last Burst + 1 begins a new burst.                    *)
Paced ==
  Len(grants) > Burst =>
    \/ grants[1] - grants[2] >= Interval
    \/ \E i \in 1 .. Burst : grants[i] - grants[i + 1] > Cooldown

(* What is kept is applied, even if its sender never sends again (retryCmd).*)
KeptIsApplied == (joined /\ pending # <<>>) ~> (pending = <<>>)
=============================================================================
