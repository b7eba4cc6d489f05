----------------------------- MODULE StatsFeed -----------------------------
(***************************************************************************)
(* What the daemon reports of the host over the control plane (the stats,  *)
(* summary, minute and alert ticks of daemon.rs; alerts.rs).  One unit of  *)
(* time is a minute.  Ticks that are due together run in any order.        *)
(***************************************************************************)
EXTENDS Naturals, Sequences, SequencesExt

CONSTANTS
    FlushEvery, \* minutes between stats_minute_batch messages (5)
    BufCap,     \* samples the buffer keeps (5)
    Thresholds, \* the user's alert thresholds
    Metric,     \* [Thresholds -> metric]
    Cooldown,   \* [Thresholds -> minutes]
    MinuteMax,  \* bound: minutes
    DropMax     \* bound: connections lost

FeedAssumption ==
    /\ FlushEvery \in Nat \ {0} /\ BufCap \in Nat /\ FlushEvery <= BufCap
    /\ MinuteMax \in Nat /\ DropMax \in Nat
    /\ Cooldown \in [Thresholds -> Nat] /\ DOMAIN Metric = Thresholds

VARIABLES
    minute,     \* minutes since the daemon started; a sample is its minute
    conn,       \* connections lost so far
    up,         \* ... and whether there is one now
    age,        \* minutes since this connection's last flush tick, or its start
    due,        \* the ticks of this minute that have not run
    buf,        \* minute_stats_buffer
    got,        \* the batches the backend received: [conn, samples]
    stats,      \* stats_active, and minutes to stats_deadline
    summary,    \* summary_active
    last        \* last_alerted: the minutes since each metric's alert

vars == <<minute, conn, up, age, due, buf, got, stats, summary, last>>

Metrics == {Metric[t] : t \in Thresholds}

Ticks == {"minute", "flush", "alert", "stats", "summary"}

Long == MinuteMax + 1

Off == [active |-> FALSE, left |-> 0]

TypeOK ==
    /\ minute \in 0..MinuteMax /\ age \in 0..(FlushEvery - 1) /\ conn \in 0..DropMax
    /\ up \in BOOLEAN /\ summary \in BOOLEAN
    /\ due \subseteq Ticks
    /\ buf \in Seq(1..MinuteMax) /\ Len(buf) <= BufCap
    /\ stats \in [active : BOOLEAN, left : 0..1]
    /\ last \in [Metrics -> 0..Long]
    /\ got \in Seq([conn : 0..DropMax, samples : Seq(1..MinuteMax)])

Init ==
    /\ minute = 0 /\ conn = 0 /\ up = TRUE /\ age = 0
    /\ due = {} /\ buf = <<>> /\ got = <<>>
    /\ stats = Off /\ summary = TRUE
    /\ last = [m \in Metrics |-> Long]

(* A minute passes; all that was due has run.  minute and flush skip their *)
(* immediate first tick.                                                   *)
Tick ==
    /\ up /\ due = {} /\ minute < MinuteMax
    /\ minute' = minute + 1 /\ age' = IF age + 1 = FlushEvery THEN 0 ELSE age + 1
    /\ due' = IF age' = 0 THEN Ticks ELSE Ticks \ {"flush"}
    /\ stats' = [stats EXCEPT !.left = 0]
    /\ last' = [m \in Metrics |-> IF last[m] = Long THEN Long ELSE last[m] + 1]
    /\ UNCHANGED <<conn, up, buf, got, summary>>

Ran(t) == due' = due \ {t}

(* The connection is lost: the subscriptions are back to their defaults    *)
(* and the buffer is cleared.  The checker of the next one is new.         *)
Lost ==
    /\ conn < DropMax
    /\ conn' = conn + 1 /\ up' = FALSE
    /\ due' = {} /\ buf' = <<>>
    /\ stats' = Off /\ summary' = TRUE
    /\ UNCHANGED <<minute, age, got, last>>

Disconnect == up /\ Lost

Reconnect ==
    /\ ~up
    /\ up' = TRUE /\ age' = 0
    /\ last' = [m \in Metrics |-> Long]
    /\ UNCHANGED <<minute, conn, due, buf, got, stats, summary>>

(* stats_minute_tick: the newest samples are kept. *)
MinuteTick ==
    /\ "minute" \in due
    /\ buf' = LET all == Append(buf, minute) IN
              IF Len(all) > BufCap THEN Tail(all) ELSE all
    /\ Ran("minute")
    /\ UNCHANGED <<minute, conn, up, age, got, stats, summary, last>>

\* Mutant: the buffer is sent and not drained.
FlushKeeps ==
    /\ "flush" \in due
    /\ got' = IF buf = <<>> THEN got ELSE Append(got, [conn |-> conn, samples |-> buf])
    /\ Ran("flush")
    /\ UNCHANGED <<minute, conn, up, age, buf, stats, summary, last>>

(* stats_minute_flush_tick: the buffer is drained, then sent. *)
Flush ==
    /\ "flush" \in due
    /\ got' = IF buf = <<>> THEN got ELSE Append(got, [conn |-> conn, samples |-> buf])
    /\ buf' = <<>>
    /\ Ran("flush")
    /\ UNCHANGED <<minute, conn, up, age, stats, summary, last>>

(* The send fails: what was drained is gone, and so is the connection. *)
SendFails == due \cap {"flush", "stats", "summary"} # {} /\ Lost

(* stats_tick: the subscription ends with its deadline, 20 s after the     *)
(* last stats_subscribe; while it lasts a snapshot is sent.                *)
StatsTick ==
    /\ "stats" \in due
    /\ stats' = IF stats.left = 0 THEN Off ELSE stats
    /\ Ran("stats")
    /\ UNCHANGED <<minute, conn, up, age, buf, got, summary, last>>

(* summary_tick, and stats_bg_tick, send if they are wanted. *)
SummaryTick ==
    /\ "summary" \in due
    /\ Ran("summary")
    /\ UNCHANGED <<minute, conn, up, age, buf, got, stats, summary, last>>

StatsSubscribe ==
    /\ up /\ stats # [active |-> TRUE, left |-> 1]
    /\ stats' = [active |-> TRUE, left |-> 1]
    /\ UNCHANGED <<minute, conn, up, age, due, buf, got, summary, last>>

SummarySubscribe(on) ==
    /\ up /\ summary # on
    /\ summary' = on
    /\ UNCHANGED <<minute, conn, up, age, due, buf, got, stats, last>>

(* alert_tick: AlertChecker::check over the thresholds in their order; the *)
(* cooldown is kept per metric.  over is the set of those exceeded.        *)
Fires(t, over, ages) == t \in over /\ (ages[Metric[t]] = Long \/ ages[Metric[t]] >= Cooldown[t])

AlertTick(over) ==
    /\ "alert" \in due
    /\ last' = [m \in Metrics |->
          IF \E t \in Thresholds : Metric[t] = m /\ Fires(t, over, last) THEN 0 ELSE last[m]]
    /\ Ran("alert")
    /\ UNCHANGED <<minute, conn, up, age, buf, got, stats, summary>>

Next ==
    \/ Tick \/ Disconnect \/ Reconnect \/ SendFails
    \/ MinuteTick \/ Flush \/ StatsTick \/ SummaryTick
    \/ StatsSubscribe \/ \E on \in BOOLEAN : SummarySubscribe(on)
    \/ \E over \in SUBSET Thresholds : AlertTick(over)

Spec == Init /\ [][Next]_vars

-----------------------------------------------------------------------------
(* Every minute is reported at most once and in order, the minutes of a    *)
(* batch without a gap; between two batches of one connection at most one  *)
(* is missing (the buffer holds no more than a flush period of them, so    *)
(* when the flush tick of one period ran before the minute tick of the     *)
(* same minute, and the next period's after it, the oldest is pushed out). *)
MinuteSamples ==
    /\ \A i \in DOMAIN got :
          /\ got[i].samples # <<>>
          /\ \A j \in 1..(Len(got[i].samples) - 1) :
                got[i].samples[j + 1] = got[i].samples[j] + 1
    /\ \A i \in 1..(Len(got) - 1) :
          /\ Last(got[i].samples) < got[i + 1].samples[1]
          /\ got[i].conn = got[i + 1].conn =>
                got[i + 1].samples[1] <= Last(got[i].samples) + 2
=============================================================================
