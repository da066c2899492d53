----------------------------- MODULE DNSMetrics -----------------------------
(***************************************************************************)
(* dns_engine/metrics.py: queries per second, and latency, as the DNS      *)
(* thread records them while threads of the web application take           *)
(* snapshots.                                                              *)
(*                                                                         *)
(* Every method reads the clock first and waits for the lock after that,   *)
(* so that the thread with the later reading may be the first to use it.   *)
(* The counters that need no clock are in DNSResolver.                     *)
(***************************************************************************)
EXTENDS Integers, Sequences

CONSTANTS
    Readers,      \* threads that take snapshots
    Latencies,    \* what a query may take
    HistorySize,  \* HISTORY_SIZE
    LastSecond,   \* bounds of the model: the clock,
    MaxTotal      \* and the queries

ASSUME MetricsAssumption ==
    /\ HistorySize \in Nat \ {0}
    /\ Latencies \subseteq Nat
    /\ LastSecond \in Nat /\ MaxTotal \in Nat

VARIABLES
    second,   \* int(time.monotonic())
    bucket,   \* _current_bucket_*: its second, queries and blocked queries
    history,  \* _query_history and _blocked_history: the buckets before it
    totals,   \* _total_queries, _latency_total_ms and _max_latency_ms
    writer,   \* the DNS thread: where it is, and the clock as it read it
    reader    \* the same of the readers

metricsVars == <<second, bucket, history, totals, writer, reader>>

Count == [queries : Nat, blocked : Nat]

NoCount == [queries |-> 0, blocked |-> 0]

Counts(b) == [queries |-> b.queries, blocked |-> b.blocked]

BucketAt(s, c) == [second |-> s, queries |-> c.queries, blocked |-> c.blocked]

\* What a deque of n entries keeps, and s[-n:].
Newest(s, n) == IF Len(s) <= n THEN s ELSE SubSeq(s, Len(s) - n + 1, Len(s))

\* Faulty variant: one bucket too few after a long silence.
ElapsedShort(now) ==
    LET d == now - bucket.second
    IN  IF d >= HistorySize THEN HistorySize - 1 ELSE d

\* However long the silence, no more buckets than the history has.
Elapsed(now) ==
    LET d == now - bucket.second IN IF d > HistorySize THEN HistorySize ELSE d

\* Faulty variant: the counts stay in the bucket when it is put away.
PutAwayTwice(now) == BucketAt(now, Counts(bucket))

\* A clock reading from before the last change of bucket moves the bucket
\* back, and puts nothing away.
PutAway(now) ==
    BucketAt(now, IF Elapsed(now) > 0 THEN NoCount ELSE Counts(bucket))

\* _rotate_bucket_locked: the bucket, and an empty one for every second
\* between.
Rotated(now) ==
    Newest(history \o [i \in 1 .. Elapsed(now) |->
                          IF i = 1 THEN Counts(bucket) ELSE NoCount],
           HistorySize)

\* A thread that holds the lock adds one to a count.
Counted(now, what) ==
    /\ bucket' = [PutAway(now) EXCEPT ![what] = @ + 1]
    /\ history' = Rotated(now)

-----------------------------------------------------------------------------
(* The DNS thread, along resolve().                                        *)

WriterGoes(pc, reading) == writer' = [pc |-> pc, reading |-> reading]

BeginQuery ==
    /\ writer.pc = "idle" /\ totals.queries < MaxTotal
    /\ WriterGoes("query", second)
    /\ UNCHANGED <<second, bucket, history, totals, reader>>

CountQuery ==
    /\ writer.pc = "query"
    /\ Counted(writer.reading, "queries")
    /\ totals' = [totals EXCEPT !.queries = @ + 1]
    /\ WriterGoes("counted", 0)
    /\ UNCHANGED <<second, reader>>

BeginBlocked ==
    /\ writer.pc = "counted"
    /\ WriterGoes("blocked", second)
    /\ UNCHANGED <<second, bucket, history, totals, reader>>

CountBlocked ==
    /\ writer.pc = "blocked"
    /\ Counted(writer.reading, "blocked")
    /\ WriterGoes("ending", 0)
    /\ UNCHANGED <<second, totals, reader>>

\* Faulty variant: the maximum is that of the last query.
LatestMax(v) == v

HigherMax(v) == IF v > totals.max THEN v ELSE totals.max

\* Every path ends here, once.
RecordLatency(v) ==
    /\ writer.pc \in {"counted", "ending"}
    /\ totals' = [totals EXCEPT !.latency = @ + v, !.max = HigherMax(v)]
    /\ WriterGoes("idle", 0)
    /\ UNCHANGED <<second, bucket, history, reader>>

-----------------------------------------------------------------------------
(* Snapshots, and the clock.                                               *)

BeginSnapshot(r) ==
    /\ reader[r].pc = "idle"
    /\ reader' = [reader EXCEPT ![r] = [pc |-> "snapshot", reading |-> second]]
    /\ UNCHANGED <<second, bucket, history, totals, writer>>

Snapshot(r) ==
    /\ reader[r].pc = "snapshot"
    /\ bucket' = PutAway(reader[r].reading)
    /\ history' = Rotated(reader[r].reading)
    /\ reader' = [reader EXCEPT ![r] = [pc |-> "idle", reading |-> 0]]
    /\ UNCHANGED <<second, totals, writer>>

\* What a snapshot returns as recent_queries and as recent_blocked.  The second
\* has one entry more, and that entry is from before the last long silence.
RecentQueries ==
    LET recent == Append(history, Counts(bucket))
        shown  == Newest(recent, HistorySize)
    IN  [i \in DOMAIN shown |-> shown[i].queries]

RecentBlocked ==
    LET recent == Append(Newest(history, HistorySize), Counts(bucket))
    IN  [i \in DOMAIN recent |-> recent[i].blocked]

\* The process may be suspended for long.
SecondsPass ==
    /\ second' \in second + 1 .. LastSecond
    /\ UNCHANGED <<bucket, history, totals, writer, reader>>

MetricsInit ==
    /\ second = 0
    /\ bucket = BucketAt(0, NoCount) /\ history = <<>>
    /\ totals = [queries |-> 0, latency |-> 0, max |-> 0]
    /\ writer = [pc |-> "idle", reading |-> 0]
    /\ reader = [r \in Readers |-> [pc |-> "idle", reading |-> 0]]

MetricsNext ==
    \/ BeginQuery
    \/ CountQuery
    \/ BeginBlocked
    \/ CountBlocked
    \/ \E v \in Latencies : RecordLatency(v)
    \/ \E r \in Readers : BeginSnapshot(r) \/ Snapshot(r)
    \/ SecondsPass

MetricsSpec == MetricsInit /\ [][MetricsNext]_metricsVars

-----------------------------------------------------------------------------
(* Properties.                                                             *)

\* snapshot() divides the latency of the queries that have ended by the number
\* of those that have begun: the average it shows is never above the maximum.
AverageAtMostMax == totals.latency <= totals.max * totals.queries
=============================================================================
