---------------------------- MODULE MCDNSMetrics ----------------------------
(* The metrics with the clock readings recorded behind the counts.         *)
EXTENDS DNSMetrics, FiniteSets, TLC

VARIABLES
    seen,      \* by second, what was counted with that reading
    overtaken  \* a later reading has been used before an earlier one

seenMetricsVars == <<metricsVars, seen, overtaken>>

Seconds == 0 .. LastSecond

SeenMetricsInit ==
    /\ MetricsInit
    /\ seen = [s \in Seconds |-> NoCount]
    /\ overtaken = FALSE

Counting(pc) == writer.pc = pc /\ writer'.pc # pc

Remember ==
    /\ seen' = [s \in Seconds |->
                   IF s # writer.reading THEN seen[s]
                   ELSE CASE Counting("query") ->
                               [seen[s] EXCEPT !.queries = @ + 1]
                          [] Counting("blocked") ->
                               [seen[s] EXCEPT !.blocked = @ + 1]
                          [] OTHER -> seen[s]]
    /\ overtaken' = (overtaken \/ bucket'.second < bucket.second)

SeenMetricsNext == MetricsNext /\ Remember

\* One element for each that is counted under one of the keys; how many.
Units(counts, keys) == UNION {{k} \X (1 .. counts[k]) : k \in keys}

Total(counts) == Cardinality(Units(counts, DOMAIN counts))

\* metrics.py, snapshot: what is shown in recent_queries was counted with a
\* clock reading within the length of the history, and is shown once, in
\* whatever order the threads get the lock, and however long nothing happened.
RecentIsRecent ==
    LET window == {s \in Seconds : s > bucket.second - HistorySize}
    IN  Total(RecentQueries) <= Total([s \in window |-> seen[s].queries])

SeenAt(s, what) == IF s \in Seconds THEN seen[s][what] ELSE 0

\* The second that entry i of n stands for, the last one being the bucket.
SecondOf(i, n) == bucket.second - (n - i)

\* metrics.py, "Each entry represents one one-second bucket."  This holds for
\* the length of the history, as long as no thread has been overtaken between
\* the clock and the lock.
EntriesAreSeconds ==
    LET q == RecentQueries
        b == RecentBlocked
    IN
    ~overtaken =>
        /\ \A i \in DOMAIN q : q[i] = SeenAt(SecondOf(i, Len(q)), "queries")
        /\ \A i \in DOMAIN b :
              Len(b) - i < HistorySize =>
                 b[i] = SeenAt(SecondOf(i, Len(b)), "blocked")
=============================================================================
