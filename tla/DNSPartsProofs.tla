--------------------------- MODULE DNSPartsProofs ---------------------------
(***************************************************************************)
(* The parts of the DNS service that are used through their methods alone: *)
(* the metrics, the cache, the query log and the parser, for any number of *)
(* readers, any latencies, any capacity, any length of the history, any    *)
(* times to live and to keep, any number of ends of the process, and any   *)
(* packets and limits.                                                     *)
(***************************************************************************)
EXTENDS MCDNSMetrics, MCDNSCache, MCDNSQueryLog, MCDNSParser, DataLemmas

-----------------------------------------------------------------------------
(* The metrics.                                                            *)

\* Queries that have ended: all that were counted, but for the one at hand.
Ended ==
    IF writer.pc \in {"counted", "blocked", "ending"} THEN totals.queries - 1
                                                      ELSE totals.queries

\* AverageAtMostMax is not inductive: a query that ends adds to the latency,
\* and room for it is left by the queries that have ended, not by those that
\* were counted.
LatencyInv ==
    /\ totals \in [queries : Nat, latency : Nat, max : Nat]
    /\ Ended \in Nat
    /\ totals.latency <= totals.max * Ended

-----------------------------------------------------------------------------

\* A product grows with either factor.
LEMMA ProductGrows ==
    ASSUME NEW a \in Nat, NEW b \in Nat, NEW m \in Nat, NEW n \in Nat,
           a <= b, m <= n
    PROVE  a * m <= b * n
<1>1. PICK d \in Nat : b = a + d
    <2>1. b - a \in Nat /\ b = a + (b - a)
        OBVIOUS
    <2> QED BY <2>1
<1>2. PICK e \in Nat : n = m + e
    <2>1. n - m \in Nat /\ n = m + (n - m)
        OBVIOUS
    <2> QED BY <2>1
<1>3. b * n = a * m + a * e + d * m + d * e
    BY <1>1, <1>2
<1>4. a * m \in Nat /\ a * e \in Nat /\ d * m \in Nat /\ d * e \in Nat
    OBVIOUS
<1> QED BY <1>3, <1>4

\* One more query, of at most the maximum, keeps the sum below the product.
LEMMA RoomForOne ==
    ASSUME NEW l \in Nat, NEW v \in Nat, NEW m \in Nat, NEW m2 \in Nat,
           NEW k \in Nat, l <= m * k, m <= m2, v <= m2
    PROVE  l + v <= m2 * (k + 1)
<1>1. m * k <= m2 * k
    BY ProductGrows
<1>2. m2 * (k + 1) = m2 * k + m2
    OBVIOUS
<1>3. m * k \in Nat /\ m2 * k \in Nat
    OBVIOUS
<1> QED BY <1>1, <1>2, <1>3

-----------------------------------------------------------------------------

\* Every step keeps the bound on the latencies.
LEMMA LatencyStep == LatencyInv /\ [MetricsNext]_metricsVars => LatencyInv'
<1> SUFFICES ASSUME LatencyInv, [MetricsNext]_metricsVars
             PROVE  LatencyInv'
    OBVIOUS
<1> USE DEF LatencyInv
<1>1. CASE BeginQuery
    BY <1>1 DEF BeginQuery, WriterGoes, Ended
<1>2. CASE CountQuery
    BY <1>2 DEF CountQuery, WriterGoes, Ended
<1>3. CASE BeginBlocked
    BY <1>3 DEF BeginBlocked, WriterGoes, Ended
<1>4. CASE CountBlocked
    BY <1>4 DEF CountBlocked, WriterGoes, Ended
<1>5. ASSUME NEW v \in Latencies, RecordLatency(v)
      PROVE  LatencyInv'
    <2>1. /\ v \in Nat
          /\ totals \in [queries : Nat, latency : Nat, max : Nat]
        BY MetricsAssumption
    <2> HIDE DEF LatencyInv
    <2> DEFINE max == HigherMax(v)
    <2>2. /\ totals' = [totals EXCEPT !.latency = @ + v, !.max = max]
          /\ writer.pc \in {"counted", "ending"} /\ writer'.pc = "idle"
        BY <1>5 DEF RecordLatency, WriterGoes
    <2>3. totals.max <= max /\ v <= max /\ max \in Nat
        BY <2>1 DEF HigherMax
    <2> HIDE DEF max
    <2>4. /\ totals' \in [queries : Nat, latency : Nat, max : Nat]
          /\ totals'.queries = totals.queries
          /\ totals'.latency = totals.latency + v
          /\ totals'.max = max
        <3>1. totals' = [queries |-> totals.queries,
                         latency |-> totals.latency + v, max |-> max]
            BY <2>1, <2>2
        <3>2. totals.latency + v \in Nat
            BY <2>1
        <3> QED BY <2>1, <2>3, <3>1, <3>2
    <2>5. Ended' = Ended + 1
        BY <2>1, <2>2, <2>4 DEF Ended
    <2>6. totals.latency + v <= max * (Ended + 1)
        BY <2>1, <2>3, RoomForOne DEF LatencyInv
    <2>7. Ended \in Nat
        BY DEF LatencyInv
    <2> QED BY <2>4, <2>5, <2>6, <2>7 DEF LatencyInv
<1>6. ASSUME NEW r \in Readers, BeginSnapshot(r) \/ Snapshot(r)
      PROVE  LatencyInv'
    BY <1>6 DEF BeginSnapshot, Snapshot, Ended
<1>7. CASE SecondsPass
    BY <1>7 DEF SecondsPass, Ended
<1>8. CASE UNCHANGED metricsVars
    BY <1>8 DEF metricsVars, Ended
<1> QED BY <1>1, <1>2, <1>3, <1>4, <1>5, <1>6, <1>7, <1>8 DEF MetricsNext

\* metrics.py, snapshot: whatever queries are under way and however many
\* threads take snapshots, the average latency is at most the maximum.
THEOREM AverageBounded == MetricsSpec => []AverageAtMostMax
<1>1. MetricsInit => LatencyInv
    BY DEF MetricsInit, LatencyInv, Ended
<1>2. LatencyInv => AverageAtMostMax
    <2> SUFFICES ASSUME LatencyInv PROVE AverageAtMostMax
        OBVIOUS
    <2>1. Ended <= totals.queries
        BY DEF LatencyInv, Ended
    <2>2. totals.max * Ended <= totals.max * totals.queries
        BY <2>1, ProductGrows DEF LatencyInv
    <2>3. totals.max * Ended \in Nat /\ totals.max * totals.queries \in Nat
        BY DEF LatencyInv
    <2> QED BY <2>2, <2>3 DEF LatencyInv, AverageAtMostMax
<1> QED BY <1>1, <1>2, LatencyStep, PTL DEF MetricsSpec

-----------------------------------------------------------------------------
(* The buckets.                                                            *)

SeenMetricsSpec == SeenMetricsInit /\ [][SeenMetricsNext]_seenMetricsVars

\* What was counted in a second; nothing outside the time of the model.
At(s) == IF s \in Seconds THEN seen[s] ELSE NoCount

\* A reading is of a second that has begun.
ReadingsInv ==
    /\ second \in Seconds
    /\ writer.reading \in 0 .. second
    /\ reader = [r \in Readers |-> reader[r]]
    /\ \A r \in Readers : reader[r].reading \in 0 .. second

BucketsShape ==
    /\ bucket = BucketAt(bucket.second, Counts(bucket))
    /\ bucket.second \in Seconds /\ Counts(bucket) \in Count
    /\ history \in Seq(Count) /\ Len(history) <= HistorySize
    /\ seen \in [Seconds -> Count]

\* Nothing was counted after the bucket.  The oldest entry of a full history
\* may be from before a long silence, but no snapshot trusts that one.
ShownInv ==
    /\ Counts(bucket) = seen[bucket.second]
    /\ \A s \in Seconds : s > bucket.second => seen[s] = NoCount
    /\ \A age \in 1 .. Len(history) :
          age < HistorySize =>
             history[Len(history) + 1 - age] = At(bucket.second - age)

\* Buckets that are moved back are not followed any further.
BucketsInv == ReadingsInv /\ (~overtaken => BucketsShape /\ ShownInv)

\* What Newest keeps.
LEMMA NewestKeeps ==
    ASSUME NEW S, NEW s \in Seq(S), NEW n \in Nat
    PROVE  /\ Newest(s, n) \in Seq(S)
           /\ Len(Newest(s, n)) = IF Len(s) <= n THEN Len(s) ELSE n
           /\ \A i \in 1 .. Len(Newest(s, n)) :
                 Newest(s, n)[i] = s[Len(s) - Len(Newest(s, n)) + i]
<1>1. CASE Len(s) <= n
    BY <1>1 DEF Newest
<1>2. CASE Len(s) > n
    <2>1. Newest(s, n) = SubSeq(s, Len(s) - n + 1, Len(s))
        BY <1>2 DEF Newest
    <2> DEFINE m == Len(s) - n + 1
    <2>2. m \in 1 .. Len(s) + 1 /\ Len(s) \in m - 1 .. Len(s)
        BY <1>2
    <2>3. /\ SubSeq(s, m, Len(s)) \in Seq(S)
          /\ Len(SubSeq(s, m, Len(s))) = n
          /\ \A i \in 1 .. n : SubSeq(s, m, Len(s))[i] = s[m + i - 1]
        BY <1>2, <2>2, SubSeqProperties
    <2> QED BY <1>2, <2>1, <2>3
<1> QED BY <1>1, <1>2

\* How many entries a rotation adds: none when the bucket is moved back.
Added(now) == IF Elapsed(now) > 0 THEN Elapsed(now) ELSE 0

\* The entries after a rotation, by age.
LEMMA RotationIs ==
    ASSUME BucketsShape, NEW now \in Seconds
    PROVE  LET kept == Rotated(now)
               E    == Added(now)
           IN
           /\ E \in 0 .. HistorySize /\ E <= Len(history) + E
           /\ kept \in Seq(Count) /\ Len(kept) \in Nat
           /\ Len(kept) = IF Len(history) + E <= HistorySize
                          THEN Len(history) + E ELSE HistorySize
           /\ \A age \in 1 .. Len(kept) :
                 kept[Len(kept) + 1 - age] =
                    IF age < E THEN NoCount
                    ELSE IF age = E THEN Counts(bucket)
                    ELSE history[Len(history) + 1 - (age - E)]
<1> DEFINE E == Added(now)
           L == Len(history)
           added == [i \in 1 .. E |->
                        IF i = 1 THEN Counts(bucket) ELSE NoCount]
           full == history \o added
           kept == Rotated(now)
<1>1. /\ now \in Nat /\ bucket.second \in Nat /\ HistorySize \in Nat \ {0}
      /\ L \in Nat /\ NoCount \in Count
    BY MetricsAssumption DEF BucketsShape, Seconds, NoCount, Count
<1>2. /\ E \in Nat /\ E <= HistorySize
      /\ 1 .. Elapsed(now) = 1 .. E
    BY <1>1 DEF Elapsed, Added
<1> HIDE DEF E
<1>3. added \in Seq(Count) /\ Len(added) = E
    BY <1>1, <1>2 DEF BucketsShape
<1>4. /\ full \in Seq(Count) /\ Len(full) = L + E
      /\ \A i \in 1 .. L : full[i] = history[i]
      /\ \A i \in 1 .. E : full[L + i] = added[i]
    BY <1>1, <1>2, <1>3 DEF BucketsShape
<1>5. kept = Newest(full, HistorySize)
    BY <1>2 DEF Rotated
<1> HIDE DEF full, kept
<1>6. /\ kept \in Seq(Count)
      /\ Len(kept) = IF L + E <= HistorySize THEN L + E ELSE HistorySize
      /\ Len(kept) \in Nat /\ Len(kept) <= L + E
      /\ \A i \in 1 .. Len(kept) : kept[i] = full[L + E - Len(kept) + i]
    <2> HIDE DEF L
    <2>1. /\ Newest(full, HistorySize) \in Seq(Count)
          /\ Len(Newest(full, HistorySize))
                = IF Len(full) <= HistorySize THEN Len(full) ELSE HistorySize
          /\ \A i \in 1 .. Len(Newest(full, HistorySize)) :
                Newest(full, HistorySize)[i]
                   = full[Len(full) - Len(Newest(full, HistorySize)) + i]
        BY <1>1, <1>4, NewestKeeps
    <2>2. /\ kept \in Seq(Count)
          /\ Len(kept) = IF Len(full) <= HistorySize THEN Len(full)
                                                    ELSE HistorySize
          /\ \A i \in 1 .. Len(kept) :
                kept[i] = full[Len(full) - Len(kept) + i]
        BY <1>5, <2>1
    <2>3. /\ L \in Nat /\ E \in Nat /\ HistorySize \in Nat
          /\ Len(full) = L + E
        BY <1>1, <1>2, <1>4
    <2>4. Len(kept) = IF L + E <= HistorySize THEN L + E ELSE HistorySize
        BY <2>2, <2>3
    <2>5. Len(kept) \in Nat /\ Len(kept) <= L + E
        BY <2>3, <2>4
    <2>6. \A i \in 1 .. Len(kept) : kept[i] = full[L + E - Len(kept) + i]
        BY <2>2, <2>3
    <2> QED BY <2>2, <2>4, <2>5, <2>6
<1>7. ASSUME NEW age \in 1 .. Len(kept)
      PROVE  kept[Len(kept) + 1 - age] =
                IF age < E THEN NoCount
                ELSE IF age = E THEN Counts(bucket)
                ELSE history[L + 1 - (age - E)]
    <2>1. kept[Len(kept) + 1 - age] = full[L + E + 1 - age]
        <3> HIDE DEF L, added
        <3>1. Len(kept) \in Nat /\ age \in Nat /\ L \in Nat /\ E \in Nat
            BY <1>1, <1>2, <1>6
        <3>2. Len(kept) + 1 - age \in 1 .. Len(kept)
            BY <1>7, <3>1
        <3>3. L + E - Len(kept) + (Len(kept) + 1 - age) = L + E + 1 - age
            BY <3>1
        <3> QED BY <1>6, <3>2, <3>3
    <2>2. CASE age < E
        <3>1. E + 1 - age \in 1 .. E /\ E + 1 - age # 1
            BY <1>2, <2>2
        <3>2. full[L + (E + 1 - age)] = NoCount
            BY <1>4, <3>1
        <3>3. L + (E + 1 - age) = L + E + 1 - age
            BY <1>1, <1>2
        <3> QED BY <2>1, <2>2, <3>2, <3>3
    <2>3. CASE age = E
        <3>1. full[L + 1] = Counts(bucket)
            BY <1>2, <1>4, <2>3
        <3>2. L + E + 1 - age = L + 1
            BY <1>1, <1>2, <2>3
        <3> QED BY <2>1, <2>3, <3>1, <3>2
    <2>4. CASE age > E
        <3> HIDE DEF L, added
        <3>1. /\ L \in Nat /\ E \in Nat /\ age \in Nat /\ age <= L + E
            BY <1>1, <1>2, <1>6
        <3>2. L + 1 - (age - E) \in 1 .. L
            BY <2>4, <3>1
        <3>3. L + 1 - (age - E) = L + E + 1 - age
            BY <3>1
        <3>4. full[L + 1 - (age - E)] = history[L + 1 - (age - E)]
            BY <1>4, <3>2
        <3>5. ~(age < E) /\ age # E
            BY <2>4, <3>1
        <3> QED BY <2>1, <3>3, <3>4, <3>5
    <2> QED BY <1>2, <2>2, <2>3, <2>4
<1>8. E \in 0 .. HistorySize /\ E <= L + E
    BY <1>1, <1>2
<1>9. E = Added(now)
    BY DEF E
<1> QED BY <1>6, <1>7, <1>8, <1>9 DEF kept

\* After a rotation every entry but one that is as old as the history stands
\* for the second of its age.
LEMMA RotationShows ==
    ASSUME BucketsShape, ShownInv, NEW now \in Seconds, bucket.second <= now
    PROVE  /\ Rotated(now) \in Seq(Count)
           /\ Len(Rotated(now)) <= HistorySize
           /\ \A age \in 1 .. Len(Rotated(now)) :
                 age < HistorySize =>
                    Rotated(now)[Len(Rotated(now)) + 1 - age] = At(now - age)
<1> DEFINE E == Added(now)
           L == Len(history)
           kept == Rotated(now)
<1>1. /\ now \in Nat /\ bucket.second \in Nat /\ HistorySize \in Nat \ {0}
      /\ L \in Nat
    BY MetricsAssumption DEF BucketsShape, Seconds
<1>2. /\ E \in Nat /\ E <= HistorySize /\ E <= now - bucket.second
      /\ E < HistorySize => bucket.second = now - E
    BY <1>1 DEF Elapsed, Added
<1>3. /\ kept \in Seq(Count) /\ Len(kept) \in Nat
      /\ Len(kept) <= HistorySize /\ Len(kept) <= L + E
      /\ \A age \in 1 .. Len(kept) :
            kept[Len(kept) + 1 - age] =
               IF age < E THEN NoCount
               ELSE IF age = E THEN Counts(bucket)
               ELSE history[L + 1 - (age - E)]
    <2>1. /\ kept \in Seq(Count) /\ Len(kept) \in Nat
          /\ Len(kept) = IF L + E <= HistorySize THEN L + E ELSE HistorySize
          /\ \A age \in 1 .. Len(kept) :
                kept[Len(kept) + 1 - age] =
                   IF age < E THEN NoCount
                   ELSE IF age = E THEN Counts(bucket)
                   ELSE history[L + 1 - (age - E)]
        BY RotationIs
    <2> HIDE DEF E, L, kept
    <2> QED BY <1>1, <1>2, <2>1
<1> HIDE DEF E, kept
<1>4. ASSUME NEW age \in 1 .. Len(kept), age < HistorySize
      PROVE  kept[Len(kept) + 1 - age] = At(now - age)
    <2>1. age \in Nat /\ age >= 1 /\ age <= L + E
        <3> HIDE DEF L
        <3> QED BY <1>1, <1>2, <1>3
    <2>2. CASE age < E
        <3>1. At(now - age) = NoCount
            BY <1>1, <1>2, <2>1, <2>2 DEF ShownInv, At
        <3> QED BY <1>3, <2>2, <3>1
    <2>3. CASE age = E
        <3>1. bucket.second = now - age
            BY <1>2, <1>4, <2>3
        <3>2. At(now - age) = Counts(bucket)
            BY <3>1 DEF ShownInv, BucketsShape, At
        <3>3. ~(age < E)
            BY <1>2, <2>3
        <3> QED BY <1>3, <2>3, <3>2, <3>3
    <2>4. CASE age > E
        <3>1. /\ bucket.second = now - E /\ age - E \in 1 .. L
              /\ age - E < HistorySize
            <4> HIDE DEF L
            <4> QED BY <1>1, <1>2, <1>4, <2>1, <2>4
        <3>2. history[L + 1 - (age - E)] = At(bucket.second - (age - E))
            BY <3>1 DEF ShownInv
        <3>3. bucket.second - (age - E) = now - age
            BY <1>1, <1>2, <2>1, <3>1
        <3>4. ~(age < E) /\ age # E
            BY <1>2, <2>1, <2>4
        <3> QED BY <1>3, <3>2, <3>3, <3>4
    <2> QED BY <1>2, <2>1, <2>2, <2>3, <2>4
<1> QED BY <1>3, <1>4 DEF kept

\* What is put away leaves a bucket with the counts of its second.
LEMMA PutAwayShows ==
    ASSUME BucketsShape, ShownInv, NEW now \in Seconds, bucket.second <= now
    PROVE  PutAway(now) = BucketAt(now, seen[now])
<1>1. /\ now \in Nat /\ bucket.second \in Nat /\ HistorySize \in Nat \ {0}
    BY MetricsAssumption DEF BucketsShape, Seconds
<1>2. CASE bucket.second = now
    BY <1>1, <1>2 DEF PutAway, Elapsed, ShownInv
<1>3. CASE bucket.second < now
    <2>1. Elapsed(now) > 0
        BY <1>1, <1>3 DEF Elapsed
    <2> QED BY <1>3, <2>1 DEF PutAway, ShownInv
<1> QED BY <1>1, <1>2, <1>3

\* A thread that has not been overtaken leaves every entry with its second.
LEMMA RotationKeeps ==
    ASSUME BucketsShape, ShownInv, NEW now \in Seconds, bucket.second <= now,
           NEW c \in Count, bucket' = BucketAt(now, c),
           history' = Rotated(now), seen' = [seen EXCEPT ![now] = c]
    PROVE  BucketsShape' /\ ShownInv'
<1>1. /\ Counts(bucket)' = c /\ bucket'.second = now
      /\ bucket' = BucketAt(bucket'.second, Counts(bucket)')
    BY DEF Counts, BucketAt, Count
<1>2. /\ now \in Nat /\ bucket.second \in Nat
      /\ \A s \in Seconds : seen'[s] = IF s = now THEN c ELSE seen[s]
      /\ seen' \in [Seconds -> Count]
    BY DEF BucketsShape, Seconds
<1>3. BucketsShape'
    BY <1>1, <1>2, RotationShows DEF BucketsShape
<1>4. ASSUME NEW s \in Seconds, s > now
      PROVE  seen'[s] = NoCount
    BY <1>2, <1>4 DEF ShownInv, Seconds
<1>5. ASSUME NEW age \in 1 .. Len(history'), age < HistorySize
      PROVE  history'[Len(history') + 1 - age] = At(now - age)'
    <2>1. history'[Len(history') + 1 - age] = At(now - age)
        BY <1>5, RotationShows
    <2>2. now - age # now
        BY <1>2
    <2> QED BY <1>2, <2>1, <2>2 DEF At
<1>6. ShownInv'
    BY <1>1, <1>2, <1>4, <1>5 DEF ShownInv
<1> QED BY <1>3, <1>6

\* One more query, or one more blocked query, in the second of the reading.
LEMMA CountKeeps ==
    ASSUME BucketsShape, ShownInv, NEW now \in Seconds, bucket.second <= now,
           now = writer.reading, Remember,
           \/ /\ Counted(now, "queries")
              /\ writer.pc = "query" /\ writer'.pc = "counted"
           \/ /\ Counted(now, "blocked")
              /\ writer.pc = "blocked" /\ writer'.pc = "ending"
    PROVE  BucketsShape' /\ ShownInv'
<1> DEFINE q == seen[now].queries
           b == seen[now].blocked
<1>1. /\ seen \in [Seconds -> Count] /\ q \in Nat /\ b \in Nat
      /\ seen[now] = [queries |-> q, blocked |-> b]
    BY DEF BucketsShape, Count
<1>2. PutAway(now) = [second |-> now, queries |-> q, blocked |-> b]
    BY <1>1, PutAwayShows DEF BucketAt
<1>3. \A s \in Seconds \ {now} : seen'[s] = seen[s]
    BY DEF Remember
<1>4. seen' = [s \in Seconds |-> seen'[s]]
    BY DEF Remember
<1>5. CASE Counted(now, "queries") /\ writer.pc = "query" /\ writer'.pc = "counted"
    <2> DEFINE c == [queries |-> q + 1, blocked |-> b]
    <2>1. bucket' = BucketAt(now, c)
        <3> DEFINE r == PutAway(now)
        <3>1. bucket' = [r EXCEPT !["queries"] = @ + 1]
            BY <1>5, Zenon DEF Counted
        <3>2. r = [second |-> now, queries |-> q, blocked |-> b]
            BY <1>2
        <3> HIDE DEF r
        <3> QED BY <3>1, <3>2 DEF BucketAt
    <2>2. seen'[now] = c
        <3> DEFINE v == seen[now]
        <3>1. seen'[now] = [v EXCEPT !.queries = @ + 1]
            BY <1>5 DEF Remember, Counting
        <3>2. v = [queries |-> q, blocked |-> b]
            BY <1>1
        <3> HIDE DEF v
        <3> QED BY <3>1, <3>2
    <2>3. c \in Count
        BY <1>1 DEF Count
    <2> HIDE DEF c
    <2>4. seen' = [seen EXCEPT ![now] = c]
        BY <1>1, <1>3, <1>4, <2>2
    <2> QED BY <1>5, <2>1, <2>3, <2>4, RotationKeeps DEF Counted
<1>6. CASE Counted(now, "blocked") /\ writer.pc = "blocked" /\ writer'.pc = "ending"
    <2> DEFINE c == [queries |-> q, blocked |-> b + 1]
    <2>1. bucket' = BucketAt(now, c)
        <3> DEFINE r == PutAway(now)
        <3>1. bucket' = [r EXCEPT !["blocked"] = @ + 1]
            BY <1>6, Zenon DEF Counted
        <3>2. r = [second |-> now, queries |-> q, blocked |-> b]
            BY <1>2
        <3> HIDE DEF r
        <3> QED BY <3>1, <3>2 DEF BucketAt
    <2>2. seen'[now] = c
        <3> DEFINE v == seen[now]
        <3>1. seen'[now] = [v EXCEPT !.blocked = @ + 1]
            BY <1>6 DEF Remember, Counting
        <3>2. v = [queries |-> q, blocked |-> b]
            BY <1>1
        <3> HIDE DEF v
        <3> QED BY <3>1, <3>2
    <2>3. c \in Count
        BY <1>1 DEF Count
    <2> HIDE DEF c
    <2>4. seen' = [seen EXCEPT ![now] = c]
        BY <1>1, <1>3, <1>4, <2>2
    <2> QED BY <1>6, <2>1, <2>3, <2>4, RotationKeeps DEF Counted
<1> QED BY <1>5, <1>6

\* A step that counts nothing leaves what was seen as it is.
LEMMA NothingCounted ==
    ASSUME seen \in [Seconds -> Count], Remember,
           writer.pc \in {"query", "blocked"} => writer'.pc = writer.pc
    PROVE  seen' = seen
BY DEF Remember, Counting

\* Readings are of seconds that have begun, whichever thread holds them.
LEMMA ReadingsStep ==
    ASSUME ReadingsInv, [MetricsNext]_metricsVars
    PROVE  ReadingsInv'
<1> USE DEF ReadingsInv, Seconds
<1>1. second \in Nat /\ 0 \in 0 .. second
    BY MetricsAssumption
<1>2. CASE \/ BeginQuery \/ CountQuery \/ BeginBlocked \/ CountBlocked
           \/ \E v \in Latencies : RecordLatency(v)
    <2>1. /\ \/ WriterGoes("query", second) \/ WriterGoes("blocked", second)
             \/ \E pc \in {"counted", "ending", "idle"} : WriterGoes(pc, 0)
          /\ UNCHANGED <<second, reader>>
        BY <1>2
        DEF BeginQuery, CountQuery, BeginBlocked, CountBlocked, RecordLatency
    <2>2. writer'.reading \in {0, second}
        BY <2>1 DEF WriterGoes
    <2> QED BY <1>1, <2>1, <2>2
<1>3. ASSUME NEW r \in Readers, BeginSnapshot(r) \/ Snapshot(r)
      PROVE  ReadingsInv'
    <2>1. /\ UNCHANGED <<second, writer>>
          /\ reader' = [p \in Readers |->
                           IF p = r THEN reader'[r] ELSE reader[p]]
          /\ reader'[r].reading \in {0, second}
        BY <1>3 DEF BeginSnapshot, Snapshot
    <2> QED BY <1>1, <2>1
<1>4. CASE SecondsPass
    <2>1. second' \in Seconds /\ second <= second'
        BY <1>1, <1>4, MetricsAssumption DEF SecondsPass
    <2> QED BY <1>1, <1>4, <2>1 DEF SecondsPass
<1>5. CASE UNCHANGED metricsVars
    BY <1>5 DEF metricsVars
<1> QED BY <1>2, <1>3, <1>4, <1>5 DEF MetricsNext

\* Every step that is not taken by an overtaken thread keeps the entries with
\* their seconds.
LEMMA BucketsStep ==
    ASSUME BucketsInv, [SeenMetricsNext]_seenMetricsVars
    PROVE  BucketsInv'
<1>1. ReadingsInv'
    BY ReadingsStep DEF BucketsInv, SeenMetricsNext, seenMetricsVars
<1> SUFFICES ASSUME ~overtaken' PROVE BucketsShape' /\ ShownInv'
    BY <1>1 DEF BucketsInv
<1>2. CASE UNCHANGED seenMetricsVars
    BY <1>2 DEF seenMetricsVars, metricsVars, BucketsInv, BucketsShape,
                ShownInv, At, Counts
<1>3. CASE SeenMetricsNext
    <2>1. ~overtaken /\ ~(bucket'.second < bucket.second) /\ Remember
        BY <1>3, Zenon DEF SeenMetricsNext, Remember
    <2>2. /\ ReadingsInv /\ BucketsShape /\ ShownInv
          /\ bucket.second \in Nat /\ seen \in [Seconds -> Count]
        BY <2>1 DEF BucketsInv, BucketsShape, Seconds
    <2>3. /\ writer.reading \in Seconds
          /\ \A r \in Readers : reader[r].reading \in Seconds
        BY <2>2, MetricsAssumption DEF ReadingsInv, Seconds
    <2>4. CASE CountQuery
        <3>1. bucket'.second = writer.reading
            BY <2>4 DEF CountQuery, Counted, PutAway, BucketAt
        <3> QED
            BY <2>1, <2>2, <2>3, <2>4, <3>1, CountKeeps
            DEF CountQuery, WriterGoes, Seconds
    <2>5. CASE CountBlocked
        <3>1. bucket'.second = writer.reading
            BY <2>5 DEF CountBlocked, Counted, PutAway, BucketAt
        <3> QED
            BY <2>1, <2>2, <2>3, <2>5, <3>1, CountKeeps
            DEF CountBlocked, WriterGoes, Seconds
    <2>6. ASSUME NEW r \in Readers, Snapshot(r)
          PROVE  BucketsShape' /\ ShownInv'
        <3> DEFINE now == reader[r].reading
        <3>1. bucket' = PutAway(now) /\ history' = Rotated(now)
            BY <2>6 DEF Snapshot
        <3>2. bucket.second <= now /\ now \in Seconds
            BY <2>1, <2>2, <2>3, <3>1 DEF PutAway, BucketAt, Seconds
        <3>3. seen' = [seen EXCEPT ![now] = seen[now]]
            BY <2>1, <2>2, <2>6, NothingCounted DEF Snapshot
        <3>4. seen[now] \in Count /\ bucket' = BucketAt(now, seen[now])
            BY <2>2, <3>1, <3>2, PutAwayShows
        <3> HIDE DEF now
        <3> QED BY <2>2, <3>1, <3>2, <3>3, <3>4, RotationKeeps
    <2>7. CASE \/ BeginQuery \/ BeginBlocked \/ SecondsPass
               \/ \E v \in Latencies : RecordLatency(v)
               \/ \E r \in Readers : BeginSnapshot(r)
        <3>1. UNCHANGED <<bucket, history>>
            BY <2>7 DEF BeginQuery, BeginBlocked, SecondsPass, RecordLatency,
                        BeginSnapshot
        <3>2. seen' = seen
            BY <2>1, <2>2, <2>7, NothingCounted
            DEF BeginQuery, BeginBlocked, SecondsPass, RecordLatency,
                BeginSnapshot
        <3> QED BY <2>2, <3>1, <3>2 DEF BucketsShape, ShownInv, At, Counts
    <2> QED
        BY <1>3, <2>4, <2>5, <2>6, <2>7 DEF SeenMetricsNext, MetricsNext
<1> QED BY <1>2, <1>3

\* metrics.py: as long as no thread is overtaken between the clock and the
\* lock, each entry that a snapshot shows is what was counted in its second,
\* however long nothing happens in between.
THEOREM MetricsEntriesAreSeconds == SeenMetricsSpec => []EntriesAreSeconds
<1>1. SeenMetricsInit => BucketsInv
    <2> SUFFICES ASSUME SeenMetricsInit PROVE BucketsInv
        OBVIOUS
    <2>1. ReadingsInv
        BY MetricsAssumption DEF SeenMetricsInit, MetricsInit, ReadingsInv,
                                 Seconds
    <2>2. BucketsShape /\ ShownInv
        BY MetricsAssumption
        DEF SeenMetricsInit, MetricsInit, BucketsShape, ShownInv, Seconds,
            BucketAt, Counts, NoCount, Count
    <2> QED BY <2>1, <2>2 DEF BucketsInv
<1>2. BucketsInv => EntriesAreSeconds
    <2> SUFFICES ASSUME BucketsShape, ShownInv
                 PROVE  LET q == RecentQueries
                            b == RecentBlocked
                        IN  /\ \A i \in DOMAIN q :
                                  q[i] = SeenAt(SecondOf(i, Len(q)), "queries")
                            /\ \A i \in DOMAIN b :
                                  Len(b) - i < HistorySize =>
                                     b[i] = SeenAt(SecondOf(i, Len(b)), "blocked")
        BY DEF BucketsInv, EntriesAreSeconds
    <2> DEFINE c == Counts(bucket)
               L == Len(history)
               old == Newest(history, HistorySize)
               all == Append(history, c)
               shown == Newest(all, HistorySize)
               recent == Append(old, c)
    <2>1. /\ HistorySize \in Nat \ {0} /\ L \in 0 .. HistorySize
          /\ history \in Seq(Count) /\ c \in Count /\ old = history
          /\ bucket.second \in Nat
        BY MetricsAssumption DEF BucketsShape, Newest, Seconds
    <2>2. /\ all \in Seq(Count) /\ Len(all) = L + 1
          /\ all[L + 1] = c /\ \A i \in 1 .. L : all[i] = history[i]
        BY <2>1
    <2>3. \A age \in 0 .. L :
             age < HistorySize => all[L + 1 - age] = At(bucket.second - age)
        <3> SUFFICES ASSUME NEW age \in 0 .. L, age < HistorySize
                     PROVE  all[L + 1 - age] = At(bucket.second - age)
            OBVIOUS
        <3>1. CASE age = 0
            BY <2>1, <2>2, <3>1 DEF ShownInv, BucketsShape, At
        <3>2. CASE age > 0
            <4>1. L + 1 - age \in 1 .. L /\ age \in 1 .. L
                BY <2>1, <3>2
            <4>2. all[L + 1 - age] = history[L + 1 - age]
                BY <2>2, <4>1
            <4> QED BY <4>1, <4>2 DEF ShownInv
        <3> QED BY <2>1, <3>1, <3>2
    <2>4. /\ shown \in Seq(Count) /\ Len(shown) \in 1 .. HistorySize
          /\ Len(shown) <= L + 1
          /\ \A i \in 1 .. Len(shown) :
                shown[i] = all[L + 1 - Len(shown) + i]
        <3> HIDE DEF all, L
        <3>1. /\ Newest(all, HistorySize) \in Seq(Count)
              /\ Len(Newest(all, HistorySize))
                    = IF Len(all) <= HistorySize THEN Len(all) ELSE HistorySize
              /\ \A i \in 1 .. Len(Newest(all, HistorySize)) :
                    Newest(all, HistorySize)[i]
                       = all[Len(all) - Len(Newest(all, HistorySize)) + i]
            BY <2>1, <2>2, NewestKeeps
        <3> QED BY <2>1, <2>2, <3>1
    <2> HIDE DEF all, shown
    <2>5. \A i \in 1 .. Len(shown) :
             shown[i] = At(bucket.second - (Len(shown) - i))
        <3> SUFFICES ASSUME NEW i \in 1 .. Len(shown)
                     PROVE  shown[i] = At(bucket.second - (Len(shown) - i))
            OBVIOUS
        <3> DEFINE age == Len(shown) - i
        <3>1. age \in 0 .. L /\ age < HistorySize
            BY <2>1, <2>4
        <3>2. shown[i] = all[L + 1 - age]
            BY <2>1, <2>4
        <3> QED BY <2>3, <3>1, <3>2
    <2>6. \A s \in Int : /\ At(s).queries = SeenAt(s, "queries")
                         /\ At(s).blocked = SeenAt(s, "blocked")
        BY DEF At, SeenAt, NoCount
    <2>7. ASSUME NEW i \in DOMAIN RecentQueries
          PROVE  RecentQueries[i]
                    = SeenAt(SecondOf(i, Len(RecentQueries)), "queries")
        <3>1. RecentQueries = [k \in 1 .. Len(shown) |-> shown[k].queries]
            BY <2>4 DEF RecentQueries, shown, all
        <3>2. Len(RecentQueries) = Len(shown) /\ i \in 1 .. Len(shown)
            BY <2>4, <3>1
        <3> QED
            BY <2>1, <2>4, <2>5, <2>6, <3>1, <3>2 DEF SecondOf
    <2>8. ASSUME NEW i \in DOMAIN RecentBlocked,
                 Len(RecentBlocked) - i < HistorySize
          PROVE  RecentBlocked[i]
                    = SeenAt(SecondOf(i, Len(RecentBlocked)), "blocked")
        <3>1. RecentBlocked = [k \in 1 .. L + 1 |-> all[k].blocked]
            BY <2>1, <2>2 DEF RecentBlocked, all
        <3>2. Len(RecentBlocked) = L + 1 /\ i \in 1 .. L + 1
            BY <2>1, <3>1
        <3>3. all[i] = At(bucket.second - (L + 1 - i))
            <4>1. L + 1 - i \in 0 .. L /\ L + 1 - i < HistorySize
                BY <2>1, <2>8, <3>2
            <4>2. all[L + 1 - (L + 1 - i)] = all[i]
                BY <2>1, <3>2
            <4> QED BY <2>3, <4>1, <4>2
        <3> QED BY <2>1, <2>6, <3>1, <3>2, <3>3 DEF SecondOf
    <2> QED BY <2>7, <2>8
<1> QED BY <1>1, <1>2, BucketsStep, PTL DEF SeenMetricsSpec

-----------------------------------------------------------------------------
(* What the newest entries add up to, whoever is overtaken.                *)

\* The queries of each age: those of the bucket, of the last entry of the
\* history, of the one before it.
AgeCounts ==
    [age \in 1 .. HistorySize |->
        IF age = 1 THEN bucket.queries
        ELSE IF age <= Len(history) + 1
             THEN history[Len(history) + 2 - age].queries ELSE 0]

SeenQueries == [s \in Seconds |-> seen[s].queries]

Since(s) == {t \in Seconds : t > s}

\* RecentIsRecent is not inductive: when entries are dropped, what is left has
\* to fit into a shorter time.  So every number of newest entries is bounded.
RecentInv ==
    /\ ReadingsInv /\ BucketsShape
    /\ IsFiniteSet(Units(SeenQueries, Seconds))
    /\ \A k \in 0 .. HistorySize :
          /\ IsFiniteSet(Units(AgeCounts, 1 .. k))
          /\ Cardinality(Units(AgeCounts, 1 .. k))
                <= Cardinality(Units(SeenQueries, Since(bucket.second - k)))

\* The members of Units.
LEMMA UnitsAre ==
    ASSUME NEW c, NEW S
    PROVE  \A p : p \in Units(c, S)
                  <=> \E k \in S : \E n \in 1 .. c[k] : p = <<k, n>>
BY DEF Units

\* The same counts under the same keys.
LEMMA UnitsSame ==
    ASSUME NEW c, NEW d, NEW S, \A k \in S : d[k] = c[k]
    PROVE  Units(d, S) = Units(c, S)
<1>1. ASSUME NEW x
      PROVE  x \in Units(d, S) <=> x \in Units(c, S)
    <2>1. \A k \in S : (\E m \in 1 .. d[k] : x = <<k, m>>)
                       <=> \E m \in 1 .. c[k] : x = <<k, m>>
        OBVIOUS
    <2>2. x \in Units(d, S) <=> \E k \in S : \E m \in 1 .. d[k] : x = <<k, m>>
        BY UnitsAre
    <2>3. x \in Units(c, S) <=> \E k \in S : \E m \in 1 .. c[k] : x = <<k, m>>
        BY UnitsAre
    <2> QED BY <2>1, <2>2, <2>3
<1> QED BY <1>1

\* Counts that are moved to other keys, or dropped, add up to no more.
LEMMA UnitsMoved ==
    ASSUME NEW S, NEW T, NEW c, NEW d, NEW f,
           \A s \in S : /\ c[s] \in Nat
                        /\ c[s] # 0 => /\ f[s] \in T /\ d[f[s]] \in Nat
                                       /\ c[s] <= d[f[s]],
           \A s, t \in S : f[s] = f[t] => s = t,
           IsFiniteSet(Units(d, T))
    PROVE  /\ IsFiniteSet(Units(c, S))
           /\ Cardinality(Units(c, S)) <= Cardinality(Units(d, T))
<1> DEFINE U == Units(c, S)
           V == Units(d, T)
           g == [p \in U |-> <<f[p[1]], p[2]>>]
<1>1. \A p \in U : /\ p[1] \in S /\ p[2] \in 1 .. c[p[1]] /\ p = <<p[1], p[2]>>
    BY UnitsAre
<1>2. \A p \in U : g[p] \in V
    <2> TAKE p \in U
    <2>1. g[p] = <<f[p[1]], p[2]>>
        OBVIOUS
    <2>2. p[1] \in S /\ p[2] \in 1 .. c[p[1]]
        BY <1>1
    <2>3. c[p[1]] \in Nat /\ c[p[1]] # 0
        BY <2>2
    <2>4. /\ f[p[1]] \in T /\ d[f[p[1]]] \in Nat /\ c[p[1]] <= d[f[p[1]]]
        BY <2>2, <2>3
    <2>5. p[2] \in 1 .. d[f[p[1]]]
        BY <2>2, <2>3, <2>4
    <2> HIDE DEF U, g
    <2> QED BY <2>1, <2>4, <2>5, UnitsAre
<1>3. \A p, q \in U : g[p] = g[q] => p = q
    <2> TAKE p, q \in U
    <2> HAVE g[p] = g[q]
    <2>1. f[p[1]] = f[q[1]] /\ p[2] = q[2]
        OBVIOUS
    <2>2. p[1] = q[1]
        BY <1>1, <2>1
    <2> QED BY <1>1, <2>1, <2>2
<1>4. g \in [U -> V]
    BY <1>2
<1> HIDE DEF U, V, g
<1>5. g \in Injection(U, V)
    BY <1>3, <1>4, Fun_IsInj
<1> QED BY <1>5, FS_Injection DEF U, V

\* Fewer keys, fewer counts.
LEMMA UnitsOfFewer ==
    ASSUME NEW c, NEW S, NEW T, S \subseteq T, IsFiniteSet(Units(c, T))
    PROVE  /\ IsFiniteSet(Units(c, S))
           /\ Cardinality(Units(c, S)) <= Cardinality(Units(c, T))
<1>1. Units(c, S) \in SUBSET Units(c, T)
    BY UnitsAre
<1> QED BY <1>1, FS_Subset

\* One more is counted under one key.
LEMMA UnitsPlusOne ==
    ASSUME NEW c, NEW d, NEW S, NEW x \in S, c[x] \in Nat, d[x] = c[x] + 1,
           \A s \in S \ {x} : d[s] = c[s], IsFiniteSet(Units(c, S))
    PROVE  /\ IsFiniteSet(Units(d, S))
           /\ Cardinality(Units(d, S)) = Cardinality(Units(c, S)) + 1
<1> DEFINE one == <<x, c[x] + 1>>
<1>1. one \notin Units(c, S)
    <2> SUFFICES ASSUME one \in Units(c, S) PROVE FALSE
        OBVIOUS
    <2>1. PICK k \in S : \E n \in 1 .. c[k] : one = <<k, n>>
        BY UnitsAre
    <2>2. k = x /\ c[x] + 1 \in 1 .. c[x]
        BY <2>1
    <2> QED BY <2>2
<1>2. ASSUME NEW p PROVE p \in Units(d, S) <=> p \in Units(c, S) \cup {one}
    <2>1. ASSUME NEW k \in S, k # x
          PROVE  (\E n \in 1 .. d[k] : p = <<k, n>>)
                 <=> \E n \in 1 .. c[k] : p = <<k, n>>
        BY <2>1
    <2>2. (\E n \in 1 .. d[x] : p = <<x, n>>)
          <=> (\E n \in 1 .. c[x] : p = <<x, n>>) \/ p = one
        <3>1. \A n : n \in 1 .. d[x] <=> n \in 1 .. c[x] \/ n = c[x] + 1
            OBVIOUS
        <3> QED BY <3>1
    <2> QED BY <2>1, <2>2, UnitsAre
<1>3. Units(d, S) = Units(c, S) \cup {one}
    BY <1>2
<1> HIDE DEF one
<1> QED BY <1>1, <1>3, FS_AddElement

\* The queries of each age after a rotation: zero for those added, and every
\* other one is that much older.
LEMMA AgesRotated ==
    ASSUME BucketsShape, NEW now \in Seconds, history' = Rotated(now)
    PROVE  /\ history' \in Seq(Count) /\ Len(history') <= HistorySize
           /\ \A age \in 2 .. HistorySize :
                 AgeCounts'[age] = IF age <= Added(now) THEN 0
                                   ELSE AgeCounts[age - Added(now)]
<1> DEFINE E == Added(now)
           L == Len(history)
           M == Len(history')
<1>1. /\ HistorySize \in Nat \ {0} /\ L \in Nat /\ history \in Seq(Count)
      /\ L <= HistorySize
    BY MetricsAssumption DEF BucketsShape
<1>2. /\ E \in 0 .. HistorySize /\ history' \in Seq(Count) /\ M \in Nat
      /\ M = IF L + E <= HistorySize THEN L + E ELSE HistorySize
      /\ \A age \in 1 .. M :
            history'[M + 1 - age] = IF age < E THEN NoCount
                                    ELSE IF age = E THEN Counts(bucket)
                                    ELSE history[L + 1 - (age - E)]
    BY RotationIs
<1> HIDE DEF E, L, M
<1>3. ASSUME NEW age \in 2 .. HistorySize
      PROVE  AgeCounts'[age] = IF age <= E THEN 0 ELSE AgeCounts[age - E]
    <2>1. /\ age \in Nat /\ age - 1 \in Nat /\ age \in 1 .. HistorySize /\ age # 1
          /\ E \in Nat
        BY <1>1, <1>2
    <2>2. AgeCounts'[age] = IF age <= M + 1 THEN history'[M + 2 - age].queries
                                            ELSE 0
        BY <2>1 DEF AgeCounts, M
    <2>3. CASE age > M + 1
        <3>1. M = L + E /\ ~(age <= E) /\ age - E \in 1 .. HistorySize
              /\ age - E # 1 /\ ~(age - E <= L + 1)
            <4>1. /\ L \in Nat /\ E \in Nat /\ M \in Nat /\ age \in Nat
                  /\ HistorySize \in Nat /\ age <= HistorySize /\ age > M + 1
                BY <1>1, <1>2, <2>1, <2>3
            <4>2. M = IF L + E <= HistorySize THEN L + E ELSE HistorySize
                BY <1>2
            <4> QED BY <4>1, <4>2
        <3>2. AgeCounts[age - E] = 0
            BY <3>1 DEF AgeCounts, L
        <3>3. ~(age <= M + 1)
            BY <1>2, <2>1, <2>3
        <3> QED BY <2>2, <3>1, <3>2, <3>3
    <2>4. CASE age <= M + 1
        <3>1. age - 1 \in 1 .. M /\ M + 1 - (age - 1) = M + 2 - age
            BY <1>2, <2>1, <2>4
        <3>2. history'[M + 2 - age] = IF age - 1 < E THEN NoCount
                                      ELSE IF age - 1 = E THEN Counts(bucket)
                                      ELSE history[L + 1 - (age - 1 - E)]
            BY <1>2, <3>1
        <3>3. CASE age <= E
            <4>1. age - 1 < E
                BY <2>1, <3>3
            <4> QED BY <2>2, <2>4, <3>2, <3>3, <4>1 DEF NoCount
        <3>4. CASE age - 1 = E
            <4>1. ~(age - 1 < E) /\ ~(age <= E) /\ age - E = 1
                BY <2>1, <3>4
            <4>2. AgeCounts[1] = bucket.queries
                BY <1>1 DEF AgeCounts
            <4> QED BY <2>2, <2>4, <3>2, <3>4, <4>1, <4>2 DEF Counts
        <3>5. CASE age - 1 > E
            <4>1. /\ ~(age - 1 < E) /\ age - 1 # E /\ ~(age <= E)
                  /\ age - E \in 1 .. HistorySize /\ age - E # 1
                  /\ age - E <= L + 1
                  /\ L + 2 - (age - E) = L + 1 - (age - 1 - E)
                <5>1. /\ L \in Nat /\ E \in Nat /\ M \in Nat /\ age \in Nat
                      /\ HistorySize \in Nat /\ age <= HistorySize
                      /\ age > E + 1
                    BY <1>1, <1>2, <2>1, <3>5
                <5>2. M <= L + E
                    BY <1>1, <1>2
                <5>3. age <= L + E + 1
                    BY <2>4, <5>1, <5>2
                <5> QED BY <5>1, <5>3
            <4>2. AgeCounts[age - E] = history[L + 2 - (age - E)].queries
                BY <4>1 DEF AgeCounts, L
            <4> QED BY <2>2, <2>4, <3>2, <4>1, <4>2
        <3> QED BY <2>1, <3>3, <3>4, <3>5
    <2> QED BY <1>2, <2>1, <2>3, <2>4
<1>4. Len(history') <= HistorySize
    BY <1>1, <1>2 DEF M
<1> QED BY <1>2, <1>3, <1>4 DEF E

\* The queries of an age are a number.
LEMMA AgesAreNumbers ==
    ASSUME BucketsShape
    PROVE  \A age \in 1 .. HistorySize : AgeCounts[age] \in Nat
<1> TAKE age \in 1 .. HistorySize
<1>1. /\ HistorySize \in Nat /\ Counts(bucket) \in Count
      /\ history \in Seq(Count)
    BY MetricsAssumption DEF BucketsShape
<1>2. bucket.queries \in Nat
    BY <1>1 DEF Counts, Count
<1>3. ASSUME age # 1, age <= Len(history) + 1
      PROVE  history[Len(history) + 2 - age].queries \in Nat
    <2>1. Len(history) + 2 - age \in 1 .. Len(history)
        BY <1>1, <1>3
    <2>2. history[Len(history) + 2 - age] \in Count
        BY <1>1, <2>1, ElementOfSeq
    <2> QED BY <2>2 DEF Count
<1> QED BY <1>2, <1>3 DEF AgeCounts

\* The ages after a rotation, before anything is counted.
AgesLater(now) ==
    [age \in 1 .. HistorySize |->
        IF age <= Added(now) THEN 0 ELSE AgeCounts[age - Added(now)]]

\* A rotation leaves no more entries than fit into the time before the reading.
LEMMA RotationFits ==
    ASSUME RecentInv, NEW now \in Seconds, NEW k \in 0 .. HistorySize
    PROVE  /\ IsFiniteSet(Units(AgesLater(now), 1 .. k))
           /\ Cardinality(Units(AgesLater(now), 1 .. k))
                 <= Cardinality(Units(SeenQueries, Since(now - k)))
<1> DEFINE E == Added(now)
           r == AgesLater(now)
           W(s) == Units(SeenQueries, Since(s))
           b == bucket.second
<1>1. /\ now \in Nat /\ b \in Nat /\ HistorySize \in Nat \ {0} /\ k \in Nat
      /\ k <= HistorySize
    BY MetricsAssumption DEF RecentInv, BucketsShape, Seconds
<1>2. E \in Nat /\ (E = 0 => now <= b) /\ (E < HistorySize => now <= b + E)
    BY <1>1 DEF Added, Elapsed
<1>3. \A s \in Int : IsFiniteSet(W(s)) /\ Cardinality(W(s)) \in Nat
    <2> TAKE s \in Int
    <2>1. Since(s) \subseteq Seconds
        BY DEF Since
    <2> HIDE DEF W
    <2> QED BY <2>1, UnitsOfFewer, FS_CardinalityType DEF RecentInv, W
<1>4. \A age \in 1 .. HistorySize :
         r[age] = IF age <= E THEN 0 ELSE AgeCounts[age - E]
    BY DEF AgesLater
<1>5. \A age \in 1 .. HistorySize : AgeCounts[age] \in Nat
    BY AgesAreNumbers DEF RecentInv
<1> HIDE DEF E, r, W
<1>6. CASE k <= E
    <2>1. \A age \in 1 .. k : r[age] = 0
        BY <1>1, <1>2, <1>4, <1>6
    <2>2. Units(r, 1 .. k) = {}
        BY <2>1, UnitsAre
    <2>3. now - k \in Int
        BY <1>1
    <2>4. Cardinality({}) = 0 /\ IsFiniteSet({})
        BY FS_EmptySet
    <2>5. Cardinality(W(now - k)) \in Nat
        BY <1>3, <2>3
    <2>6. 0 <= Cardinality(W(now - k))
        BY <2>5
    <2> QED BY <2>2, <2>4, <2>6 DEF r, W
<1>7. CASE k > E
    <2> DEFINE m == k - E
               f == [age \in 1 .. k |-> age - E]
    <2>1. m \in 0 .. HistorySize /\ E < HistorySize /\ now - k <= b - m
        BY <1>1, <1>2, <1>7
    <2>2. /\ IsFiniteSet(Units(AgeCounts, 1 .. m))
          /\ Cardinality(Units(AgeCounts, 1 .. m)) <= Cardinality(W(b - m))
        BY <2>1 DEF RecentInv, W
    <2>3. \A age \in 1 .. k :
             /\ r[age] \in Nat
             /\ r[age] # 0 => /\ f[age] \in 1 .. m /\ AgeCounts[f[age]] \in Nat
                              /\ r[age] <= AgeCounts[f[age]]
        <3> TAKE age \in 1 .. k
        <3>1. age \in 1 .. HistorySize
            BY <1>1
        <3>2. CASE age <= E
            BY <1>4, <3>1, <3>2
        <3>3. CASE ~(age <= E)
            <4>1. f[age] = age - E /\ age - E \in 1 .. m
                  /\ age - E \in 1 .. HistorySize
                BY <1>1, <1>2, <1>7, <3>3
            <4>2. r[age] = AgeCounts[age - E] /\ AgeCounts[age - E] \in Nat
                BY <1>4, <1>5, <3>1, <3>3, <4>1
            <4> HIDE DEF f, m
            <4>3. AgeCounts[age - E] <= AgeCounts[age - E]
                BY <4>2
            <4> QED BY <4>1, <4>2, <4>3
        <3> QED BY <3>2, <3>3
    <2>4. \A i, j \in 1 .. k : f[i] = f[j] => i = j
        BY <1>1, <1>2
    <2> HIDE DEF f
    <2>5. /\ IsFiniteSet(Units(r, 1 .. k))
          /\ Cardinality(Units(r, 1 .. k))
                <= Cardinality(Units(AgeCounts, 1 .. m))
        <3> HIDE DEF m
        <3> QED BY <2>2, <2>3, <2>4, UnitsMoved
    <2>6. Cardinality(W(b - m)) <= Cardinality(W(now - k))
        <3>1. b - m \in Int /\ now - k \in Int
            BY <1>1, <2>1
        <3>2. Since(b - m) \subseteq Since(now - k)
            BY <1>1, <2>1, <3>1 DEF Since, Seconds
        <3>3. IsFiniteSet(W(now - k))
            BY <1>3, <3>1
        <3> HIDE DEF m
        <3> QED BY <3>2, <3>3, UnitsOfFewer DEF W
    <2>7. /\ Cardinality(Units(r, 1 .. k)) \in Nat
          /\ Cardinality(Units(AgeCounts, 1 .. m)) \in Nat
        BY <2>2, <2>5, FS_CardinalityType
    <2>8. Cardinality(W(b - m)) \in Nat /\ Cardinality(W(now - k)) \in Nat
        BY <1>1, <1>3, <2>1
    <2> HIDE DEF m
    <2>9. Cardinality(Units(r, 1 .. k)) <= Cardinality(W(now - k))
        BY <2>2, <2>5, <2>6, <2>7, <2>8
    <2> QED BY <2>5, <2>9 DEF r, W
<1> QED BY <1>1, <1>2, <1>6, <1>7

\* What a step makes of the counts: a rotation, and perhaps one query more, on
\* both sides of the inequality.
LEMMA RecentKept ==
    ASSUME RecentInv, NEW now \in Seconds, history' = Rotated(now),
           bucket'.second = now, NEW n \in {0, 1},
           bucket'.queries = AgesLater(now)[1] + n,
           \A s \in Seconds :
              SeenQueries'[s] = SeenQueries[s] + (IF s = now THEN n ELSE 0)
    PROVE  /\ IsFiniteSet(Units(SeenQueries', Seconds))
           /\ \A k \in 0 .. HistorySize :
                 /\ IsFiniteSet(Units(AgeCounts', 1 .. k))
                 /\ Cardinality(Units(AgeCounts', 1 .. k))
                       <= Cardinality(Units(SeenQueries', Since(now - k)))
<1> DEFINE r == AgesLater(now)
           a == AgeCounts'
           q == SeenQueries
           p == SeenQueries'
<1>1. HistorySize \in Nat \ {0} /\ now \in Nat
    BY MetricsAssumption DEF Seconds
<1>2. \A s \in Seconds : q[s] \in Nat
    BY DEF RecentInv, BucketsShape, SeenQueries, Count
<1>3. \A s \in Seconds : p[s] = q[s] + (IF s = now THEN n ELSE 0)
    OBVIOUS
<1>4. a[1] = r[1] + n /\ \A age \in 2 .. HistorySize : a[age] = r[age]
    <2>1. a[1] = bucket'.queries
        BY <1>1 DEF AgeCounts
    <2>2. ASSUME NEW age \in 2 .. HistorySize PROVE a[age] = r[age]
        <3>1. age \in 1 .. HistorySize
            BY <1>1
        <3> QED BY <3>1, AgesRotated DEF RecentInv, AgesLater
    <2> QED BY <2>1, <2>2
<1>5. r[1] \in Nat
    <2>1. 1 \in 1 .. HistorySize /\ Added(now) \in Nat
        BY <1>1 DEF Added, Elapsed, RecentInv, BucketsShape, Seconds
    <2>2. CASE 1 <= Added(now)
        BY <2>1, <2>2 DEF AgesLater
    <2>3. CASE ~(1 <= Added(now))
        <3>1. Added(now) = 0 /\ 1 - 0 = 1
            BY <2>1, <2>3
        <3>2. AgeCounts[1] \in Nat
            BY <2>1, AgesAreNumbers DEF RecentInv
        <3> QED BY <2>1, <2>3, <3>1, <3>2 DEF AgesLater
    <2> QED BY <2>2, <2>3
<1>6. \A k \in 0 .. HistorySize :
         /\ IsFiniteSet(Units(r, 1 .. k))
         /\ Cardinality(Units(r, 1 .. k))
               <= Cardinality(Units(q, Since(now - k)))
    BY RotationFits
<1>7. IsFiniteSet(Units(q, Seconds))
    BY DEF RecentInv
<1> HIDE DEF r, a, p, q
<1>8. CASE n = 0
    <2>1. \A s \in Seconds : p[s] = q[s]
        BY <1>2, <1>3, <1>8
    <2>2. \A k \in 0 .. HistorySize : \A age \in 1 .. k : a[age] = r[age]
        <3> TAKE k \in 0 .. HistorySize
        <3> TAKE age \in 1 .. k
        <3>1. age = 1 \/ age \in 2 .. HistorySize
            BY <1>1
        <3> QED BY <1>4, <1>5, <1>8, <3>1
    <2>3. Units(p, Seconds) = Units(q, Seconds)
        BY <2>1, UnitsSame
    <2>4. \A k \in 0 .. HistorySize : Units(p, Since(now - k))
                                      = Units(q, Since(now - k))
        BY <2>1, UnitsSame DEF Since
    <2>5. \A k \in 0 .. HistorySize : Units(a, 1 .. k) = Units(r, 1 .. k)
        BY <2>2, UnitsSame
    <2> QED BY <1>6, <1>7, <2>3, <2>4, <2>5 DEF a, p
<1>9. CASE n = 1
    <2>1. p[now] = q[now] + 1 /\ \A s \in Seconds \ {now} : p[s] = q[s]
        BY <1>2, <1>3, <1>9
    <2>2. IsFiniteSet(Units(p, Seconds))
        BY <1>2, <1>7, <2>1, UnitsPlusOne
    <2>3. ASSUME NEW k \in 0 .. HistorySize
          PROVE  /\ IsFiniteSet(Units(a, 1 .. k))
                 /\ Cardinality(Units(a, 1 .. k))
                       <= Cardinality(Units(p, Since(now - k)))
        <3> DEFINE T == Since(now - k)
        <3>1. T \subseteq Seconds
            BY DEF Since
        <3>2. IsFiniteSet(Units(q, T)) /\ IsFiniteSet(Units(p, T))
            BY <1>7, <2>2, <3>1, UnitsOfFewer
        <3>3. CASE k = 0
            <4>1. 1 .. k = {}
                BY <3>3
            <4>2. Units(a, 1 .. k) = {}
                BY <4>1, UnitsAre
            <4>3. Cardinality({}) = 0 /\ IsFiniteSet({})
                BY FS_EmptySet
            <4>4. Cardinality(Units(p, T)) \in Nat
                BY <3>2, FS_CardinalityType
            <4>5. 0 <= Cardinality(Units(p, T))
                BY <4>4
            <4> QED BY <4>2, <4>3, <4>5
        <3>4. CASE k # 0
            <4>1. 1 \in 1 .. k /\ now \in T
                BY <1>1, <3>4 DEF Since
            <4>2. \A age \in (1 .. k) \ {1} : a[age] = r[age]
                <5> TAKE age \in (1 .. k) \ {1}
                <5>1. age \in 2 .. HistorySize
                    BY <1>1
                <5> QED BY <1>4, <5>1
            <4>3. a[1] = r[1] + 1
                BY <1>4, <1>9
            <4>4. IsFiniteSet(Units(r, 1 .. k))
                BY <1>6
            <4>5. /\ IsFiniteSet(Units(a, 1 .. k))
                  /\ Cardinality(Units(a, 1 .. k))
                        = Cardinality(Units(r, 1 .. k)) + 1
                <5> DEFINE ages == 1 .. k
                <5>1. /\ 1 \in ages /\ IsFiniteSet(Units(r, ages))
                      /\ \A age \in ages \ {1} : a[age] = r[age]
                    BY <4>1, <4>2, <4>4
                <5> HIDE DEF ages
                <5>2. /\ IsFiniteSet(Units(a, ages))
                      /\ Cardinality(Units(a, ages))
                            = Cardinality(Units(r, ages)) + 1
                    BY <1>5, <4>3, <5>1, UnitsPlusOne
                <5> QED BY <5>2 DEF ages
            <4> HIDE DEF T
            <4>6. Cardinality(Units(p, T)) = Cardinality(Units(q, T)) + 1
                BY <1>2, <2>1, <3>1, <3>2, <4>1, UnitsPlusOne
            <4>7. /\ Cardinality(Units(r, 1 .. k)) \in Nat
                  /\ Cardinality(Units(q, T)) \in Nat
                BY <3>2, <4>4, FS_CardinalityType
            <4>8. Cardinality(Units(r, 1 .. k)) <= Cardinality(Units(q, T))
                BY <1>6 DEF T
            <4>9. Cardinality(Units(a, 1 .. k)) <= Cardinality(Units(p, T))
                BY <4>5, <4>6, <4>7, <4>8
            <4> QED BY <4>5, <4>9 DEF T
        <3> QED BY <3>3, <3>4
    <2> QED BY <2>2, <2>3 DEF a, p
<1> QED BY <1>8, <1>9

\* The reading that a step rotates by is of a second that has begun.
LEMMA RotationKeepsRecent ==
    ASSUME RecentInv, ReadingsInv', NEW now \in Seconds, Remember,
           \/ /\ Counted(now, "queries") /\ now = writer.reading
              /\ writer.pc = "query" /\ writer'.pc = "counted"
           \/ /\ Counted(now, "blocked") /\ now = writer.reading
              /\ writer.pc = "blocked" /\ writer'.pc = "ending"
           \/ /\ bucket' = PutAway(now) /\ history' = Rotated(now)
              /\ writer' = writer
    PROVE  RecentInv'
<1> DEFINE c == PutAway(now)
           left == IF Added(now) > 0 THEN NoCount ELSE Counts(bucket)
<1>1. /\ seen \in [Seconds -> Count] /\ Counts(bucket) \in Count
      /\ NoCount \in Count
    BY DEF RecentInv, BucketsShape, NoCount, Count
<1>2. c = BucketAt(now, left) /\ left \in Count
    <2>1. Elapsed(now) > 0 <=> Added(now) > 0
        BY DEF Added
    <2> QED BY <1>1, <2>1 DEF PutAway
<1>3. left.queries = AgesLater(now)[1]
    <2>1. 1 \in 1 .. HistorySize /\ Added(now) \in Nat /\ 1 - 0 = 1
        BY MetricsAssumption
        DEF Added, Elapsed, RecentInv, BucketsShape, Seconds
    <2>2. AgeCounts[1] = bucket.queries
        BY <2>1 DEF AgeCounts
    <2>3. CASE Added(now) > 0
        <3>1. 1 <= Added(now)
            BY <2>1, <2>3
        <3> QED BY <2>1, <2>3, <3>1 DEF AgesLater, NoCount
    <2>4. CASE ~(Added(now) > 0)
        <3>1. Added(now) = 0 /\ ~(1 <= Added(now))
            BY <2>1, <2>4
        <3> QED BY <2>1, <2>2, <2>4, <3>1 DEF AgesLater, Counts
    <2> QED BY <2>3, <2>4
<1> HIDE DEF c, left
<1>4. PICK q \in Nat, b \in Nat : left = [queries |-> q, blocked |-> b]
    BY <1>2 DEF Count
<1>5. c = [second |-> now, queries |-> q, blocked |-> b]
    BY <1>2, <1>4 DEF BucketAt
<1>6. history' = Rotated(now)
    BY DEF Counted
<1>7. /\ history' \in Seq(Count) /\ Len(history') <= HistorySize
    BY <1>6, AgesRotated DEF RecentInv
<1>8. ASSUME NEW s \in Seconds
      PROVE  \E u, v \in Nat : seen[s] = [queries |-> u, blocked |-> v]
    BY <1>1 DEF Count
<1>9. CASE bucket' = c /\ writer' = writer
    <2>1. bucket' = [second |-> now, queries |-> q, blocked |-> b]
        BY <1>5, <1>9
    <2>2. seen' = seen
        BY <1>1, <1>9, NothingCounted
    <2>3. bucket'.queries = AgesLater(now)[1] + 0 /\ bucket'.second = now
        BY <1>3, <1>4, <2>1
    <2>4. \A s \in Seconds : SeenQueries'[s]
                             = SeenQueries[s] + (IF s = now THEN 0 ELSE 0)
        <3> TAKE s \in Seconds
        <3>1. SeenQueries[s] = seen[s].queries /\ SeenQueries'[s] = seen'[s].queries
            BY DEF SeenQueries, Seconds
        <3>2. seen[s].queries \in Nat
            BY <1>1 DEF Count
        <3> QED BY <2>2, <3>1, <3>2
    <2>5. BucketsShape'
        BY <1>1, <1>7, <2>1, <2>2
        DEF BucketsShape, BucketAt, Counts, Count
    <2>6. /\ IsFiniteSet(Units(SeenQueries', Seconds))
          /\ \A k \in 0 .. HistorySize :
                /\ IsFiniteSet(Units(AgeCounts', 1 .. k))
                /\ Cardinality(Units(AgeCounts', 1 .. k))
                      <= Cardinality(Units(SeenQueries', Since(now - k)))
        BY <1>6, <2>3, <2>4, RecentKept
    <2> QED BY <2>3, <2>5, <2>6 DEF RecentInv, Units, Since, Seconds
<1>10. CASE /\ Counted(now, "queries") /\ now = writer.reading
            /\ writer.pc = "query" /\ writer'.pc = "counted"
    <2>1. bucket' = [second |-> now, queries |-> q + 1, blocked |-> b]
        <3>1. bucket' = [c EXCEPT !["queries"] = @ + 1]
            BY <1>10, Zenon DEF Counted, c
        <3> QED BY <1>5, <3>1
    <2>2. /\ seen' = [s \in Seconds |-> seen'[s]]
          /\ \A s \in Seconds \ {now} : seen'[s] = seen[s]
        BY <1>10 DEF Remember
    <2>3. PICK u \in Nat, v \in Nat : seen[now] = [queries |-> u, blocked |-> v]
        BY <1>8
    <2>4. seen'[now] = [queries |-> u + 1, blocked |-> v]
        <3> DEFINE w == seen[now]
        <3>1. seen'[now] = [w EXCEPT !.queries = @ + 1]
            BY <1>10 DEF Remember, Counting
        <3> HIDE DEF w
        <3>2. w = [queries |-> u, blocked |-> v]
            BY <2>3 DEF w
        <3> QED BY <3>1, <3>2
    <2>5. bucket'.queries = AgesLater(now)[1] + 1 /\ bucket'.second = now
        BY <1>3, <1>4, <2>1
    <2>6. \A s \in Seconds : SeenQueries'[s]
                             = SeenQueries[s] + (IF s = now THEN 1 ELSE 0)
        <3> TAKE s \in Seconds
        <3>1. SeenQueries[s] = seen[s].queries /\ SeenQueries'[s] = seen'[s].queries
            BY DEF SeenQueries, Seconds
        <3>2. seen[s].queries \in Nat
            BY <1>1 DEF Count
        <3> QED BY <2>2, <2>3, <2>4, <3>1, <3>2
    <2>7. seen' \in [Seconds -> Count]
        BY <1>1, <2>2, <2>4 DEF Count
    <2>8. BucketsShape'
        BY <1>7, <2>1, <2>7
        DEF BucketsShape, BucketAt, Counts, Count
    <2>9. /\ IsFiniteSet(Units(SeenQueries', Seconds))
          /\ \A k \in 0 .. HistorySize :
                /\ IsFiniteSet(Units(AgeCounts', 1 .. k))
                /\ Cardinality(Units(AgeCounts', 1 .. k))
                      <= Cardinality(Units(SeenQueries', Since(now - k)))
        BY <1>6, <2>5, <2>6, RecentKept
    <2> QED BY <2>5, <2>8, <2>9 DEF RecentInv, Units, Since, Seconds
<1>11. CASE /\ Counted(now, "blocked") /\ now = writer.reading
            /\ writer.pc = "blocked" /\ writer'.pc = "ending"
    <2>1. bucket' = [second |-> now, queries |-> q, blocked |-> b + 1]
        <3>1. bucket' = [c EXCEPT !["blocked"] = @ + 1]
            BY <1>11, Zenon DEF Counted, c
        <3> QED BY <1>5, <3>1
    <2>2. /\ seen' = [s \in Seconds |-> seen'[s]]
          /\ \A s \in Seconds \ {now} : seen'[s] = seen[s]
        BY <1>11 DEF Remember
    <2>3. PICK u \in Nat, v \in Nat : seen[now] = [queries |-> u, blocked |-> v]
        BY <1>8
    <2>4. seen'[now] = [queries |-> u, blocked |-> v + 1]
        <3> DEFINE w == seen[now]
        <3>1. seen'[now] = [w EXCEPT !.blocked = @ + 1]
            BY <1>11 DEF Remember, Counting
        <3> HIDE DEF w
        <3>2. w = [queries |-> u, blocked |-> v]
            BY <2>3 DEF w
        <3> QED BY <3>1, <3>2
    <2>5. bucket'.queries = AgesLater(now)[1] + 0 /\ bucket'.second = now
        BY <1>3, <1>4, <2>1
    <2>6. \A s \in Seconds : SeenQueries'[s]
                             = SeenQueries[s] + (IF s = now THEN 0 ELSE 0)
        <3> TAKE s \in Seconds
        <3>1. SeenQueries[s] = seen[s].queries /\ SeenQueries'[s] = seen'[s].queries
            BY DEF SeenQueries, Seconds
        <3>2. seen[s].queries \in Nat
            BY <1>1 DEF Count
        <3> QED BY <2>2, <2>3, <2>4, <3>1, <3>2
    <2>7. seen' \in [Seconds -> Count]
        BY <1>1, <2>2, <2>4 DEF Count
    <2>8. BucketsShape'
        BY <1>7, <2>1, <2>7
        DEF BucketsShape, BucketAt, Counts, Count
    <2>9. /\ IsFiniteSet(Units(SeenQueries', Seconds))
          /\ \A k \in 0 .. HistorySize :
                /\ IsFiniteSet(Units(AgeCounts', 1 .. k))
                /\ Cardinality(Units(AgeCounts', 1 .. k))
                      <= Cardinality(Units(SeenQueries', Since(now - k)))
        BY <1>6, <2>5, <2>6, RecentKept
    <2> QED BY <2>5, <2>8, <2>9 DEF RecentInv, Units, Since, Seconds
<1> QED BY <1>9, <1>10, <1>11 DEF c

\* Every step keeps the bound, also one of a thread that was overtaken.
LEMMA RecentStep == RecentInv /\ [SeenMetricsNext]_seenMetricsVars => RecentInv'
<1> SUFFICES ASSUME RecentInv, [SeenMetricsNext]_seenMetricsVars
             PROVE  RecentInv'
    OBVIOUS
<1>1. ReadingsInv /\ ReadingsInv'
    BY ReadingsStep DEF RecentInv, SeenMetricsNext, seenMetricsVars
<1>2. ASSUME UNCHANGED <<bucket, history, seen>>
      PROVE  RecentInv'
    <2>1. /\ AgeCounts' = AgeCounts /\ SeenQueries' = SeenQueries
          /\ BucketsShape'
        BY <1>2
        DEF RecentInv, AgeCounts, SeenQueries, BucketsShape, Counts, Seconds
    <2> QED BY <1>1, <1>2, <2>1 DEF RecentInv, Units, Since, Seconds
<1>3. CASE UNCHANGED seenMetricsVars
    BY <1>2, <1>3 DEF seenMetricsVars, metricsVars
<1>4. CASE SeenMetricsNext
    <2>1. Remember /\ seen \in [Seconds -> Count]
        BY <1>4 DEF SeenMetricsNext, RecentInv, BucketsShape
    <2>2. /\ writer.reading \in Seconds
          /\ \A r \in Readers : reader[r].reading \in Seconds
        BY <1>1, MetricsAssumption DEF ReadingsInv, Seconds
    <2>3. CASE CountQuery
        BY <1>1, <2>1, <2>2, <2>3, RotationKeepsRecent
        DEF CountQuery, WriterGoes
    <2>4. CASE CountBlocked
        BY <1>1, <2>1, <2>2, <2>4, RotationKeepsRecent
        DEF CountBlocked, WriterGoes
    <2>5. ASSUME NEW r \in Readers, Snapshot(r)
          PROVE  RecentInv'
        BY <1>1, <2>1, <2>2, <2>5, RotationKeepsRecent DEF Snapshot
    <2>6. CASE \/ BeginQuery \/ BeginBlocked \/ SecondsPass
               \/ \E v \in Latencies : RecordLatency(v)
               \/ \E r \in Readers : BeginSnapshot(r)
        <3>1. UNCHANGED <<bucket, history>>
            BY <2>6 DEF BeginQuery, BeginBlocked, SecondsPass, RecordLatency,
                        BeginSnapshot
        <3>2. seen' = seen
            BY <2>1, <2>6, NothingCounted
            DEF BeginQuery, BeginBlocked, SecondsPass, RecordLatency,
                BeginSnapshot
        <3> QED BY <1>2, <3>1, <3>2
    <2> QED
        BY <1>4, <2>3, <2>4, <2>5, <2>6 DEF SeenMetricsNext, MetricsNext
<1> QED BY <1>3, <1>4

\* What a snapshot shows are the counts of the ages, the oldest first.
LEMMA ShownAges == RecentInv => RecentIsRecent
<1> SUFFICES ASSUME RecentInv PROVE RecentIsRecent
    OBVIOUS
<1> DEFINE all == Append(history, Counts(bucket))
           L == Len(history)
           shown == Newest(all, HistorySize)
           n == Len(shown)
           window == {s \in Seconds : s > bucket.second - HistorySize}
           seenIn == [s \in window |-> seen[s].queries]
           q == RecentQueries
           f == [i \in 1 .. n |-> n + 1 - i]
<1>1. /\ HistorySize \in Nat \ {0} /\ L \in Nat /\ history \in Seq(Count)
      /\ Counts(bucket) \in Count
    BY MetricsAssumption DEF RecentInv, BucketsShape
<1>2. /\ all \in Seq(Count) /\ Len(all) = L + 1
      /\ all[L + 1] = Counts(bucket) /\ \A i \in 1 .. L : all[i] = history[i]
    BY <1>1
<1> HIDE DEF all
<1>3. /\ shown \in Seq(Count) /\ n \in Nat /\ n <= L + 1 /\ n <= HistorySize
      /\ \A i \in 1 .. n : shown[i] = all[L + 1 - n + i]
    <2>1. /\ shown \in Seq(Count)
          /\ n = IF Len(all) <= HistorySize THEN Len(all) ELSE HistorySize
          /\ \A i \in 1 .. n : shown[i] = all[Len(all) - n + i]
        BY <1>1, <1>2, NewestKeeps
    <2> HIDE DEF n, shown, L
    <2> QED BY <1>1, <1>2, <2>1
<1>4. q = [i \in DOMAIN shown |-> shown[i].queries] /\ DOMAIN shown = 1 .. n
    BY <1>3 DEF RecentQueries, all
<1> HIDE DEF shown, n, q
<1>5. ASSUME NEW i \in 1 .. n
      PROVE  /\ f[i] \in 1 .. HistorySize /\ q[i] = AgeCounts[f[i]]
             /\ q[i] \in Nat
    <2>1. /\ i \in Nat /\ i >= 1 /\ i <= n
        BY <1>3
    <2>2. /\ n + 1 - i \in 1 .. HistorySize /\ n + 1 - i <= L + 1
        <3> HIDE DEF L
        <3> QED BY <1>1, <1>3, <2>1
    <2>3. q[i] = all[L + 1 - n + i].queries
        BY <1>3, <1>4
    <2>4. CASE i = n
        <3>1. L + 1 - n + i = L + 1 /\ n + 1 - i = 1
            BY <1>1, <1>3, <2>4
        <3>2. AgeCounts[1] = bucket.queries
            BY <1>1 DEF AgeCounts
        <3>3. Counts(bucket).queries = bucket.queries
            BY DEF Counts
        <3>4. q[i] = AgeCounts[n + 1 - i]
            BY <1>2, <2>3, <3>1, <3>2, <3>3
        <3> QED BY <2>2, <3>4, AgesAreNumbers DEF RecentInv
    <2>5. CASE i # n
        <3>1. /\ L + 1 - n + i \in 1 .. L /\ n + 1 - i # 1
              /\ L + 2 - (n + 1 - i) = L + 1 - n + i
            <4> HIDE DEF L
            <4> QED BY <1>1, <1>3, <2>1, <2>2, <2>5
        <3>2. AgeCounts[n + 1 - i] = history[L + 1 - n + i].queries
            BY <2>2, <3>1 DEF AgeCounts
        <3>3. q[i] = AgeCounts[n + 1 - i]
            BY <1>2, <2>3, <3>1, <3>2
        <3> QED BY <2>2, <3>3, AgesAreNumbers DEF RecentInv
    <2> QED BY <2>4, <2>5
<1>6. \A i, j \in 1 .. n : f[i] = f[j] => i = j
    BY <1>3
<1>7. /\ IsFiniteSet(Units(AgeCounts, 1 .. HistorySize))
      /\ IsFiniteSet(Units(q, 1 .. n))
      /\ Cardinality(Units(q, 1 .. n))
            <= Cardinality(Units(AgeCounts, 1 .. HistorySize))
    <2> DEFINE S == 1 .. n
               T == 1 .. HistorySize
    <2>1. IsFiniteSet(Units(AgeCounts, T))
        BY <1>1 DEF RecentInv
    <2>2. \A i \in S : /\ q[i] \in Nat
                       /\ q[i] # 0 => /\ f[i] \in T /\ AgeCounts[f[i]] \in Nat
                                      /\ q[i] <= AgeCounts[f[i]]
        BY <1>5
    <2>3. \A i, j \in S : f[i] = f[j] => i = j
        BY <1>6
    <2> HIDE DEF f, S, T
    <2>4. /\ IsFiniteSet(Units(q, S))
          /\ Cardinality(Units(q, S)) <= Cardinality(Units(AgeCounts, T))
        BY <2>1, <2>2, <2>3, UnitsMoved
    <2> QED BY <2>1, <2>4 DEF S, T
<1>8. Cardinality(Units(AgeCounts, 1 .. HistorySize))
         <= Cardinality(Units(SeenQueries, Since(bucket.second - HistorySize)))
    <2>1. HistorySize \in 0 .. HistorySize
        BY <1>1
    <2> QED BY <2>1 DEF RecentInv
<1>9. Units(SeenQueries, Since(bucket.second - HistorySize))
         = Units(seenIn, window)
    <2>1. Since(bucket.second - HistorySize) = window
        BY DEF Since
    <2>2. \A s \in window : s \in Seconds /\ seenIn[s] = seen[s].queries
        OBVIOUS
    <2> HIDE DEF window, seenIn
    <2>3. \A s \in window : SeenQueries[s] = seenIn[s]
        BY <2>2 DEF SeenQueries
    <2>4. Units(SeenQueries, window) = Units(seenIn, window)
        BY <2>3, UnitsSame
    <2> QED BY <2>1, <2>4
<1>10. /\ Cardinality(Units(q, 1 .. n)) \in Nat
       /\ Cardinality(Units(AgeCounts, 1 .. HistorySize)) \in Nat
       /\ Cardinality(Units(seenIn, window)) \in Nat
    <2>1. Since(bucket.second - HistorySize) \subseteq Seconds
        BY DEF Since
    <2>2. IsFiniteSet(Units(SeenQueries, Since(bucket.second - HistorySize)))
        BY <2>1, UnitsOfFewer DEF RecentInv
    <2> QED BY <1>7, <1>9, <2>2, FS_CardinalityType
<1>11. DOMAIN q = 1 .. n /\ DOMAIN seenIn = window
    BY <1>4
<1>12. Cardinality(Units(q, 1 .. n)) <= Cardinality(Units(seenIn, window))
    <2> HIDE DEF window, seenIn
    <2> QED BY <1>7, <1>8, <1>9, <1>10
<1>13. Total(q) <= Total(seenIn)
    BY <1>11, <1>12 DEF Total
<1> QED BY <1>13 DEF RecentIsRecent, q

\* metrics.py: what a snapshot shows was counted with readings within the
\* length of the history, in whatever order the threads get the lock.
THEOREM RecentQueriesAreRecent == SeenMetricsSpec => []RecentIsRecent
<1>1. SeenMetricsInit => RecentInv
    <2> SUFFICES ASSUME SeenMetricsInit PROVE RecentInv
        OBVIOUS
    <2>1. ReadingsInv
        BY MetricsAssumption DEF SeenMetricsInit, MetricsInit, ReadingsInv,
                                 Seconds
    <2>2. BucketsShape
        BY MetricsAssumption
        DEF SeenMetricsInit, MetricsInit, BucketsShape, Seconds,
            BucketAt, Counts, NoCount, Count
    <2>3. /\ \A s \in Seconds : SeenQueries[s] = 0
          /\ \A age \in 1 .. HistorySize : AgeCounts[age] = 0
        <3>1. /\ \A s \in Seconds : seen[s] = NoCount
              /\ bucket = BucketAt(0, NoCount) /\ history = <<>>
            BY DEF SeenMetricsInit, MetricsInit
        <3>2. \A s \in Seconds : SeenQueries[s] = 0
            BY <3>1 DEF SeenQueries, NoCount
        <3>3. bucket.queries = 0 /\ Len(history) = 0
            BY <3>1 DEF BucketAt, NoCount
        <3>4. ASSUME NEW age \in 1 .. HistorySize PROVE AgeCounts[age] = 0
            <4>1. age # 1 => ~(age <= Len(history) + 1)
                BY <3>3
            <4> QED BY <3>3, <4>1 DEF AgeCounts
        <3> QED BY <3>2, <3>4
    <2>4. ASSUME NEW c, NEW S, \A x \in S : c[x] = 0
          PROVE  Units(c, S) = {}
        BY <2>4, UnitsAre
    <2>5. /\ \A s \in Int : Units(SeenQueries, Since(s)) = {}
          /\ Units(SeenQueries, Seconds) = {}
        BY <2>3, <2>4 DEF Since
    <2>6. ASSUME NEW k \in 0 .. HistorySize
          PROVE  /\ Units(AgeCounts, 1 .. k) = {}
                 /\ Units(SeenQueries, Since(bucket.second - k)) = {}
        <3>1. \A age \in 1 .. k : AgeCounts[age] = 0
            BY <2>3, MetricsAssumption
        <3>2. bucket.second - k \in Int
            BY <2>2 DEF BucketsShape, Seconds
        <3> QED BY <2>4, <2>5, <3>1, <3>2
    <2>7. IsFiniteSet({}) /\ Cardinality({}) <= Cardinality({})
        BY FS_EmptySet
    <2> QED BY <2>1, <2>2, <2>5, <2>6, <2>7 DEF RecentInv
<1> QED BY <1>1, RecentStep, ShownAges, PTL DEF SeenMetricsSpec

-----------------------------------------------------------------------------
(* The cache: what its operations do to the order of last use.             *)

\* The cache with these entries, in this order.
CacheOf(e, o) == [entry |-> e, order |-> o]

InOrder(o, d) == \E i \in DOMAIN o : o[i] = d

\* The order is that of the uses u.
OldestFirst(o, u) == \A i, j \in DOMAIN o : i < j => u[o[i]] < u[o[j]]

\* The order lists what is cached and nothing else.
Listed(e, o) ==
    /\ e \in [Domains -> Entry \cup {NoEntry}]
    /\ o \in Seq(Domains)
    /\ \A d \in Domains : e[d] # NoEntry <=> InOrder(o, d)

\* None of the entries has more than the time to live left.
NoneBeyond(e, t) == \A d \in Domains : e[d] # NoEntry => e[d].expires <= t + TTL

\* The order of the cache is the order of the uses that lastUse records.
UsedInv ==
    /\ cache = CacheOf(cache.entry, cache.order)
    /\ Listed(cache.entry, cache.order)
    /\ Len(cache.order) <= Capacity
    /\ OldestFirst(cache.order, lastUse)
    /\ lastUse \in [Domains -> Nat] /\ uses \in Nat
    /\ \A d \in Domains : lastUse[d] <= uses

ExpiryInv ==
    /\ hits \in Nat /\ misses \in Nat /\ clock \in Nat
    /\ NoneBeyond(cache.entry, clock)

\* The parts of a cache, and what changing one of them makes of it.
LEMMA CacheFields ==
    ASSUME NEW e, NEW o, NEW x, NEW d
    PROVE  /\ CacheOf(e, o).entry = e /\ CacheOf(e, o).order = o
           /\ [CacheOf(e, o) EXCEPT !.order = x] = CacheOf(e, x)
           /\ [CacheOf(e, o) EXCEPT !.entry[d] = x] =
                 CacheOf([e EXCEPT ![d] = x], o)
BY DEF CacheOf

\* Taking domains out of the order leaves the others in their places.
LEMMA OrderKept ==
    ASSUME NEW o \in Seq(Domains), NEW gone, NEW u,
           OldestFirst(o, u)
    PROVE  LET p == Picked(o, {i \in DOMAIN o : o[i] \notin gone}) IN
           /\ p \in Seq(Domains) /\ Len(p) \in Nat /\ Len(p) <= Len(o)
           /\ \A d : InOrder(p, d) <=> InOrder(o, d) /\ d \notin gone
           /\ OldestFirst(p, u)
           /\ Len(p) = Len(o) => \A d \in gone : ~InOrder(o, d)
<1> DEFINE keep == {i \in DOMAIN o : o[i] \notin gone}
           p == Picked(o, keep)
<1>1. Len(o) \in Nat /\ DOMAIN o = 1 .. Len(o)
  BY LenProperties
<1>2. \A i \in DOMAIN o : i \in keep <=> o[i] \notin gone
  OBVIOUS
<1>3. keep \in SUBSET (1 .. Len(o)) /\ keep \subseteq DOMAIN o
  BY <1>1
<1> HIDE DEF keep
<1>4. /\ p \in Seq(Domains) /\ Len(p) \in Nat /\ Len(p) <= Len(o)
      /\ DOMAIN p = 1 .. Len(p)
      /\ Len(p) = Len(o) => keep = 1 .. Len(o)
      /\ \A k \in DOMAIN p : \E i \in keep : p[k] = o[i]
      /\ \A i \in keep : \E k \in DOMAIN p : p[k] = o[i]
      /\ \A k, l \in DOMAIN p :
            k < l => \E i, j \in keep : i < j /\ p[k] = o[i] /\ p[l] = o[j]
  BY <1>3, PickedInOrder
<1> HIDE DEF p
<1>5. ASSUME NEW d
      PROVE  InOrder(p, d) <=> InOrder(o, d) /\ d \notin gone
  BY <1>2, <1>3, <1>4 DEF InOrder
<1>6. OldestFirst(p, u)
  <2> SUFFICES ASSUME NEW k \in DOMAIN p, NEW l \in DOMAIN p, k < l
               PROVE  u[p[k]] < u[p[l]]
    BY DEF OldestFirst
  <2>1. PICK i \in keep, j \in keep : i < j /\ p[k] = o[i] /\ p[l] = o[j]
    BY <1>4
  <2>2. u[o[i]] < u[o[j]]
    BY <1>3, <2>1 DEF OldestFirst
  <2> QED
    BY <2>1, <2>2
<1>7. ASSUME Len(p) = Len(o), NEW d \in gone
      PROVE  ~InOrder(o, d)
  BY <1>1, <1>2, <1>4, <1>7 DEF InOrder
<1>8. /\ p \in Seq(Domains) /\ Len(p) \in Nat /\ Len(p) <= Len(o)
      /\ \A d : InOrder(p, d) <=> InOrder(o, d) /\ d \notin gone
      /\ OldestFirst(p, u)
      /\ Len(p) = Len(o) => \A d \in gone : ~InOrder(o, d)
  BY <1>4, <1>5, <1>6, <1>7
<1> QED
  BY <1>8, Zenon DEF p, keep

\* The same of one domain.
LEMMA WithoutKeeps ==
    ASSUME NEW o \in Seq(Domains), NEW x, NEW u, OldestFirst(o, u)
    PROVE  /\ Without(o, x) \in Seq(Domains)
           /\ Len(Without(o, x)) \in Nat /\ Len(Without(o, x)) <= Len(o)
           /\ \A d : InOrder(Without(o, x), d) <=> InOrder(o, d) /\ d # x
           /\ OldestFirst(Without(o, x), u)
           /\ InOrder(o, x) => Len(Without(o, x)) < Len(o)
<1> DEFINE keep == {i \in DOMAIN o : o[i] \notin {x}}
<1>1. keep = {i \in DOMAIN o : o[i] # x}
  OBVIOUS
<1>2. Without(o, x) = Picked(o, keep)
  BY <1>1 DEF Without
<1>3. Len(o) \in Nat
  BY LenProperties
<1>4. LET p == Picked(o, keep) IN
      /\ p \in Seq(Domains) /\ Len(p) \in Nat /\ Len(p) <= Len(o)
      /\ \A d : InOrder(p, d) <=> InOrder(o, d) /\ d \notin {x}
      /\ OldestFirst(p, u)
      /\ Len(p) = Len(o) => \A d \in {x} : ~InOrder(o, d)
  BY OrderKept
<1> HIDE DEF keep
<1> QED
  BY <1>2, <1>3, <1>4

\* Taking an entry out keeps the order that of the entries.
LEMMA DeletedListed ==
    ASSUME NEW e, NEW o, NEW x \in Domains, NEW u,
           Listed(e, o), OldestFirst(o, u)
    PROVE  LET f == [e EXCEPT ![x] = NoEntry]
               p == Without(o, x)
           IN  /\ Deleted(CacheOf(e, o), x) = CacheOf(f, p)
               /\ Listed(f, p) /\ OldestFirst(p, u)
               /\ Len(p) \in Nat /\ Len(p) <= Len(o)
               /\ InOrder(o, x) => Len(p) < Len(o)
               /\ \A t : NoneBeyond(e, t) => NoneBeyond(f, t)
<1> DEFINE f == [e EXCEPT ![x] = NoEntry]
           p == Without(o, x)
<1>1. o \in Seq(Domains) /\ e \in [Domains -> Entry \cup {NoEntry}]
  BY DEF Listed
<1>2. /\ p \in Seq(Domains) /\ Len(p) \in Nat /\ Len(p) <= Len(o)
      /\ \A d : InOrder(p, d) <=> InOrder(o, d) /\ d # x
      /\ OldestFirst(p, u)
      /\ InOrder(o, x) => Len(p) < Len(o)
  BY <1>1, WithoutKeeps
<1>3. /\ f \in [Domains -> Entry \cup {NoEntry}]
      /\ \A d \in Domains : f[d] = IF d = x THEN NoEntry ELSE e[d]
  BY <1>1
<1>4. Deleted(CacheOf(e, o), x) = CacheOf(f, p)
  BY DEF Deleted, CacheOf
<1> HIDE DEF f, p
<1>5. Listed(f, p)
  BY <1>2, <1>3 DEF Listed
<1>6. ASSUME NEW t, NoneBeyond(e, t)
      PROVE  NoneBeyond(f, t)
  BY <1>3, <1>6 DEF NoneBeyond
<1>7. /\ Deleted(CacheOf(e, o), x) = CacheOf(f, p)
      /\ Listed(f, p) /\ OldestFirst(p, u)
      /\ Len(p) \in Nat /\ Len(p) <= Len(o)
      /\ InOrder(o, x) => Len(p) < Len(o)
      /\ \A t : NoneBeyond(e, t) => NoneBeyond(f, t)
  BY <1>2, <1>4, <1>5, <1>6
<1> QED
  BY <1>7, Zenon DEF f, p

\* A use puts a domain at the end, where its stamp, the highest, belongs.
LEMMA MovedToTheEnd ==
    ASSUME NEW o \in Seq(Domains), NEW x \in Domains,
           NEW u \in [Domains -> Nat], NEW n \in Nat,
           \A d \in Domains : u[d] <= n, OldestFirst(o, u)
    PROVE  LET a == Append(Without(o, x), x)
               v == [u EXCEPT ![x] = n + 1]
           IN  /\ a \in Seq(Domains) /\ a # <<>> /\ Len(a) \in Nat
               /\ \A d : InOrder(a, d) <=> InOrder(o, d) \/ d = x
               /\ OldestFirst(a, v)
               /\ Len(a) <= Len(o) + 1
               /\ InOrder(o, x) => Len(a) <= Len(o)
<1> DEFINE p == Without(o, x)
           a == Append(p, x)
           v == [u EXCEPT ![x] = n + 1]
<1>1. /\ p \in Seq(Domains) /\ Len(p) \in Nat /\ Len(p) <= Len(o)
      /\ \A d : InOrder(p, d) <=> InOrder(o, d) /\ d # x
      /\ OldestFirst(p, u)
      /\ InOrder(o, x) => Len(p) < Len(o)
  BY WithoutKeeps
<1>2. Len(o) \in Nat
  BY LenProperties
<1> HIDE DEF p
<1>3. /\ a \in Seq(Domains) /\ a # <<>> /\ Len(a) = Len(p) + 1
      /\ DOMAIN a = 1 .. Len(p) + 1 /\ DOMAIN p = 1 .. Len(p)
      /\ \A i \in 1 .. Len(p) : a[i] = p[i]
      /\ a[Len(p) + 1] = x
  BY <1>1, AppendProperties, LenProperties
<1>4. \A d \in Domains : v[d] = IF d = x THEN n + 1 ELSE u[d]
  OBVIOUS
<1> HIDE DEF a, v
<1>5. ASSUME NEW i \in 1 .. Len(p)
      PROVE  p[i] \in Domains /\ p[i] # x /\ a[i] = p[i]
  <2>1. p[i] \in Domains
    BY <1>1, ElementOfSeq
  <2>2. InOrder(p, p[i])
    BY <1>3 DEF InOrder
  <2> QED
    BY <1>1, <1>3, <2>1, <2>2
<1>6. ASSUME NEW i \in DOMAIN a
      PROVE  i \in 1 .. Len(p) \/ i = Len(p) + 1
  BY <1>1, <1>3
<1>7. ASSUME NEW d
      PROVE  InOrder(a, d) <=> InOrder(o, d) \/ d = x
  <2>1. InOrder(a, d) <=> InOrder(p, d) \/ d = x
    <3>1. ASSUME InOrder(a, d)
          PROVE  InOrder(p, d) \/ d = x
      BY <1>3, <1>5, <1>6, <3>1 DEF InOrder
    <3>2. ASSUME InOrder(p, d)
          PROVE  InOrder(a, d)
      <4>1. PICK i \in 1 .. Len(p) : p[i] = d
        BY <1>3, <3>2 DEF InOrder
      <4>2. i \in DOMAIN a /\ a[i] = d
        BY <1>1, <1>3, <4>1
      <4> QED
        BY <4>2 DEF InOrder
    <3>3. ASSUME d = x
          PROVE  InOrder(a, d)
      <4>1. Len(p) + 1 \in DOMAIN a
        BY <1>1, <1>3
      <4> QED
        BY <1>3, <3>3, <4>1 DEF InOrder
    <3> QED
      BY <3>1, <3>2, <3>3
  <2> QED
    BY <1>1, <2>1
<1>8. OldestFirst(a, v)
  <2> SUFFICES ASSUME NEW k \in DOMAIN a, NEW l \in DOMAIN a, k < l
               PROVE  v[a[k]] < v[a[l]]
    BY DEF OldestFirst
  <2>1. k \in 1 .. Len(p)
    BY <1>1, <1>3
  <2>2. v[a[k]] = u[p[k]] /\ p[k] \in Domains
    BY <1>4, <1>5, <2>1
  <2>3. CASE l \in 1 .. Len(p)
    <3>1. v[a[l]] = u[p[l]]
      BY <1>4, <1>5, <2>3
    <3>2. u[p[k]] < u[p[l]]
      BY <1>1, <1>3, <2>1, <2>3 DEF OldestFirst
    <3> QED
      BY <2>2, <3>1, <3>2
  <2>4. CASE l = Len(p) + 1
    <3>1. v[a[l]] = n + 1
      BY <1>3, <1>4, <2>4
    <3>2. u[p[k]] \in Nat /\ u[p[k]] <= n
      BY <2>2
    <3> QED
      BY <2>2, <3>1, <3>2
  <2> QED
    BY <1>6, <2>3, <2>4
<1>9. /\ a \in Seq(Domains) /\ a # <<>> /\ Len(a) \in Nat
      /\ \A d : InOrder(a, d) <=> InOrder(o, d) \/ d = x
      /\ OldestFirst(a, v)
      /\ Len(a) <= Len(o) + 1
      /\ InOrder(o, x) => Len(a) <= Len(o)
  BY <1>1, <1>2, <1>3, <1>7, <1>8
<1> QED
  BY <1>9, Zenon DEF a, v, p

\* Trimming brings a cache with one entry too many back into its bound.
LEMMA TrimmedFits ==
    ASSUME NEW e, NEW o, NEW u, Listed(e, o), OldestFirst(o, u),
           o # <<>>, Len(o) <= Capacity + 1
    PROVE  \E f, p : /\ Trimmed(CacheOf(e, o)) = CacheOf(f, p)
                     /\ Listed(f, p) /\ OldestFirst(p, u)
                     /\ Len(p) <= Capacity
                     /\ \A t : NoneBeyond(e, t) => NoneBeyond(f, t)
<1>1. Capacity \in Nat /\ o \in Seq(Domains) /\ Len(o) \in Nat
  BY CacheAssumption, LenProperties DEF Listed
<1>2. CacheOf(e, o).order = o
  BY CacheFields
<1>3. CASE Len(o) > Capacity
  <2>1. Head(o) \in Domains /\ Head(o) = o[1] /\ 1 \in DOMAIN o
    BY <1>1, <1>3, HeadTailProperties, LenProperties
  <2>2. InOrder(o, Head(o))
    BY <2>1 DEF InOrder
  <2> DEFINE x == Head(o)
             f == [e EXCEPT ![x] = NoEntry]
             p == Without(o, x)
  <2> HIDE DEF x
  <2>3. /\ Deleted(CacheOf(e, o), x) = CacheOf(f, p)
        /\ Listed(f, p) /\ OldestFirst(p, u)
        /\ Len(p) \in Nat /\ Len(p) <= Len(o)
        /\ InOrder(o, x) => Len(p) < Len(o)
        /\ \A t : NoneBeyond(e, t) => NoneBeyond(f, t)
    BY <2>1, DeletedListed DEF x
  <2> HIDE DEF f, p
  <2>4. Len(p) <= Capacity
    BY <1>1, <2>2, <2>3 DEF x
  <2>5. Trimmed(CacheOf(e, o)) = CacheOf(f, p)
    BY <1>2, <1>3, <2>3 DEF Trimmed, x
  <2> QED
    BY <2>3, <2>4, <2>5
<1>4. CASE ~(Len(o) > Capacity)
  <2>1. Trimmed(CacheOf(e, o)) = CacheOf(e, o) /\ Len(o) <= Capacity
    BY <1>1, <1>2, <1>4 DEF Trimmed
  <2> QED
    BY <2>1
<1> QED
  BY <1>3, <1>4

\* What an operation has to leave behind.
LEMMA LeavesListed ==
    ASSUME NEW e, NEW o, cache' = CacheOf(e, o), Listed(e, o),
           Len(o) <= Capacity, OldestFirst(o, lastUse'),
           lastUse' \in [Domains -> Nat], uses' \in Nat,
           \A d \in Domains : lastUse'[d] <= uses',
           hits' \in Nat, misses' \in Nat, clock' \in Nat,
           NoneBeyond(e, clock')
    PROVE  UsedInv' /\ ExpiryInv'
<1>1. cache'.entry = e /\ cache'.order = o
  BY CacheFields
<1> QED
  BY <1>1, Zenon DEF UsedInv, ExpiryInv

\* The stamps of a use.
LEMMA StampsOfUse ==
    ASSUME UsedInv, NEW x \in Domains, Used(x)
    PROVE  /\ lastUse' = [lastUse EXCEPT ![x] = uses + 1]
           /\ lastUse' \in [Domains -> Nat] /\ uses' \in Nat
           /\ \A d \in Domains : lastUse'[d] <= uses'
<1>1. /\ lastUse \in [Domains -> Nat] /\ uses \in Nat
      /\ \A d \in Domains : lastUse[d] <= uses
      /\ lastUse' = [lastUse EXCEPT ![x] = uses + 1] /\ uses' = uses + 1
  BY DEF UsedInv, Used
<1>2. ASSUME NEW d \in Domains
      PROVE  lastUse'[d] <= uses'
  <2>1. lastUse'[d] = (IF d = x THEN uses + 1 ELSE lastUse[d])
    BY <1>1
  <2>2. lastUse[d] \in Nat /\ lastUse[d] <= uses
    BY <1>1
  <2> QED
    BY <1>1, <2>1, <2>2
<1> QED
  BY <1>1, <1>2

\* What the invariant says of the entries e and their order o.
LEMMA CacheIs ==
    ASSUME UsedInv, ExpiryInv
    PROVE  \E e, o : /\ cache = CacheOf(e, o) /\ Listed(e, o)
                     /\ cache.entry = e /\ cache.order = o
                     /\ Len(o) \in Nat /\ Len(o) <= Capacity
                     /\ o \in Seq(Domains) /\ OldestFirst(o, lastUse)
                     /\ e \in [Domains -> Entry \cup {NoEntry}]
                     /\ NoneBeyond(e, clock)
<1>1. Len(cache.order) \in Nat
  BY LenProperties DEF UsedInv, Listed
<1> QED
  BY <1>1, Zenon DEF UsedInv, ExpiryInv, Listed

\* What a use makes of the cache.
LEMMA MovedIs ==
    ASSUME NEW e, NEW o, NEW x
    PROVE  MovedToEnd(CacheOf(e, o), x) =
           CacheOf(e, Append(Without(o, x), x))
BY DEF MovedToEnd, CacheOf

LEMMA HitStep ==
    ASSUME UsedInv, ExpiryInv, NEW x \in Domains, LookupHits(x), Used(x)
    PROVE  UsedInv' /\ ExpiryInv'
<1>1. PICK e, o : /\ cache = CacheOf(e, o) /\ Listed(e, o)
                  /\ cache.entry = e /\ cache.order = o
                  /\ Len(o) \in Nat /\ Len(o) <= Capacity
                  /\ o \in Seq(Domains) /\ OldestFirst(o, lastUse)
                  /\ e \in [Domains -> Entry \cup {NoEntry}]
                  /\ NoneBeyond(e, clock)
  BY CacheIs, Zenon
<1> DEFINE a == Append(Without(o, x), x)
           v == [lastUse EXCEPT ![x] = uses + 1]
<1>2. /\ lastUse' = v
      /\ lastUse' \in [Domains -> Nat] /\ uses' \in Nat
      /\ \A d \in Domains : lastUse'[d] <= uses'
  BY StampsOfUse
<1>3. /\ lastUse \in [Domains -> Nat] /\ uses \in Nat
      /\ \A d \in Domains : lastUse[d] <= uses
  BY DEF UsedInv
<1>4. /\ a \in Seq(Domains) /\ a # <<>> /\ Len(a) \in Nat
      /\ \A d : InOrder(a, d) <=> InOrder(o, d) \/ d = x
      /\ OldestFirst(a, v)
      /\ Len(a) <= Len(o) + 1
      /\ InOrder(o, x) => Len(a) <= Len(o)
  BY <1>1, <1>3, MovedToTheEnd
<1>5. e[x] # NoEntry
  BY <1>1 DEF LookupHits, IsHit
<1>6. cache' = CacheOf(e, a)
  <2>1. cache' = MovedToEnd(CacheOf(e, o), x)
    BY <1>1 DEF LookupHits
  <2> QED
    BY <2>1, MovedIs
<1> HIDE DEF a, v
<1>7. InOrder(o, x)
  BY <1>1, <1>5 DEF Listed
<1>8. Listed(e, a)
  BY <1>1, <1>4, <1>7 DEF Listed
<1>9. Len(a) <= Capacity
  BY <1>1, <1>4, <1>7, CacheAssumption
<1>10. hits' \in Nat /\ misses' \in Nat /\ clock' \in Nat /\ clock' = clock
  BY DEF ExpiryInv, LookupHits
<1>11. NoneBeyond(e, clock')
  BY <1>1, <1>10, Zenon
<1>12. OldestFirst(a, lastUse')
  BY <1>2, <1>4
<1> QED
  BY <1>2, <1>6, <1>8, <1>9, <1>10, <1>11, <1>12, LeavesListed, Zenon

LEMMA MissStep ==
    ASSUME UsedInv, ExpiryInv, NEW x \in Domains, LookupMisses(x),
           UNCHANGED <<lastUse, uses>>
    PROVE  UsedInv' /\ ExpiryInv'
<1>1. PICK e, o : /\ cache = CacheOf(e, o) /\ Listed(e, o)
                  /\ cache.entry = e /\ cache.order = o
                  /\ Len(o) \in Nat /\ Len(o) <= Capacity
                  /\ o \in Seq(Domains) /\ OldestFirst(o, lastUse)
                  /\ e \in [Domains -> Entry \cup {NoEntry}]
                  /\ NoneBeyond(e, clock)
  BY CacheIs, Zenon
<1>2. /\ lastUse' \in [Domains -> Nat] /\ uses' \in Nat /\ lastUse' = lastUse
      /\ \A d \in Domains : lastUse'[d] <= uses'
  BY DEF UsedInv
<1>3. hits' \in Nat /\ misses' \in Nat /\ clock' \in Nat /\ clock' = clock
  BY DEF ExpiryInv, LookupMisses
<1>4. CASE e[x] = NoEntry
  <2>1. cache' = CacheOf(e, o)
    BY <1>1, <1>4 DEF LookupMisses
  <2>2. NoneBeyond(e, clock') /\ OldestFirst(o, lastUse')
    BY <1>1, <1>2, <1>3, Zenon
  <2> QED
    BY <1>1, <1>2, <1>3, <2>1, <2>2, LeavesListed, Zenon
<1>5. CASE e[x] # NoEntry
  <2> DEFINE f == [e EXCEPT ![x] = NoEntry]
             p == Without(o, x)
  <2>1. cache' = Deleted(CacheOf(e, o), x)
    BY <1>1, <1>5, Zenon DEF LookupMisses
  <2>2. /\ Deleted(CacheOf(e, o), x) = CacheOf(f, p)
        /\ Listed(f, p) /\ OldestFirst(p, lastUse)
        /\ Len(p) \in Nat /\ Len(p) <= Len(o)
        /\ InOrder(o, x) => Len(p) < Len(o)
        /\ \A t : NoneBeyond(e, t) => NoneBeyond(f, t)
    BY <1>1, DeletedListed
  <2> HIDE DEF f, p
  <2>3. Len(p) <= Capacity
    BY <1>1, <2>2, CacheAssumption
  <2>4. NoneBeyond(f, clock') /\ OldestFirst(p, lastUse')
    BY <1>1, <1>2, <1>3, <2>2, Zenon
  <2>5. cache' = CacheOf(f, p)
    BY <2>1, <2>2, Zenon
  <2> QED
    BY <1>2, <1>3, <2>2, <2>3, <2>4, <2>5, LeavesListed, Zenon
<1> QED
  BY <1>4, <1>5

\* What a store makes of the cache before it is trimmed.
LEMMA StoredIs ==
    ASSUME NEW e, NEW o, NEW x, NEW r, NEW t
    PROVE  Stored(CacheOf(e, o), x, r, t) =
           Trimmed(CacheOf([e EXCEPT ![x] =
                               [response |-> r, expires |-> t + TTL]],
                           Append(Without(o, x), x)))
<1> DEFINE y == [response |-> r, expires |-> t + TTL]
           f == [e EXCEPT ![x] = y]
<1>1. [CacheOf(e, o) EXCEPT !.entry[x] = y] = CacheOf(f, o)
  <2> HIDE DEF y
  <2>1. [CacheOf(e, o) EXCEPT !.entry[x] = y] =
           CacheOf([e EXCEPT ![x] = y], o)
    BY DEF CacheOf
  <2> QED
    BY <2>1, Zenon
<1>2. Stored(CacheOf(e, o), x, r, t) =
         Trimmed(MovedToEnd([CacheOf(e, o) EXCEPT !.entry[x] = y], x))
  BY DEF Stored
<1> HIDE DEF f
<1>3. MovedToEnd(CacheOf(f, o), x) = CacheOf(f, Append(Without(o, x), x))
  BY MovedIs
<1>4. Stored(CacheOf(e, o), x, r, t) = Trimmed(MovedToEnd(CacheOf(f, o), x))
  <2> HIDE DEF y
  <2> QED
    BY <1>1, <1>2, Zenon
<1> QED
  BY <1>3, <1>4, Zenon DEF f, y

LEMMA StoreStep ==
    ASSUME UsedInv, ExpiryInv, NEW x \in Domains, NEW r \in Responses,
           Store(x, r), Used(x)
    PROVE  UsedInv' /\ ExpiryInv'
<1>1. PICK e, o : /\ cache = CacheOf(e, o) /\ Listed(e, o)
                  /\ cache.entry = e /\ cache.order = o
                  /\ Len(o) \in Nat /\ Len(o) <= Capacity
                  /\ o \in Seq(Domains) /\ OldestFirst(o, lastUse)
                  /\ e \in [Domains -> Entry \cup {NoEntry}]
                  /\ NoneBeyond(e, clock)
  BY CacheIs, Zenon
<1> DEFINE y == [response |-> r, expires |-> clock + TTL]
           f == [e EXCEPT ![x] = y]
           a == Append(Without(o, x), x)
           v == [lastUse EXCEPT ![x] = uses + 1]
<1>2. /\ lastUse' = v
      /\ lastUse' \in [Domains -> Nat] /\ uses' \in Nat
      /\ \A d \in Domains : lastUse'[d] <= uses'
  BY StampsOfUse
<1>3. /\ lastUse \in [Domains -> Nat] /\ uses \in Nat
      /\ \A d \in Domains : lastUse[d] <= uses
  BY DEF UsedInv
<1>4. /\ a \in Seq(Domains) /\ a # <<>> /\ Len(a) \in Nat
      /\ \A d : InOrder(a, d) <=> InOrder(o, d) \/ d = x
      /\ OldestFirst(a, v)
      /\ Len(a) <= Len(o) + 1
      /\ InOrder(o, x) => Len(a) <= Len(o)
  BY <1>1, <1>3, MovedToTheEnd
<1>5. hits' \in Nat /\ misses' \in Nat /\ clock' \in Nat /\ clock' = clock
      /\ clock \in Nat
  BY DEF ExpiryInv, Store
<1>6. cache' = Trimmed(CacheOf(f, a))
  <2>1. cache' = Stored(CacheOf(e, o), x, r, clock)
    BY <1>1 DEF Store
  <2>2. Stored(CacheOf(e, o), x, r, clock) = Trimmed(CacheOf(f, a))
    BY StoredIs
  <2> QED
    BY <2>1, <2>2, Zenon
<1>7. y \in Entry /\ y # NoEntry /\ y.expires = clock + TTL /\ TTL \in Nat
  <2>1. y \in Entry
    BY <1>5, CacheAssumption DEF Entry
  <2> QED
    BY <2>1, CacheAssumption DEF Entry
<1> HIDE DEF y
<1>8. /\ f \in [Domains -> Entry \cup {NoEntry}]
      /\ \A d \in Domains : f[d] = IF d = x THEN y ELSE e[d]
  BY <1>1, <1>7
<1> HIDE DEF f, a, v
<1>9. Listed(f, a)
  BY <1>1, <1>4, <1>7, <1>8 DEF Listed
<1>10. NoneBeyond(f, clock)
  BY <1>1, <1>5, <1>7, <1>8 DEF NoneBeyond
<1>11. Len(a) <= Capacity + 1
  BY <1>1, <1>4, CacheAssumption
<1>12. PICK g, p : /\ Trimmed(CacheOf(f, a)) = CacheOf(g, p)
                   /\ Listed(g, p) /\ OldestFirst(p, v)
                   /\ Len(p) <= Capacity
                   /\ \A t : NoneBeyond(f, t) => NoneBeyond(g, t)
  BY <1>4, <1>9, <1>11, TrimmedFits
<1>13. cache' = CacheOf(g, p)
  BY <1>6, <1>12, Zenon
<1>14. NoneBeyond(g, clock') /\ OldestFirst(p, lastUse')
  BY <1>2, <1>5, <1>10, <1>12, Zenon
<1> QED
  BY <1>2, <1>5, <1>12, <1>13, <1>14, LeavesListed, Zenon

LEMMA RemoveExpiredStep ==
    ASSUME UsedInv, ExpiryInv, RemoveExpired, UNCHANGED <<lastUse, uses>>
    PROVE  UsedInv' /\ ExpiryInv'
<1>1. PICK e, o : /\ cache = CacheOf(e, o) /\ Listed(e, o)
                  /\ cache.entry = e /\ cache.order = o
                  /\ Len(o) \in Nat /\ Len(o) <= Capacity
                  /\ o \in Seq(Domains) /\ OldestFirst(o, lastUse)
                  /\ e \in [Domains -> Entry \cup {NoEntry}]
                  /\ NoneBeyond(e, clock)
  BY CacheIs, Zenon
<1> DEFINE old == {d \in Cached(cache) : Stale(cache.entry[d], clock)}
           f == [d \in Domains |-> IF d \in old THEN NoEntry ELSE e[d]]
           p == Picked(o, {i \in DOMAIN o : o[i] \notin old})
<1>2. cache' = CacheOf(f, p)
  BY <1>1 DEF RemoveExpired, CacheOf
<1>3. /\ lastUse' \in [Domains -> Nat] /\ uses' \in Nat /\ lastUse' = lastUse
      /\ \A d \in Domains : lastUse'[d] <= uses'
  BY DEF UsedInv
<1>4. hits' \in Nat /\ misses' \in Nat /\ clock' \in Nat /\ clock' = clock
  BY DEF ExpiryInv, RemoveExpired
<1> HIDE DEF old
<1>5. /\ p \in Seq(Domains) /\ Len(p) \in Nat /\ Len(p) <= Len(o)
      /\ \A d : InOrder(p, d) <=> InOrder(o, d) /\ d \notin old
      /\ OldestFirst(p, lastUse)
  BY <1>1, OrderKept
<1>6. /\ f \in [Domains -> Entry \cup {NoEntry}]
      /\ \A d \in Domains : f[d] = IF d \in old THEN NoEntry ELSE e[d]
  BY <1>1
<1> HIDE DEF f, p
<1>7. Listed(f, p)
  BY <1>1, <1>5, <1>6 DEF Listed
<1>8. Len(p) <= Capacity
  BY <1>1, <1>5, CacheAssumption
<1>9. NoneBeyond(f, clock)
  BY <1>1, <1>6 DEF NoneBeyond
<1>10. NoneBeyond(f, clock') /\ OldestFirst(p, lastUse')
  BY <1>3, <1>4, <1>5, <1>9, Zenon
<1> QED
  BY <1>2, <1>3, <1>4, <1>7, <1>8, <1>10, LeavesListed, Zenon

LEMMA EmptyListed ==
    ASSUME NEW u, NEW t
    PROVE  /\ EmptyCache = CacheOf([d \in Domains |-> NoEntry], <<>>)
           /\ Listed([d \in Domains |-> NoEntry], <<>>)
           /\ OldestFirst(<<>>, u) /\ Len(<<>>) <= Capacity
           /\ NoneBeyond([d \in Domains |-> NoEntry], t)
<1>1. <<>> \in Seq(Domains) /\ Len(<<>>) = 0 /\ DOMAIN <<>> = {}
  BY EmptySeq
<1>2. EmptyCache = CacheOf([d \in Domains |-> NoEntry], <<>>)
  BY DEF EmptyCache, CacheOf
<1>3. Listed([d \in Domains |-> NoEntry], <<>>)
  BY <1>1 DEF Listed, InOrder
<1>4. OldestFirst(<<>>, u) /\ Len(<<>>) <= Capacity
  BY <1>1, CacheAssumption DEF OldestFirst
<1>5. NoneBeyond([d \in Domains |-> NoEntry], t)
  BY DEF NoneBeyond
<1> QED
  BY <1>2, <1>3, <1>4, <1>5

LEMMA ClearStep ==
    ASSUME UsedInv, ExpiryInv, ClearCache, UNCHANGED <<lastUse, uses>>
    PROVE  UsedInv' /\ ExpiryInv'
<1> DEFINE e == [d \in Domains |-> NoEntry]
<1>1. /\ lastUse' \in [Domains -> Nat] /\ uses' \in Nat
      /\ \A d \in Domains : lastUse'[d] <= uses'
  BY DEF UsedInv
<1>2. hits' \in Nat /\ misses' \in Nat /\ clock' \in Nat
  BY DEF ExpiryInv, ClearCache
<1>3. /\ cache' = CacheOf(e, <<>>) /\ Listed(e, <<>>)
      /\ OldestFirst(<<>>, lastUse') /\ Len(<<>>) <= Capacity
      /\ NoneBeyond(e, clock')
  BY EmptyListed, Zenon DEF ClearCache
<1> HIDE DEF e
<1> QED
  BY <1>1, <1>2, <1>3, LeavesListed, Zenon

\* Time makes no entry last longer.
LEMMA TickStep ==
    ASSUME UsedInv, ExpiryInv, CacheTick, UNCHANGED <<lastUse, uses>>
    PROVE  UsedInv' /\ ExpiryInv'
<1>1. PICK e, o : /\ cache = CacheOf(e, o) /\ Listed(e, o)
                  /\ cache.entry = e /\ cache.order = o
                  /\ Len(o) \in Nat /\ Len(o) <= Capacity
                  /\ o \in Seq(Domains) /\ OldestFirst(o, lastUse)
                  /\ e \in [Domains -> Entry \cup {NoEntry}]
                  /\ NoneBeyond(e, clock)
  BY CacheIs, Zenon
<1>2. /\ lastUse' \in [Domains -> Nat] /\ uses' \in Nat /\ lastUse' = lastUse
      /\ \A d \in Domains : lastUse'[d] <= uses'
  BY DEF UsedInv
<1>3. /\ hits' \in Nat /\ misses' \in Nat /\ clock' \in Nat
      /\ clock \in Nat /\ clock' = clock + 1 /\ TTL \in Nat
  BY CacheAssumption DEF ExpiryInv, CacheTick
<1>4. NoneBeyond(e, clock')
  <2> SUFFICES ASSUME NEW d \in Domains, e[d] # NoEntry
               PROVE  e[d].expires <= clock' + TTL
    BY DEF NoneBeyond
  <2>1. e[d] \in Entry /\ e[d].expires <= clock + TTL
    BY <1>1 DEF NoneBeyond
  <2>2. e[d].expires \in Nat
    BY <2>1 DEF Entry
  <2> QED
    BY <1>3, <2>1, <2>2
<1>5. cache' = CacheOf(e, o) /\ OldestFirst(o, lastUse')
  BY <1>1, <1>2, Zenon DEF CacheTick
<1> QED
  BY <1>1, <1>2, <1>3, <1>4, <1>5, LeavesListed, Zenon

LEMMA UsedStep ==
    UsedInv /\ ExpiryInv /\ [UsedCacheNext]_usedCacheVars
        => UsedInv' /\ ExpiryInv'
<1> SUFFICES ASSUME UsedInv, ExpiryInv, [UsedCacheNext]_usedCacheVars
             PROVE  UsedInv' /\ ExpiryInv'
  OBVIOUS
<1>1. CASE \E d \in Domains : LookupHits(d) /\ Used(d)
  BY <1>1, HitStep, Zenon
<1>2. CASE \E d \in Domains :
              misses < MaxUses /\ LookupMisses(d) /\ UNCHANGED <<lastUse, uses>>
  BY <1>2, MissStep, Zenon
<1>3. CASE \E d \in Domains, r \in Responses : Store(d, r) /\ Used(d)
  BY <1>3, StoreStep, Zenon
<1>4. CASE ClearCache /\ UNCHANGED <<lastUse, uses>>
  BY <1>4, ClearStep, Zenon
<1>5. CASE RemoveExpired /\ UNCHANGED <<lastUse, uses>>
  BY <1>5, RemoveExpiredStep, Zenon
<1>6. CASE CacheTick /\ UNCHANGED <<lastUse, uses>>
  BY <1>6, TickStep, Zenon
<1>7. CASE UNCHANGED usedCacheVars
  BY <1>7, Zenon
     DEF usedCacheVars, cacheVars, UsedInv, ExpiryInv
<1> QED
  BY <1>1, <1>2, <1>3, <1>4, <1>5, <1>6, <1>7, Zenon DEF UsedCacheNext

\* The order lists every cached domain once.
LEMMA OncePerDomain ==
    ASSUME UsedInv
    PROVE  /\ \A i, j \in DOMAIN cache.order :
                 cache.order[i] = cache.order[j] => i = j
           /\ Cached(cache) = {cache.order[i] : i \in DOMAIN cache.order}
           /\ Cardinality(Cached(cache)) = Len(cache.order)
<1> DEFINE o == cache.order
<1>1. /\ o \in Seq(Domains) /\ OldestFirst(o, lastUse)
      /\ lastUse \in [Domains -> Nat]
      /\ \A d \in Domains : cache.entry[d] # NoEntry <=> InOrder(o, d)
  BY DEF UsedInv, Listed
<1> HIDE DEF o
<1>2. /\ Len(o) \in Nat /\ DOMAIN o = 1 .. Len(o)
      /\ \A i \in DOMAIN o : o[i] \in Domains
  BY <1>1, LenProperties, ElementOfSeq
<1>3. ASSUME NEW i \in DOMAIN o, NEW j \in DOMAIN o, o[i] = o[j]
      PROVE  i = j
  <2>1. i \in Nat /\ j \in Nat /\ lastUse[o[i]] \in Nat
    BY <1>1, <1>2
  <2>2. ~(i < j) /\ ~(j < i)
    BY <1>1, <1>3, <2>1 DEF OldestFirst
  <2> QED
    BY <2>1, <2>2
<1>4. Cached(cache) = {o[i] : i \in DOMAIN o}
  BY <1>1, <1>2 DEF Cached, InOrder
<1>5. Cardinality(Cached(cache)) = Len(o)
  <2>1. o \in Bijection(1 .. Len(o), Cached(cache))
    <3>1. o \in [1 .. Len(o) -> Cached(cache)]
      <4>1. \A i \in 1 .. Len(o) : o[i] \in Cached(cache)
        BY <1>2, <1>4
      <4>2. o \in [1 .. Len(o) -> Domains]
        BY <1>1, LenProperties
      <4> QED
        BY <4>1, <4>2
    <3>2. \A t \in Cached(cache) : \E i \in 1 .. Len(o) : o[i] = t
      BY <1>2, <1>4
    <3>3. \A i, j \in 1 .. Len(o) : o[i] = o[j] => i = j
      BY <1>2, <1>3
    <3> QED
      BY <3>1, <3>2, <3>3, Fun_IsBij
  <2>2. IsFiniteSet(1 .. Len(o)) /\ Cardinality(1 .. Len(o)) = Len(o)
    BY <1>2, FS_Interval
  <2>3. ExistsBijection(1 .. Len(o), Cached(cache))
    BY <2>1 DEF ExistsBijection
  <2> QED
    BY <2>2, <2>3, FS_Bijection
<1> QED
  BY <1>3, <1>4, <1>5 DEF o

\* What a store puts out, it takes from the front of a full cache.
LEMMA StoreEvicts ==
    ASSUME UsedInv, ExpiryInv, NEW x \in Domains, NEW r \in Responses,
           Store(x, r), Used(x), NEW d \in Cached(cache) \ Cached(cache')
    PROVE  /\ Cardinality(Cached(cache)) = Capacity
           /\ \A c \in Cached(cache) : c # d => lastUse[c] > lastUse[d]
           /\ Cached(cache) \ {d} \subseteq Cached(cache')
<1>1. PICK e, o : /\ cache = CacheOf(e, o) /\ Listed(e, o)
                  /\ cache.entry = e /\ cache.order = o
                  /\ Len(o) \in Nat /\ Len(o) <= Capacity
                  /\ o \in Seq(Domains) /\ OldestFirst(o, lastUse)
                  /\ e \in [Domains -> Entry \cup {NoEntry}]
                  /\ NoneBeyond(e, clock)
  BY CacheIs, Zenon
<1> DEFINE y == [response |-> r, expires |-> clock + TTL]
           f == [e EXCEPT ![x] = y]
           p == Without(o, x)
           a == Append(p, x)
<1>2. /\ p \in Seq(Domains) /\ Len(p) \in Nat /\ Len(p) <= Len(o)
      /\ \A c : InOrder(p, c) <=> InOrder(o, c) /\ c # x
      /\ OldestFirst(p, lastUse)
      /\ InOrder(o, x) => Len(p) < Len(o)
  BY <1>1, WithoutKeeps
<1>3. clock \in Nat /\ TTL \in Nat /\ Capacity \in Nat \ {0}
  BY CacheAssumption DEF ExpiryInv
<1>4. cache' = Trimmed(CacheOf(f, a))
  <2>1. cache' = Stored(CacheOf(e, o), x, r, clock)
    BY <1>1 DEF Store
  <2>2. Stored(CacheOf(e, o), x, r, clock) = Trimmed(CacheOf(f, a))
    BY StoredIs
  <2> QED
    BY <2>1, <2>2, Zenon
<1>5. y \in Entry /\ y # NoEntry
  <2>1. y \in Entry
    BY <1>3 DEF Entry
  <2> QED
    BY <2>1, CacheAssumption DEF Entry
<1> HIDE DEF y
<1>6. /\ f \in [Domains -> Entry \cup {NoEntry}]
      /\ \A c \in Domains : f[c] = IF c = x THEN y ELSE e[c]
  BY <1>1, <1>5
<1> HIDE DEF f, p
<1>7. Len(a) = Len(p) + 1 /\ Head(a) = (IF p = <<>> THEN x ELSE Head(p))
  BY <1>2, AppendProperties, HeadTailAppend
<1> HIDE DEF a
<1>8. d \in Domains /\ e[d] # NoEntry /\ InOrder(o, d) /\ cache'.entry[d] = NoEntry
  BY <1>1 DEF Cached, Listed
<1>9. CacheOf(f, a).entry = f /\ CacheOf(f, a).order = a
  BY CacheFields
<1>10. Len(a) > Capacity
  <2> SUFFICES ASSUME ~(Len(a) > Capacity) PROVE FALSE
    OBVIOUS
  <2>1. cache' = CacheOf(f, a)
    BY <1>4, <1>9 DEF Trimmed
  <2>2. cache'.entry = f
    BY <1>9, <2>1, Zenon
  <2> QED
    BY <1>5, <1>6, <1>8, <2>2
<1>11. Len(p) = Len(o) /\ Len(o) = Capacity /\ ~InOrder(o, x)
  BY <1>1, <1>2, <1>3, <1>7, <1>10
<1>12. p # <<>>
  <2>1. Len(<<>>) = 0
    BY EmptySeq
  <2> QED
    BY <1>3, <1>11, <2>1
<1> DEFINE h == Head(p)
           g == [f EXCEPT ![h] = NoEntry]
<1>13. h \in Domains /\ h = p[1] /\ DOMAIN p = 1 .. Len(p) /\ 1 \in DOMAIN p
  <2>1. Head(p) = p[1] /\ Head(p) \in Domains
    BY <1>2, <1>12, HeadTailProperties
  <2> QED
    BY <1>2, <1>3, <1>11, <2>1, LenProperties
<1> HIDE DEF h
<1>14. cache'.entry = g
  <2>1. cache' = Deleted(CacheOf(f, a), h)
    BY <1>4, <1>7, <1>9, <1>10, <1>12 DEF Trimmed, h
  <2>2. Deleted(CacheOf(f, a), h) = CacheOf(g, Without(a, h))
    BY DEF Deleted, CacheOf
  <2>3. CacheOf(g, Without(a, h)).entry = g
    <3> HIDE DEF g
    <3> QED
      BY CacheFields
  <2> QED
    BY <2>1, <2>2, <2>3, Zenon
<1>15. \A c \in Domains : g[c] = IF c = h THEN NoEntry ELSE f[c]
  BY <1>6
<1> HIDE DEF g
<1>16. d = h
  BY <1>5, <1>6, <1>8, <1>14, <1>15
<1>17. ASSUME NEW c \in Cached(cache), c # d
       PROVE  lastUse[c] > lastUse[d] /\ c \in Cached(cache')
  <2>1. c \in Domains /\ e[c] # NoEntry /\ InOrder(o, c)
    BY <1>1 DEF Cached, Listed
  <2>2. PICK k \in DOMAIN p : p[k] = c
    BY <1>2, <1>11, <2>1 DEF InOrder
  <2>3. k # 1 /\ 1 < k
    BY <1>2, <1>13, <1>16, <1>17, <2>2
  <2>4. lastUse[p[1]] < lastUse[p[k]]
    BY <1>2, <1>13, <2>3 DEF OldestFirst
  <2>5. lastUse[d] < lastUse[c]
    BY <1>13, <1>16, <2>2, <2>4
  <2>6. lastUse[d] \in Nat /\ lastUse[c] \in Nat
    BY <1>8, <2>1 DEF UsedInv
  <2>7. g[c] # NoEntry
    BY <1>5, <1>6, <1>15, <1>16, <1>17, <2>1
  <2>8. c \in Cached(cache')
    BY <1>14, <2>1, <2>7 DEF Cached
  <2> QED
    BY <2>5, <2>6, <2>8
<1>18. Cardinality(Cached(cache)) = Capacity
  BY <1>1, <1>11, OncePerDomain
<1> QED
  BY <1>17, <1>18

\* A hit takes nothing out.
LEMMA HitEvictsNothing ==
    ASSUME UsedInv, ExpiryInv, NEW x \in Domains, LookupHits(x)
    PROVE  Cached(cache') = Cached(cache)
<1>1. PICK e, o : /\ cache = CacheOf(e, o) /\ Listed(e, o)
                  /\ cache.entry = e /\ cache.order = o
                  /\ Len(o) \in Nat /\ Len(o) <= Capacity
                  /\ o \in Seq(Domains) /\ OldestFirst(o, lastUse)
                  /\ e \in [Domains -> Entry \cup {NoEntry}]
                  /\ NoneBeyond(e, clock)
  BY CacheIs, Zenon
<1>2. cache' = CacheOf(e, Append(Without(o, x), x))
  <2>1. cache' = MovedToEnd(CacheOf(e, o), x)
    BY <1>1 DEF LookupHits
  <2> QED
    BY <2>1, MovedIs
<1>3. cache'.entry = e
  BY <1>2, CacheFields
<1> QED
  BY <1>1, <1>3 DEF Cached

-----------------------------------------------------------------------------

LEMMA UsedInitInv == UsedCacheInit => UsedInv /\ ExpiryInv
<1> SUFFICES ASSUME UsedCacheInit
             PROVE  UsedInv /\ ExpiryInv
  OBVIOUS
<1> DEFINE e == [d \in Domains |-> NoEntry]
<1>1. /\ cache = EmptyCache /\ uses = 0 /\ hits = 0 /\ misses = 0 /\ clock = 0
      /\ lastUse = [d \in Domains |-> 0]
  BY DEF UsedCacheInit, CacheInit
<1>2. /\ cache = CacheOf(e, <<>>) /\ Listed(e, <<>>)
      /\ OldestFirst(<<>>, lastUse) /\ Len(<<>>) <= Capacity
      /\ NoneBeyond(e, clock)
  BY <1>1, EmptyListed, Zenon
<1>3. /\ lastUse \in [Domains -> Nat] /\ uses \in Nat
      /\ \A d \in Domains : lastUse[d] <= uses
  BY <1>1
<1>4. hits \in Nat /\ misses \in Nat /\ clock \in Nat
  BY <1>1
<1> HIDE DEF e
<1>5. cache.entry = e /\ cache.order = <<>>
  BY <1>2, CacheFields
<1> QED
  BY <1>2, <1>3, <1>4, <1>5, Zenon DEF UsedInv, ExpiryInv

\* cache.py: the cache never holds more than its capacity, and its order
\* lists every cached domain once and nothing else.
THEOREM CacheTypeCorrect == UsedCacheSpec => []CacheTypeOK
<1>1. UsedInv /\ ExpiryInv => CacheTypeOK
  <2> SUFFICES ASSUME UsedInv, ExpiryInv
               PROVE  CacheTypeOK
    OBVIOUS
  <2>1. /\ Cached(cache) = {cache.order[i] : i \in DOMAIN cache.order}
        /\ \A i, j \in DOMAIN cache.order :
              cache.order[i] = cache.order[j] => i = j
    BY OncePerDomain
  <2> QED
    BY <2>1, Zenon DEF UsedInv, ExpiryInv, Listed, CacheTypeOK
<1> QED
  BY <1>1, UsedInitInv, UsedStep, PTL DEF UsedCacheSpec

\* cache.py, get and set: no entry outlives the time to live counted from the
\* store that made it.
THEOREM EntriesExpire == UsedCacheSpec => []NeverBeyondTTL
<1>1. ExpiryInv => NeverBeyondTTL
  BY DEF ExpiryInv, NoneBeyond, NeverBeyondTTL, Cached
<1> QED
  BY <1>1, UsedInitInv, UsedStep, PTL DEF UsedCacheSpec

\* cache.py, set: a store evicts only from a full cache, only one entry, and
\* of all the entries the one whose last use is the oldest.
THEOREM LeastRecentlyUsedEvicted == UsedCacheSpec => EvictsLeastRecentlyUsed
<1>1. ASSUME UsedInv, ExpiryInv, UsedCacheNext, uses' = uses + 1,
             NEW d \in Cached(cache) \ Cached(cache')
      PROVE  /\ Cardinality(Cached(cache)) = Capacity
             /\ \A e \in Cached(cache) : e # d => lastUse[e] > lastUse[d]
             /\ Cached(cache) \ {d} \subseteq Cached(cache')
  <2>1. uses' # uses
    BY <1>1 DEF UsedInv
  <2>2. CASE \E x \in Domains : LookupHits(x) /\ Used(x)
    <3>1. Cached(cache') = Cached(cache)
      BY <1>1, <2>2, HitEvictsNothing, Zenon
    <3> QED
      BY <1>1, <3>1, Zenon
  <2>3. CASE \E x \in Domains, r \in Responses : Store(x, r) /\ Used(x)
    BY <1>1, <2>3, StoreEvicts, Zenon
  <2> QED
    BY <1>1, <2>1, <2>2, <2>3, Zenon DEF UsedCacheNext
<1>2. UsedInv /\ ExpiryInv /\ [UsedCacheNext]_usedCacheVars
         => [uses' = uses + 1 =>
                \A d \in Cached(cache) \ Cached(cache') :
                   /\ Cardinality(Cached(cache)) = Capacity
                   /\ \A e \in Cached(cache) : e # d => lastUse[e] > lastUse[d]
                   /\ Cached(cache) \ {d} \subseteq Cached(cache')
            ]_usedCacheVars
  BY <1>1, Zenon
<1> QED
  BY <1>2, UsedInitInv, UsedStep, PTL DEF UsedCacheSpec, EvictsLeastRecentlyUsed

-----------------------------------------------------------------------------
(* The query log: what is in the file and in memory, oldest first.         *)

FileOf(l, t) == [lines |-> l, tail |-> t]

Ascending(s) == \A i, j \in DOMAIN s : i < j => s[i].number < s[j].number

\* None of the records has a higher number.
UpTo(s, n) == \A r \in Range(s) : r.number <= n

Sorted(f) ==
    /\ f = FileOf(f.lines, f.tail)
    /\ f.lines \in Seq(Record)
    /\ f.tail \in {NoTail, Torn} \cup Record
    /\ Ascending(Readable(f))

\* Where record() is, and with which record.
RecordingInv ==
    /\ recording = [pc |-> recording.pc, record |-> recording.record]
    /\ recording.pc \in {"idle", "append", "cleanup", "down"}
    /\ recording.pc \in {"append", "cleanup"} =>
          /\ recording.record \in Record
          /\ cleanedAt <= recording.record.time
          /\ recording.record.time <= time
    /\ recording.pc = "append" =>
          /\ recording.record.number = recorded
          /\ recording.record \in Range(entries)
          /\ \A r \in Range(Readable(file)) : r.number < recorded

\* Records come in the order of their numbers, in memory and in the file.
LogInv ==
    /\ time \in Nat /\ recorded \in Nat
    /\ cleanedAt \in Nat /\ cleanedAt <= time
    /\ written \in SUBSET Record
    /\ entries \in Seq(Record) /\ Ascending(entries) /\ UpTo(entries, recorded)
    /\ Sorted(file) /\ UpTo(Readable(file), recorded)

\* The second part of ShownIsNewest, without the sequence of what is fresh.
NoneMissing ==
    recording.pc # "down" /\ ~blind =>
       \A r \in Range(Readable(file)) \ Range(entries) :
          time - r.time <= Retention =>
             Len(entries) = MaxEntries /\ r.number < entries[1].number

\* What is in a sequence that was extended by one.
LEMMA Extended ==
    ASSUME NEW s \in Seq(Record), NEW r \in Record
    PROVE  LET a == Append(s, r) IN
           /\ a \in Seq(Record) /\ Len(a) = Len(s) + 1 /\ Len(s) \in Nat
           /\ a[Len(a)] = r /\ Len(a) \in DOMAIN a
           /\ \A x : x \in Range(a) <=> x \in Range(s) \/ x = r
           /\ \A i \in DOMAIN s : i \in DOMAIN a /\ a[i] = s[i]
           /\ Ascending(s) /\ (\A x \in Range(s) : x.number < r.number)
                 => Ascending(a)
           /\ Ascending(a) => Ascending(s)
<1> DEFINE a == Append(s, r)
<1>1. /\ a \in Seq(Record) /\ Len(a) = Len(s) + 1 /\ Len(s) \in Nat
      /\ DOMAIN a = 1 .. Len(s) + 1 /\ DOMAIN s = 1 .. Len(s)
      /\ \A i \in 1 .. Len(s) : a[i] = s[i]
      /\ a[Len(s) + 1] = r
  BY AppendProperties, LenProperties
<1> HIDE DEF a
<1>2. \A i \in DOMAIN s : i \in DOMAIN a /\ a[i] = s[i]
  BY <1>1
<1>3. ASSUME NEW i \in DOMAIN a
      PROVE  i \in DOMAIN s \/ i = Len(s) + 1
  BY <1>1
<1>4. Len(s) + 1 \in DOMAIN a
  BY <1>1
<1>5. ASSUME NEW x
      PROVE  x \in Range(a) <=> x \in Range(s) \/ x = r
  BY <1>1, <1>2, <1>3, <1>4 DEF Range
<1>6. ASSUME Ascending(s), \A x \in Range(s) : x.number < r.number
      PROVE  Ascending(a)
  <2> SUFFICES ASSUME NEW i \in DOMAIN a, NEW j \in DOMAIN a, i < j
               PROVE  a[i].number < a[j].number
    BY DEF Ascending
  <2>1. i \in DOMAIN s
    BY <1>1
  <2>2. CASE j \in DOMAIN s
    <3>1. s[i].number < s[j].number
      BY <1>6, <2>1, <2>2 DEF Ascending
    <3> QED
      BY <1>2, <2>1, <2>2, <3>1
  <2>3. CASE j = Len(s) + 1
    <3>1. s[i] \in Range(s) /\ a[i] = s[i] /\ a[j] = r
      BY <1>1, <1>2, <2>1, <2>3 DEF Range
    <3> QED
      BY <1>6, <3>1
  <2> QED
    BY <1>3, <2>2, <2>3
<1>7. ASSUME Ascending(a)
      PROVE  Ascending(s)
  <2> SUFFICES ASSUME NEW i \in DOMAIN s, NEW j \in DOMAIN s, i < j
               PROVE  s[i].number < s[j].number
    BY DEF Ascending
  <2>1. i \in DOMAIN a /\ j \in DOMAIN a /\ a[i] = s[i] /\ a[j] = s[j]
    BY <1>2
  <2>2. a[i].number < a[j].number
    BY <1>7, <2>1 DEF Ascending
  <2> QED
    BY <2>1, <2>2
<1>8. a[Len(a)] = r /\ Len(a) \in DOMAIN a
  BY <1>1, <1>4
<1> QED
  BY <1>1, <1>2, <1>5, <1>6, <1>7, <1>8, Zenon DEF a

\* The elements of a sequence of records are records.
LEMMA RangeOfRecords ==
    ASSUME NEW s \in Seq(Record), NEW r \in Range(s)
    PROVE  r \in Record /\ r.time \in Nat /\ r.number \in Nat
<1>1. PICK i \in DOMAIN s : r = s[i]
  BY DEF Range
<1>2. r \in Record
  BY <1>1, LenProperties, ElementOfSeq
<1> QED
  BY <1>2 DEF Record

\* The last entries: what is left out is older than all that stays.
LEMMA LastEntries ==
    ASSUME NEW s \in Seq(Record), Ascending(s)
    PROVE  LET t == LastOf(s) IN
           /\ t \in Seq(Record) /\ Ascending(t)
           /\ Range(t) \in SUBSET Range(s)
           /\ \A r \in Range(s) \ Range(t) :
                 Len(t) = MaxEntries /\ r.number < t[1].number
           /\ Len(s) >= MaxEntries
                 => /\ Len(t) = MaxEntries
                    /\ s[1].number <= t[1].number
           /\ s # <<>> => s[Len(s)] \in Range(t)
<1> DEFINE t == LastOf(s)
<1>1. /\ Len(s) \in Nat /\ DOMAIN s = 1 .. Len(s)
      /\ MaxEntries \in Nat /\ MaxEntries > 0
      /\ \A i \in 1 .. Len(s) : s[i] \in Record
  BY LenProperties, ElementOfSeq, QueryLogAssumption
<1>0. Len(s) \in Nat /\ MaxEntries \in Nat /\ MaxEntries > 0
  BY <1>1
<1>2. \A i \in 1 .. Len(s) : s[i].number \in Nat
  BY <1>1 DEF Record
<1>3. s # <<>> => Len(s) > 0
  BY <1>1, EmptySeq
<1>4. CASE Len(s) <= MaxEntries
  <2>1. t = s
    BY <1>4 DEF LastOf
  <2> HIDE DEF t
  <2>2. Len(s) >= MaxEntries
           => Len(t) = MaxEntries /\ s[1].number <= t[1].number
    <3> SUFFICES ASSUME Len(s) >= MaxEntries
                 PROVE  Len(t) = MaxEntries /\ s[1].number <= t[1].number
      OBVIOUS
    <3>1. Len(s) = MaxEntries /\ 1 \in 1 .. Len(s)
      BY <1>0, <1>4
    <3>2. s[1].number \in Nat
      BY <1>2, <3>1
    <3>3. s[1].number <= s[1].number
      BY <3>2
    <3> QED
      BY <2>1, <3>1, <3>3
  <2>3. s # <<>> => s[Len(s)] \in Range(t)
    BY <1>1, <1>3, <2>1 DEF Range
  <2>4. /\ t \in Seq(Record) /\ Ascending(t)
        /\ Range(t) \in SUBSET Range(s)
        /\ \A r \in Range(s) \ Range(t) :
              Len(t) = MaxEntries /\ r.number < t[1].number
    BY <2>1
  <2> QED
    BY <2>2, <2>3, <2>4, Zenon DEF t
<1>5. CASE ~(Len(s) <= MaxEntries)
  <2> DEFINE m == Len(s) - MaxEntries
  <2>1. m \in Nat /\ m >= 1 /\ m + MaxEntries = Len(s)
    BY <1>1, <1>5
  <2>2. t = SubSeq(s, m + 1, Len(s))
    BY <1>5 DEF LastOf
  <2> HIDE DEF m, t
  <2>3. /\ t \in Seq(Record) /\ Len(t) = MaxEntries
        /\ \A i \in 1 .. MaxEntries : t[i] = s[m + i]
    <3>1. \A i \in m + 1 .. Len(s) : s[i] \in Record
      BY <1>1, <2>1
    <3>2. m + 1 \in Int /\ Len(s) \in Int /\ m + 1 <= Len(s)
      BY <1>1, <2>1
    <3>3. /\ t \in Seq(Record) /\ Len(t) = Len(s) - (m + 1) + 1
          /\ \A i \in 1 .. Len(s) - (m + 1) + 1 : t[i] = s[(m + 1) + i - 1]
      BY <2>2, <3>1, <3>2, SubSeqProperties
    <3>4. Len(s) - (m + 1) + 1 = MaxEntries
      BY <1>0, <2>1
    <3>5. ASSUME NEW i \in 1 .. MaxEntries
          PROVE  t[i] = s[m + i]
      <4>1. (m + 1) + i - 1 = m + i
        BY <2>1
      <4> QED
        BY <3>3, <3>4, <4>1
    <3> QED
      BY <3>3, <3>4, <3>5
  <2>4. DOMAIN t = 1 .. MaxEntries
    BY <2>3, LenProperties
  <2>5. ASSUME NEW i \in 1 .. MaxEntries
        PROVE  m + i \in DOMAIN s
    BY <1>1, <2>1
  <2>6. Ascending(t)
    <3> SUFFICES ASSUME NEW i \in DOMAIN t, NEW j \in DOMAIN t, i < j
                 PROVE  t[i].number < t[j].number
      BY DEF Ascending
    <3>1. m + i < m + j /\ m + i \in DOMAIN s /\ m + j \in DOMAIN s
      BY <2>1, <2>4, <2>5
    <3>2. s[m + i].number < s[m + j].number
      BY <3>1 DEF Ascending
    <3> QED
      BY <2>3, <2>4, <3>2
  <2>7. Range(t) \in SUBSET Range(s)
    BY <2>3, <2>4, <2>5 DEF Range
  <2>8. t[1] = s[m + 1] /\ 1 \in DOMAIN t /\ m + 1 \in DOMAIN s
    BY <1>1, <2>3, <2>4, <2>5
  <2>9. ASSUME NEW r \in Range(s) \ Range(t)
        PROVE  r.number < t[1].number
    <3>1. PICK i \in DOMAIN s : r = s[i]
      BY DEF Range
    <3>2. i <= m
      <4> SUFFICES ASSUME i > m PROVE FALSE
        BY <1>1, <2>1, <3>1
      <4>1. i - m \in 1 .. MaxEntries /\ m + (i - m) = i
        BY <1>1, <2>1, <3>1
      <4>2. t[i - m] = s[i]
        BY <2>3, <4>1
      <4>3. t[i - m] \in Range(t)
        BY <2>4, <4>1 DEF Range
      <4> QED
        BY <3>1, <4>2, <4>3
    <3>3. i < m + 1
      BY <1>1, <2>1, <3>1, <3>2
    <3>4. s[i].number < s[m + 1].number
      BY <2>8, <3>1, <3>3 DEF Ascending
    <3> QED
      BY <2>8, <3>1, <3>4
  <2>10. s[1].number <= t[1].number
    <3>1. 1 \in DOMAIN s /\ 1 < m + 1
      BY <1>1, <2>1
    <3>2. s[1].number < s[m + 1].number
      BY <2>8, <3>1 DEF Ascending
    <3>3. s[1].number \in Nat /\ s[m + 1].number \in Nat
      BY <1>1, <1>2, <2>8, <3>1
    <3> QED
      BY <2>8, <3>2, <3>3
  <2>11. s[Len(s)] \in Range(t)
    <3>1. MaxEntries \in DOMAIN t /\ t[MaxEntries] = s[Len(s)]
      BY <1>1, <2>1, <2>3, <2>4
    <3> QED
      BY <3>1 DEF Range
  <2> QED
    BY <2>3, <2>6, <2>7, <2>9, <2>10, <2>11, Zenon DEF t
<1> QED
  BY <1>4, <1>5

\* What can be read of a file.
LEMMA ReadableIs ==
    ASSUME NEW f, Sorted(f)
    PROVE  /\ Readable(f) \in Seq(Record) /\ Ascending(f.lines)
           /\ Range(f.lines) \in SUBSET Range(Readable(f))
           /\ f.tail = NoTail => Readable(f) = f.lines
<1>1. f.lines \in Seq(Record) /\ f.tail \in {NoTail, Torn} \cup Record
  BY DEF Sorted
<1>2. CASE f.tail \in {NoTail, Torn}
  <2>1. Readable(f) = f.lines
    BY <1>2 DEF Readable
  <2> QED
    BY <1>1, <2>1 DEF Sorted
<1>3. CASE f.tail \notin {NoTail, Torn}
  <2>1. Readable(f) = Append(f.lines, f.tail) /\ f.tail \in Record
    BY <1>1, <1>3 DEF Readable
  <2>2. LET a == Append(f.lines, f.tail) IN
        /\ a \in Seq(Record)
        /\ \A x : x \in Range(a) <=> x \in Range(f.lines) \/ x = f.tail
        /\ Ascending(a) => Ascending(f.lines)
    BY <1>1, <2>1, Extended
  <2>3. f.tail # NoTail
    BY <1>3
  <2>4. Ascending(Readable(f))
    BY DEF Sorted
  <2> QED
    BY <2>1, <2>2, <2>3, <2>4
<1> QED
  BY <1>2, <1>3

\* A file of complete lines.
LEMMA LinesSorted ==
    ASSUME NEW s \in Seq(Record), Ascending(s)
    PROVE  /\ Sorted(Lines(s)) /\ Readable(Lines(s)) = s
           /\ Lines(s).lines = s /\ Lines(s).tail = NoTail
<1>1. /\ Lines(s).lines = s /\ Lines(s).tail = NoTail
      /\ Lines(s) = FileOf(Lines(s).lines, Lines(s).tail)
  BY DEF Lines, FileOf
<1>2. Readable(Lines(s)) = s
  BY <1>1 DEF Readable
<1> QED
  BY <1>1, <1>2 DEF Sorted

\* The records of a file that are in their time.
LEMMA FreshIs ==
    ASSUME NEW f, Sorted(f), NEW now \in Nat
    PROVE  LET p == Fresh(f, now) IN
           /\ p \in Seq(Record) /\ Ascending(p)
           /\ \A r : r \in Range(p) <=>
                        r \in Range(Readable(f)) /\ now - r.time <= Retention
<1> DEFINE s == Readable(f)
           keep == {i \in DOMAIN s : now - s[i].time <= Retention}
           p == Picked(s, keep)
<1>1. s \in Seq(Record) /\ Ascending(s)
  BY ReadableIs DEF Sorted
<1>2. Fresh(f, now) = p
  BY DEF Fresh
<1> HIDE DEF s
<1>3. DOMAIN s = 1 .. Len(s)
  BY <1>1, LenProperties
<1>4. \A i \in DOMAIN s : i \in keep <=> now - s[i].time <= Retention
  OBVIOUS
<1>5. keep \in SUBSET (1 .. Len(s)) /\ keep \subseteq DOMAIN s
  BY <1>3
<1> HIDE DEF keep
<1>6. /\ p \in Seq(Record)
      /\ \A k \in DOMAIN p : \E i \in keep : p[k] = s[i]
      /\ \A i \in keep : \E k \in DOMAIN p : p[k] = s[i]
      /\ \A k, l \in DOMAIN p :
            k < l => \E i, j \in keep : i < j /\ p[k] = s[i] /\ p[l] = s[j]
  BY <1>1, <1>5, PickedInOrder
<1> HIDE DEF p
<1>7. Ascending(p)
  <2> SUFFICES ASSUME NEW k \in DOMAIN p, NEW l \in DOMAIN p, k < l
               PROVE  p[k].number < p[l].number
    BY DEF Ascending
  <2>1. PICK i \in keep, j \in keep : i < j /\ p[k] = s[i] /\ p[l] = s[j]
    BY <1>6
  <2>2. s[i].number < s[j].number
    BY <1>1, <1>5, <2>1 DEF Ascending
  <2> QED
    BY <2>1, <2>2
<1>8. ASSUME NEW r \in Range(p)
      PROVE  r \in Range(s) /\ now - r.time <= Retention
  <2>1. PICK k \in DOMAIN p : r = p[k]
    BY DEF Range
  <2>2. PICK i \in keep : p[k] = s[i]
    BY <1>6
  <2>3. i \in DOMAIN s /\ now - s[i].time <= Retention
    BY <1>4, <1>5
  <2> QED
    BY <2>1, <2>2, <2>3 DEF Range
<1>9. ASSUME NEW r \in Range(s), now - r.time <= Retention
      PROVE  r \in Range(p)
  <2>1. PICK i \in DOMAIN s : r = s[i]
    BY DEF Range
  <2>2. i \in keep
    BY <1>4, <1>9, <2>1
  <2>3. PICK k \in DOMAIN p : p[k] = s[i]
    BY <1>6, <2>2
  <2> QED
    BY <2>1, <2>3 DEF Range
<1>10. \A r : r \in Range(p) <=> r \in Range(s) /\ now - r.time <= Retention
  BY <1>8, <1>9
<1> QED
  BY <1>2, <1>6, <1>7, <1>10 DEF s

\* A write that ends too early adds the record at most, and takes no line.
LEMMA CutShortFile ==
    ASSUME NEW f, Sorted(f), NEW r \in Record, NEW g \in CutShort(f, r),
           \A x \in Range(Readable(f)) : x.number < r.number
    PROVE  /\ Sorted(g) /\ g.lines = f.lines
           /\ Range(Readable(g)) \in SUBSET (Range(Readable(f)) \cup {r})
<1> DEFINE l == f.lines
           t == f.tail
<1>1. /\ f = FileOf(l, t) /\ l \in Seq(Record)
      /\ t \in {NoTail, Torn} \cup Record
  BY DEF Sorted
<1>2. /\ Ascending(l) /\ Range(l) \in SUBSET Range(Readable(f))
      /\ t = NoTail => Readable(f) = l
  BY ReadableIs
<1> HIDE DEF l, t
<1>3. /\ [f EXCEPT !.tail = Torn] = FileOf(l, Torn)
      /\ [f EXCEPT !.tail = r] = FileOf(l, r)
  BY <1>1 DEF FileOf
<1>4. f.lines = l
  BY DEF l
<1>5. \A u : FileOf(l, u).lines = l /\ FileOf(l, u).tail = u
  BY DEF FileOf
<1>6. \/ g = f
      \/ g = FileOf(l, Torn)
      \/ t = NoTail /\ g = FileOf(l, r)
  BY <1>3, Zenon DEF CutShort, t
<1>7. CASE g = f
  BY <1>7
<1>8. CASE g = FileOf(l, Torn)
  <2>1. g.lines = l /\ g.tail = Torn
    BY <1>5, <1>8
  <2>2. Readable(g) = l
    BY <2>1 DEF Readable
  <2>3. Sorted(g)
    BY <1>1, <1>2, <1>8, <2>1, <2>2 DEF Sorted
  <2> QED
    BY <1>2, <1>4, <2>1, <2>2, <2>3
<1>9. CASE t = NoTail /\ g = FileOf(l, r)
  <2>1. g.lines = l /\ g.tail = r
    BY <1>5, <1>9
  <2>2. r \notin {NoTail, Torn}
    BY QueryLogAssumption DEF Record
  <2>3. Readable(g) = Append(l, r)
    BY <2>1, <2>2 DEF Readable
  <2>4. LET a == Append(l, r) IN
        /\ a \in Seq(Record)
        /\ \A x : x \in Range(a) <=> x \in Range(l) \/ x = r
        /\ Ascending(l) /\ (\A x \in Range(l) : x.number < r.number)
              => Ascending(a)
    BY <1>1, Extended
  <2>5. Ascending(Readable(g))
    BY <1>2, <2>3, <2>4
  <2>6. Sorted(g)
    BY <1>1, <1>9, <2>1, <2>5 DEF Sorted
  <2>7. Range(Readable(g)) \in SUBSET (Range(Readable(f)) \cup {r})
    BY <1>2, <2>3, <2>4
  <2> QED
    BY <1>4, <2>1, <2>6, <2>7
<1> QED
  BY <1>6, <1>7, <1>8, <1>9

\* A write that succeeds.
LEMMA AppendedFile ==
    ASSUME NEW f, Sorted(f), NEW r \in Record,
           \A x \in Range(Readable(f)) : x.number < r.number
    PROVE  LET g == Appended(f, r) IN
           /\ Sorted(g)
           /\ Range(f.lines) \in SUBSET Range(g.lines)
           /\ f.tail = NoTail => r \in Range(g.lines)
           /\ Range(Readable(g)) \in SUBSET (Range(Readable(f)) \cup {r})
<1> DEFINE g == Appended(f, r)
<1>1. /\ f.lines \in Seq(Record) /\ Ascending(f.lines)
      /\ Range(f.lines) \in SUBSET Range(Readable(f))
  BY ReadableIs DEF Sorted
<1>2. CASE f.tail = NoTail
  <2> DEFINE a == Append(f.lines, r)
  <2>1. g = Lines(a)
    BY <1>2 DEF Appended
  <2>2. /\ a \in Seq(Record)
        /\ \A x : x \in Range(a) <=> x \in Range(f.lines) \/ x = r
        /\ Ascending(a)
    <3>1. \A x \in Range(f.lines) : x.number < r.number
      BY <1>1
    <3> QED
      BY <1>1, <3>1, Extended
  <2> HIDE DEF a, g
  <2>3. Sorted(g) /\ Readable(g) = a /\ g.lines = a
    BY <2>1, <2>2, LinesSorted
  <2>4. /\ Sorted(g)
        /\ Range(f.lines) \in SUBSET Range(g.lines)
        /\ r \in Range(g.lines)
        /\ Range(Readable(g)) \in SUBSET (Range(Readable(f)) \cup {r})
    BY <1>1, <2>2, <2>3
  <2> QED
    BY <2>4 DEF g
<1>3. CASE f.tail # NoTail
  <2>1. g = Lines(f.lines)
    BY <1>3 DEF Appended
  <2> HIDE DEF g
  <2>2. Sorted(g) /\ Readable(g) = f.lines /\ g.lines = f.lines
    BY <1>1, <2>1, LinesSorted
  <2>3. /\ Sorted(g)
        /\ Range(f.lines) \in SUBSET Range(g.lines)
        /\ Range(Readable(g)) \in SUBSET (Range(Readable(f)) \cup {r})
    BY <1>1, <2>2
  <2> QED
    BY <1>3, <2>3 DEF g
<1> QED
  BY <1>2, <1>3

LogAll ==
    /\ LogInv /\ RecordingInv /\ NoneMissing
    /\ WrittenSurvives /\ NothingOlderThanCleaned

\* The record being written is the newest of all.
LEMMA NewestIsWritten ==
    ASSUME LogAll, recording.pc = "append"
    PROVE  /\ recording.record \in Record /\ recording.record.number = recorded
           /\ recording.record \in Range(entries)
           /\ recording.record.time \in Nat /\ recorded \in Nat
           /\ recording.record.time <= time /\ cleanedAt <= recording.record.time
           /\ \A r \in Range(Readable(file)) : r.number < recording.record.number
<1>1. recording.record \in Record /\ recorded \in Nat
  BY DEF LogAll, LogInv, RecordingInv
<1>2. recording.record.time \in Nat
  BY <1>1 DEF Record
<1> QED
  BY <1>1, <1>2 DEF LogAll, RecordingInv

\* However the write of a record ends, the file stays in order and loses no
\* line that is a record.
LEMMA WriteEnds ==
    ASSUME LogAll, recording.pc = "append", Sorted(file'),
           Range(file.lines) \in SUBSET Range(file'.lines),
           Range(Readable(file')) \in
              SUBSET (Range(Readable(file)) \cup {recording.record}),
           \A r \in written' : r \in written \/ r = recording.record,
           recording.record \in written' \ written
              => recording.record \in Range(file'.lines),
           UNCHANGED <<time, recorded, cleanedAt>>
    PROVE  /\ UpTo(Readable(file'), recorded')
           /\ written' \in SUBSET Record
           /\ WrittenSurvives' /\ NothingOlderThanCleaned'
<1> DEFINE q == recording.record
<1>1. /\ q \in Record /\ q.number = recorded /\ q.time \in Nat
      /\ recorded \in Nat /\ q.time <= time /\ cleanedAt <= q.time
  BY NewestIsWritten
<1>2. /\ time \in Nat /\ cleanedAt \in Nat /\ written \in SUBSET Record
      /\ UpTo(Readable(file), recorded)
      /\ WrittenSurvives /\ NothingOlderThanCleaned
      /\ Retention \in Nat
  BY QueryLogAssumption DEF LogAll, LogInv
<1> HIDE DEF q
<1>3. \A r \in Range(Readable(file')) : r \in Range(Readable(file)) \/ r = q
  BY DEF q
<1>4. UpTo(Readable(file'), recorded')
  BY <1>1, <1>2, <1>3 DEF UpTo
<1>5. written' \in SUBSET Record
  BY <1>1, <1>2 DEF q
<1>6. WrittenSurvives'
  <2> SUFFICES ASSUME NEW r \in written', time' - r.time <= Retention
               PROVE  r \in Range(file'.lines)
    BY DEF WrittenSurvives
  <2>1. CASE r \in written
    <3>1. r \in Range(file.lines)
      BY <1>2, <2>1 DEF WrittenSurvives
    <3> QED
      BY <3>1
  <2>2. CASE r \notin written
    BY <2>2
  <2> QED
    BY <2>1, <2>2
<1>7. NothingOlderThanCleaned'
  <2> SUFFICES ASSUME NEW r \in Range(Readable(file'))
               PROVE  cleanedAt' - r.time <= Retention
    BY DEF NothingOlderThanCleaned
  <2>1. CASE r \in Range(Readable(file))
    BY <1>2, <2>1 DEF NothingOlderThanCleaned
  <2>2. CASE r = q
    BY <1>1, <1>2, <2>2
  <2> QED
    BY <1>3, <2>1, <2>2
<1> QED
  BY <1>4, <1>5, <1>6, <1>7

\* With the same entries, and nothing in the file that is in neither now,
\* nothing new is missing in memory.
LEMMA StillShown ==
    ASSUME LogAll, recording.pc # "down",
           \A r \in Range(Readable(file')) :
              r \in Range(Readable(file)) \/ r \in Range(entries),
           UNCHANGED <<entries, blind>>, time' \in Nat, time <= time'
    PROVE  NoneMissing'
<1> SUFFICES ASSUME ~blind', NEW r \in Range(Readable(file')) \ Range(entries'),
                    time' - r.time <= Retention
             PROVE  Len(entries') = MaxEntries /\ r.number < entries'[1].number
  BY Zenon DEF NoneMissing
<1>1. ~blind
  BY Zenon
<1>2. \A x \in Range(Readable(file)) \ Range(entries) :
          time - x.time <= Retention =>
             Len(entries) = MaxEntries /\ x.number < entries[1].number
  BY <1>1, Zenon DEF LogAll, NoneMissing
<1>3. /\ entries' = entries /\ time \in Nat /\ Sorted(file)
      /\ Retention \in Nat
  BY QueryLogAssumption DEF LogAll, LogInv
<1>4. r \in Range(Readable(file)) \ Range(entries)
  BY <1>3
<1>5. r.time \in Nat
  BY <1>3, <1>4, ReadableIs, RangeOfRecords
<1>6. time - r.time <= Retention
  BY <1>3, <1>5
<1> QED
  BY <1>2, <1>3, <1>4, <1>6

LEMMA RecordStep ==
    ASSUME LogAll, RecordInMemory, UNCHANGED <<written, cleanedAt, blind>>
    PROVE  LogAll'
<1> DEFINE r == [time |-> time, number |-> recorded + 1]
           s == Append(entries, r)
<1>1. /\ time \in Nat /\ recorded \in Nat
      /\ cleanedAt \in Nat /\ cleanedAt <= time /\ written \in SUBSET Record
      /\ entries \in Seq(Record) /\ Ascending(entries)
      /\ UpTo(entries, recorded) /\ Sorted(file)
      /\ UpTo(Readable(file), recorded) /\ Readable(file) \in Seq(Record)
      /\ WrittenSurvives /\ NothingOlderThanCleaned
  BY ReadableIs DEF LogAll, LogInv
<1>2. /\ recording.pc = "idle" /\ recorded' = recorded + 1
      /\ entries' = LastOf(s) /\ recording' = [pc |-> "append", record |-> r]
      /\ time' = time /\ file' = file
      /\ written' = written /\ cleanedAt' = cleanedAt /\ blind' = blind
  BY DEF RecordInMemory
<1>3. r \in Record /\ r.time = time /\ r.number = recorded + 1
  BY <1>1 DEF Record
<1> HIDE DEF r
<1>4. \A x \in Range(entries) : x.number < r.number
  <2> SUFFICES ASSUME NEW x \in Range(entries)
               PROVE  x.number < r.number
    OBVIOUS
  <2>1. x.number \in Nat /\ x.number <= recorded
    BY <1>1, RangeOfRecords DEF UpTo
  <2> QED
    BY <1>1, <1>3, <2>1
<1>5. \A x \in Range(Readable(file)) : x.number < r.number /\ x.number <= recorded + 1
  <2> SUFFICES ASSUME NEW x \in Range(Readable(file))
               PROVE  x.number < r.number /\ x.number <= recorded + 1
    OBVIOUS
  <2>1. x.number \in Nat /\ x.number <= recorded
    BY <1>1, RangeOfRecords DEF UpTo
  <2> QED
    BY <1>1, <1>3, <2>1
<1>6. /\ s \in Seq(Record) /\ Ascending(s)
      /\ Len(s) = Len(entries) + 1 /\ Len(entries) \in Nat
      /\ s[Len(s)] = r /\ s # <<>>
      /\ \A x : x \in Range(s) <=> x \in Range(entries) \/ x = r
      /\ \A i \in DOMAIN entries : i \in DOMAIN s /\ s[i] = entries[i]
  BY <1>1, <1>3, <1>4, Extended, AppendProperties
<1> HIDE DEF s
<1> DEFINE t == LastOf(s)
<1>7. /\ t \in Seq(Record) /\ Ascending(t)
      /\ Range(t) \in SUBSET Range(s)
      /\ \A x \in Range(s) \ Range(t) :
            Len(t) = MaxEntries /\ x.number < t[1].number
      /\ Len(s) >= MaxEntries
            => Len(t) = MaxEntries /\ s[1].number <= t[1].number
      /\ s # <<>> => s[Len(s)] \in Range(t)
  BY <1>6, LastEntries
<1> HIDE DEF t
<1>8. entries' = t
  BY <1>2 DEF t
<1>9. UpTo(t, recorded + 1)
  <2> SUFFICES ASSUME NEW x \in Range(t)
               PROVE  x.number <= recorded + 1
    BY DEF UpTo
  <2>1. x = r \/ x \in Range(entries)
    BY <1>6, <1>7
  <2>2. x.number \in Nat
    BY <1>7, RangeOfRecords
  <2> QED
    BY <1>1, <1>3, <1>4, <2>1, <2>2
<1>10. LogInv'
  <2>1. UpTo(Readable(file), recorded + 1)
    BY <1>5 DEF UpTo
  <2>2. recorded + 1 \in Nat
    BY <1>1
  <2> QED
    BY <1>1, <1>2, <1>7, <1>8, <1>9, <2>1, <2>2 DEF LogInv
<1>11. RecordingInv'
  <2>1. r \in Range(t)
    BY <1>6, <1>7
  <2>2. recording'.pc = "append" /\ recording'.record = r
    BY <1>2
  <2>3. recording' = [pc |-> recording'.pc, record |-> recording'.record]
    BY <1>2, <2>2
  <2>4. cleanedAt' <= r.time /\ r.time <= time'
    BY <1>1, <1>2, <1>3
  <2>5. \A x \in Range(Readable(file')) : x.number < recorded'
    BY <1>2, <1>3, <1>5
  <2>6. r.number = recorded' /\ r \in Range(entries') /\ r \in Record
    BY <1>2, <1>3, <1>8, <2>1
  <2> QED
    BY <2>2, <2>3, <2>4, <2>5, <2>6 DEF RecordingInv
<1>12. NoneMissing'
  <2>1. ~blind => \A x \in Range(Readable(file)) \ Range(entries) :
            time - x.time <= Retention =>
               Len(entries) = MaxEntries /\ x.number < entries[1].number
    <3>1. recording.pc # "down"
      BY <1>2
    <3> QED
      BY <3>1, Zenon DEF LogAll, NoneMissing
  <2>2. ASSUME ~blind, NEW x \in Range(Readable(file)), x \notin Range(t),
               time - x.time <= Retention
        PROVE  Len(t) = MaxEntries /\ x.number < t[1].number
    <3>1. CASE x \in Range(s)
      BY <1>7, <2>2, <3>1
    <3>2. CASE x \notin Range(s)
      <4>1. Len(entries) = MaxEntries /\ x.number < entries[1].number
        BY <1>6, <2>1, <2>2, <3>2
      <4>2. MaxEntries \in Nat /\ MaxEntries > 0
        BY QueryLogAssumption
      <4>3. 1 \in DOMAIN entries
        BY <1>1, <1>6, <4>1, <4>2, LenProperties
      <4>4. s[1] = entries[1] /\ 1 \in DOMAIN s
        BY <1>6, <4>3
      <4>5. Len(s) >= MaxEntries
        BY <1>6, <4>1, <4>2
      <4>6. Len(t) = MaxEntries /\ s[1].number <= t[1].number
        BY <1>7, <4>5
      <4>7. 1 \in DOMAIN t
        BY <1>7, <4>2, <4>6, LenProperties
      <4>8. /\ x.number \in Nat /\ s[1].number \in Nat
            /\ t[1].number \in Nat
        <5>1. s[1] \in Range(s) /\ t[1] \in Range(t)
          BY <4>4, <4>7 DEF Range
        <5> QED
          BY <1>1, <1>6, <1>7, <5>1, RangeOfRecords
      <4> QED
        BY <4>1, <4>4, <4>6, <4>8
    <3> QED
      BY <3>1, <3>2
  <2> SUFFICES ASSUME ~blind',
                      NEW x \in Range(Readable(file')) \ Range(entries'),
                      time' - x.time <= Retention
               PROVE  /\ Len(entries') = MaxEntries
                      /\ x.number < entries'[1].number
    BY Zenon DEF NoneMissing
  <2>3. time' = time /\ file' = file /\ entries' = t
    BY <1>2, <1>8
  <2>4. ~blind
    BY Zenon
  <2>5. x \in Range(Readable(file)) /\ x \notin Range(t)
    BY <2>3
  <2>6. time - x.time <= Retention
    BY <2>3
  <2> QED
    BY <2>2, <2>3, <2>4, <2>5, <2>6, Zenon
<1>13. WrittenSurvives' /\ NothingOlderThanCleaned'
  BY <1>1, <1>2, Zenon DEF WrittenSurvives, NothingOlderThanCleaned
<1> QED
  BY <1>10, <1>11, <1>12, <1>13, Zenon DEF LogAll

\* The step of the record that was being written: where record() goes next.
LEMMA WriteStep ==
    ASSUME LogAll, recording.pc = "append", Sorted(file'),
           Range(file.lines) \in SUBSET Range(file'.lines),
           Range(Readable(file')) \in
              SUBSET (Range(Readable(file)) \cup {recording.record}),
           \A r \in written' : r \in written \/ r = recording.record,
           recording.record \in written' \ written
              => recording.record \in Range(file'.lines),
           UNCHANGED <<time, entries, recorded, cleanedAt, blind>>,
           \/ recording' = Idle
           \/ recording' = [pc |-> "cleanup", record |-> recording.record]
    PROVE  LogAll'
<1>1. /\ UpTo(Readable(file'), recorded') /\ written' \in SUBSET Record
      /\ WrittenSurvives' /\ NothingOlderThanCleaned'
  BY WriteEnds
<1>2. NoneMissing'
  <2>1. recording.record \in Range(entries)
    BY NewestIsWritten
  <2>2. \A r \in Range(Readable(file')) :
           r \in Range(Readable(file)) \/ r \in Range(entries)
    BY <2>1
  <2>3. time' = time /\ time' \in Nat /\ time <= time'
    BY DEF LogAll, LogInv
  <2> QED
    BY <2>2, <2>3, StillShown
<1>3. LogInv'
  BY <1>1 DEF LogAll, LogInv
<1>4. RecordingInv'
  <2>1. /\ recording.record \in Record
        /\ cleanedAt' <= recording.record.time
        /\ recording.record.time <= time'
    BY NewestIsWritten
  <2>2. CASE recording' = Idle
    BY <2>2 DEF Idle, RecordingInv
  <2>3. CASE recording' = [pc |-> "cleanup", record |-> recording.record]
    BY <2>1, <2>3 DEF RecordingInv
  <2> QED
    BY <2>2, <2>3
<1> QED
  BY <1>1, <1>2, <1>3, <1>4, Zenon DEF LogAll

LEMMA AppendFailsStep ==
    ASSUME LogAll, AppendFails, UNCHANGED <<written, cleanedAt, blind>>
    PROVE  LogAll'
<1>1. /\ recording.pc = "append" /\ recording' = Idle
      /\ file' \in CutShort(file, recording.record)
      /\ UNCHANGED <<time, entries, recorded, cleanedAt, blind, written>>
  BY Zenon DEF AppendFails
<1>2. /\ recording.record \in Record
      /\ \A r \in Range(Readable(file)) : r.number < recording.record.number
  BY <1>1, NewestIsWritten
<1>3. /\ Sorted(file') /\ file'.lines = file.lines
      /\ Range(Readable(file')) \in
            SUBSET (Range(Readable(file)) \cup {recording.record})
  BY <1>1, <1>2, CutShortFile DEF LogAll, LogInv
<1> QED
  BY <1>1, <1>3, WriteStep

LEMMA AppendStep == ASSUME LogAll, MCAppend PROVE LogAll'
<1>1. /\ recording.pc = "append"
      /\ file' = Appended(file, recording.record)
      /\ recording' = [recording EXCEPT !.pc = "cleanup"]
      /\ UNCHANGED <<time, entries, recorded, cleanedAt, blind>>
      /\ written' = IF file.tail = NoTail THEN written \cup {recording.record}
                                          ELSE written
  BY Zenon DEF MCAppend, AppendToFile
<1>2. /\ recording.record \in Record
      /\ \A r \in Range(Readable(file)) : r.number < recording.record.number
  BY <1>1, NewestIsWritten
<1>3. LET g == Appended(file, recording.record) IN
      /\ Sorted(g)
      /\ Range(file.lines) \in SUBSET Range(g.lines)
      /\ file.tail = NoTail => recording.record \in Range(g.lines)
      /\ Range(Readable(g)) \in
            SUBSET (Range(Readable(file)) \cup {recording.record})
  BY <1>2, AppendedFile DEF LogAll, LogInv
<1>4. recording' = [pc |-> "cleanup", record |-> recording.record]
  <2>1. recording = [pc |-> recording.pc, record |-> recording.record]
    BY DEF LogAll, RecordingInv
  <2>2. ASSUME NEW c, NEW p, NEW r, c = [pc |-> p, record |-> r]
        PROVE  [c EXCEPT !.pc = "cleanup"] = [pc |-> "cleanup", record |-> r]
    BY <2>2
  <2>3. [recording EXCEPT !.pc = "cleanup"] =
           [pc |-> "cleanup", record |-> recording.record]
    BY <2>1, <2>2, Zenon
  <2> QED
    BY <1>1, <2>3, Zenon
<1>5. /\ Sorted(file')
      /\ Range(file.lines) \in SUBSET Range(file'.lines)
      /\ file.tail = NoTail => recording.record \in Range(file'.lines)
      /\ Range(Readable(file')) \in
            SUBSET (Range(Readable(file)) \cup {recording.record})
  BY <1>1, <1>3, Zenon
<1>6. \A r \in written' : r \in written \/ r = recording.record
  BY <1>1
<1>7. recording.record \in written' \ written
         => recording.record \in Range(file'.lines)
  BY <1>1, <1>5
<1> QED
  BY <1>1, <1>4, <1>5, <1>6, <1>7, WriteStep

\* A clean-up at the present of the record: what is in its time stays.
LEMMA CleanUpStep == ASSUME LogAll, MCCleanUp PROVE LogAll'
<1> DEFINE now == recording.record.time
           p == Fresh(file, now)
<1>1. /\ recording.pc = "cleanup" /\ recording' = Idle
      /\ file' = Lines(p) /\ cleanedAt' = now
      /\ UNCHANGED <<time, entries, recorded, blind, written>>
  BY Zenon DEF MCCleanUp, CleanUp
<1>2. /\ time \in Nat /\ recorded \in Nat /\ cleanedAt \in Nat
      /\ written \in SUBSET Record /\ entries \in Seq(Record)
      /\ Ascending(entries) /\ UpTo(entries, recorded)
      /\ Sorted(file) /\ UpTo(Readable(file), recorded)
      /\ WrittenSurvives /\ NothingOlderThanCleaned
      /\ Retention \in Nat
  BY QueryLogAssumption DEF LogAll, LogInv
<1>3. recording.record \in Record /\ cleanedAt <= now /\ now <= time
  BY <1>1 DEF LogAll, RecordingInv
<1>4. now \in Nat
  BY <1>3 DEF Record
<1> HIDE DEF now
<1>5. /\ p \in Seq(Record) /\ Ascending(p)
      /\ \A r : r \in Range(p) <=>
                   r \in Range(Readable(file)) /\ now - r.time <= Retention
  BY <1>2, <1>4, FreshIs
<1>6. Range(file.lines) \in SUBSET Range(Readable(file))
  BY <1>2, ReadableIs
<1> HIDE DEF p
<1>7. Sorted(file') /\ Readable(file') = p /\ file'.lines = p
  BY <1>1, <1>5, LinesSorted
<1>8. LogInv'
  <2>1. UpTo(p, recorded)
    BY <1>2, <1>5 DEF UpTo
  <2> QED
    BY <1>1, <1>2, <1>3, <1>4, <1>7, <2>1 DEF LogInv
<1>9. RecordingInv'
  BY <1>1 DEF Idle, RecordingInv
<1>10. NoneMissing'
  <2>1. \A r \in Range(Readable(file')) : r \in Range(Readable(file))
    BY <1>5, <1>7
  <2>2. time' \in Nat /\ time <= time' /\ recording.pc # "down"
    BY <1>1, <1>2
  <2> QED
    BY <1>1, <2>1, <2>2, StillShown
<1>11. WrittenSurvives'
  <2> SUFFICES ASSUME NEW r \in written', time' - r.time <= Retention
               PROVE  r \in Range(file'.lines)
    BY DEF WrittenSurvives
  <2>1. r \in written /\ time - r.time <= Retention /\ r.time \in Nat
    BY <1>1, <1>2 DEF Record
  <2>2. r \in Range(Readable(file))
    BY <1>2, <1>6, <2>1 DEF WrittenSurvives
  <2>3. now - r.time <= Retention
    BY <1>2, <1>3, <1>4, <2>1
  <2> QED
    BY <1>5, <1>7, <2>2, <2>3
<1>12. NothingOlderThanCleaned'
  BY <1>1, <1>5, <1>7 DEF NothingOlderThanCleaned
<1> QED
  BY <1>8, <1>9, <1>10, <1>11, <1>12, Zenon DEF LogAll

LEMMA CleanUpFailsStep ==
    ASSUME LogAll, CleanUpFails, UNCHANGED <<written, cleanedAt, blind>>
    PROVE  LogAll'
<1>1. /\ recording.pc = "cleanup" /\ recording' = Idle /\ file' = file
      /\ UNCHANGED <<time, entries, recorded, cleanedAt, blind, written>>
  BY Zenon DEF CleanUpFails, LeftAlone
<1>2. LogInv' /\ WrittenSurvives' /\ NothingOlderThanCleaned'
  BY <1>1, Zenon DEF LogAll, LogInv, WrittenSurvives, NothingOlderThanCleaned
<1>3. RecordingInv'
  BY <1>1 DEF Idle, RecordingInv
<1>4. NoneMissing'
  <2>1. \A r \in Range(Readable(file')) : r \in Range(Readable(file))
    BY <1>1
  <2>2. time' \in Nat /\ time <= time' /\ recording.pc # "down"
    BY <1>1 DEF LogAll, LogInv
  <2> QED
    BY <1>1, <2>1, <2>2, StillShown
<1> QED
  BY <1>2, <1>3, <1>4, Zenon DEF LogAll

\* The process ends at any place of record().
LEMMA EndStep ==
    ASSUME LogAll, End, UNCHANGED <<written, cleanedAt, blind>>
    PROVE  LogAll'
<1>1. /\ entries' = <<>> /\ recording' = [Idle EXCEPT !.pc = "down"]
      /\ UNCHANGED <<time, recorded, cleanedAt, blind, written>>
      /\ file' \in CASE recording.pc = "append" ->
                           CutShort(file, recording.record)
                     [] recording.pc = "cleanup" -> {LeftAlone(file)}
                     [] OTHER -> {file}
  BY Zenon DEF End
<1>2. recording' = [pc |-> "down", record |-> NoTail]
  BY <1>1 DEF Idle
<1>3. /\ time \in Nat /\ recorded \in Nat
      /\ cleanedAt \in Nat /\ cleanedAt <= time /\ written \in SUBSET Record
      /\ Sorted(file) /\ UpTo(Readable(file), recorded)
      /\ WrittenSurvives /\ NothingOlderThanCleaned
  BY DEF LogAll, LogInv
<1>4. RecordingInv' /\ NoneMissing'
  <2>1. recording'.pc = "down" /\ recording'.record = NoTail
    BY <1>2
  <2>2. RecordingInv'
    BY <1>2, <2>1 DEF RecordingInv
  <2>3. NoneMissing'
    BY <2>1, Zenon DEF NoneMissing
  <2> QED
    BY <2>2, <2>3
<1>5. /\ Sorted(file') /\ UpTo(Readable(file'), recorded')
      /\ WrittenSurvives' /\ NothingOlderThanCleaned'
  <2>1. CASE recording.pc = "append"
    <3>1. file' \in CutShort(file, recording.record)
      BY <1>1, <2>1
    <3>2. /\ recording.record \in Record
          /\ \A r \in Range(Readable(file)) : r.number < recording.record.number
      BY <2>1, NewestIsWritten
    <3>3. /\ Sorted(file') /\ file'.lines = file.lines
          /\ Range(Readable(file')) \in
                SUBSET (Range(Readable(file)) \cup {recording.record})
      BY <1>3, <3>1, <3>2, CutShortFile
    <3>4. /\ Range(file.lines) \in SUBSET Range(file'.lines)
          /\ \A r \in written' : r \in written \/ r = recording.record
          /\ ~(recording.record \in written' \ written)
          /\ UNCHANGED <<time, recorded, cleanedAt>>
      BY <1>1, <3>3
    <3> QED
      BY <2>1, <3>3, <3>4, WriteEnds
  <2>2. CASE recording.pc # "append"
    <3>1. file' = file
      BY <1>1, <2>2 DEF LeftAlone
    <3> QED
      BY <1>1, <1>3, <3>1, Zenon DEF WrittenSurvives, NothingOlderThanCleaned
  <2> QED
    BY <2>1, <2>2
<1>6. LogInv'
  <2>1. <<>> \in Seq(Record) /\ DOMAIN <<>> = {}
    BY EmptySeq
  <2>2. Ascending(<<>>) /\ UpTo(<<>>, recorded)
    BY <2>1 DEF Ascending, UpTo, Range
  <2> QED
    BY <1>1, <1>3, <1>5, <2>1, <2>2 DEF LogInv
<1> QED
  BY <1>4, <1>5, <1>6, Zenon DEF LogAll

\* A start that reads the file shows the newest of it.
LEMMA LoadStep == ASSUME LogAll, MCLoad PROVE LogAll'
<1> DEFINE p == Fresh(file, time)
<1>1. /\ entries' = LastOf(p)
      /\ file' \in {Lines(p)} \cup
                      (IF DiskFails THEN {LeftAlone(file)} ELSE {})
      /\ recording' = Idle
      /\ UNCHANGED <<time, recorded, written>>
      /\ cleanedAt' = IF file' = Lines(p) THEN time ELSE cleanedAt
  BY Zenon DEF MCLoad, Load
<1>2. /\ time \in Nat /\ recorded \in Nat
      /\ cleanedAt \in Nat /\ cleanedAt <= time /\ written \in SUBSET Record
      /\ Sorted(file) /\ UpTo(Readable(file), recorded)
      /\ WrittenSurvives /\ NothingOlderThanCleaned
      /\ Retention \in Nat
  BY QueryLogAssumption DEF LogAll, LogInv
<1>3. /\ p \in Seq(Record) /\ Ascending(p)
      /\ \A r : r \in Range(p) <=>
                   r \in Range(Readable(file)) /\ time - r.time <= Retention
  BY <1>2, FreshIs
<1>4. Range(file.lines) \in SUBSET Range(Readable(file))
  BY <1>2, ReadableIs
<1> HIDE DEF p
<1> DEFINE t == LastOf(p)
<1>5. /\ t \in Seq(Record) /\ Ascending(t)
      /\ Range(t) \in SUBSET Range(p)
      /\ \A x \in Range(p) \ Range(t) :
            Len(t) = MaxEntries /\ x.number < t[1].number
  BY <1>3, LastEntries
<1> HIDE DEF t
<1>6. entries' = t
  BY <1>1 DEF t
<1>7. UpTo(t, recorded)
  BY <1>2, <1>3, <1>5 DEF UpTo
<1>8. RecordingInv'
  BY <1>1 DEF Idle, RecordingInv
<1>9. file' = Lines(p) \/ (file' = file /\ cleanedAt' = cleanedAt /\ file' # Lines(p))
  BY <1>1 DEF LeftAlone
<1>10. /\ Sorted(file')
       /\ \A r \in Range(Readable(file')) : r \in Range(Readable(file))
       /\ \A r \in Range(file.lines) :
             time - r.time <= Retention => r \in Range(file'.lines)
       /\ cleanedAt' \in Nat /\ cleanedAt' <= time
       /\ NothingOlderThanCleaned'
  <2>1. CASE file' = Lines(p)
    <3>1. Sorted(file') /\ Readable(file') = p /\ file'.lines = p
      BY <1>3, <2>1, LinesSorted
    <3>2. cleanedAt' = time
      BY <1>1, <2>1
    <3>3. NothingOlderThanCleaned'
      BY <1>3, <3>1, <3>2 DEF NothingOlderThanCleaned
    <3> QED
      BY <1>2, <1>3, <1>4, <3>1, <3>2, <3>3
  <2>2. CASE file' = file /\ cleanedAt' = cleanedAt /\ file' # Lines(p)
    <3>1. NothingOlderThanCleaned'
      BY <1>2, <2>2, Zenon DEF NothingOlderThanCleaned
    <3> QED
      BY <1>2, <2>2, <3>1
  <2> QED
    BY <1>9, <2>1, <2>2
<1>11. LogInv'
  <2>1. UpTo(Readable(file'), recorded)
    BY <1>2, <1>10 DEF UpTo
  <2> QED
    BY <1>1, <1>2, <1>5, <1>6, <1>7, <1>10, <2>1 DEF LogInv
<1>12. WrittenSurvives'
  <2> SUFFICES ASSUME NEW r \in written', time' - r.time <= Retention
               PROVE  r \in Range(file'.lines)
    BY DEF WrittenSurvives
  <2>1. r \in written /\ time - r.time <= Retention
    BY <1>1
  <2>2. r \in Range(file.lines)
    BY <1>2, <2>1 DEF WrittenSurvives
  <2> QED
    BY <1>10, <2>1, <2>2
<1>13. NoneMissing'
  <2> SUFFICES ASSUME NEW r \in Range(Readable(file')) \ Range(entries'),
                      time' - r.time <= Retention
               PROVE  Len(entries') = MaxEntries /\ r.number < entries'[1].number
    BY Zenon DEF NoneMissing
  <2>1. r \in Range(p) /\ r \notin Range(t)
    BY <1>1, <1>3, <1>6, <1>10
  <2> QED
    BY <1>5, <1>6, <2>1
<1> QED
  BY <1>8, <1>10, <1>11, <1>12, <1>13, Zenon DEF LogAll

\* A start that cannot read the file shows none of it, and leaves it alone.
LEMMA LoadFailsStep == ASSUME LogAll, MCLoadFails PROVE LogAll'
<1>1. /\ recording' = Idle /\ blind' = TRUE
      /\ UNCHANGED <<time, entries, file, recorded, cleanedAt, written>>
  BY Zenon DEF MCLoadFails, LoadFails
<1>2. LogInv' /\ WrittenSurvives' /\ NothingOlderThanCleaned'
  BY <1>1, Zenon DEF LogAll, LogInv, WrittenSurvives, NothingOlderThanCleaned
<1>3. RecordingInv'
  BY <1>1 DEF Idle, RecordingInv
<1>4. NoneMissing'
  BY <1>1, Zenon DEF NoneMissing
<1> QED
  BY <1>2, <1>3, <1>4, Zenon DEF LogAll

LEMMA TimeStep ==
    ASSUME LogAll, TimePasses, UNCHANGED <<written, cleanedAt, blind>>
    PROVE  LogAll'
<1>1. /\ time' = time + 1
      /\ UNCHANGED <<entries, file, recording, recorded, cleanedAt, blind,
                     written>>
  BY Zenon DEF TimePasses
<1>2. /\ time \in Nat /\ cleanedAt \in Nat /\ cleanedAt <= time
      /\ written \in SUBSET Record /\ Retention \in Nat
      /\ WrittenSurvives /\ NothingOlderThanCleaned
  BY QueryLogAssumption DEF LogAll, LogInv
<1>3. LogInv'
  <2>1. time' \in Nat /\ cleanedAt' <= time'
    BY <1>1, <1>2
  <2> QED
    BY <1>1, <2>1, Zenon DEF LogAll, LogInv
<1>4. RecordingInv'
  <2>1. recording.pc \in {"append", "cleanup"} =>
           /\ recording.record \in Record
           /\ cleanedAt <= recording.record.time
           /\ recording.record.time <= time'
    <3>1. \A r \in Record : r.time \in Nat
      BY DEF Record
    <3> QED
      BY <1>1, <1>2, <3>1 DEF LogAll, RecordingInv
  <2> QED
    BY <1>1, <2>1, Zenon DEF LogAll, RecordingInv
<1>5. NoneMissing'
  <2>1. CASE recording.pc = "down"
    BY <1>1, <2>1, Zenon DEF NoneMissing
  <2>2. CASE recording.pc # "down"
    <3>1. \A r \in Range(Readable(file')) : r \in Range(Readable(file))
      BY <1>1
    <3>2. time' \in Nat /\ time <= time'
      BY <1>1, <1>2
    <3> QED
      BY <1>1, <2>2, <3>1, <3>2, StillShown
  <2> QED
    BY <2>1, <2>2
<1>6. WrittenSurvives'
  <2> SUFFICES ASSUME NEW r \in written', time' - r.time <= Retention
               PROVE  r \in Range(file'.lines)
    BY DEF WrittenSurvives
  <2>1. r \in written /\ r.time \in Nat
    BY <1>1, <1>2 DEF Record
  <2>2. time - r.time <= Retention
    BY <1>1, <1>2, <2>1
  <2> QED
    BY <1>1, <1>2, <2>1, <2>2 DEF WrittenSurvives
<1>7. NothingOlderThanCleaned'
  BY <1>1, <1>2, Zenon DEF NothingOlderThanCleaned
<1> QED
  BY <1>3, <1>4, <1>5, <1>6, <1>7, Zenon DEF LogAll

LEMMA LogStep == LogAll /\ [WrittenLogNext]_writtenLogVars => LogAll'
<1> SUFFICES ASSUME LogAll, [WrittenLogNext]_writtenLogVars
             PROVE  LogAll'
  OBVIOUS
<1>1. CASE MCRecord
  BY <1>1, RecordStep, AppendFailsStep, CleanUpFailsStep, EndStep, TimeStep,
     Zenon DEF MCRecord
<1>2. CASE MCAppend
  BY <1>2, AppendStep
<1>3. CASE MCCleanUp
  BY <1>3, CleanUpStep
<1>4. CASE MCLoad
  BY <1>4, LoadStep
<1>5. CASE MCLoadFails
  BY <1>5, LoadFailsStep
<1>6. CASE UNCHANGED writtenLogVars
  BY <1>6, Zenon
     DEF writtenLogVars, logVars, LogAll, LogInv, RecordingInv, NoneMissing,
         WrittenSurvives, NothingOlderThanCleaned
<1> QED
  BY <1>1, <1>2, <1>3, <1>4, <1>5, <1>6, Zenon DEF WrittenLogNext

LEMMA LogInitInv == WrittenLogInit => LogAll
<1> SUFFICES ASSUME WrittenLogInit
             PROVE  LogAll
  OBVIOUS
<1>1. /\ time = 1 /\ entries = <<>> /\ file = Lines(<<>>) /\ recorded = 0
      /\ recording = [Idle EXCEPT !.pc = "down"]
      /\ written = {} /\ cleanedAt = 0
  BY DEF WrittenLogInit, LogInit
<1>2. recording = [pc |-> "down", record |-> NoTail]
  BY <1>1 DEF Idle
<1>3. recording.pc = "down" /\ recording.record = NoTail
  BY <1>2
<1>4. <<>> \in Seq(Record) /\ DOMAIN <<>> = {}
  BY EmptySeq
<1>5. Ascending(<<>>) /\ UpTo(<<>>, recorded) /\ Range(<<>>) = {}
  BY <1>4 DEF Ascending, UpTo, Range
<1>6. Sorted(file) /\ Readable(file) = <<>>
  BY <1>1, <1>4, <1>5, LinesSorted
<1>7. LogInv
  BY <1>1, <1>4, <1>5, <1>6 DEF LogInv
<1>8. RecordingInv
  BY <1>2, <1>3 DEF RecordingInv
<1>9. NoneMissing
  BY <1>3, Zenon DEF NoneMissing
<1>10. WrittenSurvives /\ NothingOlderThanCleaned
  BY <1>1, <1>5, <1>6 DEF WrittenSurvives, NothingOlderThanCleaned
<1> QED
  BY <1>7, <1>8, <1>9, <1>10, Zenon DEF LogAll

-----------------------------------------------------------------------------

\* query_log.py, "Persistence across application restarts": a record that
\* went into the file as a line of its own is there to the end of its time,
\* whatever fails and whenever the process ends.
THEOREM WrittenRecordsSurvive == WrittenLogSpec => []WrittenSurvives
<1>1. LogAll => WrittenSurvives
  BY DEF LogAll
<1> QED
  BY <1>1, LogInitInv, LogStep, PTL DEF WrittenLogSpec

\* query_log.py, _cleanup_expired: what a clean-up has taken out of the file
\* does not come back.
THEOREM CleanedStaysClean == WrittenLogSpec => []NothingOlderThanCleaned
<1>1. LogAll => NothingOlderThanCleaned
  BY DEF LogAll
<1> QED
  BY <1>1, LogInitInv, LogStep, PTL DEF WrittenLogSpec

\* query_log.py, recent: the entries in memory are the newest, in their
\* order, after a restart too.
THEOREM NewestAreShown == WrittenLogSpec => []ShownIsNewest
<1>1. LogAll => ShownIsNewest
  <2> SUFFICES ASSUME LogAll
               PROVE  ShownIsNewest
    OBVIOUS
  <2>1. /\ entries \in Seq(Record) /\ Ascending(entries)
        /\ Sorted(file) /\ time \in Nat
    BY DEF LogAll, LogInv
  <2>2. Len(entries) \in Nat /\ DOMAIN entries = 1 .. Len(entries)
    BY <2>1, LenProperties
  <2>3. ASSUME NEW i \in 2 .. Len(entries)
        PROVE  entries[i - 1].number < entries[i].number
    <3>1. i - 1 \in DOMAIN entries /\ i \in DOMAIN entries /\ i - 1 < i
      BY <2>2
    <3> QED
      BY <2>1, <3>1 DEF Ascending
  <2>4. \A r : r \in Range(Fresh(file, time)) <=>
                  r \in Range(Readable(file)) /\ time - r.time <= Retention
    BY <2>1, FreshIs
  <2>5. ASSUME recording.pc # "down", ~blind,
               NEW r \in Range(Fresh(file, time)) \ Range(entries)
        PROVE  Len(entries) = MaxEntries /\ r.number < entries[1].number
    <3>1. \A x \in Range(Readable(file)) \ Range(entries) :
             time - x.time <= Retention =>
                Len(entries) = MaxEntries /\ x.number < entries[1].number
      BY <2>5, Zenon DEF LogAll, NoneMissing
    <3> QED
      BY <2>4, <3>1
  <2> QED
    BY <2>3, <2>5, Zenon DEF ShownIsNewest
<1> QED
  BY <1>1, LogInitInv, LogStep, PTL DEF WrittenLogSpec

-----------------------------------------------------------------------------
(* The parser: what is read of a name and the rest of it make up the name   *)
(* of the question.                                                        *)

\* The packet is one of octets.
PacketOK == packet \in Seq(0 .. 255)

Name == [labels : Seq(Seq(0 .. 255)), encoded : Nat, jumps : Nat, next : Int]

NameTable == [Nat -> Name]

\* A word whose two highest bits are set, without them.
LEMMA WithoutTopBits ==
    ASSUME NEW word \in Int, word >= 192 * 256, word <= 65535
    PROVE  word % 16384 = word - 192 * 256
<1> DEFINE q == word \div 16384
           r == word % 16384
<1>1. q \in Int /\ r \in Int /\ r >= 0 /\ r <= 16383
    OBVIOUS
<1>2. word % 16384 = word - 16384 * (word \div 16384)
    OBVIOUS
<1>3. r = word - 16384 * q
    BY <1>2
<1> HIDE DEF q, r
<1>4. q = 3
    BY <1>1, <1>3
<1>5. r = word - 192 * 256
    BY <1>3, <1>4
<1> QED BY <1>5 DEF r

\* The octets of a packet.
LEMMA OctetsAre ==
    ASSUME PacketOK, NEW at \in Nat, Available(at, 1)
    PROVE  /\ Octet(at) \in 0 .. 255
           /\ Available(at, 2) =>
                 /\ Octet(at + 1) \in 0 .. 255
                 /\ Word(at) \in Nat
                 /\ Octet(at) >= 192 =>
                       Word(at) % 16384 = Word(at) - 192 * 256
<1>1. Len(packet) \in Nat
    BY LenProperties DEF PacketOK
<1>2. Octet(at) \in 0 .. 255
    <2>1. at + 1 \in 1 .. Len(packet)
        BY <1>1 DEF Available
    <2> QED BY <2>1, ElementOfSeq DEF PacketOK, Octet
<1>3. ASSUME Available(at, 2)
      PROVE  /\ Octet(at + 1) \in 0 .. 255
             /\ Word(at) \in Nat
             /\ Octet(at) >= 192 => Word(at) % 16384 = Word(at) - 192 * 256
    <2>1. Octet(at + 1) \in 0 .. 255
        <3>1. at + 2 \in 1 .. Len(packet) /\ (at + 1) + 1 = at + 2
            BY <1>1, <1>3 DEF Available
        <3>2. packet[at + 2] \in 0 .. 255
            BY <3>1, ElementOfSeq DEF PacketOK
        <3> QED BY <3>1, <3>2 DEF Octet
    <2> DEFINE high == Octet(at)
               low == Octet(at + 1)
    <2>2. Word(at) = 256 * high + low
        BY DEF Word
    <2>3. high \in 0 .. 255 /\ low \in 0 .. 255
        BY <1>2, <2>1
    <2> HIDE DEF high, low
    <2>4. /\ Word(at) \in Nat /\ Word(at) <= 65535
          /\ high >= 192 => Word(at) >= 192 * 256
        BY <2>2, <2>3
    <2>5. ASSUME high >= 192 PROVE Word(at) % 16384 = Word(at) - 192 * 256
        <3> DEFINE w == Word(at)
        <3>1. w \in Int /\ w >= 192 * 256 /\ w <= 65535
            BY <2>4, <2>5
        <3> HIDE DEF w
        <3>2. w % 16384 = w - 192 * 256
            BY <3>1, WithoutTopBits
        <3> QED BY <3>2 DEF w
    <2> QED BY <2>1, <2>4, <2>5 DEF high
<1> QED BY <1>2, <1>3

\* What there can be at an offset.
EndsAt(at) == Available(at, 1) /\ Octet(at) = 0

LabelAt(names, at) ==
    /\ Available(at, 1) /\ Octet(at) \in 1 .. 63 /\ Available(at + 1, Octet(at))
    /\ names[at + 1 + Octet(at)].next >= 0

PointerAt(names, at) ==
    /\ Available(at, 1) /\ Octet(at) >= 192 /\ Available(at, 2)
    /\ names[Word(at) % 16384].next >= 0

\* The names there are then.
EndOf(at) == [labels |-> <<>>, encoded |-> 0, jumps |-> 0, next |-> at + 1]

LabelOf(names, at) ==
    [labels |-> <<SubSeq(packet, at + 2, at + 1 + Octet(at))>>
                    \o names[at + 1 + Octet(at)].labels,
     encoded |-> names[at + 1 + Octet(at)].encoded + 1 + Octet(at),
     jumps |-> names[at + 1 + Octet(at)].jumps,
     next |-> names[at + 1 + Octet(at)].next]

PointerOf(names, at) ==
    [labels |-> names[Word(at) % 16384].labels,
     encoded |-> names[Word(at) % 16384].encoded,
     jumps |-> names[Word(at) % 16384].jumps + 1, next |-> at + 2]

\* The cases of OneStepMore exclude each other.
LEMMA OneStepMoreIs ==
    ASSUME PacketOK, NEW names, NEW at \in Nat
    PROVE  /\ EndsAt(at) => OneStepMore(names, at) = EndOf(at)
           /\ LabelAt(names, at) => OneStepMore(names, at) = LabelOf(names, at)
           /\ PointerAt(names, at) =>
                 OneStepMore(names, at) = PointerOf(names, at)
           /\ ~EndsAt(at) /\ ~LabelAt(names, at) /\ ~PointerAt(names, at) =>
                 OneStepMore(names, at) = NoName
<1>1. OneStepMore(names, at) =
         CASE EndsAt(at) -> EndOf(at)
           [] LabelAt(names, at) -> LabelOf(names, at)
           [] PointerAt(names, at) -> PointerOf(names, at)
           [] OTHER -> NoName
    BY DEF OneStepMore, EndsAt, LabelAt, PointerAt, EndOf, LabelOf, PointerOf
<1>2. Available(at, 1) => Octet(at) \in 0 .. 255
    BY OctetsAre
<1>3. EndsAt(at) => ~LabelAt(names, at) /\ ~PointerAt(names, at)
    BY DEF EndsAt, LabelAt, PointerAt
<1>4. LabelAt(names, at) => ~PointerAt(names, at)
    BY DEF LabelAt, PointerAt
<1> QED BY <1>1, <1>3, <1>4

\* The octets of a label are octets, and what follows it lies in the packet.
LEMMA LabelOctets ==
    ASSUME PacketOK, NEW at \in Nat, NEW length \in Nat,
           Available(at + 1, length)
    PROVE  /\ SubSeq(packet, at + 2, at + 1 + length) \in Seq(0 .. 255)
           /\ Len(SubSeq(packet, at + 2, at + 1 + length)) = length
<1>1. Len(packet) \in Nat
    BY LenProperties DEF PacketOK
<1>2. at + 2 \in Int /\ at + 1 + length \in Int
    OBVIOUS
<1>3. \A i \in at + 2 .. at + 1 + length : packet[i] \in 0 .. 255
    <2>1. \A i \in at + 2 .. at + 1 + length : i \in 1 .. Len(packet)
        BY <1>1 DEF Available
    <2> QED BY <2>1, ElementOfSeq DEF PacketOK
<1>4. IF at + 2 <= at + 1 + length THEN (at + 1 + length) - (at + 2) + 1 = length
                                  ELSE 0 = length
    OBVIOUS
<1> QED BY <1>2, <1>3, <1>4, SubSeqProperties

\* One step more makes a name of what the names behind are.
LEMMA OneStepMoreType ==
    ASSUME PacketOK, NEW names \in NameTable, NEW at \in Nat
    PROVE  OneStepMore(names, at) \in Name
<1>1. NoName \in Name
    BY DEF NoName, Name
<1>2. CASE EndsAt(at)
    <2>1. EndOf(at) \in Name
        BY DEF EndOf, Name
    <2> QED BY <1>2, <2>1, OneStepMoreIs
<1>3. CASE LabelAt(names, at)
    <2> DEFINE octet == Octet(at)
               behind == names[at + 1 + octet]
               label == SubSeq(packet, at + 2, at + 1 + octet)
    <2>1. octet \in Nat /\ at + 1 + octet \in Nat
        BY <1>3 DEF LabelAt
    <2>2. behind \in Name
        BY <2>1 DEF NameTable
    <2>3. label \in Seq(0 .. 255)
        <3>1. Available(at + 1, octet)
            BY <1>3 DEF LabelAt
        <3> HIDE DEF octet
        <3> QED BY <2>1, <3>1, LabelOctets
    <2>4. LabelOf(names, at) =
             [labels |-> <<label>> \o behind.labels,
              encoded |-> behind.encoded + 1 + octet,
              jumps |-> behind.jumps, next |-> behind.next]
        BY DEF LabelOf
    <2> HIDE DEF behind, label, octet
    <2>5. <<label>> \o behind.labels \in Seq(Seq(0 .. 255))
        <3> DEFINE Labels == Seq(0 .. 255)
        <3>1. label \in Labels /\ behind.labels \in Seq(Labels)
            BY <2>2, <2>3 DEF Name
        <3> HIDE DEF Labels
        <3>2. <<label>> \in Seq(Labels)
            BY <3>1
        <3>3. <<label>> \o behind.labels \in Seq(Labels)
            BY <3>1, <3>2, ConcatProperties
        <3> QED BY <3>3 DEF Labels
    <2>6. /\ behind.encoded + 1 + octet \in Nat /\ behind.jumps \in Nat
          /\ behind.next \in Int
        BY <2>1, <2>2 DEF Name
    <2>7. LabelOf(names, at) \in Name
        BY <2>4, <2>5, <2>6 DEF Name
    <2> QED BY <1>3, <2>7, OneStepMoreIs
<1>4. CASE PointerAt(names, at)
    <2> DEFINE ahead == names[Word(at) % 16384]
    <2>1. Word(at) % 16384 \in Nat
        <3>1. Word(at) \in Nat
            BY <1>4, OctetsAre DEF PointerAt
        <3> QED BY <3>1
    <2>2. ahead \in Name
        BY <2>1 DEF NameTable
    <2>3. PointerOf(names, at) =
             [labels |-> ahead.labels, encoded |-> ahead.encoded,
              jumps |-> ahead.jumps + 1, next |-> at + 2]
        BY DEF PointerOf
    <2> HIDE DEF ahead
    <2>4. PointerOf(names, at) \in Name
        BY <2>2, <2>3 DEF Name
    <2> QED BY <1>4, <2>4, OneStepMoreIs
<1> QED BY <1>1, <1>2, <1>3, <1>4, OneStepMoreIs

\* What Names is: no names of no steps, and of more steps what one step more
\* makes of those of fewer.
LEMMA NamesAre ==
    ASSUME PacketOK
    PROVE  /\ \A steps \in Nat : Names[steps] \in NameTable
           /\ \A at \in Nat : Names[0][at] = NoName
           /\ \A steps \in Nat, at \in Nat :
                 Names[steps + 1][at] = OneStepMore(Names[steps], at)
<1> DEFINE Body(f, n) == [at \in Nat |-> IF n = 0 THEN NoName
                                        ELSE OneStepMore(f[n - 1], at)]
           f == CHOOSE f : f = [n \in Nat |-> Body(f, n)]
<1>1. Names = f
    BY DEF Names
<1>2. \A t \in NameTable : [at \in Nat |-> OneStepMore(t, at)] \in NameTable
    BY OneStepMoreType DEF NameTable
<1>3. [at \in Nat |-> NoName] \in NameTable
    BY DEF NameTable, Name, NoName
<1>4. f = [n \in Nat |-> Body(f, n)]
    <2> DEFINE T == NameTable
               c == [at \in Nat |-> NoName]
               step == [p \in Nat \X T |-> [at \in Nat |-> OneStepMore(p[2], at)]]
    <2>1. c \in T /\ step \in [Nat \X T -> T]
        <3>1. \A p \in Nat \X T : [at \in Nat |-> OneStepMore(p[2], at)] \in T
            BY <1>2
        <3> HIDE DEF T, c
        <3>2. step \in [Nat \X T -> T]
            BY <3>1
        <3> QED BY <1>3, <3>2 DEF T, c
    <2>2. PICK g \in [Nat -> T] : Follows(g, c, step)
        <3> HIDE DEF T, c, step
        <3> QED BY <2>1, Recursion, Zenon
    <2>3. g[0] = c
        BY <2>2 DEF Follows
    <2>4. ASSUME NEW n \in Nat
          PROVE  g[n + 1] = [at \in Nat |-> OneStepMore(g[n], at)]
        <3>1. g[n + 1] = step[<<n, g[n]>>]
            BY <2>2 DEF Follows
        <3>2. <<n, g[n]>> \in Nat \X T
            <4> HIDE DEF T
            <4> QED OBVIOUS
        <3> QED BY <3>1, <3>2
    <2>5. ASSUME NEW n \in Nat PROVE g[n] = Body(g, n)
        <3>1. CASE n = 0
            BY <2>3, <3>1
        <3>2. CASE n # 0
            <4>1. n - 1 \in Nat /\ (n - 1) + 1 = n
                BY <3>2
            <4>2. g[(n - 1) + 1] = [at \in Nat |-> OneStepMore(g[n - 1], at)]
                BY <2>4, <4>1
            <4>3. g[n] = [at \in Nat |-> OneStepMore(g[n - 1], at)]
                BY <4>1, <4>2
            <4>4. Body(g, n) = [at \in Nat |-> OneStepMore(g[n - 1], at)]
                BY <3>2
            <4> QED BY <4>3, <4>4
        <3> QED BY <3>1, <3>2
    <2>6. g = [n \in Nat |-> Body(g, n)]
        <3> HIDE DEF Body
        <3> QED BY <2>5
    <2> HIDE DEF Body
    <2>7. \E x : x = [n \in Nat |-> Body(x, n)]
        BY <2>6
    <2> QED BY <2>7
<1> HIDE DEF f
<1>5. f[0] = [at \in Nat |-> NoName]
    BY <1>4
<1>6. ASSUME NEW n \in Nat
      PROVE  f[n + 1] = [at \in Nat |-> OneStepMore(f[n], at)]
    <2>1. n + 1 \in Nat /\ n + 1 # 0 /\ (n + 1) - 1 = n
        OBVIOUS
    <2>2. f[n + 1] = Body(f, n + 1)
        <3> HIDE DEF Body
        <3> QED BY <1>4, <2>1
    <2> QED BY <2>1, <2>2
<1>7. \A n \in Nat : f[n] \in NameTable
    <2> DEFINE P == {n \in Nat : f[n] \in NameTable}
    <2>1. 0 \in P
        BY <1>3, <1>5
    <2>2. ASSUME NEW n \in P PROVE n + 1 \in P
        <3>1. n \in Nat /\ f[n] \in NameTable /\ n + 1 \in Nat
            OBVIOUS
        <3>2. f[n + 1] = [at \in Nat |-> OneStepMore(f[n], at)]
            BY <1>6, <3>1
        <3>3. [at \in Nat |-> OneStepMore(f[n], at)] \in NameTable
            BY <1>2, <3>1
        <3> QED BY <3>1, <3>2, <3>3
    <2>3. P \in SUBSET Nat
        OBVIOUS
    <2> HIDE DEF P
    <2>4. P = Nat
        BY <2>1, <2>2, <2>3, Induction
    <2> QED BY <2>4 DEF P
<1> QED BY <1>1, <1>5, <1>6, <1>7

\* A name that ends within some steps is the same with one step more.
LEMMA NamesStay ==
    ASSUME PacketOK
    PROVE  \A steps \in Nat, at \in Nat :
              Names[steps][at].next >= 0 => Names[steps + 1][at] = Names[steps][at]
<1> DEFINE Stays(n) == \A at \in Nat : Names[n][at].next >= 0
                                          => Names[n + 1][at] = Names[n][at]
           P == {n \in Nat : Stays(n)}
<1>1. 0 \in P
    <2>1. \A at \in Nat : ~(Names[0][at].next >= 0)
        BY NamesAre DEF NoName
    <2> QED BY <2>1
<1>2. ASSUME NEW n \in P PROVE n + 1 \in P
    <2> SUFFICES ASSUME NEW at \in Nat, Names[n + 1][at].next >= 0
                 PROVE  Names[(n + 1) + 1][at] = Names[n + 1][at]
        OBVIOUS
    <2> DEFINE s == Names[n]
               t == Names[n + 1]
               octet == Octet(at)
    <2>1. n \in Nat /\ s \in NameTable /\ t \in NameTable
        BY NamesAre
    <2>2. \A a \in Nat : s[a].next >= 0 => t[a] = s[a]
        OBVIOUS
    <2>3. /\ t[at] = OneStepMore(s, at)
          /\ Names[(n + 1) + 1][at] = OneStepMore(t, at)
        BY <2>1, NamesAre
    <2>4. OneStepMore(s, at).next >= 0
        BY <2>3
    <2> HIDE DEF s, t
    <2>5. OneStepMore(t, at) = OneStepMore(s, at)
        <3>1. CASE EndsAt(at)
            BY <3>1, OneStepMoreIs
        <3>2. CASE LabelAt(s, at)
            <4>1. at + 1 + octet \in Nat /\ s[at + 1 + octet].next >= 0
                BY <3>2 DEF LabelAt
            <4>2. t[at + 1 + octet] = s[at + 1 + octet]
                BY <2>2, <4>1
            <4>3. LabelAt(t, at) /\ LabelOf(t, at) = LabelOf(s, at)
                BY <3>2, <4>2 DEF LabelAt, LabelOf
            <4> QED BY <3>2, <4>3, OneStepMoreIs
        <3>3. CASE PointerAt(s, at)
            <4> DEFINE to == Word(at) % 16384
            <4>1. to \in Nat /\ s[to].next >= 0
                <5>1. Word(at) \in Nat
                    BY <3>3, OctetsAre DEF PointerAt
                <5> QED BY <3>3, <5>1 DEF PointerAt
            <4>2. t[to] = s[to]
                BY <2>2, <4>1
            <4>3. PointerAt(t, at) /\ PointerOf(t, at) = PointerOf(s, at)
                BY <3>3, <4>2 DEF PointerAt, PointerOf
            <4> QED BY <3>3, <4>3, OneStepMoreIs
        <3>4. CASE ~EndsAt(at) /\ ~LabelAt(s, at) /\ ~PointerAt(s, at)
            <4>1. OneStepMore(s, at) = NoName
                BY <3>4, OneStepMoreIs
            <4> QED BY <2>4, <4>1 DEF NoName
        <3> QED BY <3>1, <3>2, <3>3, <3>4
    <2> QED BY <2>3, <2>5 DEF t
<1>3. P \in SUBSET Nat
    OBVIOUS
<1> HIDE DEF P
<1>4. P = Nat
    BY <1>1, <1>2, <1>3, Induction
<1> QED BY <1>4 DEF P

\* Nor with any number of steps more.
LEMMA NamesStayLonger ==
    ASSUME PacketOK, NEW few \in Nat, NEW at \in Nat, Names[few][at].next >= 0
    PROVE  \A steps \in Nat : few <= steps => Names[steps][at] = Names[few][at]
<1> DEFINE P == {n \in Nat : Names[few + n][at] = Names[few][at]}
<1>1. 0 \in P
    BY few + 0 = few
<1>2. ASSUME NEW n \in P PROVE n + 1 \in P
    <2>1. n \in Nat /\ few + n \in Nat /\ (few + n) + 1 = few + (n + 1)
        OBVIOUS
    <2>2. Names[few + n][at] = Names[few][at]
        OBVIOUS
    <2>3. Names[(few + n) + 1][at] = Names[few + n][at]
        BY <2>1, <2>2, NamesStay
    <2>4. Names[few + (n + 1)][at] = Names[few][at]
        BY <2>1, <2>2, <2>3
    <2> QED BY <2>1, <2>4
<1>3. P \in SUBSET Nat
    OBVIOUS
<1>4. P = Nat
    <2> HIDE DEF P
    <2> QED BY <1>1, <1>2, <1>3, Induction
<1> TAKE steps \in Nat
<1> SUFFICES ASSUME few <= steps PROVE Names[steps][at] = Names[few][at]
    OBVIOUS
<1>5. steps - few \in Nat /\ few + (steps - few) = steps
    OBVIOUS
<1>6. steps - few \in P
    BY <1>4, <1>5
<1> QED BY <1>5, <1>6

\* A name that ends is read in some number of steps, one of them here.
LEMMA LastStep ==
    ASSUME PacketOK, NEW steps \in Nat, NEW at \in Nat,
           Names[steps][at].next >= 0
    PROVE  /\ steps - 1 \in Nat
           /\ Names[steps - 1] \in NameTable
           /\ Names[steps][at] = OneStepMore(Names[steps - 1], at)
           /\ \/ EndsAt(at) \/ LabelAt(Names[steps - 1], at)
              \/ PointerAt(Names[steps - 1], at)
<1>1. steps # 0
    BY NamesAre DEF NoName
<1>2. steps - 1 \in Nat /\ (steps - 1) + 1 = steps
    BY <1>1
<1>3. /\ Names[steps - 1] \in NameTable
      /\ Names[(steps - 1) + 1][at] = OneStepMore(Names[steps - 1], at)
    BY <1>2, NamesAre
<1>4. Names[steps][at] = OneStepMore(Names[steps - 1], at)
    BY <1>2, <1>3
<1>5. OneStepMore(Names[steps - 1], at) # NoName
    BY <1>4 DEF NoName
<1> QED BY <1>2, <1>3, <1>4, <1>5, OneStepMoreIs

Cursor == [labels : Seq(Seq(0 .. 255)), original : Nat, current : Nat,
           jumped : BOOLEAN, jumps : Nat, visited : SUBSET Nat, encoded : Nat]

\* The name from the place of a cursor on, of the steps that are left.
Left(c) == MAX_DOMAIN_LENGTH + MAX_POINTER_JUMPS + 1 - (Len(c.labels) + c.jumps)

Rest(c) == Names[Left(c)][c.current]

\* What was read and the rest are the name of the question.
Continues(c) ==
    /\ NameAt.next >= 0 <=> Rest(c).next >= 0
    /\ Rest(c).next >= 0 =>
          /\ NameAt.labels = c.labels \o Rest(c).labels
          /\ NameAt.encoded = c.encoded + Rest(c).encoded
          /\ NameAt.jumps = c.jumps + Rest(c).jumps
          /\ NameAt.next = IF c.jumped THEN c.original ELSE Rest(c).next

\* Where a name that ends was followed to, the rest of it ends as well, and
\* has no more pointers.
Nearer(c) ==
    \A v \in c.visited, steps \in Nat :
        Names[steps][v].next >= 0 =>
            /\ Names[steps][c.current].next >= 0
            /\ Names[steps][c.current].jumps <= Names[steps][v].jumps

\* The labels with the length octet of each.
WithLengths(labels) == [i \in DOMAIN labels |-> <<46>> \o labels[i]]

Within(c) ==
    /\ Len(c.labels) <= c.encoded /\ c.encoded <= MAX_DOMAIN_LENGTH
    /\ c.jumps <= MAX_POINTER_JUMPS
    /\ \A i \in DOMAIN c.labels : Decodable(c.labels[i])

Measured(c) == Len(FlattenSeq(WithLengths(c.labels))) = c.encoded

\* The loop of _read_domain.
NameInv(c) == Within(c) /\ Measured(c) /\ Continues(c) /\ Nearer(c)

\* After it.
QuestionInv(c) ==
    /\ Within(c) /\ Measured(c) /\ c.encoded + 1 <= MAX_DOMAIN_LENGTH
    /\ NameAt.next = c.original
    /\ NameAt.labels = c.labels
    /\ NameAt.encoded = c.encoded
    /\ NameAt.jumps = c.jumps

ParsedInv ==
    /\ PacketOK /\ cursor \in Cursor
    /\ parse \in {"header", "name", "question", "accepted", "refused"}
    /\ parse \in {"header", "name"} => NameInv(cursor)
    /\ parse \in {"name", "question", "accepted"} => HeaderValid
    /\ parse \in {"question", "accepted"} => QuestionInv(cursor)
    /\ parse = "accepted" => /\ Available(cursor.original, 4)
                             /\ Word(cursor.original + 2) = IN_CLASS
    /\ parse = "refused" => ~(HeaderValid /\ Acceptable(NameAt))

-----------------------------------------------------------------------------
(* A turn of the loop.                                                     *)

\* Within the limits at least one step is left.
LEMMA StepsLeft ==
    ASSUME NEW c \in Cursor, Within(c)
    PROVE  /\ Left(c) \in Nat /\ Left(c) - 1 \in Nat
           /\ (Left(c) - 1) + 1 = Left(c)
           /\ c.current \in Nat
<1> DEFINE n == Len(c.labels)
           m == c.jumps
           e == c.encoded
<1>1. n \in Nat /\ m \in Nat /\ e \in Nat /\ c.current \in Nat
    <2>1. c.labels \in Seq(Seq(0 .. 255))
        BY DEF Cursor
    <2>2. c.jumps \in Nat /\ c.encoded \in Nat /\ c.current \in Nat
        BY DEF Cursor
    <2> QED BY <2>1, <2>2, LenProperties
<1> DEFINE D == MAX_DOMAIN_LENGTH
           J == MAX_POINTER_JUMPS
<1>2. /\ n <= e /\ e <= D /\ m <= J
      /\ D \in Nat /\ J \in Nat
    BY ParserAssumption DEF Within
<1>3. Left(c) = D + J + 1 - (n + m)
    BY DEF Left
<1> DEFINE r == Left(c)
<1>4. r = D + J + 1 - (n + m)
    BY <1>3
<1> HIDE DEF n, m, e, D, J, r
<1>5. r \in Nat /\ r - 1 \in Nat /\ (r - 1) + 1 = r
    BY <1>1, <1>2, <1>4
<1> QED BY <1>1, <1>5 DEF r

\* The name at a place, by what is there.
LEMMA RestIs ==
    ASSUME PacketOK, NEW c \in Cursor, Within(c)
    PROVE  /\ Rest(c) \in Name
           /\ EndsAt(c.current) => Rest(c) = EndOf(c.current)
           /\ LabelAt(Names[Left(c) - 1], c.current) =>
                 Rest(c) = LabelOf(Names[Left(c) - 1], c.current)
           /\ PointerAt(Names[Left(c) - 1], c.current) =>
                 Rest(c) = PointerOf(Names[Left(c) - 1], c.current)
           /\ Rest(c).next >= 0 =>
                 \/ EndsAt(c.current) \/ LabelAt(Names[Left(c) - 1], c.current)
                 \/ PointerAt(Names[Left(c) - 1], c.current)
<1>1. /\ Left(c) \in Nat /\ Left(c) - 1 \in Nat
      /\ (Left(c) - 1) + 1 = Left(c) /\ c.current \in Nat
    BY StepsLeft
<1> DEFINE n == Left(c) - 1
<1>2. Names[n + 1][c.current] = OneStepMore(Names[n], c.current)
    <2> HIDE DEF n
    <2>1. n \in Nat
        BY <1>1 DEF n
    <2> QED BY <1>1, <2>1, NamesAre
<1>3. Rest(c) = OneStepMore(Names[Left(c) - 1], c.current)
    BY <1>1, <1>2 DEF Rest
<1>4. Names[Left(c) - 1] \in NameTable
    BY <1>1, NamesAre
<1>5. ~(NoName.next >= 0)
    BY DEF NoName
<1>6. Rest(c) \in Name
    BY <1>1, <1>3, <1>4, OneStepMoreType
<1> QED BY <1>1, <1>3, <1>5, <1>6, OneStepMoreIs

\* One more label, whose octet says how long it is.
LabelTurn(c, d) ==
    LET octet == Octet(c.current)
        label == SubSeq(packet, c.current + 2, c.current + 1 + octet)
    IN  /\ Available(c.current, 1) /\ octet \in 1 .. 63
        /\ Available(c.current + 1, octet)
        /\ c.encoded + 1 + octet <= MAX_DOMAIN_LENGTH /\ Decodable(label)
        /\ d.labels = Append(c.labels, label)
        /\ d.encoded = c.encoded + 1 + octet
        /\ d.current = c.current + 1 + octet
        /\ d.original = c.original /\ d.jumped = c.jumped
        /\ d.jumps = c.jumps /\ d.visited = c.visited

\* What the turn adds.
LEMMA LabelAdds ==
    ASSUME PacketOK, NEW c \in Cursor, NEW d, LabelTurn(c, d)
    PROVE  \E octet \in 1 .. 63, label \in Seq(0 .. 255) :
              /\ octet = Octet(c.current) /\ Len(label) = octet
              /\ label = SubSeq(packet, c.current + 2, c.current + 1 + octet)
              /\ Available(c.current, 1) /\ Available(c.current + 1, octet)
              /\ Decodable(label)
              /\ d.labels = Append(c.labels, label)
              /\ d.encoded = c.encoded + 1 + octet
              /\ d.current = c.current + 1 + octet
<1> DEFINE octet == Octet(c.current)
           label == SubSeq(packet, c.current + 2, c.current + 1 + octet)
<1>1. octet \in 1 .. 63 /\ octet \in Nat /\ c.current \in Nat
    <2>1. octet \in 1 .. 63
        BY Zenon DEF LabelTurn
    <2>2. c.current \in Nat
        BY DEF Cursor
    <2> QED BY <2>1, <2>2
<1>2. Available(c.current + 1, octet)
    BY DEF LabelTurn
<1>3. label \in Seq(0 .. 255) /\ Len(label) = octet
    <2> HIDE DEF octet
    <2> QED BY <1>1, <1>2, LabelOctets
<1>4. /\ octet = Octet(c.current)
      /\ label = SubSeq(packet, c.current + 2, c.current + 1 + octet)
      /\ Available(c.current, 1) /\ Available(c.current + 1, octet)
      /\ Decodable(label)
      /\ d.labels = Append(c.labels, label)
      /\ d.encoded = c.encoded + 1 + octet
      /\ d.current = c.current + 1 + octet
    BY Zenon DEF LabelTurn
<1> HIDE DEF octet, label
<1> QED BY <1>1, <1>3, <1>4, Zenon

\* The limits.
LEMMA LabelWithin ==
    ASSUME PacketOK, NEW c \in Cursor, NEW d \in Cursor, Within(c),
           LabelTurn(c, d)
    PROVE  Within(d)
<1>1. PICK octet \in 1 .. 63, label \in Seq(0 .. 255) :
         /\ Decodable(label) /\ d.labels = Append(c.labels, label)
         /\ d.encoded = c.encoded + 1 + octet
    BY LabelAdds
<1> DEFINE Labels == Seq(0 .. 255)
           n == Len(c.labels)
           e == c.encoded
<1>2. c.labels \in Seq(Labels) /\ label \in Labels /\ e \in Nat
    BY DEF Cursor
<1> HIDE DEF Labels
<1>3. n \in Nat /\ DOMAIN c.labels = 1 .. n
    BY <1>2, LenProperties
<1>4. /\ Len(d.labels) = n + 1 /\ DOMAIN d.labels = 1 .. n + 1
      /\ \A i \in 1 .. n : d.labels[i] = c.labels[i]
      /\ d.labels[n + 1] = label
    BY <1>1, <1>2, AppendProperties
<1>5. Len(d.labels) <= d.encoded
    <2>1. n <= e
        BY DEF Within
    <2>2. d.encoded = e + 1 + octet
        BY <1>1
    <2> HIDE DEF n, e
    <2> QED BY <1>2, <1>3, <1>4, <2>1, <2>2
<1>6. ASSUME NEW i \in DOMAIN d.labels PROVE Decodable(d.labels[i])
    <2>1. i \in 1 .. n \/ i = n + 1
        <3> HIDE DEF n
        <3> QED BY <1>3, <1>4
    <2>2. \A j \in 1 .. n : Decodable(c.labels[j])
        BY <1>3 DEF Within
    <2> HIDE DEF n
    <2> QED BY <1>1, <1>4, <2>1, <2>2
<1>7. d.encoded <= MAX_DOMAIN_LENGTH /\ d.jumps = c.jumps
    BY DEF LabelTurn
<1>8. c.jumps <= MAX_POINTER_JUMPS
    BY DEF Within
<1> QED BY <1>5, <1>6, <1>7, <1>8 DEF Within

\* The length of a name is counted as it is read.
LEMMA LabelMeasured ==
    ASSUME PacketOK, NEW c \in Cursor, NEW d \in Cursor, Measured(c),
           LabelTurn(c, d)
    PROVE  Measured(d)
<1>1. PICK octet \in 1 .. 63, label \in Seq(0 .. 255) :
         /\ Len(label) = octet /\ d.labels = Append(c.labels, label)
         /\ d.encoded = c.encoded + 1 + octet
    BY LabelAdds
<1> DEFINE O == 0 .. 255
           L == Seq(O)
           n == Len(c.labels)
           ss == WithLengths(c.labels)
           s == <<46>> \o label
<1>2. c.labels \in Seq(L) /\ label \in L /\ c.encoded \in Nat
    BY DEF Cursor
<1>3. /\ s \in L /\ Len(s) = 1 + octet
      /\ \A l \in L : <<46>> \o l \in L
    <2>1. <<46>> \in L /\ Len(<<46>>) = 1
        <3>1. 46 \in O
            OBVIOUS
        <3> HIDE DEF O
        <3> QED BY <3>1
    <2> HIDE DEF O
    <2>2. \A l \in L : <<46>> \o l \in L
        BY <2>1, ConcatProperties
    <2>3. Len(s) = Len(<<46>>) + Len(label)
        BY <1>2, <2>1, ConcatProperties
    <2> QED BY <1>1, <1>2, <2>1, <2>2, <2>3
<1> HIDE DEF L
<1>4. n \in Nat /\ DOMAIN c.labels = 1 .. n /\ \A i \in 1 .. n : c.labels[i] \in L
    BY <1>2, LenProperties, ElementOfSeq
<1>5. ss \in Seq(L) /\ Len(ss) = n
    <2>1. ss = [i \in 1 .. n |-> <<46>> \o c.labels[i]]
        BY <1>4 DEF WithLengths
    <2>2. \A i \in 1 .. n : <<46>> \o c.labels[i] \in L
        BY <1>3, <1>4
    <2> HIDE DEF n, ss
    <2>3. ss \in [1 .. n -> L]
        BY <2>1, <2>2
    <2>4. ss \in Seq(L)
        BY <1>4, <2>3, SeqDef
    <2> QED BY <1>4, <2>3, <2>4, LenProperties
<1>6. WithLengths(d.labels) = Append(ss, s)
    <2>1. /\ DOMAIN d.labels = 1 .. n + 1
          /\ \A i \in 1 .. n : d.labels[i] = c.labels[i]
          /\ d.labels[n + 1] = label
        BY <1>1, <1>2, AppendProperties, LenProperties
    <2>2. WithLengths(d.labels) = [i \in 1 .. n + 1 |-> <<46>> \o d.labels[i]]
        BY <2>1 DEF WithLengths
    <2>3. \A i \in 1 .. n : ss[i] = <<46>> \o c.labels[i]
        BY <1>4 DEF WithLengths
    <2>4. Append(ss, s) = [i \in 1 .. n + 1 |-> IF i = n + 1 THEN s ELSE ss[i]]
        <3> HIDE DEF n, ss, s
        <3>1. /\ Append(ss, s) \in Seq(L) /\ Len(Append(ss, s)) = n + 1
              /\ \A i \in 1 .. n : Append(ss, s)[i] = ss[i]
              /\ Append(ss, s)[n + 1] = s
            BY <1>3, <1>5, AppendProperties
        <3>2. Append(ss, s) = [i \in 1 .. n + 1 |-> Append(ss, s)[i]]
            BY <3>1, LenProperties
        <3>3. \A i \in 1 .. n + 1 : Append(ss, s)[i] =
                                        IF i = n + 1 THEN s ELSE ss[i]
            BY <1>4, <3>1
        <3> QED BY <3>2, <3>3
    <2>5. \A i \in 1 .. n + 1 : <<46>> \o d.labels[i] =
                                   IF i = n + 1 THEN s ELSE ss[i]
        <3> TAKE i \in 1 .. n + 1
        <3>1. CASE i = n + 1
            BY <2>1, <3>1
        <3>2. CASE i # n + 1
            <4>1. i \in 1 .. n
                <5> HIDE DEF n
                <5> QED BY <1>4, <3>2
            <4>2. <<46>> \o d.labels[i] = ss[i]
                BY <2>1, <2>3, <4>1
            <4> QED BY <3>2, <4>2
        <3> QED BY <3>1, <3>2
    <2> HIDE DEF n, ss, s
    <2> QED BY <2>2, <2>4, <2>5
<1>7. FlattenSeq(Append(ss, s)) = FlattenSeq(ss) \o s /\ FlattenSeq(ss) \in L
    <2>1. ss \in Seq(Seq(O)) /\ s \in Seq(O)
        BY <1>3, <1>5 DEF L
    <2> HIDE DEF ss, s, O
    <2> QED BY <2>1, OneMorePiece DEF L
<1>8. Len(FlattenSeq(ss) \o s) = Len(FlattenSeq(ss)) + Len(s)
    <2> HIDE DEF ss, s
    <2>1. FlattenSeq(ss) \in Seq(O) /\ s \in Seq(O)
        BY <1>3, <1>7 DEF L
    <2> QED BY <2>1, ConcatProperties
<1>9. Len(FlattenSeq(ss)) = c.encoded
    BY DEF Measured
<1>10. Len(FlattenSeq(WithLengths(d.labels))) = d.encoded
    <2> DEFINE k == Len(FlattenSeq(ss))
    <2>1. Len(FlattenSeq(WithLengths(d.labels))) = k + Len(s)
        BY <1>6, <1>7, <1>8
    <2> HIDE DEF ss, s
    <2>2. k = c.encoded /\ Len(s) = 1 + octet /\ d.encoded = c.encoded + 1 + octet
        BY <1>1, <1>3, <1>9
    <2> HIDE DEF k
    <2>3. k + Len(s) = c.encoded + (1 + octet)
        BY <2>2
    <2>4. c.encoded + (1 + octet) = c.encoded + 1 + octet
        BY <1>2
    <2> QED BY <2>1, <2>2, <2>3, <2>4
<1> QED BY <1>10 DEF Measured

\* A pointer followed to a place that no pointer led to so far.
PointerTurn(c, d) ==
    LET pointer == Word(c.current) - 192 * 256
    IN  /\ Available(c.current, 2) /\ Octet(c.current) >= 192
        /\ c.jumps + 1 <= MAX_POINTER_JUMPS /\ pointer \notin c.visited
        /\ d.original = IF c.jumped THEN c.original ELSE c.current + 2
        /\ d.jumps = c.jumps + 1 /\ d.visited = c.visited \cup {pointer}
        /\ d.current = pointer /\ d.jumped = TRUE
        /\ d.labels = c.labels /\ d.encoded = c.encoded

\* Where a pointer leads.
LEMMA PointerLeads ==
    ASSUME PacketOK, NEW at \in Nat, Available(at, 2), Octet(at) >= 192
    PROVE  /\ Word(at) - 192 * 256 \in Nat /\ Available(at, 1)
           /\ Word(at) % 16384 = Word(at) - 192 * 256
           /\ ~(Octet(at) \in 1 .. 63) /\ Octet(at) # 0
<1>1. Available(at, 1)
    BY LenProperties DEF PacketOK, Available
<1>2. /\ Octet(at) \in 0 .. 255 /\ Octet(at + 1) \in 0 .. 255
      /\ Word(at) % 16384 = Word(at) - 192 * 256
    BY <1>1, OctetsAre
<1> DEFINE high == Octet(at)
           low == Octet(at + 1)
<1>3. Word(at) = 256 * high + low
    BY DEF Word
<1>4. high \in 0 .. 255 /\ low \in 0 .. 255 /\ high >= 192
    BY <1>2
<1> HIDE DEF high, low
<1>5. Word(at) - 192 * 256 \in Nat /\ ~(high \in 1 .. 63) /\ high # 0
    BY <1>3, <1>4
<1> QED BY <1>1, <1>2, <1>5 DEF high

\* The limits.
LEMMA PointerWithin ==
    ASSUME NEW c \in Cursor, NEW d \in Cursor, Within(c), PointerTurn(c, d)
    PROVE  Within(d)
BY DEF Within, PointerTurn

\* A pointer adds nothing to the name.
LEMMA PointerMeasured ==
    ASSUME NEW c \in Cursor, NEW d \in Cursor, Measured(c), PointerTurn(c, d)
    PROVE  Measured(d)
BY DEF Measured, PointerTurn

\* A turn of the loop leaves a step less, and the rest with it.
LEMMA PointerContinues ==
    ASSUME PacketOK, NEW c \in Cursor, NEW d \in Cursor, Within(c),
           Continues(c), PointerTurn(c, d)
    PROVE  Continues(d)
<1> DEFINE names == Names[Left(c) - 1]
           at == c.current
           to == Word(at) - 192 * 256
<1>1. /\ Left(c) \in Nat /\ Left(c) - 1 \in Nat /\ at \in Nat
      /\ names \in NameTable
    BY StepsLeft, NamesAre
<1>2. Available(at, 2) /\ Octet(at) >= 192
    BY DEF PointerTurn
<1>3. /\ to \in Nat /\ Available(at, 1) /\ Word(at) % 16384 = to
      /\ ~(Octet(at) \in 1 .. 63) /\ Octet(at) # 0
    <2> HIDE DEF at
    <2> QED BY <1>1, <1>2, PointerLeads
<1>4. Left(d) = Left(c) - 1
    <2>1. d.labels = c.labels /\ d.jumps = c.jumps + 1
        BY DEF PointerTurn
    <2> DEFINE n == Len(c.labels)
               m == c.jumps
               D == MAX_DOMAIN_LENGTH
               J == MAX_POINTER_JUMPS
    <2>2. Left(d) = D + J + 1 - (n + (m + 1)) /\ Left(c) = D + J + 1 - (n + m)
        BY <2>1 DEF Left
    <2>3. n \in Nat /\ m \in Nat /\ D \in Nat /\ J \in Nat
        <3>1. c.labels \in Seq(Seq(0 .. 255)) /\ m \in Nat
            BY DEF Cursor
        <3> QED BY <3>1, LenProperties, ParserAssumption
    <2> HIDE DEF n, m, D, J
    <2> QED BY <2>2, <2>3
<1>5. Rest(d) = names[to]
    <2>1. d.current = to
        BY DEF PointerTurn
    <2> QED BY <1>4, <2>1 DEF Rest
<1>6. names[to].next >= 0 =>
         Rest(c) = [labels |-> names[to].labels, encoded |-> names[to].encoded,
                    jumps |-> names[to].jumps + 1, next |-> at + 2]
    <2> SUFFICES ASSUME names[to].next >= 0
                 PROVE Rest(c) = PointerOf(names, at)
        BY <1>3 DEF PointerOf
    <2>1. PointerAt(names, at)
        <3> HIDE DEF names, at
        <3> QED BY <1>2, <1>3 DEF PointerAt
    <2> QED BY <2>1, RestIs
<1>7. Rest(c).next >= 0 => names[to].next >= 0
    <2> SUFFICES ASSUME Rest(c).next >= 0 PROVE names[to].next >= 0
        OBVIOUS
    <2>1. EndsAt(at) \/ LabelAt(names, at) \/ PointerAt(names, at)
        BY RestIs
    <2>2. ~EndsAt(at) /\ ~LabelAt(names, at)
        BY <1>3 DEF EndsAt, LabelAt
    <2>3. PointerAt(names, at)
        BY <2>1, <2>2
    <2> HIDE DEF names, at, to
    <2> QED BY <1>3, <2>3 DEF PointerAt
<1>8. names[to] \in Name
    <2> HIDE DEF names, to
    <2> QED BY <1>1, <1>3 DEF NameTable
<1> DEFINE rest == names[to]
<1>9. /\ rest.next >= 0 => /\ Rest(c).labels = rest.labels
                           /\ Rest(c).encoded = rest.encoded
                           /\ Rest(c).jumps = rest.jumps + 1
                           /\ Rest(c).next = at + 2
      /\ rest.next >= 0 <=> Rest(c).next >= 0
    <2> HIDE DEF names, to
    <2>1. ASSUME rest.next >= 0
          PROVE  /\ Rest(c).labels = rest.labels
                 /\ Rest(c).encoded = rest.encoded
                 /\ Rest(c).jumps = rest.jumps + 1
                 /\ Rest(c).next = at + 2
        BY <1>6, <2>1
    <2>2. rest.next >= 0 => Rest(c).next >= 0
        <3>1. at + 2 >= 0
            BY <1>1
        <3> QED BY <2>1, <3>1
    <2> QED BY <1>7, <2>1, <2>2
<1>10. /\ Rest(d) = rest /\ rest \in Name
    BY <1>5, <1>8
<1> HIDE DEF rest, names, at, to
<1>11. NameAt.next >= 0 <=> rest.next >= 0
    BY <1>9 DEF Continues
<1>12. ASSUME rest.next >= 0
       PROVE  /\ NameAt.labels = d.labels \o rest.labels
              /\ NameAt.encoded = d.encoded + rest.encoded
              /\ NameAt.jumps = d.jumps + rest.jumps
              /\ NameAt.next = IF d.jumped THEN d.original ELSE rest.next
    <2>1. /\ NameAt.labels = c.labels \o rest.labels
          /\ NameAt.encoded = c.encoded + rest.encoded
          /\ NameAt.jumps = c.jumps + (rest.jumps + 1)
          /\ NameAt.next = IF c.jumped THEN c.original ELSE at + 2
        BY <1>9, <1>12 DEF Continues
    <2>2. /\ d.labels = c.labels /\ d.encoded = c.encoded
          /\ d.jumps = c.jumps + 1 /\ d.jumped = TRUE
          /\ d.original = IF c.jumped THEN c.original ELSE at + 2
        BY DEF PointerTurn, at
    <2>3. c.jumps \in Nat /\ rest.jumps \in Nat
        BY <1>10 DEF Cursor, Name
    <2>4. c.jumps + (rest.jumps + 1) = c.jumps + 1 + rest.jumps
        BY <2>3
    <2> QED BY <2>1, <2>2, <2>4
<1> QED BY <1>10, <1>11, <1>12 DEF Continues

\* A label of the name and the rest behind it.
LEMMA LabelContinues ==
    ASSUME PacketOK, NEW c \in Cursor, NEW d \in Cursor, Within(c),
           Continues(c), LabelTurn(c, d)
    PROVE  Continues(d)
<1>1. PICK octet \in 1 .. 63, label \in Seq(0 .. 255) :
         /\ octet = Octet(c.current) /\ Len(label) = octet
         /\ label = SubSeq(packet, c.current + 2, c.current + 1 + octet)
         /\ Available(c.current, 1) /\ Available(c.current + 1, octet)
         /\ d.labels = Append(c.labels, label)
         /\ d.encoded = c.encoded + 1 + octet
         /\ d.current = c.current + 1 + octet
    BY LabelAdds
<1> DEFINE names == Names[Left(c) - 1]
           at == c.current
           to == at + 1 + octet
           rest == names[to]
<1>2. /\ Left(c) \in Nat /\ Left(c) - 1 \in Nat /\ at \in Nat
      /\ names \in NameTable
    BY StepsLeft, NamesAre
<1>3. /\ octet = Octet(at) /\ to \in Nat
      /\ ~(Octet(at) >= 192) /\ Octet(at) # 0
    <2>1. octet = Octet(at)
        BY <1>1
    <2>2. octet \in Nat /\ ~(octet >= 192) /\ octet # 0
        OBVIOUS
    <2> HIDE DEF at
    <2> QED BY <1>2, <2>1, <2>2
<1>4. Left(d) = Left(c) - 1
    <2> DEFINE n == Len(c.labels)
               m == c.jumps
               D == MAX_DOMAIN_LENGTH
               J == MAX_POINTER_JUMPS
    <2>1. n \in Nat /\ m \in Nat /\ D \in Nat /\ J \in Nat
        <3>1. c.labels \in Seq(Seq(0 .. 255)) /\ m \in Nat
            BY DEF Cursor
        <3> QED BY <3>1, LenProperties, ParserAssumption
    <2>2. Len(d.labels) = n + 1
        <3> DEFINE L == Seq(0 .. 255)
        <3>1. c.labels \in Seq(L) /\ label \in L
            BY DEF Cursor
        <3> HIDE DEF L
        <3> QED BY <1>1, <3>1, AppendProperties
    <2>3. d.jumps = m
        BY DEF LabelTurn
    <2>4. Left(d) = D + J + 1 - ((n + 1) + m) /\ Left(c) = D + J + 1 - (n + m)
        BY <2>2, <2>3 DEF Left
    <2> HIDE DEF n, m, D, J
    <2> QED BY <2>1, <2>4
<1>5. Rest(d) = rest
    <2>1. d.current = to
        BY <1>1
    <2> QED BY <1>4, <2>1 DEF Rest
<1>6. rest \in Name
    <2> HIDE DEF names, to
    <2> QED BY <1>2, <1>3 DEF NameTable
<1>7. rest.next >= 0 => Rest(c) = LabelOf(names, at)
    <2> SUFFICES ASSUME rest.next >= 0 PROVE Rest(c) = LabelOf(names, at)
        OBVIOUS
    <2>1. LabelAt(names, at)
        <3>1. Available(at, 1) /\ Available(at + 1, Octet(at))
            BY <1>1
        <3>2. Octet(at) \in 1 .. 63
            BY <1>1
        <3>3. names[at + 1 + Octet(at)].next >= 0
            BY <1>3
        <3> HIDE DEF names, at
        <3> QED BY <3>1, <3>2, <3>3 DEF LabelAt
    <2> QED BY <2>1, RestIs
<1>8. LabelOf(names, at) =
         [labels |-> <<label>> \o rest.labels,
          encoded |-> rest.encoded + 1 + octet,
          jumps |-> rest.jumps, next |-> rest.next]
    <2>1. octet = Octet(at) /\ label = SubSeq(packet, at + 2, at + 1 + octet)
        BY <1>1
    <2> HIDE DEF names, at
    <2> QED BY <2>1 DEF LabelOf
<1>9. Rest(c).next >= 0 => rest.next >= 0
    <2> SUFFICES ASSUME Rest(c).next >= 0 PROVE rest.next >= 0
        OBVIOUS
    <2>1. EndsAt(at) \/ LabelAt(names, at) \/ PointerAt(names, at)
        BY RestIs
    <2>2. ~EndsAt(at) /\ ~PointerAt(names, at)
        BY <1>3 DEF EndsAt, PointerAt
    <2>3. LabelAt(names, at)
        BY <2>1, <2>2
    <2> HIDE DEF names, at
    <2> QED BY <1>3, <2>3 DEF LabelAt
<1>10. at \in Nat /\ c.labels \in Seq(Seq(0 .. 255)) /\ c.encoded \in Nat
    BY <1>2 DEF Cursor
<1> HIDE DEF rest, to, names, at
<1>11. ASSUME rest.next >= 0
       PROVE  /\ Rest(c).labels = <<label>> \o rest.labels
              /\ Rest(c).encoded = rest.encoded + 1 + octet
              /\ Rest(c).jumps = rest.jumps /\ Rest(c).next = rest.next
    BY <1>7, <1>8, <1>11
<1>12. NameAt.next >= 0 <=> rest.next >= 0
    BY <1>9, <1>11 DEF Continues
<1>13. ASSUME rest.next >= 0
       PROVE  /\ NameAt.labels = d.labels \o rest.labels
              /\ NameAt.encoded = d.encoded + rest.encoded
              /\ NameAt.jumps = d.jumps + rest.jumps
              /\ NameAt.next = IF d.jumped THEN d.original ELSE rest.next
    <2>1. Rest(c).next >= 0
        BY <1>11, <1>13
    <2>2. /\ NameAt.labels = c.labels \o (<<label>> \o rest.labels)
          /\ NameAt.encoded = c.encoded + (rest.encoded + 1 + octet)
          /\ NameAt.jumps = c.jumps + rest.jumps
          /\ NameAt.next = IF c.jumped THEN c.original ELSE rest.next
        BY <1>11, <1>13, <2>1 DEF Continues
    <2>3. c.labels \o (<<label>> \o rest.labels) = d.labels \o rest.labels
        <3> DEFINE L == Seq(0 .. 255)
                   a == c.labels
                   one == <<label>>
                   z == rest.labels
        <3>1. a \in Seq(L) /\ label \in L /\ z \in Seq(L)
            BY <1>6, <1>10 DEF Name
        <3> HIDE DEF L
        <3>2. one \in Seq(L)
            BY <3>1
        <3>3. d.labels = Append(a, label)
            BY <1>1
        <3> HIDE DEF a, z
        <3>4. d.labels = a \o one
            BY <3>1, <3>3, AppendIsConcat
        <3> HIDE DEF one
        <3>5. (a \o one) \o z = a \o (one \o z)
            BY <3>1, <3>2, ConcatAssociative
        <3>6. a \o (one \o z) = d.labels \o z
            BY <3>4, <3>5
        <3> QED BY <3>6 DEF a, one, z
    <2>4. c.encoded + (rest.encoded + 1 + octet) = d.encoded + rest.encoded
        <3>1. rest.encoded \in Nat /\ d.encoded = c.encoded + 1 + octet
            BY <1>1, <1>6 DEF Name
        <3> QED BY <1>10, <3>1
    <2>5. d.jumps = c.jumps /\ d.jumped = c.jumped /\ d.original = c.original
        BY DEF LabelTurn
    <2> QED BY <2>2, <2>3, <2>4, <2>5
<1> QED BY <1>5, <1>12, <1>13 DEF Continues

\* A name with a step to be read leads to one with a pointer less, if the step
\* is a pointer, and to one with as many otherwise.
LEMMA OneStepNearer ==
    ASSUME PacketOK, NEW steps \in Nat, NEW at \in Nat,
           Names[steps][at].next >= 0
    PROVE  /\ Octet(at) \in 1 .. 63 =>
                 /\ Names[steps][at + 1 + Octet(at)].next >= 0
                 /\ Names[steps][at + 1 + Octet(at)].jumps = Names[steps][at].jumps
           /\ Octet(at) >= 192 =>
                 /\ Names[steps][Word(at) % 16384].next >= 0
                 /\ Names[steps][at].jumps
                       = Names[steps][Word(at) % 16384].jumps + 1
<1> DEFINE few == steps - 1
<1>1. /\ few \in Nat /\ Names[few] \in NameTable /\ few <= steps
      /\ Names[steps][at] = OneStepMore(Names[few], at)
      /\ EndsAt(at) \/ LabelAt(Names[few], at) \/ PointerAt(Names[few], at)
    BY LastStep
<1> HIDE DEF few
<1>2. ASSUME Octet(at) \in 1 .. 63
      PROVE  /\ Names[steps][at + 1 + Octet(at)].next >= 0
             /\ Names[steps][at + 1 + Octet(at)].jumps = Names[steps][at].jumps
    <2> DEFINE to == at + 1 + Octet(at)
    <2>1. ~EndsAt(at) /\ ~PointerAt(Names[few], at) /\ to \in Nat
        BY <1>2 DEF EndsAt, PointerAt
    <2>2. LabelAt(Names[few], at)
        BY <1>1, <2>1
    <2>3. Names[few][to].next >= 0
        BY <2>2 DEF LabelAt
    <2>4. Names[steps][at].jumps = Names[few][to].jumps
        <3>1. Names[steps][at] = LabelOf(Names[few], at)
            BY <1>1, <2>2, OneStepMoreIs
        <3>2. LabelOf(Names[few], at).jumps = Names[few][to].jumps
            BY DEF LabelOf
        <3> QED BY <3>1, <3>2
    <2> HIDE DEF to
    <2>5. Names[steps][to] = Names[few][to]
        BY <1>1, <2>1, <2>3, NamesStayLonger
    <2>6. /\ Names[steps][to].next >= 0
          /\ Names[steps][to].jumps = Names[steps][at].jumps
        BY <2>3, <2>4, <2>5
    <2> QED BY <2>6 DEF to
<1>3. ASSUME Octet(at) >= 192
      PROVE  /\ Names[steps][Word(at) % 16384].next >= 0
             /\ Names[steps][at].jumps = Names[steps][Word(at) % 16384].jumps + 1
    <2> DEFINE to == Word(at) % 16384
    <2>1. ~EndsAt(at) /\ ~LabelAt(Names[few], at)
        BY <1>3 DEF EndsAt, LabelAt
    <2>2. PointerAt(Names[few], at)
        BY <1>1, <2>1
    <2>3. Names[few][to].next >= 0 /\ Available(at, 2)
        BY <2>2 DEF PointerAt
    <2>4. Names[steps][at].jumps = Names[few][to].jumps + 1
        BY <1>1, <2>2, OneStepMoreIs DEF PointerOf
    <2>5. to \in Nat
        BY <1>3, <2>3, PointerLeads
    <2> HIDE DEF to
    <2>6. Names[steps][to] = Names[few][to]
        BY <1>1, <2>3, <2>5, NamesStayLonger
    <2>7. /\ Names[steps][to].next >= 0
          /\ Names[steps][at].jumps = Names[steps][to].jumps + 1
        BY <2>3, <2>4, <2>6
    <2> QED BY <2>7 DEF to
<1> QED BY <1>2, <1>3

\* So it stays for the places where the name was followed to.
LEMMA LabelNearer ==
    ASSUME PacketOK, NEW c \in Cursor, NEW d \in Cursor, Nearer(c),
           LabelTurn(c, d)
    PROVE  Nearer(d)
<1> DEFINE at == c.current
           to == at + 1 + Octet(at)
<1>1. at \in Nat /\ c.visited \in SUBSET Nat
    BY DEF Cursor
<1>2. Octet(at) \in 1 .. 63 /\ d.current = to /\ d.visited = c.visited
    BY Zenon DEF LabelTurn
<1> SUFFICES ASSUME NEW v \in c.visited, NEW steps \in Nat,
                    Names[steps][v].next >= 0
             PROVE  /\ Names[steps][to].next >= 0
                    /\ Names[steps][to].jumps <= Names[steps][v].jumps
    BY <1>2 DEF Nearer
<1>3. /\ Names[steps][at].next >= 0
      /\ Names[steps][at].jumps <= Names[steps][v].jumps
    BY DEF Nearer
<1> HIDE DEF at
<1>4. Names[steps][to].next >= 0 /\ Names[steps][to].jumps = Names[steps][at].jumps
    BY <1>1, <1>2, <1>3, OneStepNearer
<1> QED BY <1>3, <1>4

\* The place of the pointer is one of them from now on.
LEMMA PointerNearer ==
    ASSUME PacketOK, NEW c \in Cursor, NEW d \in Cursor, Nearer(c),
           PointerTurn(c, d)
    PROVE  Nearer(d)
<1> DEFINE at == c.current
           to == Word(at) - 192 * 256
<1>1. at \in Nat /\ c.visited \in SUBSET Nat
    BY DEF Cursor
<1>2. /\ Available(at, 2) /\ Octet(at) >= 192
      /\ d.current = to /\ d.visited = c.visited \cup {to}
    BY Zenon DEF PointerTurn
<1>3. to \in Nat /\ Word(at) % 16384 = to
    <2> HIDE DEF at
    <2> QED BY <1>1, <1>2, PointerLeads
<1> SUFFICES ASSUME NEW v \in c.visited \cup {to}, NEW steps \in Nat,
                    Names[steps][v].next >= 0
             PROVE  /\ Names[steps][to].next >= 0
                    /\ Names[steps][to].jumps <= Names[steps][v].jumps
    BY <1>2 DEF Nearer
<1>4. Names[steps] \in NameTable
    BY NamesAre
<1> HIDE DEF at, to
<1>5. Names[steps][to].jumps \in Nat
    <2>1. Names[steps][to] \in Name
        BY <1>3, <1>4 DEF NameTable
    <2> QED BY <2>1 DEF Name
<1>6. CASE v = to
    BY <1>5, <1>6
<1>7. CASE v \in c.visited
    <2>1. /\ Names[steps][at].next >= 0
          /\ Names[steps][at].jumps <= Names[steps][v].jumps
        BY <1>7 DEF Nearer, at
    <2>2. /\ Names[steps][to].next >= 0
          /\ Names[steps][at].jumps = Names[steps][to].jumps + 1
        BY <1>1, <1>2, <1>3, <2>1, OneStepNearer
    <2>3. Names[steps][v].jumps \in Nat
        BY <1>1, <1>4, <1>7 DEF NameTable, Name
    <2> DEFINE x == Names[steps][to].jumps
               y == Names[steps][v].jumps
    <2>4. x \in Nat /\ y \in Nat /\ x + 1 <= y
        BY <1>5, <2>1, <2>2, <2>3
    <2> HIDE DEF x, y
    <2>5. x <= y
        BY <2>4
    <2> QED BY <2>2, <2>5 DEF x, y
<1> QED BY <1>6, <1>7

\* A pointer that was followed before goes on for ever: no name is there.
LEMMA NoWayBack ==
    ASSUME PacketOK, NEW c \in Cursor, Nearer(c), NEW steps \in Nat,
           Available(c.current, 2), Octet(c.current) >= 192,
           Word(c.current) - 192 * 256 \in c.visited
    PROVE  ~(Names[steps][c.current].next >= 0)
<1> SUFFICES ASSUME Names[steps][c.current].next >= 0 PROVE FALSE
    OBVIOUS
<1> DEFINE at == c.current
           to == Word(at) - 192 * 256
<1>1. at \in Nat
    BY DEF Cursor
<1>2. to \in Nat /\ Word(at) % 16384 = to
    <2> HIDE DEF at
    <2>1. Available(at, 2) /\ Octet(at) >= 192
        BY DEF at
    <2> QED BY <1>1, <2>1, PointerLeads
<1>3. Octet(at) >= 192 /\ Names[steps][at].next >= 0 /\ to \in c.visited
    OBVIOUS
<1> HIDE DEF at, to
<1>4. /\ Names[steps][to].next >= 0
      /\ Names[steps][at].jumps = Names[steps][to].jumps + 1
    BY <1>1, <1>2, <1>3, OneStepNearer
<1>5. Names[steps][at].jumps <= Names[steps][to].jumps
    BY <1>3, <1>4 DEF Nearer, at
<1>6. Names[steps][to].jumps \in Nat
    <2>1. Names[steps] \in NameTable
        BY NamesAre
    <2>2. Names[steps][to] \in Name
        BY <1>2, <2>1 DEF NameTable
    <2> QED BY <2>2 DEF Name
<1> DEFINE x == Names[steps][to].jumps
<1>7. x \in Nat /\ x + 1 <= x
    BY <1>4, <1>5, <1>6
<1> HIDE DEF x
<1> QED BY <1>7

\* What of an acceptable question the loop reads at a label.
LEMMA LabelAccepted ==
    ASSUME PacketOK, NEW c \in Cursor, NameInv(c), Acceptable(NameAt),
           Available(c.current, 1), Octet(c.current) \in 1 .. 63
    PROVE  /\ Available(c.current + 1, Octet(c.current))
           /\ c.encoded + 1 + Octet(c.current) <= MAX_DOMAIN_LENGTH
           /\ Decodable(SubSeq(packet, c.current + 2,
                               c.current + 1 + Octet(c.current)))
<1> DEFINE names == Names[Left(c) - 1]
           at == c.current
           octet == Octet(at)
           to == at + 1 + octet
           rest == names[to]
           label == SubSeq(packet, at + 2, at + 1 + octet)
<1>1. /\ Left(c) \in Nat /\ Left(c) - 1 \in Nat /\ at \in Nat
      /\ names \in NameTable
    BY StepsLeft, NamesAre DEF NameInv
<1>2. /\ octet \in 1 .. 63 /\ octet \in Nat /\ ~(octet >= 192) /\ octet # 0
    OBVIOUS
<1>3. Rest(c).next >= 0
    BY DEF NameInv, Continues, Acceptable
<1>4. LabelAt(names, at)
    <2>1. EndsAt(at) \/ LabelAt(names, at) \/ PointerAt(names, at)
        BY <1>3, RestIs DEF NameInv
    <2>2. ~EndsAt(at) /\ ~PointerAt(names, at)
        BY <1>2 DEF EndsAt, PointerAt
    <2> QED BY <2>1, <2>2
<1>5. Available(at + 1, octet)
    BY <1>4, Zenon DEF LabelAt
<1>6. Rest(c) = LabelOf(names, at)
    BY <1>4, RestIs DEF NameInv
<1>7. to \in Nat
    <2> HIDE DEF at, octet
    <2> QED BY <1>1, <1>2
<1>8. rest \in Name
    <2> HIDE DEF names, to
    <2> QED BY <1>1, <1>7 DEF NameTable
<1>9. label \in Seq(0 .. 255)
    <2> HIDE DEF octet, at
    <2> QED BY <1>1, <1>2, <1>5, LabelOctets
<1>10. LabelOf(names, at) = [labels |-> <<label>> \o rest.labels,
                             encoded |-> rest.encoded + 1 + octet,
                             jumps |-> rest.jumps, next |-> rest.next]
    BY Zenon DEF LabelOf
<1> HIDE DEF names, octet, to, rest, label
<1>11. /\ NameAt.labels = c.labels \o (<<label>> \o rest.labels)
       /\ NameAt.encoded = c.encoded + (rest.encoded + 1 + octet)
    <2>1. /\ NameAt.labels = c.labels \o Rest(c).labels
          /\ NameAt.encoded = c.encoded + Rest(c).encoded
        BY <1>3 DEF NameInv, Continues
    <2>2. /\ Rest(c).labels = <<label>> \o rest.labels
          /\ Rest(c).encoded = rest.encoded + 1 + octet
        BY <1>6, <1>10
    <2> QED BY <2>1, <2>2
<1>12. c.encoded + 1 + octet <= MAX_DOMAIN_LENGTH
    <2>1. NameAt.encoded + 1 <= MAX_DOMAIN_LENGTH
        BY DEF Acceptable
    <2>2. rest.encoded \in Nat /\ c.encoded \in Nat
        BY <1>8 DEF Name, Cursor
    <2>3. MAX_DOMAIN_LENGTH \in Nat
        BY ParserAssumption
    <2> DEFINE x == rest.encoded
               y == c.encoded
    <2>4. /\ y + (x + 1 + octet) + 1 <= MAX_DOMAIN_LENGTH
          /\ x \in Nat /\ y \in Nat
        BY <1>11, <2>1, <2>2
    <2> HIDE DEF x, y
    <2>5. y + 1 + octet <= MAX_DOMAIN_LENGTH
        BY <1>2, <2>3, <2>4
    <2> QED BY <2>5 DEF y
<1>13. Decodable(label)
    <2> DEFINE L == Seq(0 .. 255)
               s == c.labels
               n == Len(s)
               t == <<label>> \o rest.labels
    <2>1. s \in Seq(L) /\ rest.labels \in Seq(L) /\ label \in L
        BY <1>8, <1>9 DEF Cursor, Name
    <2> HIDE DEF L
    <2>2. t \in Seq(L) /\ Len(t) \in Nat /\ Len(t) >= 1 /\ t[1] = label
        <3> DEFINE one == <<label>>
                   z == rest.labels
        <3>1. one \in Seq(L) /\ Len(one) = 1 /\ one[1] = label /\ z \in Seq(L)
            BY <2>1
        <3> HIDE DEF one, z
        <3>2. Len(z) \in Nat
            BY <3>1, LenProperties
        <3>3. /\ one \o z \in Seq(L) /\ Len(one \o z) = Len(one) + Len(z)
              /\ \A i \in 1 .. Len(one) + Len(z) : (one \o z)[i] =
                    IF i <= Len(one) THEN one[i] ELSE z[i - Len(one)]
            BY <3>1, ConcatProperties
        <3>4. 1 \in 1 .. Len(one) + Len(z) /\ 1 <= Len(one)
            BY <3>1, <3>2
        <3>5. (one \o z)[1] = label
            BY <3>1, <3>3, <3>4
        <3>6. Len(one \o z) \in Nat /\ Len(one \o z) >= 1
            BY <3>1, <3>2, <3>3
        <3> QED BY <3>3, <3>5, <3>6 DEF one, z
    <2> HIDE DEF s, t
    <2>3. n \in Nat
        BY <2>1, LenProperties
    <2>4. /\ s \o t \in Seq(L) /\ Len(s \o t) = n + Len(t)
          /\ \A i \in 1 .. n + Len(t) : (s \o t)[i] =
                IF i <= n THEN s[i] ELSE t[i - n]
        BY <2>1, <2>2, ConcatProperties
    <2> HIDE DEF n
    <2>5. n + 1 \in 1 .. n + Len(t) /\ ~(n + 1 <= n) /\ (n + 1) - n = 1
        BY <2>2, <2>3
    <2>6. (s \o t)[n + 1] = t[(n + 1) - n]
        BY <2>4, <2>5
    <2>7. (s \o t)[n + 1] = label
        BY <2>2, <2>5, <2>6
    <2>8. DOMAIN (s \o t) = 1 .. n + Len(t)
        BY <2>4, LenProperties
    <2>9. \A i \in DOMAIN (s \o t) : Decodable((s \o t)[i])
        <3>1. NameAt.labels = s \o t
            BY <1>11 DEF s, t
        <3>2. \A i \in DOMAIN NameAt.labels : Decodable(NameAt.labels[i])
            BY DEF Acceptable
        <3> QED BY <3>1, <3>2
    <2> QED BY <2>5, <2>7, <2>8, <2>9
<1> QED BY <1>5, <1>12, <1>13 DEF label, octet

\* What of an acceptable question it reads at a pointer.
LEMMA PointerAccepted ==
    ASSUME PacketOK, NEW c \in Cursor, NameInv(c), Acceptable(NameAt),
           Available(c.current, 1), Octet(c.current) >= 192
    PROVE  /\ Available(c.current, 2)
           /\ ~(Word(c.current) - 192 * 256 >= Len(packet))
           /\ c.jumps + 1 <= MAX_POINTER_JUMPS
           /\ Word(c.current) - 192 * 256 \notin c.visited
<1> DEFINE names == Names[Left(c) - 1]
           at == c.current
           to == Word(at) - 192 * 256
           rest == names[to]
<1>1. /\ Left(c) \in Nat /\ Left(c) - 1 \in Nat /\ at \in Nat
      /\ names \in NameTable
    BY StepsLeft, NamesAre DEF NameInv
<1>2. Octet(at) >= 192 /\ Octet(at) \in 0 .. 255
    BY <1>1, OctetsAre
<1>3. Rest(c).next >= 0
    BY DEF NameInv, Continues, Acceptable
<1>4. PointerAt(names, at)
    <2>1. EndsAt(at) \/ LabelAt(names, at) \/ PointerAt(names, at)
        BY <1>3, RestIs DEF NameInv
    <2>2. ~EndsAt(at) /\ ~LabelAt(names, at)
        <3> HIDE DEF at
        <3> QED BY <1>2 DEF EndsAt, LabelAt
    <2> QED BY <2>1, <2>2
<1>5. Available(at, 2)
    <2> HIDE DEF names, at
    <2> QED BY <1>4 DEF PointerAt
<1>6. Rest(c) = PointerOf(names, at)
    BY <1>4, RestIs DEF NameInv
<1>7. to \in Nat /\ Word(at) % 16384 = to
    <2> HIDE DEF at
    <2> QED BY <1>1, <1>2, <1>5, PointerLeads
<1>8. rest \in Name
    <2> HIDE DEF names, to
    <2> QED BY <1>1, <1>7 DEF NameTable
<1>9. rest.next >= 0 /\ Rest(c).jumps = rest.jumps + 1
    <2>1. rest.next >= 0
        <3>1. names[Word(at) % 16384].next >= 0
            <4> HIDE DEF names, at
            <4> QED BY <1>4 DEF PointerAt
        <3> QED BY <1>7, <3>1
    <2>2. PointerOf(names, at).jumps = rest.jumps + 1
        <3> HIDE DEF names, at
        <3> QED BY <1>7 DEF PointerOf
    <2> QED BY <1>6, <2>1, <2>2
<1>10. to + 1 <= Len(packet)
    <2> DEFINE few == Left(c) - 1
    <2>1. few \in Nat
        BY <1>1
    <2> HIDE DEF few, to
    <2>2. Names[few][to].next >= 0
        BY <1>9 DEF few
    <2>3. \/ EndsAt(to) \/ LabelAt(Names[few - 1], to)
          \/ PointerAt(Names[few - 1], to)
        BY <1>7, <2>1, <2>2, LastStep
    <2>4. Available(to, 1)
        BY <2>3 DEF EndsAt, LabelAt, PointerAt
    <2> QED BY <2>4 DEF Available
<1>11. ~(to >= Len(packet))
    <2>1. Len(packet) \in Nat
        BY LenProperties DEF PacketOK
    <2> HIDE DEF to
    <2> QED BY <1>7, <1>10, <2>1
<1>12. c.jumps + 1 <= MAX_POINTER_JUMPS
    <2> DEFINE x == rest.jumps
               y == c.jumps
    <2>1. x \in Nat /\ y \in Nat
        <3> HIDE DEF rest
        <3> QED BY <1>8 DEF Name, Cursor
    <2>2. NameAt.jumps = y + (x + 1)
        BY <1>3, <1>9 DEF NameInv, Continues
    <2>3. y + (x + 1) <= MAX_POINTER_JUMPS
        BY <2>2 DEF Acceptable
    <2>4. MAX_POINTER_JUMPS \in Nat
        BY ParserAssumption
    <2> HIDE DEF x, y
    <2>5. y + 1 <= MAX_POINTER_JUMPS
        BY <2>1, <2>3, <2>4
    <2> QED BY <2>5 DEF y
<1>13. to \notin c.visited
    <2> SUFFICES ASSUME to \in c.visited PROVE FALSE
        OBVIOUS
    <2>1. ~(Names[Left(c)][c.current].next >= 0)
        BY <1>1, <1>5, NoWayBack DEF NameInv
    <2> QED BY <1>3, <2>1 DEF Rest
<1> QED BY <1>5, <1>11, <1>12, <1>13

\* Where the loop cannot go on there is no name.
LEMMA NothingElseAccepted ==
    ASSUME PacketOK, NEW c \in Cursor, NameInv(c),
           ~Available(c.current, 1) \/ Octet(c.current) \in 64 .. 191
    PROVE  ~Acceptable(NameAt)
<1> DEFINE names == Names[Left(c) - 1]
           at == c.current
<1>1. ~EndsAt(at) /\ ~LabelAt(names, at) /\ ~PointerAt(names, at)
    BY DEF EndsAt, LabelAt, PointerAt
<1>2. ~(Rest(c).next >= 0)
    BY <1>1, RestIs DEF NameInv
<1> QED BY <1>2 DEF NameInv, Continues, Acceptable

\* At the end of a name the whole of it was read.
LEMMA EndAccepted ==
    ASSUME PacketOK, NEW c \in Cursor, NameInv(c), EndsAt(c.current)
    PROVE  /\ NameAt.labels = c.labels /\ NameAt.encoded = c.encoded
           /\ NameAt.jumps = c.jumps
           /\ NameAt.next = IF c.jumped THEN c.original ELSE c.current + 1
<1>1. Rest(c) = [labels |-> <<>>, encoded |-> 0, jumps |-> 0,
                 next |-> c.current + 1]
    BY RestIs DEF NameInv, EndOf
<1>2. c.current \in Nat /\ c.encoded \in Nat /\ c.jumps \in Nat
    BY DEF Cursor
<1>3. Rest(c).next >= 0
    BY <1>1, <1>2
<1>4. c.labels \o <<>> = c.labels
    <2>1. c.labels \in Seq(Seq(0 .. 255))
        BY DEF Cursor
    <2> QED BY <2>1, ConcatEmptySeq
<1>5. /\ NameAt.labels = c.labels \o <<>>
      /\ NameAt.encoded = c.encoded + 0 /\ NameAt.jumps = c.jumps + 0
      /\ NameAt.next = IF c.jumped THEN c.original ELSE c.current + 1
    <2>1. /\ NameAt.labels = c.labels \o Rest(c).labels
          /\ NameAt.encoded = c.encoded + Rest(c).encoded
          /\ NameAt.jumps = c.jumps + Rest(c).jumps
          /\ NameAt.next = IF c.jumped THEN c.original ELSE Rest(c).next
        BY <1>3 DEF NameInv, Continues
    <2>2. /\ Rest(c).labels = <<>> /\ Rest(c).encoded = 0
          /\ Rest(c).jumps = 0 /\ Rest(c).next = c.current + 1
        BY <1>1
    <2> QED BY <2>1, <2>2
<1> QED BY <1>2, <1>4, <1>5

\* Of no labels nothing is put together.
LEMMA NothingTogether == FlattenSeq(WithLengths(<<>>)) = <<>>
<1>1. WithLengths(<<>>) = <<>>
    BY DEF WithLengths
<1> DEFINE none == <<>>
           S == Seq(0 .. 255)
<1>2. none \in Seq(S) /\ Len(none) = 0
    OBVIOUS
<1> HIDE DEF none
<1>3. PICK g \in [0 .. Len(none) -> S] :
         /\ g[0] = <<>>
         /\ \A n \in 1 .. Len(none) : g[n] = g[n - 1] \o none[n]
         /\ FlattenSeq(none) = g[Len(none)]
    BY <1>2, Flattened
<1>4. FlattenSeq(none) = <<>>
    BY <1>2, <1>3
<1> QED BY <1>1, <1>4 DEF none

\* The parser begins with a query and nothing read of it.
LEMMA ParsedInit == ParserInit => ParsedInv
<1> SUFFICES ASSUME ParserInit PROVE ParsedInv
    OBVIOUS
<1>1. PacketOK
    BY ParserAssumption DEF ParserInit, PacketOK
<1>2. /\ cursor = [labels |-> <<>>, original |-> 12, current |-> 12,
                   jumped |-> FALSE, jumps |-> 0, visited |-> {}, encoded |-> 0]
      /\ parse = "header"
    BY DEF ParserInit, DNS_HEADER_SIZE
<1>3. /\ cursor.labels = <<>> /\ cursor.current = 12 /\ cursor.jumped = FALSE
      /\ cursor.jumps = 0 /\ cursor.visited = {} /\ cursor.encoded = 0
    BY <1>2
<1>4. cursor \in Cursor
    BY <1>2 DEF Cursor
<1>5. Within(cursor)
    BY <1>3, ParserAssumption DEF Within
<1>6. Measured(cursor)
    BY <1>3, NothingTogether DEF Measured
<1>7. Rest(cursor) = NameAt
    <2> DEFINE D == MAX_DOMAIN_LENGTH
               J == MAX_POINTER_JUMPS
    <2>1. D \in Nat /\ J \in Nat
        BY ParserAssumption
    <2>2. Left(cursor) = D + J + 1 - (0 + 0)
        BY <1>3 DEF Left
    <2>3. NameAt = Names[D + J + 1][12]
        BY DEF NameAt, DNS_HEADER_SIZE
    <2> HIDE DEF D, J
    <2>4. D + J + 1 - (0 + 0) = D + J + 1
        BY <2>1
    <2> QED BY <1>3, <2>2, <2>3, <2>4 DEF Rest
<1>8. Continues(cursor)
    <2>1. NameAt \in Name
        BY <1>1, <1>4, <1>5, <1>7, RestIs
    <2>2. /\ NameAt.labels \in Seq(Seq(0 .. 255))
          /\ NameAt.encoded \in Nat /\ NameAt.jumps \in Nat
        BY <2>1 DEF Name
    <2>3. <<>> \o NameAt.labels = NameAt.labels
        BY <2>2, ConcatEmptySeq
    <2>4. /\ 0 + NameAt.encoded = NameAt.encoded
          /\ 0 + NameAt.jumps = NameAt.jumps
        BY <2>2
    <2> QED BY <1>3, <1>7, <2>3, <2>4 DEF Continues
<1>9. Nearer(cursor)
    BY <1>3 DEF Nearer
<1> QED BY <1>1, <1>2, <1>4, <1>5, <1>6, <1>8, <1>9 DEF ParsedInv, NameInv

-----------------------------------------------------------------------------
(* What the actions do to the cursor.                                      *)

\* A label is read, or a pointer followed, when it is not refused.
LEMMA ReadLabelDoes ==
    ASSUME ReadLabel, parse' # "refused"
    PROVE  LET octet == Octet(cursor.current)
               label == SubSeq(packet, cursor.current + 1 + 1,
                               cursor.current + 1 + octet)
           IN  /\ cursor' = [cursor EXCEPT
                                !.labels = Append(cursor.labels, label),
                                !.encoded = cursor.encoded + 1 + octet,
                                !.current = cursor.current + 1 + octet]
               /\ cursor.encoded + 1 + octet <= MAX_DOMAIN_LENGTH
               /\ Available(cursor.current + 1, octet) /\ Decodable(label)
               /\ packet' = packet /\ parse' = parse
BY Zenon DEF ReadLabel, Refuse

\* And for a pointer.
LEMMA FollowPointerDoes ==
    ASSUME FollowPointer, parse' # "refused"
    PROVE  LET pointer == Word(cursor.current) - 192 * 256
           IN  /\ cursor' = [cursor EXCEPT
                                !.original = AfterPointer,
                                !.jumps = cursor.jumps + 1,
                                !.visited = cursor.visited \cup {pointer},
                                !.current = pointer, !.jumped = TRUE]
               /\ Available(cursor.current, 2)
               /\ ~(pointer >= Len(packet))
               /\ ~(cursor.jumps + 1 > MAX_POINTER_JUMPS)
               /\ pointer \notin cursor.visited
               /\ packet' = packet /\ parse' = parse
BY Zenon DEF FollowPointer, Refuse

\* The kinds of octets.
LEMMA KindsAre ==
    /\ Here("end") => parse = "name" /\ EndsAt(cursor.current)
    /\ Here("label") => /\ parse = "name" /\ Available(cursor.current, 1)
                        /\ Octet(cursor.current) \in 1 .. 63
    /\ Here("reserved") => /\ parse = "name" /\ Available(cursor.current, 1)
                           /\ Octet(cursor.current) \in 64 .. 191
    /\ Here("pointer") => /\ parse = "name" /\ Available(cursor.current, 1)
                          /\ Octet(cursor.current) >= 192
BY DEF Here, EndsAt

\* A step leaves the packet, and so what the names in it are.
LEMMA SamePacket ==
    ASSUME ParserNext
    PROVE  packet' = packet
BY DEF ParserNext, ReadHeader, PastTheEnd, NameEnds, ReadLabel, FollowPointer,
       ReservedLabel, ReadQuestion, Refuse

\* The names of a packet are the same as long as it is.
LEMMA SameNames ==
    ASSUME packet' = packet
    PROVE  /\ Names' = Names /\ NameAt' = NameAt
           /\ PacketOK' <=> PacketOK
           /\ HeaderValid' <=> HeaderValid
           /\ Acceptable(NameAt)' <=> Acceptable(NameAt)
<1>1. Names' = Names
    BY SMT DEF Names, OneStepMore, Octet, Available, Word
<1>2. NameAt' = NameAt
    BY <1>1 DEF NameAt
<1>3. PacketOK' <=> PacketOK
    BY DEF PacketOK
<1>4. HeaderValid' <=> HeaderValid
    BY DEF HeaderValid, Octet, Available, Word
<1>5. Acceptable(NameAt)' <=> Acceptable(NameAt)
    BY <1>2 DEF Acceptable, Octet, Word
<1> QED BY <1>1, <1>2, <1>3, <1>4, <1>5

\* With the packet the parts of the invariant stay what they say of a cursor.
LEMMA SameParts ==
    ASSUME packet' = packet
    PROVE  /\ NameInv(cursor)' <=> NameInv(cursor')
           /\ QuestionInv(cursor)' <=> QuestionInv(cursor')
<1>1. Names' = Names /\ NameAt' = NameAt
    BY SameNames
<1>2. Continues(cursor)' <=> Continues(cursor')
    BY <1>1 DEF Continues, Rest, Left
<1>3. Nearer(cursor)' <=> Nearer(cursor')
    BY <1>1 DEF Nearer
<1>4. /\ Within(cursor)' <=> Within(cursor')
      /\ Measured(cursor)' <=> Measured(cursor')
    BY DEF Within, Measured, WithLengths
<1>5. QuestionInv(cursor)' <=> QuestionInv(cursor')
    BY <1>1, <1>4 DEF QuestionInv
<1> QED BY <1>2, <1>3, <1>4, <1>5 DEF NameInv

\* A label is read, or there is none to be read of an acceptable question.
LEMMA ReadLabelInv == ParsedInv /\ ReadLabel => ParsedInv'
<1> SUFFICES ASSUME ParsedInv, ReadLabel PROVE ParsedInv'
    OBVIOUS
<1>1. /\ parse = "name" /\ Available(cursor.current, 1)
      /\ Octet(cursor.current) \in 1 .. 63
      /\ PacketOK /\ cursor \in Cursor /\ HeaderValid /\ NameInv(cursor)
    BY KindsAre DEF ParsedInv, ReadLabel
<1>2. packet' = packet
    BY SamePacket DEF ParserNext
<1>3. CASE parse' = "refused"
    <2>1. cursor' = cursor
        BY <1>1, <1>3 DEF ReadLabel, Refuse
    <2>2. ~Acceptable(NameAt)
        <3> SUFFICES ASSUME Acceptable(NameAt) PROVE FALSE
            OBVIOUS
        <3> DEFINE octet == Octet(cursor.current)
                   label == SubSeq(packet, cursor.current + 2,
                                   cursor.current + 1 + octet)
        <3>1. /\ Available(cursor.current + 1, octet)
              /\ cursor.encoded + 1 + octet <= MAX_DOMAIN_LENGTH
              /\ Decodable(label)
            BY <1>1, LabelAccepted
        <3>2. cursor.current \in Nat
            BY <1>1 DEF Cursor
        <3>3. (cursor.current + 1) + 1 = cursor.current + 2
            BY <3>2
        <3>4. parse' = parse
            BY <3>1, <3>3, Zenon DEF ReadLabel
        <3> QED BY <1>1, <1>3, <3>4
    <2> QED BY <1>1, <1>2, <1>3, <2>1, <2>2, SameNames DEF ParsedInv
<1>4. CASE parse' # "refused"
    <2> DEFINE octet == Octet(cursor.current)
               label == SubSeq(packet, cursor.current + 2,
                               cursor.current + 1 + octet)
    <2>1. cursor.current \in Nat /\ cursor.encoded \in Nat /\ octet \in 1 .. 63
        BY <1>1 DEF Cursor
    <2>2. (cursor.current + 1) + 1 = cursor.current + 2
        BY <2>1
    <2>3. /\ cursor' = [cursor EXCEPT !.labels = Append(cursor.labels, label),
                                      !.encoded = cursor.encoded + 1 + octet,
                                      !.current = cursor.current + 1 + octet]
          /\ cursor.encoded + 1 + octet <= MAX_DOMAIN_LENGTH
          /\ Available(cursor.current + 1, octet) /\ Decodable(label)
          /\ packet' = packet /\ parse' = parse
        BY <1>4, <2>2, ReadLabelDoes, Zenon
    <2>4. label \in Seq(0 .. 255)
        <3>1. octet \in Nat
            BY <2>1
        <3> HIDE DEF octet
        <3> QED BY <1>1, <2>1, <2>3, <3>1, LabelOctets
    <2>5. Append(cursor.labels, label) \in Seq(Seq(0 .. 255))
        <3> DEFINE L == Seq(0 .. 255)
        <3>1. cursor.labels \in Seq(L) /\ label \in L
            BY <1>1, <2>4 DEF Cursor
        <3> HIDE DEF L, label
        <3>2. Append(cursor.labels, label) \in Seq(L)
            BY <3>1, AppendProperties
        <3> QED BY <3>2 DEF L
    <2>6. cursor.encoded + 1 + octet \in Nat /\ cursor.current + 1 + octet \in Nat
        <3> HIDE DEF octet
        <3> QED BY <2>1
    <2>7. /\ cursor' \in Cursor
          /\ cursor'.labels = Append(cursor.labels, label)
          /\ cursor'.encoded = cursor.encoded + 1 + octet
          /\ cursor'.current = cursor.current + 1 + octet
          /\ cursor'.original = cursor.original
          /\ cursor'.jumped = cursor.jumped
          /\ cursor'.jumps = cursor.jumps /\ cursor'.visited = cursor.visited
        <3> DEFINE o == Append(cursor.labels, label)
                   p == cursor.encoded + 1 + octet
                   q == cursor.current + 1 + octet
        <3>1. /\ o \in Seq(Seq(0 .. 255)) /\ p \in Nat /\ q \in Nat
              /\ cursor' = [cursor EXCEPT !.labels = o, !.encoded = p,
                                          !.current = q]
            BY <2>3, <2>5, <2>6
        <3> HIDE DEF o, p, q
        <3>2. /\ cursor' \in Cursor /\ cursor'.labels = o
              /\ cursor'.encoded = p /\ cursor'.current = q
              /\ cursor'.original = cursor.original
              /\ cursor'.jumped = cursor.jumped
              /\ cursor'.jumps = cursor.jumps
              /\ cursor'.visited = cursor.visited
            BY <1>1, <3>1 DEF Cursor
        <3> QED BY <3>2 DEF o, p, q
    <2>8. LabelTurn(cursor, cursor')
        BY <1>1, <2>3, <2>7, Zenon DEF LabelTurn
    <2>9. NameInv(cursor')
        BY <1>1, <2>7, <2>8, LabelWithin, LabelMeasured, LabelContinues,
           LabelNearer DEF NameInv
    <2>10. NameInv(cursor)'
        BY <1>2, <2>9, SameParts
    <2>11. parse' = "name" /\ PacketOK' /\ HeaderValid' /\ (cursor \in Cursor)'
        BY <1>1, <1>2, <2>3, <2>7, SameNames
    <2> QED BY <2>10, <2>11 DEF ParsedInv
<1> QED BY <1>3, <1>4

\* A pointer is followed, or an acceptable question has none like it.
LEMMA FollowPointerInv == ParsedInv /\ FollowPointer => ParsedInv'
<1> SUFFICES ASSUME ParsedInv, FollowPointer PROVE ParsedInv'
    OBVIOUS
<1>1. /\ parse = "name" /\ Available(cursor.current, 1)
      /\ Octet(cursor.current) >= 192
      /\ PacketOK /\ cursor \in Cursor /\ HeaderValid /\ NameInv(cursor)
    BY KindsAre DEF ParsedInv, FollowPointer
<1>2. packet' = packet
    BY SamePacket DEF ParserNext
<1> DEFINE pointer == Word(cursor.current) - 192 * 256
<1>3. /\ cursor.current \in Nat /\ cursor.original \in Nat
      /\ cursor.jumps \in Nat /\ cursor.visited \in SUBSET Nat
      /\ MAX_POINTER_JUMPS \in Nat
    BY <1>1, ParserAssumption DEF Cursor
<1>4. CASE parse' = "refused"
    <2>1. cursor' = cursor
        BY <1>1, <1>4 DEF FollowPointer, Refuse
    <2>2. ~Acceptable(NameAt)
        <3> SUFFICES ASSUME Acceptable(NameAt) PROVE FALSE
            OBVIOUS
        <3>1. /\ Available(cursor.current, 2) /\ ~(pointer >= Len(packet))
              /\ cursor.jumps + 1 <= MAX_POINTER_JUMPS
              /\ pointer \notin cursor.visited
            BY <1>1, PointerAccepted
        <3>2. ~(cursor.jumps + 1 > MAX_POINTER_JUMPS)
            BY <1>3, <3>1
        <3>3. parse' = parse
            BY <3>1, <3>2, Zenon DEF FollowPointer
        <3> QED BY <1>1, <1>4, <3>3
    <2> QED BY <1>1, <1>2, <1>4, <2>1, <2>2, SameNames DEF ParsedInv
<1>5. CASE parse' # "refused"
    <2>1. /\ cursor' = [cursor EXCEPT !.original = AfterPointer,
                                      !.jumps = cursor.jumps + 1,
                                      !.visited = cursor.visited \cup {pointer},
                                      !.current = pointer, !.jumped = TRUE]
          /\ Available(cursor.current, 2)
          /\ ~(cursor.jumps + 1 > MAX_POINTER_JUMPS)
          /\ pointer \notin cursor.visited
          /\ packet' = packet /\ parse' = parse
        BY <1>5, FollowPointerDoes, Zenon
    <2>2. pointer \in Nat
        BY <1>1, <1>3, <2>1, PointerLeads
    <2>3. /\ AfterPointer \in Nat
          /\ AfterPointer = IF cursor.jumped THEN cursor.original
                                            ELSE cursor.current + 2
        BY <1>3 DEF AfterPointer
    <2> HIDE DEF pointer
    <2>4. /\ cursor.jumps + 1 \in Nat
          /\ cursor.visited \cup {pointer} \in SUBSET Nat
          /\ cursor.jumps + 1 <= MAX_POINTER_JUMPS
        BY <1>3, <2>1, <2>2
    <2>5. /\ cursor' \in Cursor /\ cursor'.original = AfterPointer
          /\ cursor'.jumps = cursor.jumps + 1
          /\ cursor'.visited = cursor.visited \cup {pointer}
          /\ cursor'.current = pointer /\ cursor'.jumped = TRUE
          /\ cursor'.labels = cursor.labels
          /\ cursor'.encoded = cursor.encoded
        <3> DEFINE p == cursor.jumps + 1
                   q == cursor.visited \cup {pointer}
        <3>1. /\ AfterPointer \in Nat /\ p \in Nat /\ q \in SUBSET Nat
              /\ cursor' = [cursor EXCEPT !.original = AfterPointer,
                                          !.jumps = p, !.visited = q,
                                          !.current = pointer, !.jumped = TRUE]
            BY <2>1, <2>3, <2>4, Zenon
        <3> HIDE DEF p, q
        <3>2. /\ cursor' \in Cursor /\ cursor'.original = AfterPointer
              /\ cursor'.jumps = p /\ cursor'.visited = q
              /\ cursor'.current = pointer /\ cursor'.jumped = TRUE
              /\ cursor'.labels = cursor.labels
              /\ cursor'.encoded = cursor.encoded
            BY <1>1, <2>2, <3>1 DEF Cursor
        <3> QED BY <3>2 DEF p, q
    <2>6. PointerTurn(cursor, cursor')
        BY <1>1, <2>1, <2>3, <2>4, <2>5, Zenon DEF PointerTurn, pointer
    <2>7. NameInv(cursor')
        BY <1>1, <2>5, <2>6, PointerWithin, PointerMeasured, PointerContinues,
           PointerNearer DEF NameInv
    <2>8. NameInv(cursor)'
        BY <1>2, <2>7, SameParts
    <2>9. parse' = "name" /\ PacketOK' /\ HeaderValid' /\ (cursor \in Cursor)'
        BY <1>1, <1>2, <2>1, <2>5, SameNames
    <2> QED BY <2>8, <2>9 DEF ParsedInv
<1> QED BY <1>4, <1>5

\* The name ends within the limit, or beyond it.
LEMMA NameEndsInv == ParsedInv /\ NameEnds => ParsedInv'
<1> SUFFICES ASSUME ParsedInv, NameEnds PROVE ParsedInv'
    OBVIOUS
<1>1. /\ parse = "name" /\ EndsAt(cursor.current)
      /\ PacketOK /\ cursor \in Cursor /\ HeaderValid /\ NameInv(cursor)
    BY KindsAre DEF ParsedInv, NameEnds
<1>2. packet' = packet
    BY SamePacket DEF ParserNext
<1>3. /\ NameAt.labels = cursor.labels /\ NameAt.encoded = cursor.encoded
      /\ NameAt.jumps = cursor.jumps
      /\ NameAt.next = IF cursor.jumped THEN cursor.original
                                        ELSE cursor.current + 1
    BY <1>1, EndAccepted
<1>4. /\ cursor.encoded \in Nat /\ cursor.current \in Nat
      /\ cursor.original \in Nat /\ MAX_DOMAIN_LENGTH \in Nat
    BY <1>1, ParserAssumption DEF Cursor
<1>5. CASE cursor.encoded + 1 > MAX_DOMAIN_LENGTH
    <2>1. cursor' = cursor /\ parse' = "refused"
        BY <1>5 DEF NameEnds, Refuse
    <2>2. ~(cursor.encoded + 1 <= MAX_DOMAIN_LENGTH)
        BY <1>4, <1>5
    <2>3. ~Acceptable(NameAt)
        BY <1>3, <2>2 DEF Acceptable
    <2> QED BY <1>1, <1>2, <2>1, <2>3, SameNames DEF ParsedInv
<1>6. CASE ~(cursor.encoded + 1 > MAX_DOMAIN_LENGTH)
    <2> DEFINE behind == IF cursor.jumped THEN cursor.original
                                          ELSE cursor.current + 1
    <2>1. cursor' = [cursor EXCEPT !.original = behind] /\ parse' = "question"
        BY <1>6, Zenon DEF NameEnds
    <2>2. behind \in Nat /\ cursor.encoded + 1 <= MAX_DOMAIN_LENGTH
        BY <1>4, <1>6
    <2> HIDE DEF behind
    <2>3. /\ cursor' \in Cursor /\ cursor'.original = behind
          /\ cursor'.labels = cursor.labels /\ cursor'.encoded = cursor.encoded
          /\ cursor'.jumps = cursor.jumps
        BY <1>1, <2>1, <2>2 DEF Cursor
    <2>4. Within(cursor') /\ Measured(cursor')
        BY <1>1, <2>3 DEF NameInv, Within, Measured
    <2>5. QuestionInv(cursor')
        BY <1>3, <2>2, <2>3, <2>4 DEF QuestionInv, behind
    <2>6. QuestionInv(cursor)'
        BY <1>2, <2>5, SameParts
    <2>7. PacketOK' /\ HeaderValid' /\ (cursor \in Cursor)'
        BY <1>1, <1>2, <2>3, SameNames
    <2> QED BY <2>1, <2>6, <2>7 DEF ParsedInv
<1> QED BY <1>5, <1>6

\* Past the end of the packet, and at an octet that is of no kind.
LEMMA NoNameInv == ParsedInv /\ (PastTheEnd \/ ReservedLabel) => ParsedInv'
<1> SUFFICES ASSUME ParsedInv, PastTheEnd \/ ReservedLabel PROVE ParsedInv'
    OBVIOUS
<1>1. /\ parse = "name" /\ PacketOK /\ cursor \in Cursor /\ HeaderValid
      /\ NameInv(cursor)
      /\ \/ ~Available(cursor.current, 1)
         \/ Octet(cursor.current) \in 64 .. 191
    BY KindsAre DEF ParsedInv, PastTheEnd, ReservedLabel
<1>2. ~Acceptable(NameAt)
    BY <1>1, NothingElseAccepted
<1>3. packet' = packet /\ cursor' = cursor /\ parse' = "refused"
    BY DEF PastTheEnd, ReservedLabel, Refuse
<1> QED BY <1>1, <1>2, <1>3, SameNames DEF ParsedInv

\* The header and the rest of the question.
LEMMA ReadHeaderInv == ParsedInv /\ ReadHeader => ParsedInv'
<1> SUFFICES ASSUME ParsedInv, ReadHeader PROVE ParsedInv'
    OBVIOUS
<1>1. parse = "header" /\ PacketOK /\ cursor \in Cursor /\ NameInv(cursor)
    BY DEF ParsedInv, ReadHeader
<1>2. packet' = packet /\ cursor' = cursor
    BY DEF ReadHeader, Refuse
<1>3. CASE HeaderValid
    <2>1. parse' = "name"
        BY <1>3 DEF ReadHeader
    <2>2. NameInv(cursor)'
        BY <1>1, <1>2, SameParts
    <2>3. PacketOK' /\ HeaderValid' /\ (cursor \in Cursor)'
        BY <1>1, <1>2, <1>3, SameNames
    <2> QED BY <2>1, <2>2, <2>3 DEF ParsedInv
<1>4. CASE ~HeaderValid
    <2>1. parse' = "refused"
        BY <1>4 DEF ReadHeader, Refuse
    <2>2. PacketOK' /\ ~HeaderValid' /\ (cursor \in Cursor)'
        BY <1>1, <1>2, <1>4, SameNames
    <2> QED BY <2>1, <2>2 DEF ParsedInv
<1> QED BY <1>3, <1>4

\* The type and the class behind the name are read, or are not what they must be.
LEMMA ReadQuestionInv == ParsedInv /\ ReadQuestion => ParsedInv'
<1> SUFFICES ASSUME ParsedInv, ReadQuestion PROVE ParsedInv'
    OBVIOUS
<1>1. /\ parse = "question" /\ PacketOK /\ cursor \in Cursor /\ HeaderValid
      /\ QuestionInv(cursor)
    BY DEF ParsedInv, ReadQuestion
<1>2. packet' = packet /\ cursor' = cursor
    BY DEF ReadQuestion, Refuse
<1>3. /\ PacketOK' /\ HeaderValid' /\ (cursor \in Cursor)'
      /\ QuestionInv(cursor)'
    BY <1>1, <1>2, SameNames, SameParts
<1> DEFINE Good == /\ Available(cursor.original, 4)
                   /\ Word(cursor.original + 2) = IN_CLASS
<1>4. CASE Good
    <2>1. parse' = "accepted"
        BY <1>4 DEF ReadQuestion
    <2>2. Good'
        BY <1>2, <1>4 DEF Available, Word, Octet, IN_CLASS
    <2> QED BY <1>3, <2>1, <2>2 DEF ParsedInv
<1>5. CASE ~Good
    <2>1. parse' = "refused"
        BY <1>5 DEF ReadQuestion, Refuse
    <2>2. ~Acceptable(NameAt)
        BY <1>1, <1>5 DEF Acceptable, QuestionInv, Available
    <2> QED BY <1>2, <1>3, <2>1, <2>2, SameNames DEF ParsedInv
<1> QED BY <1>4, <1>5

\* Every step leaves the invariant.
LEMMA ParsedStepInv == ParsedInv /\ [ParserNext]_parserVars => ParsedInv'
<1> SUFFICES ASSUME ParsedInv, [ParserNext]_parserVars PROVE ParsedInv'
    OBVIOUS
<1>1. CASE ReadHeader
    BY <1>1, ReadHeaderInv
<1>2. CASE PastTheEnd \/ ReservedLabel
    BY <1>2, NoNameInv
<1>3. CASE NameEnds
    BY <1>3, NameEndsInv
<1>4. CASE ReadLabel
    BY <1>4, ReadLabelInv
<1>5. CASE FollowPointer
    BY <1>5, FollowPointerInv
<1>6. CASE ReadQuestion
    BY <1>6, ReadQuestionInv
<1>7. CASE UNCHANGED parserVars
    <2>1. packet' = packet /\ cursor' = cursor /\ parse' = parse
        BY <1>7 DEF parserVars
    <2>2. /\ NameInv(cursor)' <=> NameInv(cursor)
          /\ QuestionInv(cursor)' <=> QuestionInv(cursor)
        BY <2>1, SameParts
    <2>3. /\ Available(cursor.original, 4)' <=> Available(cursor.original, 4)
          /\ Word(cursor.original + 2)' = Word(cursor.original + 2)
        BY <2>1 DEF Available, Word, Octet
    <2> QED BY <2>1, <2>2, <2>3, SameNames DEF ParsedInv
<1> QED BY <1>1, <1>2, <1>3, <1>4, <1>5, <1>6, <1>7 DEF ParserNext

\* What the invariant says of a question at the end.
LEMMA ParsedIs == ParsedInv => ParsesTheQuestion
<1> SUFFICES ASSUME ParsedInv PROVE ParsesTheQuestion
    OBVIOUS
<1>1. CASE parse = "accepted"
    <2>1. /\ PacketOK /\ cursor \in Cursor /\ HeaderValid /\ QuestionInv(cursor)
          /\ Available(cursor.original, 4)
          /\ Word(cursor.original + 2) = IN_CLASS
        BY <1>1 DEF ParsedInv
    <2>2. /\ NameAt.next = cursor.original /\ NameAt.labels = cursor.labels
          /\ NameAt.encoded = cursor.encoded /\ NameAt.jumps = cursor.jumps
          /\ Within(cursor) /\ Measured(cursor)
          /\ cursor.encoded + 1 <= MAX_DOMAIN_LENGTH
        BY <2>1 DEF QuestionInv
    <2>3. cursor.original \in Nat /\ cursor.encoded \in Nat
        BY <2>1 DEF Cursor
    <2>4. Acceptable(NameAt)
        BY <2>1, <2>2, <2>3 DEF Acceptable, Within, Available
    <2>5. QueryType = Word(NameAt.next)
        BY <2>2 DEF QueryType
    <2> DEFINE dotted == FlattenSeq(WithLengths(cursor.labels))
    <2>6. Domain = IF dotted = <<>> THEN <<46>>
                   ELSE [i \in 1 .. Len(dotted) - 1 |-> LowerCase(dotted[i + 1])]
        BY DEF Domain, WithLengths
    <2>7. Len(dotted) = cursor.encoded
        BY <2>2 DEF Measured
    <2>8. CASE cursor.labels = <<>>
        <3>1. dotted = <<>>
            BY <2>8, NothingTogether
        <3>2. Domain = <<46>>
            BY <2>6, <3>1
        <3> QED BY <1>1, <2>1, <2>2, <2>4, <2>5, <2>8, <3>2
                DEF ParsesTheQuestion
    <2>9. CASE cursor.labels # <<>>
        <3>1. Len(cursor.labels) \in Nat /\ Len(cursor.labels) # 0
            <4>1. cursor.labels \in Seq(Seq(0 .. 255))
                BY <2>1 DEF Cursor
            <4> QED BY <2>9, <4>1, LenProperties, EmptySeq
        <3>2. cursor.encoded >= 1
            BY <2>2, <2>3, <3>1 DEF Within
        <3>3. dotted # <<>>
            BY <2>7, <3>2
        <3> DEFINE n == Len(dotted) - 1
        <3>4. Domain = [i \in 1 .. n |-> LowerCase(dotted[i + 1])]
            BY <2>6, <3>3
        <3>5. n \in Nat /\ n = cursor.encoded - 1
            BY <2>3, <2>7, <3>2
        <3> HIDE DEF n, dotted
        <3>6. Len(Domain) = n
            BY <3>4, <3>5
        <3> QED BY <1>1, <2>1, <2>2, <2>4, <2>5, <2>9, <3>5, <3>6
                DEF ParsesTheQuestion
    <2> QED BY <2>8, <2>9
<1>2. CASE parse = "refused"
    BY <1>2 DEF ParsedInv, ParsesTheQuestion
<1>3. CASE parse \notin {"accepted", "refused"}
    BY <1>3 DEF ParsesTheQuestion
<1> QED BY <1>1, <1>2, <1>3

\* The parser accepts a question exactly when its name, followed through its
\* pointers, comes to an end within the limits, and reads the labels of that
\* name and the type behind its encoding: parse and _read_domain, for all
\* packets of octets, all limits and whichever octets are text.
THEOREM QuestionsAreParsed == ParserSpec => []ParsesTheQuestion
<1>1. ParserInit => ParsedInv
    BY ParsedInit
<1>2. ParsedInv /\ [ParserNext]_parserVars => ParsedInv'
    BY ParsedStepInv
<1>3. ParsedInv => ParsesTheQuestion
    BY ParsedIs
<1> QED BY <1>1, <1>2, <1>3, PTL DEF ParserSpec
=============================================================================
