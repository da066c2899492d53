--------------------------- MODULE MCDNSQueryLog ---------------------------
(* The query log with what has been written, and with what the last        *)
(* clean-up and the last start have done.                                  *)
EXTENDS DNSQueryLog, Functions

VARIABLES
    written,    \* records that went into the file as a line of their own
    cleanedAt,  \* the present of the last clean-up that succeeded
    blind       \* the process could not read the file when it started

writtenLogVars == <<logVars, written, cleanedAt, blind>>

WrittenLogInit == LogInit /\ written = {} /\ cleanedAt = 0 /\ blind = FALSE

MCRecord ==
    /\ RecordInMemory \/ AppendFails \/ CleanUpFails \/ End \/ TimePasses
    /\ UNCHANGED <<written, cleanedAt, blind>>

MCAppend ==
    /\ AppendToFile
    /\ written' = IF file.tail = NoTail THEN written \cup {recording.record}
                                        ELSE written
    /\ UNCHANGED <<cleanedAt, blind>>

MCCleanUp ==
    /\ CleanUp
    /\ cleanedAt' = recording.record.time
    /\ UNCHANGED <<written, blind>>

MCLoad ==
    /\ Load
    /\ cleanedAt' = IF file' = Lines(Fresh(file, time)) THEN time ELSE cleanedAt
    /\ blind' = FALSE
    /\ UNCHANGED written

MCLoadFails == LoadFails /\ blind' = TRUE /\ UNCHANGED <<written, cleanedAt>>

WrittenLogNext == MCRecord \/ MCAppend \/ MCCleanUp \/ MCLoad \/ MCLoadFails

WrittenLogSpec == WrittenLogInit /\ [][WrittenLogNext]_writtenLogVars

\* query_log.py, "Persistence across application restarts": a query that was
\* written as a line of its own stays in the file to the end of its time,
\* whatever fails after that and whenever the process ends.  (One that was
\* written behind a record cut short is lost.)
WrittenSurvives ==
    \A r \in written :
        time - r.time <= Retention => r \in Range(file.lines)

\* query_log.py, "Persistent history is automatically cleaned": a clean-up
\* that succeeds leaves nothing in the file that is out of its time, and
\* nothing of the kind comes back, not by a failure nor by a restart.
NothingOlderThanCleaned ==
    \A r \in Range(Readable(file)) : cleanedAt - r.time <= Retention

\* query_log.py, recent: the pages show the newest queries in the order in
\* which they came, after a restart too: none that the file has is missing
\* unless MaxEntries newer ones are shown.
ShownIsNewest ==
    /\ \A i \in 2 .. Len(entries) : entries[i - 1].number < entries[i].number
    /\ recording.pc # "down" /\ ~blind =>
          \A r \in Range(Fresh(file, time)) \ Range(entries) :
              /\ Len(entries) = MaxEntries
              /\ r.number < entries[1].number
=============================================================================
