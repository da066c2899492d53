---------------------------- MODULE DNSQueryLog ----------------------------
(***************************************************************************)
(* dns_engine/query_log.py: the last queries in memory, and the queries of *)
(* the last PERSISTENCE_SECONDS in a file of one line each, which the next *)
(* process loads.                                                          *)
(*                                                                         *)
(* record() holds the lock to its end, and only the DNS thread calls it;   *)
(* what can come between its steps is the end of the process.  Nothing     *)
(* calls clear().  The wall clock does not go back.                        *)
(***************************************************************************)
EXTENDS Integers, Sequences, Subsequences

CONSTANTS
    MaxEntries,    \* max_entries
    Retention,     \* PERSISTENCE_SECONDS, in clock units
    NoTail, Torn,  \* what may follow the last newline, see file
    DiskFails,     \* TRUE if operations on the file may fail
    LastTime,      \* bounds of the model: the clock,
    MaxRecords,    \* the queries recorded,
    MaxEnds        \* and the ends of the process

ASSUME QueryLogAssumption ==
    /\ MaxEntries \in Nat \ {0}
    /\ Retention \in Nat
    /\ NoTail # Torn
    /\ {NoTail, Torn} \cap [time : Nat, number : Nat \ {0}] = {}
    /\ LastTime \in Nat /\ MaxRecords \in Nat /\ MaxEnds \in Nat

VARIABLES
    time,       \* time()
    entries,    \* _entries, oldest first
    file,       \* the complete lines of the file, and what follows them:
                \* nothing, the beginning of a record, or all of it
    recording,  \* the DNS thread in record(): where, and with which record
    recorded,   \* queries recorded so far
    ends        \* ends of the process so far

logVars == <<time, entries, file, recording, recorded, ends>>

\* Of a query only its place in the sequence of queries is kept.
Record == [time : Nat, number : Nat \ {0}]

Idle == [pc |-> "idle", record |-> NoTail]

Down == recording.pc = "down"

\* What is read: a record that lacks only its newline is read like a line.
Readable(f) ==
    IF f.tail \in {NoTail, Torn} THEN f.lines ELSE Append(f.lines, f.tail)

\* Faulty variant: records are kept whatever their age.
OfAnyAge(f, now) == Readable(f)

\* A record is kept to the last instant of its time.
Fresh(f, now) ==
    LET s == Readable(f)
    IN  Picked(s, {i \in DOMAIN s : now - s[i].time <= Retention})

Lines(s) == [lines |-> s, tail |-> NoTail]

\* Faulty variant: the oldest entries stay.
FirstOf(s) == IF Len(s) <= MaxEntries THEN s ELSE SubSeq(s, 1, MaxEntries)

\* deque(maxlen=max_entries), and [-max_entries:]
LastOf(s) ==
    IF Len(s) <= MaxEntries THEN s
                            ELSE SubSeq(s, Len(s) - MaxEntries + 1, Len(s))

-----------------------------------------------------------------------------
(* record()                                                                *)

RecordInMemory ==
    LET r == [time |-> time, number |-> recorded + 1]
    IN
    /\ recording.pc = "idle" /\ recorded < MaxRecords
    /\ recorded' = recorded + 1
    /\ entries' = LastOf(Append(entries, r))
    /\ recording' = [pc |-> "append", record |-> r]
    /\ UNCHANGED <<time, file, ends>>

\* _append_persistent: what stood without a newline becomes one line with the
\* record, and that line is no record.
Appended(f, r) == IF f.tail = NoTail THEN Lines(Append(f.lines, r))
                                     ELSE Lines(f.lines)

\* A write that ends too early has written nothing, a part of the record, or
\* the record without its newline.
CutShort(f, r) ==
    {f} \cup {[f EXCEPT !.tail = Torn]}
        \cup (IF f.tail = NoTail THEN {[f EXCEPT !.tail = r]} ELSE {})

AppendToFile ==
    /\ recording.pc = "append"
    /\ file' = Appended(file, recording.record)
    /\ recording' = [recording EXCEPT !.pc = "cleanup"]
    /\ UNCHANGED <<time, entries, recorded, ends>>

\* The exception is caught in record(), behind the clean-up.
AppendFails ==
    /\ DiskFails /\ recording.pc = "append"
    /\ file' \in CutShort(file, recording.record)
    /\ recording' = Idle
    /\ UNCHANGED <<time, entries, recorded, ends>>

\* Faulty variant: the file is truncated and written again.
LeftEmpty(f) == Lines(<<>>)

\* _rewrite_file goes through a temporary file and os.replace.
LeftAlone(f) == f

\* _cleanup_expired takes the time of the record for the present.
CleanUp ==
    /\ recording.pc = "cleanup"
    /\ file' = Lines(Fresh(file, recording.record.time))
    /\ recording' = Idle
    /\ UNCHANGED <<time, entries, recorded, ends>>

CleanUpFails ==
    /\ DiskFails /\ recording.pc = "cleanup"
    /\ file' = LeftAlone(file)
    /\ recording' = Idle
    /\ UNCHANGED <<time, entries, recorded, ends>>

-----------------------------------------------------------------------------
(* The process and the clock.                                              *)

\* The process ends.  A record that was being written may be cut short, a
\* file that was being replaced is left alone.
End ==
    /\ ~Down /\ ends < MaxEnds
    /\ ends' = ends + 1
    /\ entries' = <<>>
    /\ recording' = [Idle EXCEPT !.pc = "down"]
    /\ file' \in CASE recording.pc = "append" ->
                         CutShort(file, recording.record)
                   [] recording.pc = "cleanup" -> {LeftAlone(file)}
                   [] OTHER -> {file}
    /\ UNCHANGED <<time, recorded>>

\* _cleanup_and_load: entries are set before the file is written, and stay if
\* that fails.
Load ==
    /\ Down
    /\ entries' = LastOf(Fresh(file, time))
    /\ file' \in {Lines(Fresh(file, time))}
                    \cup (IF DiskFails THEN {LeftAlone(file)} ELSE {})
    /\ recording' = Idle
    /\ UNCHANGED <<time, recorded, ends>>

\* The file cannot be read: the process starts without its history.
LoadFails ==
    /\ DiskFails /\ Down
    /\ recording' = Idle
    /\ UNCHANGED <<time, entries, file, recorded, ends>>

TimePasses ==
    /\ time < LastTime
    /\ time' = time + 1
    /\ UNCHANGED <<entries, file, recording, recorded, ends>>

LogInit ==
    /\ time = 1
    /\ entries = <<>>
    /\ file = Lines(<<>>)
    /\ recording = [Idle EXCEPT !.pc = "down"]
    /\ recorded = 0
    /\ ends = 0

LogNext ==
    \/ RecordInMemory
    \/ AppendToFile
    \/ AppendFails
    \/ CleanUp
    \/ CleanUpFails
    \/ End
    \/ Load
    \/ LoadFails
    \/ TimePasses

LogSpec == LogInit /\ [][LogNext]_logVars
=============================================================================
