----------------------------- MODULE Collector -----------------------------
(***************************************************************************)
(* run_collect of modbus_framer_cli: a record per reading, appended to a   *)
(* data file through stdio, and a new file once the current one holds      *)
(* enough.  A file is named after the second it is opened in and a serial  *)
(* number that starts at 0 in every process, and is opened for appending:  *)
(* a process that restarts within the second goes on in an old file.       *)
(*                                                                         *)
(* A file is a number of whole lines and, when torn, the beginning of one  *)
(* more; lengths are counted in half lines.                                *)
(***************************************************************************)
EXTENDS Naturals, FiniteSets

CONSTANTS MaxTime,         \* bound: seconds; the collector is quiet in the last
          MaxSeq,          \* bound: serial numbers of a process are 0 .. MaxSeq
          MaxStarts,       \* bound: processes of the collector
          MaxFiles,        \* bound: files
          MaxLines,        \* bound: lines in all files together
          MaxFaults,       \* bound: failures and crashes
          RecordsPerFile,  \* cfg.max_records_per_file at the start
          CtrlRecords,     \* values records_per_file takes in the control file
          MaxFileBytes,    \* cfg.max_file_bytes, 0 for no limit
          NoFile           \* no file open

ASSUME TimeAssumption == /\ MaxTime \in Nat /\ MaxSeq \in Nat /\ MaxStarts \in Nat
                         /\ MaxFiles \in Nat /\ MaxLines \in Nat
                         /\ MaxFaults \in Nat /\ MaxFileBytes \in Nat
ASSUME RecordsAssumption == RecordsPerFile \in Nat /\ CtrlRecords \subseteq Nat

Names == (0 .. MaxTime) \X (0 .. MaxSeq)

ASSUME NoFileAssumption == NoFile \notin Names

VARIABLES
    now,        \* the clock, in seconds
    made,       \* the files in out_dir
    lines,      \* per file, its whole lines
    torn,       \* per file, whether it ends in the middle of a line
    mtime,      \* per file, the second of its last change
    cpc,        \* where run_collect is; "off": no process
    cur,        \* log_state_t.fp: the file open for appending
    seq,        \* log_state_t.seq
    count,      \* log_state_t.record_count
    size,       \* log_state_t.current_size
    limit,      \* cfg.max_records_per_file, as the control file last set it
    starts,     \* processes started
    faults,     \* failures and crashes still to come
    \* observation only
    most,       \* the largest limit this process was given
    allowed     \* the sum of that over all processes so far

disk == <<made, lines, torn, mtime>>
log == <<cur, seq, count, size, limit>>
given == <<most, allowed>>
cvars == <<now, disk, cpc, log, starts, faults, given>>

\* strcmp on two names; the serial numbers have one digit.
Before(f, g) == f[1] < g[1] \/ (f[1] = g[1] /\ f[2] < g[2])

Bytes(f) == 2 * lines[f] + (IF torn[f] THEN 1 ELSE 0)

AllLines == Cardinality(UNION {{f} \X (1 .. lines[f]) : f \in Names})

Fails == faults > 0 /\ faults' = faults - 1

\* The process ends, and its log_state_t and cfg with it.
End ==
    /\ cpc' = "off"
    /\ cur' = NoFile /\ seq' = 0 /\ count' = 0 /\ size' = 0
    /\ limit' = RecordsPerFile
    /\ most' = 0 /\ UNCHANGED allowed

\* log_append, and the record_count++ that follows it.  Both writes go to the
\* buffer of fp and succeed; what fflush then cannot write is dropped, and its
\* result is not looked at.  A record after a torn one ends up in the same line.
\* Without a file log_append fails.
AppendRecord ==
    /\ cpc = "loop"
    /\ cur = NoFile \/ (now < MaxTime /\ AllLines < MaxLines)
    /\ IF cur = NoFile
       THEN UNCHANGED <<lines, torn, mtime, count, size, faults>>
       ELSE /\ count' = count + 1
            /\ size' = size + 2
            /\ \/ /\ lines' = [lines EXCEPT ![cur] = @ + 1]
                  /\ torn' = [torn EXCEPT ![cur] = FALSE]
                  /\ mtime' = [mtime EXCEPT ![cur] = now]
                  /\ UNCHANGED faults
               \/ /\ Fails
                  /\ torn' = [torn EXCEPT ![cur] = TRUE]
                  /\ mtime' = [mtime EXCEPT ![cur] = now]
                  /\ UNCHANGED lines
               \/ Fails /\ UNCHANGED <<lines, torn, mtime>>
    /\ cpc' = "rotate"
    /\ UNCHANGED <<now, made, cur, seq, limit, starts, given>>

\* Slip: one record too many.
FullOneLater == \/ limit > 0 /\ count > limit
                \/ MaxFileBytes > 0 /\ size >= MaxFileBytes

Full == \/ limit > 0 /\ count >= limit
        \/ MaxFileBytes > 0 /\ size >= MaxFileBytes

\* rotate_if_needed, up to the fclose.
KeepFile ==
    /\ cpc = "rotate"
    /\ ~Full
    /\ cpc' = "loop"
    /\ UNCHANGED <<now, disk, log, starts, given, faults>>

CloseFile ==
    /\ cpc = "rotate"
    /\ Full
    /\ cur # NoFile
    /\ cur' = NoFile
    /\ cpc' = "open"
    /\ UNCHANGED <<now, disk, seq, count, size, limit, starts, given, faults>>

\* Slip: the rotation is given up when there is no file to close.
RotateWithoutFileReturns ==
    /\ cpc = "rotate"
    /\ Full
    /\ cur = NoFile
    /\ cpc' = "loop"
    /\ UNCHANGED <<now, disk, log, starts, given, faults>>

\* After a rotation that failed neither record_count nor current_size was
\* reset: the next rotation passes fp = NULL to fileno.
RotateWithoutFile ==
    /\ cpc = "rotate"
    /\ Full
    /\ cur = NoFile
    /\ End
    /\ UNCHANGED <<now, disk, starts, faults>>

\* open_new_log.
OpenFile ==
    /\ cpc \in {"start", "open"}
    /\ now < MaxTime /\ seq <= MaxSeq
    /\ Cardinality(made \cup {<<now, seq>>}) <= MaxFiles
    /\ LET f == <<now, seq>> IN
          /\ made' = made \cup {f}
          /\ mtime' = [mtime EXCEPT ![f] = IF f \in made THEN @ ELSE now]
          /\ cur' = f
          /\ size' = Bytes(f)
    /\ seq' = seq + 1
    /\ count' = 0
    /\ cpc' = "loop"
    /\ UNCHANGED <<now, lines, torn, limit, starts, given, faults>>

\* mkdir_p or fopen fails; only the second has used up a serial number.  The
\* first file is a must, a later one is not.
OpenFileFails ==
    /\ Fails
    /\ cpc \in {"start", "open"}
    /\ now < MaxTime /\ seq <= MaxSeq
    /\ \/ cpc = "start" /\ End
       \/ /\ cpc = "open" /\ cpc' = "loop"
          /\ seq' \in {seq, seq + 1}
          /\ UNCHANGED <<cur, count, size, limit, given>>
    /\ UNCHANGED <<now, disk, starts>>

\* apply_ctrl_file, as far as the log is concerned.
ApplyCtrlFile ==
    /\ cpc = "loop"
    /\ \E n \in CtrlRecords :
          /\ n > 0
          /\ limit' = n
          /\ IF n > most THEN most' = n /\ allowed' = allowed + (n - most)
                         ELSE UNCHANGED given
    /\ UNCHANGED <<now, disk, cpc, cur, seq, count, size, starts, faults>>

\* SIGINT or SIGTERM: the loop ends and the file is closed.
StopCollector ==
    /\ cpc = "loop"
    /\ End
    /\ UNCHANGED <<now, disk, starts, faults>>

\* The process is killed, at any point.
KillCollector ==
    /\ Fails
    /\ cpc # "off"
    /\ End
    /\ UNCHANGED <<now, disk, starts>>

StartCollector ==
    /\ cpc = "off"
    /\ starts < MaxStarts
    /\ starts' = starts + 1
    /\ most' = limit /\ allowed' = allowed + limit
    /\ cpc' = "start"
    /\ UNCHANGED <<now, disk, log, faults>>

CollectorWork == \/ AppendRecord \/ KeepFile \/ CloseFile \/ RotateWithoutFile
                 \/ OpenFile \/ OpenFileFails

CollectorNext == \/ CollectorWork \/ ApplyCtrlFile
                 \/ StopCollector \/ KillCollector \/ StartCollector

Tick ==
    /\ now < MaxTime
    /\ now' = now + 1
    /\ UNCHANGED <<disk, cpc, log, starts, given, faults>>

CollectorInit ==
    /\ now = 0
    /\ made = {}
    /\ lines = [f \in Names |-> 0]
    /\ torn = [f \in Names |-> FALSE]
    /\ mtime = [f \in Names |-> 0]
    /\ cpc = "off" /\ cur = NoFile /\ seq = 0 /\ count = 0 /\ size = 0
    /\ limit = RecordsPerFile /\ starts = 0
    /\ faults = MaxFaults
    /\ most = 0 /\ allowed = 0
-----------------------------------------------------------------------------
(* Properties *)

CollectorTypeOK ==
    /\ now \in 0 .. MaxTime
    /\ made \subseteq Names
    /\ lines \in [Names -> Nat]
    /\ torn \in [Names -> BOOLEAN]
    /\ mtime \in [Names -> 0 .. MaxTime]
    /\ cpc \in {"off", "start", "open", "loop", "rotate"}
    /\ cur \in made \cup {NoFile}
    /\ seq \in 0 .. MaxSeq + 1
    /\ count \in Nat /\ size \in Nat /\ limit \in Nat
    /\ starts \in 0 .. MaxStarts
    /\ faults \in 0 .. MaxFaults
    /\ most \in Nat /\ allowed \in Nat

\* However often a file is opened again, limits change and flushes fail, each
\* process adds at most the largest limit it was given to a file.
FilesStayShort == RecordsPerFile > 0 => \A f \in Names : lines[f] <= allowed

\* After a rotation that could not open the next file the collector does not go
\* on reading with nowhere to write for ever: its next record ends the process,
\* unless a larger limit from the control file comes first.
NoCollectingWithoutFile ==
    cpc = "loop" /\ cur = NoFile /\ Full ~> cpc = "off" \/ ~Full
=============================================================================
