---------------------------- MODULE HttpUploader ----------------------------
(***************************************************************************)
(* http_uploader_demo: every interval_s seconds it lists the data files,   *)
(* posts the newest completed file that follows the recorded one line by   *)
(* line, and records that file's name in the state file.  The record, a    *)
(* watermark in the order of the names, is all that survives a crash.      *)
(*                                                                         *)
(* Files are numbered in the order of their names.  The collector, another *)
(* process, appends to the newest file only and opens the next one for a   *)
(* rotation or a restart.                                                  *)
(***************************************************************************)
EXTENDS Naturals, Sequences, FiniteSets

CONSTANTS FileCount,    \* bound: data files in a behaviour
          LineCount,    \* bound: lines in all of them together
          MaxFile,      \* cfg.max_file_bytes, in lines
          MaxTotal,     \* cfg.max_total_bytes, in lines
          Retries,      \* cfg.http_retries
          NoFile        \* no file recorded, or none in hand

Files == 1 .. FileCount

ASSUME BoundsAssumption == /\ FileCount \in Nat /\ LineCount \in Nat
                           /\ MaxFile \in Nat /\ MaxTotal \in Nat
                           /\ Retries \in Nat
ASSUME NoFileAssumption == NoFile = 0   \* below every file

VARIABLES
    made,       \* the collector's current file; the older ones are complete
    dir,        \* files in the data directory
    text,       \* per file, its lines: "ok", or "torn" (not JSON)
    mark,       \* the state file: the recorded name, NoFile when absent or empty
    pc,         \* where upload_once is
    item,       \* the file in hand
    line,       \* the line of it that is posted next
    try,        \* attempts made for that line
    faulty,     \* the server, the network or the file system may still fail
    \* observation only
    got,        \* per file, the lines the server has accepted at least once
    binned,     \* files found bad
    kept        \* the record that stands: the name last saved or read, NoFile once
                \* the state file has lost it or reading it has failed

collector == <<made, text>>
disk == <<dir, mark>>
local == <<pc, item, line, try>>
seen == <<got, binned, kept>>
vars == <<collector, disk, local, faulty, seen>>

PcStates == {"idle", "relist", "open", "post", "retry", "discard", "save",
             "write"}

Size(F) == Cardinality(UNION {{f} \X DOMAIN text[f] : f \in F})
-----------------------------------------------------------------------------
(* The collector *)

NewFile ==
    /\ made < FileCount
    /\ made' = made + 1
    /\ dir' = dir \cup {made + 1}
    /\ UNCHANGED <<text, mark, local, faulty, seen>>

AppendLine ==
    /\ made \in dir
    /\ Size(Files) < LineCount
    /\ \E l \in {"ok", "torn"} : text' = [text EXCEPT ![made] = Append(@, l)]
    /\ UNCHANGED <<made, dir, mark, local, faulty, seen>>

Collector == NewFile \/ AppendLine
-----------------------------------------------------------------------------
(* upload_once *)

\* Slip: the newest file is not skipped.
CandidatesWithNewest(F, record) == {f \in F : f > record}

\* Slip: the record is not consulted.
CandidatesUnrecorded(F, record) == {f \in F : \E g \in F : g > f}

\* Files that may be posted: not the newest, which is being appended to, and
\* after the record as it was read.
Candidates(F, record) == {f \in F : f > record /\ \E g \in F : g > f}

\* At most one: only the newest candidate is ever taken, older ones are not
\* considered, and it is left for a later scan while it is empty.
Due(F, record) ==
    {f \in Candidates(F, record) : /\ \A g \in Candidates(F, record) : g <= f
                                   /\ text[f] # <<>>}

\* The record is read for every scan.  A state file that cannot be opened, or
\* whose name cannot be placed in the order any more, is as good as none.
LoadRecord(record) ==
    \/ record = mark /\ kept' = IF mark = NoFile THEN kept ELSE mark
    \/ faulty /\ record = NoFile /\ kept' = NoFile

\* A file is also left while it was modified less than stable_age_s ago, which a
\* completed file is not for long.
Pick(F) ==
    /\ \E record \in {mark, NoFile} :
          /\ LoadRecord(record)
          /\ \/ \E f \in Due(F, record) : pc' = "open" /\ item' = f
             \/ faulty /\ pc' = "idle" /\ item' = NoFile
             \/ Due(F, record) = {} /\ pc' = "idle" /\ item' = NoFile
    /\ UNCHANGED <<collector, disk, line, try, faulty, got, binned>>

\* The directory is listed and the state file read.
Scan ==
    /\ pc = "idle"
    /\ dir # {}
    /\ Size(dir) <= MaxTotal \/ Cardinality(dir) <= 1
    /\ Pick(dir)

\* prune_old_files_if_needed: over the total, all files but the newest go,
\* posted or not.  A removal that fails is ignored.
Prune ==
    /\ pc = "idle"
    /\ Size(dir) > MaxTotal /\ Cardinality(dir) > 1
    /\ \E newest \in dir, stuck \in SUBSET dir :
          /\ \A f \in dir : f <= newest
          /\ faulty \/ stuck = {}
          /\ dir' = {newest} \cup stuck
    /\ pc' = "relist"
    /\ UNCHANGED <<collector, mark, item, line, try, faulty, seen>>

Relist ==
    /\ pc = "relist"
    /\ Pick(dir)

Idle == pc' = "idle" /\ item' = NoFile /\ line' = 1 /\ try' = 0

\* UPLOAD_RETRY.
PutOff == pc' = "retry" /\ UNCHANGED <<item, line, try>>

\* "will retry later" is logged, and the next scan comes sooner.
RetryLater ==
    /\ pc = "retry"
    /\ Idle
    /\ UNCHANGED <<collector, disk, faulty, seen>>

Open ==
    /\ pc = "open"
    /\ IF Len(text[item]) > MaxFile
       THEN pc' = "discard" /\ UNCHANGED <<item, line, try>>
       ELSE \/ pc' = "post" /\ UNCHANGED <<item, line, try>>
            \/ faulty /\ Idle      \* locked or unreadable: UPLOAD_SKIP
            \/ faulty /\ PutOff    \* another error: UPLOAD_RETRY
    /\ UNCHANGED <<collector, disk, faulty, seen>>

Accepted == got' = [got EXCEPT ![item] = @ \cup {line}]

\* Slip: the line is counted as posted when the attempts are used up.
PostFailGoesOn ==
    /\ faulty
    /\ pc = "post" /\ line <= Len(text[item]) /\ text[item][line] = "ok"
    /\ Accepted \/ UNCHANGED got
    /\ IF try < Retries
       THEN try' = try + 1 /\ UNCHANGED <<pc, item, line>>
       ELSE line' = line + 1 /\ try' = 0 /\ UNCHANGED <<pc, item>>
    /\ UNCHANGED <<collector, disk, faulty, binned, kept>>

\* Slip: one retry too many.
PostFailOnceMore ==
    /\ faulty
    /\ pc = "post" /\ line <= Len(text[item]) /\ text[item][line] = "ok"
    /\ Accepted \/ UNCHANGED got
    /\ IF try <= Retries
       THEN try' = try + 1 /\ UNCHANGED <<pc, item, line>>
       ELSE PutOff
    /\ UNCHANGED <<collector, disk, faulty, binned, kept>>

\* An attempt that brings back no final answer (no connection, a timeout, 5xx);
\* the server may have accepted the line all the same.
PostFail ==
    /\ faulty
    /\ pc = "post" /\ line <= Len(text[item]) /\ text[item][line] = "ok"
    /\ Accepted \/ UNCHANGED got
    /\ IF try < Retries
       THEN try' = try + 1 /\ UNCHANGED <<pc, item, line>>
       ELSE PutOff
    /\ UNCHANGED <<collector, disk, faulty, binned, kept>>

\* 2xx.
PostOk ==
    /\ pc = "post" /\ line <= Len(text[item]) /\ text[item][line] = "ok"
    /\ Accepted
    /\ line' = line + 1 /\ try' = 0
    /\ UNCHANGED <<collector, disk, pc, item, faulty, binned, kept>>

\* Slip: a bad file is tried again like one that could not be posted.
PostBadPutOff ==
    /\ pc = "post" /\ line <= Len(text[item])
    /\ PutOff
    /\ UNCHANGED <<collector, disk, faulty, seen>>

\* 4xx, or a line that is not JSON: the whole file is bad.
PostBad ==
    /\ pc = "post" /\ line <= Len(text[item])
    /\ pc' = "discard"
    /\ UNCHANGED <<collector, disk, item, line, try, faulty, seen>>

\* The end of the file; or an error while reading it, or no memory for a line.
PostEnd ==
    /\ pc = "post"
    /\ \/ line > Len(text[item]) /\ pc' = "save" /\ UNCHANGED <<item, line, try>>
       \/ faulty /\ PutOff
    /\ UNCHANGED <<collector, disk, faulty, seen>>

\* Moved to bad_dir, or else removed; when both fail it stays.
Discard ==
    /\ pc = "discard"
    /\ binned' = binned \cup {item}
    /\ \/ dir' = dir \ {item}
       \/ faulty /\ dir' = dir
    /\ pc' = "save"
    /\ UNCHANGED <<collector, mark, item, line, try, faulty, got, kept>>

\* save_sent_state: the file is truncated, then written.
SaveTruncate ==
    /\ pc = "save"
    /\ \/ mark' = NoFile /\ pc' = "write" /\ UNCHANGED <<item, line, try>>
       \/ faulty /\ Idle /\ UNCHANGED mark      \* it cannot be opened
    /\ UNCHANGED <<collector, dir, faulty, seen>>

\* The results of writing and flushing are not looked at.
SaveWrite ==
    /\ pc = "write"
    /\ \/ mark' = item
       \/ faulty /\ mark' = NoFile
    /\ kept' = mark'
    /\ Idle
    /\ UNCHANGED <<collector, dir, faulty, got, binned>>

Upload == \/ Scan \/ Prune \/ Relist \/ Open
          \/ PostFail \/ PostOk \/ PostBad \/ PostEnd \/ RetryLater
          \/ Discard \/ SaveTruncate \/ SaveWrite

\* The process is killed and started again.  What had been truncated is lost.
Crash ==
    /\ faulty
    /\ pc # "idle"
    /\ Idle
    /\ kept' = IF pc = "write" THEN NoFile ELSE kept
    /\ UNCHANGED <<collector, disk, faulty, got, binned>>

\* From here on nothing fails, and completed files are old enough.
Recover ==
    /\ faulty
    /\ faulty' = FALSE
    /\ UNCHANGED <<collector, disk, local, seen>>
-----------------------------------------------------------------------------
Init ==
    /\ made = 0 /\ dir = {}
    /\ text = [f \in Files |-> <<>>]
    /\ mark = NoFile
    /\ pc = "idle" /\ item = NoFile /\ line = 1 /\ try = 0
    /\ faulty = TRUE
    /\ got = [f \in Files |-> {}]
    /\ binned = {} /\ kept = NoFile

Next == Collector \/ Upload \/ Crash \/ Recover

\* The uploader is scheduled, and failures and crashes come to an end.
Fairness == WF_vars(Upload) /\ WF_vars(Recover)

Spec == Init /\ [][Next]_vars
FairSpec == Spec /\ Fairness
-----------------------------------------------------------------------------
(* Properties *)

\* Every variable has its type; the file in hand is one that exists.
TypeOK ==
    /\ made \in 0 .. FileCount
    /\ dir \subseteq 1 .. made
    /\ text \in [Files -> Seq({"ok", "torn"})]
    /\ mark \in 0 .. made
    /\ pc \in PcStates
    /\ item \in 0 .. made /\ (pc \notin {"idle", "relist"} => item # NoFile)
    /\ line \in Nat \ {0}
    /\ try \in 0 .. Retries
    /\ faulty \in BOOLEAN
    /\ got \in [Files -> SUBSET Nat]
    /\ binned \subseteq Files
    /\ kept \in 0 .. made

\* The state file never names a file that the server has not accepted to the
\* last line or that was not found bad, whatever crashed or failed in between.
RecordIsEarned ==
    mark # NoFile => mark \in binned \/ 1 .. Len(text[mark]) \subseteq got[mark]

\* The server accepts the lines of a file in order: a line only after all the
\* lines before it.
LinesInOrder ==
    \A f \in Files : \A l \in got[f] : 1 .. l \subseteq got[f]

\* No line of a file up to the record that stands is posted again, and what is
\* saved next is not older.  A record ceases to stand only when a kill between
\* the truncation and the write, or a write that fails, wipes it out, or when a
\* scan cannot read it: then files that were posted are posted again.
RecordIsRespected ==
    [][/\ PostOk \/ PostFail => item > kept
       /\ kept' # NoFile => kept' >= kept]_vars

\* Once the collector stops, the newest completed file ends up recorded, unless
\* it is empty: no crash or failure makes the uploader sit on it for ever.
LastCompleteFileSettles == <>[](Due(dir, mark) = {})

\* The message logged when a file could not be posted: it will be retried later.
FailedFileIsRetried ==
    \A f \in Files : pc = "retry" /\ item = f
                      ~> f \in binned \/ 1 .. Len(text[f]) \subseteq got[f]
=============================================================================
