------------------------------- MODULE Tailer -------------------------------
(***************************************************************************)
(* file_tailer_main of the MQTT gateway, reading the directory that        *)
(* Collector writes: it takes one file at a time, publishes its lines one  *)
(* after the other from the first on, and when it is at the end enters the *)
(* name in the done list.  The list is all that survives a restart.        *)
(*                                                                         *)
(* The publications go through mqtt_publish_json, of which only the result *)
(* matters here.                                                           *)
(***************************************************************************)
EXTENDS Collector

CONSTANT Idle              \* cfg.tail_idle_ms, in seconds
ASSUME IdleAssumption == Idle \in Nat

VARIABLES
    tpc,        \* where file_tailer_main is; "off": no process
    file,       \* cur: the file in hand, NoFile when cur.fp is NULL
    offset,     \* cur.offset, in lines
    seen,       \* cur.last_size and cur.last_mtime
    changed,    \* cur.last_change_ms, in seconds
    stable,     \* cur.stable
    length,     \* st.st_size, as the last stat found it
    done,       \* the done list in memory
    doneFile,   \* the done list on disk
    \* observation only
    taken,      \* per file, the lines a publication took, by their number
    shared,     \* files the collector had open, or opened, since they were opened
                \* here to be read for the list
    missed      \* files in the list on disk that this process may not know of

hand == <<file, offset, seen, changed, stable, length>>
noted == <<shared, missed>>
tvars == <<tpc, hand, done, doneFile, taken, noted>>
vars == <<cvars, tvars>>

\* The collector and its files; faults apart.
world == <<now, disk, cpc, log, starts, given>>

\* Slip: the stream is closed and the pointer kept.
CloseKeeps == UNCHANGED hand

\* The zeros of last_size and last_mtime, which no file of today has.
Unseen == <<0, MaxTime + 1>>

\* tail_file_close.
Close == /\ file' = NoFile /\ offset' = 0 /\ seen' = Unseen
         /\ changed' = 0 /\ stable' = FALSE /\ length' = 0

\* The next round of the loop, with a stat of its own.
Poll == tpc' = "stat" /\ length' = 0 /\ UNCHANGED <<file, offset, seen, changed, stable>>

Newest(F) ==
    {f \in F : \A g \in F : \/ mtime[g] < mtime[f]
                            \/ mtime[g] = mtime[f] /\ ~Before(f, g)}

\* collect_files: all but the newest file; the newest too when it is the only
\* one and has not changed for idle_ms.
Eligible(F) ==
    {f \in F \ done :
        IF \E g \in F : g # f
        THEN f \notin Newest(F)
        ELSE Idle = 0 \/ (now > mtime[f] /\ now - mtime[f] >= Idle)}

\* Slip: the list on disk is not read.
StartTailerAfresh ==
    /\ tpc = "off"
    /\ done' = {}
    /\ tpc' = "scan"
    /\ UNCHANGED <<cvars, hand, doneFile, taken, noted>>

\* load_done_list.
StartTailer ==
    /\ tpc = "off"
    /\ done' = doneFile
    /\ tpc' = "scan"
    /\ UNCHANGED <<cvars, hand, doneFile, taken, noted>>

\* The list cannot be opened or read to its end, or there is no memory for a name
\* of it: the tailer starts with what it has of it.
StartTailerMisses ==
    /\ Fails
    /\ tpc = "off"
    /\ done' \in SUBSET doneFile
    /\ missed' = doneFile \ done'
    /\ tpc' = "scan"
    /\ UNCHANGED <<world, hand, doneFile, taken, shared>>

\* The directory is read, each file as it is at that moment, and the last name in
\* strcmp's order is taken first.
Pick ==
    /\ tpc = "scan"
    /\ \E f \in Eligible(made) :
          /\ \A g \in Eligible(made) : ~Before(f, g)
          /\ file' = f
    /\ tpc' = "open"
    /\ UNCHANGED <<cvars, offset, seen, changed, stable, length, done, doneFile,
                   taken, noted>>

\* tail_file_open.  Whether its stat fails is not looked at.
Open ==
    /\ tpc = "open"
    /\ offset' = 0
    /\ \/ seen' = <<Bytes(file), mtime[file]>> /\ changed' = now /\ UNCHANGED faults
       \/ Fails /\ seen' = Unseen /\ changed' = 0
    /\ stable' = TRUE
    /\ shared' = IF cur = file THEN shared \cup {file}
                               ELSE shared \ ({file} \ doneFile)
    /\ tpc' = "stat"
    /\ UNCHANGED <<world, file, length, done, doneFile, taken, missed>>

Stat ==
    /\ tpc = "stat"
    /\ length' = Bytes(file)
    /\ IF seen # <<Bytes(file), mtime[file]>>
       THEN /\ seen' = <<Bytes(file), mtime[file]>>
            /\ changed' = now
            /\ stable' = FALSE
       ELSE UNCHANGED <<seen, changed, stable>>
    /\ tpc' = "line"
    /\ UNCHANGED <<cvars, file, offset, done, doneFile, taken, noted>>

\* fopen, the stat of a poll or fseeko fails: the file is closed, if it is open,
\* and looked for again.
FileFails ==
    /\ Fails
    /\ tpc \in {"open", "stat"}
    /\ Close
    /\ tpc' = "scan"
    /\ UNCHANGED <<world, done, doneFile, taken, noted>>

\* A whole line, and mqtt_publish_json takes it.
PublishTaken ==
    /\ tpc = "line"
    /\ offset < lines[file]
    /\ taken' = [taken EXCEPT ![file] = @ \cup {offset + 1}]
    /\ offset' = offset + 1
    /\ UNCHANGED <<cvars, tpc, file, seen, changed, stable, length, done,
                   doneFile, noted>>

\* Slip: the line that was refused is passed over.
PublishRefusedNoRewind ==
    /\ Fails
    /\ tpc = "line"
    /\ offset < lines[file]
    /\ offset' = offset + 1
    /\ tpc' = "stat" /\ length' = 0
    /\ UNCHANGED <<world, file, seen, changed, stable, done, doneFile, taken,
                   noted>>

\* It refuses the line, or there is no memory for the payload: the line is read
\* again at the next poll.
PublishRefused ==
    /\ Fails
    /\ tpc = "line"
    /\ offset < lines[file]
    /\ Poll
    /\ UNCHANGED <<world, done, doneFile, taken, noted>>

\* The end of the file, or of what has been written of its last line.
LastLine ==
    /\ tpc = "line"
    /\ offset = lines[file]
    /\ tpc' = "end"
    /\ UNCHANGED <<cvars, hand, done, doneFile, taken, noted>>

\* The clock stands still at MaxTime, which is any later time.
IdleFor(k) == now - changed >= k \/ now = MaxTime

\* Slip: a file that changed while it was read is never at its end.
AtEndStableOnly == 2 * offset >= length /\ stable

\* Slip: the length is not compared.
AtEndAnyLength == stable \/ IdleFor(Idle)

AtEnd == 2 * offset >= length /\ (stable \/ IdleFor(Idle))

\* append_done_list opens the list and appends the name; whether the name gets
\* there is not looked at, nor whether str_list_add then has the memory for it.
\* When the list cannot be opened the file is closed all the same.
MarkDone ==
    /\ tpc = "end"
    /\ AtEnd
    /\ \/ /\ done' = done \cup {file} /\ doneFile' = doneFile \cup {file}
          /\ UNCHANGED <<missed, faults>>
       \/ /\ Fails
          /\ done' \in {done, done \cup {file}}
          /\ doneFile' \in {doneFile, doneFile \cup {file}}
          /\ missed' = missed \cup (doneFile' \ done')
    /\ Close
    /\ tpc' = "scan"
    /\ UNCHANGED <<world, taken, shared>>

\* Within the second in which the wait ends it may not be over yet.
PollAgain ==
    /\ tpc = "end"
    /\ ~AtEnd \/ (~stable /\ ~IdleFor(Idle + 1))
    /\ Poll
    /\ UNCHANGED <<cvars, done, doneFile, taken, noted>>

\* Stopped by a signal, or killed.
StopTailer ==
    /\ Fails
    /\ tpc # "off"
    /\ Close
    /\ done' = {} /\ missed' = {}
    /\ tpc' = "off"
    /\ UNCHANGED <<world, doneFile, taken, shared>>

TailerWork == \/ StartTailer \/ StartTailerMisses \/ Pick \/ Open \/ Stat
              \/ FileFails \/ PublishTaken \/ PublishRefused \/ LastLine
              \/ MarkDone \/ PollAgain

\* A step of the collector leaves the tailer alone, and the other way round.
Apart ==
    /\ shared' = IF cur' = NoFile THEN shared ELSE shared \cup {cur'}
    /\ UNCHANGED <<tpc, hand, done, doneFile, taken, missed>>

CollectorStep == CollectorNext /\ Apart

Init ==
    /\ CollectorInit
    /\ tpc = "off" /\ file = NoFile /\ offset = 0 /\ seen = Unseen
    /\ changed = 0 /\ stable = FALSE /\ length = 0
    /\ done = {} /\ doneFile = {}
    /\ taken = [f \in Names |-> {}]
    /\ shared = {} /\ missed = {}

Next == \/ CollectorStep
        \/ TailerWork \/ StopTailer
        \/ Tick /\ UNCHANGED tvars

\* The clock runs, both loops are scheduled, and a reading sooner or later
\* succeeds.
Fairness ==
    /\ WF_vars(Tick /\ UNCHANGED tvars)
    /\ WF_vars(TailerWork)
    /\ WF_vars(CollectorWork /\ Apart)

Spec == Init /\ [][Next]_vars
FairSpec == Spec /\ Fairness
-----------------------------------------------------------------------------
(* Properties *)

TypeOK ==
    /\ CollectorTypeOK
    /\ tpc \in {"off", "scan", "open", "stat", "line", "end"}
    /\ file \in made \cup {NoFile} /\ (file = NoFile <=> tpc \in {"off", "scan"})
    /\ offset \in Nat /\ length \in Nat /\ changed \in 0 .. MaxTime
    /\ seen \in Nat \X (0 .. MaxTime + 1)
    /\ stable \in BOOLEAN
    /\ done \subseteq made /\ doneFile \subseteq made
    /\ taken \in [Names -> SUBSET Nat]
    /\ shared \subseteq made /\ missed \subseteq doneFile

\* The reading position never passes a line that no publication took, whatever
\* was refused, torn or still being written.
OffsetIsEarned == file # NoFile => 1 .. offset \subseteq taken[file]

\* A file in the done list, in memory or on disk, ends with a whole line and has
\* had every line published, as long as the collector has kept away from it since
\* the tailer opened it.
DoneIsEarned ==
    \A f \in (done \cup doneFile) \ shared :
        1 .. lines[f] \subseteq taken[f] /\ ~torn[f]

\* Once the name of a file is in the done list on disk no line of it is
\* published again, by this process or a later one.  The exceptions are a name
\* that a process failed to read there when it started, or to remember when it
\* entered it: that file may be published once more.
DoneIsNotRepublished ==
    [][\A f \in doneFile \ (missed \ done) :
            file = f => offset' = offset \/ file' # f]_vars

\* When the collector has gone quiet and nothing fails any more, every file but
\* the newest is done, or the tailer sits for ever on a file that ends in the
\* middle of a line.
BacklogSettles ==
    <>[](\/ file # NoFile /\ torn[file]
         \/ \A f \in made \ Newest(made) : f \in done)

\* The log of the code calls a file in the list "done" and its comment "sent":
\* all of its lines have been published.
SentFileIsSent == \A f \in doneFile : 1 .. lines[f] \subseteq taken[f]
=============================================================================
