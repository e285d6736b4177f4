--------------------------- MODULE Tailer_proofs ---------------------------
(***************************************************************************)
(* Proofs about Tailer and the collector next to it, for any number of     *)
(* files, lines, restarts and failures, and any idle time and file size.   *)
(***************************************************************************)
EXTENDS Tailer, TLAPS

\* The initial states have the types.
LEMMA InitType == Init => TypeOK
<1> SUFFICES ASSUME Init
             PROVE  TypeOK
  OBVIOUS
<1> USE TimeAssumption, RecordsAssumption, NoFileAssumption
<1>1. CollectorTypeOK
  BY DEF Init, CollectorInit, CollectorTypeOK
<1>2. taken \in [Names -> SUBSET Nat]
  BY DEF Init
<1>3. seen \in Nat \X (0 .. MaxTime + 1)
  BY DEF Init, Unseen
<1>4. changed \in 0 .. MaxTime /\ offset \in Nat /\ length \in Nat
  BY DEF Init
<1>7. stable \in BOOLEAN
  BY Zenon DEF Init
<1>5. /\ tpc \in {"off", "scan", "open", "stat", "line", "end"}
      /\ file \in made \cup {NoFile} /\ (file = NoFile <=> tpc \in {"off", "scan"})
  BY DEF Init
<1>6. /\ done \subseteq made /\ doneFile \subseteq made
      /\ shared \subseteq made /\ missed \subseteq doneFile
  BY DEF Init
<1> QED
  BY <1>1, <1>2, <1>3, <1>4, <1>5, <1>6, <1>7 DEF TypeOK

\* Every step of the collector keeps the types.
LEMMA CollectorType ==
    ASSUME TypeOK, CollectorStep
    PROVE  TypeOK'
<1> USE TimeAssumption, RecordsAssumption, NoFileAssumption
<1> USE DEF TypeOK, CollectorTypeOK, disk, log, given, hand, Fails
<1> UNCHANGED <<tpc, hand, done, doneFile, taken, missed>>
  BY DEF CollectorStep, Apart
<1>1. CASE AppendRecord
  <2>1. /\ lines' \in [Names -> Nat]
        /\ torn' \in [Names -> BOOLEAN]
        /\ mtime' \in [Names -> 0 .. MaxTime]
        /\ faults' \in 0 .. MaxFaults
        /\ count' \in Nat /\ size' \in Nat
    <3>1. CASE cur = NoFile
      BY <1>1, <3>1 DEF AppendRecord
    <3>2. CASE cur # NoFile
      <4>1. cur \in Names /\ now \in 0 .. MaxTime
        BY <3>2
      <4>2. lines' \in {lines, [lines EXCEPT ![cur] = @ + 1]}
        BY <1>1, <3>2 DEF AppendRecord
      <4>3. torn' \in {torn, [torn EXCEPT ![cur] = FALSE], [torn EXCEPT ![cur] = TRUE]}
        BY <1>1, <3>2 DEF AppendRecord
      <4>4. mtime' \in {mtime, [mtime EXCEPT ![cur] = now]}
        BY <1>1, <3>2 DEF AppendRecord
      <4>5. faults' \in 0 .. MaxFaults /\ count' \in Nat /\ size' \in Nat
        BY <1>1, <3>2 DEF AppendRecord
      <4>6. lines' \in [Names -> Nat]
        BY <4>1, <4>2
      <4>7. torn' \in [Names -> BOOLEAN]
        BY <4>1, <4>3
      <4>8. mtime' \in [Names -> 0 .. MaxTime]
        BY <4>1, <4>4
      <4> QED
        BY <4>5, <4>6, <4>7, <4>8
    <3> QED
      BY <3>1, <3>2
  <2> QED
    BY <1>1, <2>1 DEF AppendRecord, CollectorStep, Apart
<1>2. CASE KeepFile \/ CloseFile \/ ApplyCtrlFile \/ StartCollector
  BY <1>2 DEF KeepFile, CloseFile, ApplyCtrlFile, StartCollector, CollectorStep, Apart
<1>3. CASE RotateWithoutFile \/ StopCollector \/ KillCollector
  BY <1>3 DEF RotateWithoutFile, StopCollector, KillCollector, End, CollectorStep, Apart
<1>4. CASE OpenFile
  BY <1>4 DEF OpenFile, CollectorStep, Apart, Names, Bytes
<1>5. CASE OpenFileFails
  BY <1>5 DEF OpenFileFails, End, CollectorStep, Apart
<1> QED
  BY <1>1, <1>2, <1>3, <1>4, <1>5 DEF CollectorStep, Apart, CollectorNext, CollectorWork

\* A closed file leaves values of the right types behind.
LEMMA Closed ==
    ASSUME Close
    PROVE  /\ file' = NoFile /\ offset' \in Nat /\ length' \in Nat
           /\ changed' \in 0 .. MaxTime /\ stable' \in BOOLEAN
           /\ seen' \in Nat \X (0 .. MaxTime + 1)
<1>1. seen' = Unseen /\ 0 \in 0 .. MaxTime
  BY TimeAssumption DEF Close
<1>2. stable' \in BOOLEAN
  BY Zenon DEF Close
<1> QED
  BY <1>1, <1>2, TimeAssumption DEF Close, Unseen

\* Every step keeps the types.
LEMMA StepType ==
    ASSUME TypeOK, Next
    PROVE  TypeOK'
<1> USE TimeAssumption, RecordsAssumption, NoFileAssumption, IdleAssumption
<1> USE DEF TypeOK, CollectorTypeOK
<1>1. CASE CollectorStep
  BY <1>1, CollectorType
<1>2. CASE StartTailer \/ LastLine
  BY <1>2 DEF StartTailer, LastLine, cvars, disk, log, given, hand, noted
<1>10. CASE StartTailerMisses
  BY <1>10 DEF StartTailerMisses, Fails, world, disk, log, given, hand
<1>3. CASE Pick
  <2>1. file' \in made
    BY <1>3 DEF Pick, Eligible
  <2> QED
    BY <1>3, <2>1 DEF Pick, cvars, disk, log, given, noted
<1>11. CASE Open
  <2>1. file \in made /\ file \in Names
    BY <1>11 DEF Open
  <2>2. /\ seen' \in {<<Bytes(file), mtime[file]>>, Unseen}
        /\ changed' \in {now, 0} /\ faults' \in 0 .. MaxFaults
        /\ shared' \subseteq made
    BY <1>11, <2>1 DEF Open, Fails
  <2>3. seen' \in Nat \X (0 .. MaxTime + 1) /\ changed' \in 0 .. MaxTime
    BY <2>1, <2>2 DEF Bytes, Unseen
  <2>4. stable' \in BOOLEAN
    BY <1>11, Zenon DEF Open
  <2> QED
    BY <1>11, <2>1, <2>2, <2>3, <2>4 DEF Open, world, disk, log, given, noted
<1>4. CASE Stat
  <2>1. file \in made /\ file \in Names
    BY <1>4 DEF Stat
  <2>2. Bytes(file) \in Nat /\ <<Bytes(file), mtime[file]>> \in Nat \X (0 .. MaxTime + 1)
    BY <2>1 DEF Bytes
  <2>3. /\ seen' \in Nat \X (0 .. MaxTime + 1)
        /\ changed' \in 0 .. MaxTime /\ stable' \in BOOLEAN
        /\ length' \in Nat
    BY <1>4, <2>2 DEF Stat
  <2> QED
    BY <1>4, <2>3 DEF Stat, cvars, disk, log, given, noted
<1>5. CASE PublishTaken
  BY <1>5 DEF PublishTaken, cvars, disk, log, given, noted
<1>6. CASE FileFails \/ StopTailer
  BY <1>6, Closed DEF FileFails, StopTailer, Fails, world, disk, log, given, noted
<1>7. CASE PublishRefused \/ PollAgain
  BY <1>7 DEF PublishRefused, PollAgain, Poll, Fails, world, cvars, disk, log, given, noted
<1>8. CASE MarkDone
  BY <1>8, Closed DEF MarkDone, Fails, world, disk, log, given, noted
<1>9. CASE Tick /\ UNCHANGED tvars
  BY <1>9 DEF Tick, tvars, hand, disk, log, given, noted
<1> QED
  BY <1>1, <1>2, <1>3, <1>4, <1>5, <1>6, <1>7, <1>8, <1>9, <1>10, <1>11
  DEF Next, TailerWork
-----------------------------------------------------------------------------
\* What the disk remembers the running tailer knows, but for what it missed, and
\* the file in hand it does not know.
DoneIsKnown == /\ tpc # "off" => doneFile \subseteq done \cup missed
               /\ file \notin done

\* A file is read from its beginning, which file the collector works on is
\* observed, and what a poll knows of any other file is still so when the poll ends.
PollIsRight ==
    /\ tpc \in {"off", "scan", "open"} => offset = 0
    /\ cur # NoFile => cur \in shared
    /\ file # NoFile => offset <= lines[file]
    /\ file # NoFile /\ file \notin shared /\ tpc \in {"line", "end"} =>
           length = Bytes(file)

IInv == TypeOK /\ OffsetIsEarned /\ DoneIsKnown /\ PollIsRight /\ DoneIsEarned

\* The collector changes no file but the one it has open, and only makes files
\* longer.
LEMMA CollectorKeepsFiles ==
    ASSUME TypeOK, CollectorStep
    PROVE  /\ \A f \in Names : lines'[f] >= lines[f]
           /\ \A f \in Names : f # cur => lines'[f] = lines[f] /\ torn'[f] = torn[f]
<1> USE DEF TypeOK, CollectorTypeOK
<1>1. CASE AppendRecord
  BY <1>1 DEF AppendRecord
<1>2. CASE ~AppendRecord
  <2>1. UNCHANGED <<lines, torn>>
    BY <1>2 DEF CollectorStep, Apart, CollectorNext, CollectorWork, KeepFile, CloseFile,
       RotateWithoutFile, OpenFile, OpenFileFails, ApplyCtrlFile, StopCollector,
       KillCollector, StartCollector, disk
  <2> QED
    BY <2>1
<1> QED
  BY <1>1, <1>2

\* The inductive invariant holds at first.
LEMMA InitIInv == Init => IInv
  BY InitType
  DEF Init, CollectorInit, IInv, OffsetIsEarned, DoneIsKnown, PollIsRight,
      DoneIsEarned

\* Every step leaves the lines before the reading position taken.
LEMMA StepOffset ==
    ASSUME TypeOK, OffsetIsEarned, PollIsRight, Next
    PROVE  OffsetIsEarned'
<1> USE DEF OffsetIsEarned
<1>1. CASE PublishTaken
  <2>1. 1 .. offset + 1 \subseteq (1 .. offset) \cup {offset + 1}
    BY DEF TypeOK
  <2> QED
    BY <1>1, <2>1 DEF PublishTaken, TypeOK, CollectorTypeOK
<1>2. CASE Pick \/ Open
  <2>1. 1 .. offset' = {}
    BY <1>2 DEF Pick, Open, PollIsRight
  <2> QED
    BY <2>1
<1>3. CASE FileFails \/ MarkDone \/ StopTailer
  BY <1>3 DEF FileFails, MarkDone, StopTailer, Close
<1>4. CASE Stat \/ PublishRefused \/ LastLine \/ PollAgain
  BY <1>4 DEF Stat, PublishRefused, LastLine, PollAgain, Poll, hand
<1>6. CASE StartTailer \/ StartTailerMisses
  BY <1>6 DEF StartTailer, StartTailerMisses, hand
<1>5. CASE CollectorStep \/ (Tick /\ UNCHANGED tvars)
  BY <1>5 DEF CollectorStep, Apart, tvars, hand
<1> QED
  BY <1>1, <1>2, <1>3, <1>4, <1>5, <1>6 DEF Next, TailerWork

\* Every step leaves the file in hand unknown, and the list known.
LEMMA StepKnown ==
    ASSUME TypeOK, DoneIsKnown, Next
    PROVE  DoneIsKnown'
<1> USE NoFileAssumption DEF DoneIsKnown
<1> NoFile \notin done'
  BY StepType DEF TypeOK, CollectorTypeOK
<1>1. CASE Pick
  BY <1>1 DEF Pick, Eligible, noted
<1>2. CASE StartTailer \/ StartTailerMisses
  BY <1>2 DEF StartTailer, StartTailerMisses, hand, noted, TypeOK
<1>3. CASE FileFails \/ StopTailer
  BY <1>3 DEF FileFails, StopTailer, Close, noted
<1>4. CASE MarkDone
  BY <1>4 DEF MarkDone, Close
<1>5. CASE Open
  BY <1>5 DEF Open
<1>6. CASE Stat \/ PublishTaken \/ PublishRefused \/ LastLine \/ PollAgain
  BY <1>6 DEF Stat, PublishTaken, PublishRefused, LastLine, PollAgain, Poll, hand, noted
<1>7. CASE CollectorStep \/ (Tick /\ UNCHANGED tvars)
  BY <1>7 DEF CollectorStep, Apart, tvars, hand, noted
<1> QED
  BY <1>1, <1>2, <1>3, <1>4, <1>5, <1>6, <1>7 DEF Next, TailerWork

\* Every step leaves the poll right about the files the collector keeps away from.
LEMMA StepPoll ==
    ASSUME TypeOK, PollIsRight, Next
    PROVE  PollIsRight'
<1> USE NoFileAssumption DEF PollIsRight
<1> file # NoFile => file \in Names
  BY DEF TypeOK, CollectorTypeOK
<1>1. CASE CollectorStep
  <2>1. /\ cur' # NoFile => cur' \in shared'
        /\ shared \subseteq shared'
        /\ UNCHANGED <<tpc, file, offset, length>>
    BY <1>1 DEF CollectorStep, Apart, hand
  <2>2. file # NoFile => offset <= lines'[file]
    <3>1. CollectorTypeOK'
      BY <1>1, CollectorType DEF TypeOK
    <3> QED
      BY <1>1, <3>1, CollectorKeepsFiles DEF TypeOK, CollectorTypeOK
  <2>3. file # NoFile /\ file \notin shared => Bytes(file)' = Bytes(file)
    BY <1>1, <2>1, CollectorKeepsFiles DEF Bytes
  <2> QED
    BY <2>1, <2>2, <2>3 DEF Bytes
<1>2. CASE Pick
  <2>1. file' \in Names /\ lines[file'] \in Nat
    BY <1>2 DEF Pick, Eligible, TypeOK, CollectorTypeOK
  <2> QED
    BY <1>2, <2>1 DEF Pick, cvars, disk, log, given, noted
<1>9. CASE Open
  <2>1. file \in Names /\ lines[file] \in Nat
    BY <1>9 DEF Open, TypeOK, CollectorTypeOK
  <2> QED
    BY <1>9, <2>1 DEF Open, world, disk, log, given
<1>3. CASE Stat
  BY <1>3 DEF Stat, cvars, disk, log, given, noted, Bytes
<1>4. CASE PublishTaken
  BY <1>4 DEF PublishTaken, cvars, disk, log, given, noted, Bytes, TypeOK, CollectorTypeOK
<1>5. CASE FileFails \/ MarkDone \/ StopTailer
  BY <1>5 DEF FileFails, MarkDone, StopTailer, Close, world, log, given, noted
<1>6. CASE PublishRefused \/ PollAgain
  BY <1>6 DEF PublishRefused, PollAgain, Poll, world, cvars, disk, log, given, noted
<1>7. CASE LastLine \/ StartTailer
  BY <1>7 DEF LastLine, StartTailer, cvars, hand, disk, log, given, noted, Bytes, TypeOK
<1>10. CASE StartTailerMisses
  BY <1>10 DEF StartTailerMisses, world, hand, disk, log, given, Bytes, TypeOK
<1>8. CASE Tick /\ UNCHANGED tvars
  BY <1>8 DEF Tick, tvars, hand, disk, log, given, noted, Bytes
<1> QED
  BY <1>1, <1>2, <1>3, <1>4, <1>5, <1>6, <1>7, <1>8, <1>9, <1>10
  DEF Next, TailerWork

\* Every step leaves the files of the done list earned.
LEMMA StepDone ==
    ASSUME IInv, Next
    PROVE  DoneIsEarned'
<1> USE NoFileAssumption DEF IInv, DoneIsEarned
<1>1. CASE CollectorStep
  <2>1. UNCHANGED <<done, doneFile, taken>> /\ shared \subseteq shared'
    BY <1>1 DEF CollectorStep, Apart
  <2>2. SUFFICES ASSUME NEW f \in (done \cup doneFile) \ shared'
                 PROVE  1 .. lines'[f] \subseteq taken[f] /\ ~torn'[f]
    BY <2>1
  <2>3. f \in Names /\ f # cur
    BY <2>1, NoFileAssumption DEF TypeOK, CollectorTypeOK, PollIsRight
  <2>4. lines'[f] = lines[f] /\ torn'[f] = torn[f]
    BY <1>1, <2>3, CollectorKeepsFiles
  <2> QED
    BY <2>1, <2>4
<1>2. CASE Pick
  BY <1>2 DEF Pick, cvars, disk, noted
<1>8. CASE Open
  <2>1. (shared \ ({file} \ doneFile)) \subseteq shared' /\ file \notin done
    BY <1>8 DEF Open, DoneIsKnown
  <2> QED
    BY <1>8, <2>1 DEF Open, world, disk
<1>3. CASE MarkDone
  <2>1. UNCHANGED <<lines, torn, taken, shared>>
    BY <1>3 DEF MarkDone, world, disk
  <2>2. done' \cup doneFile' \subseteq done \cup doneFile \cup {file}
    BY <1>3 DEF MarkDone
  <2>3. ASSUME file \notin shared
        PROVE  1 .. lines[file] \subseteq taken[file] /\ ~torn[file]
    <3>1. file # NoFile /\ file \in Names /\ 2 * offset >= length
      BY <1>3 DEF MarkDone, AtEnd, TypeOK, CollectorTypeOK
    <3>2. length = Bytes(file) /\ offset <= lines[file]
      BY <1>3, <2>3, <3>1 DEF MarkDone, PollIsRight
    <3>3. offset \in Nat /\ lines[file] \in Nat
      BY <3>1 DEF TypeOK, CollectorTypeOK
    <3>4. offset = lines[file] /\ ~torn[file]
      BY <3>1, <3>2, <3>3 DEF Bytes
    <3> QED
      BY <3>1, <3>4 DEF OffsetIsEarned
  <2> QED
    BY <2>1, <2>2, <2>3
<1>4. CASE PublishTaken
  BY <1>4 DEF PublishTaken, cvars, disk, noted, TypeOK, CollectorTypeOK
<1>5. CASE FileFails \/ StopTailer
  BY <1>5 DEF FileFails, StopTailer, world, disk, noted
<1>9. CASE StartTailer \/ StartTailerMisses
  BY <1>9 DEF StartTailer, StartTailerMisses, cvars, world, disk, noted
<1>6. CASE Stat \/ PublishRefused \/ PollAgain \/ LastLine
  BY <1>6 DEF Stat, PublishRefused, PollAgain, LastLine, cvars, world, disk, noted
<1>7. CASE Tick /\ UNCHANGED tvars
  BY <1>7 DEF Tick, tvars, disk, noted
<1> QED
  BY <1>1, <1>2, <1>3, <1>4, <1>5, <1>6, <1>7, <1>8, <1>9
  DEF Next, TailerWork

\* Every step preserves the inductive invariant.
LEMMA Inductive == IInv /\ [Next]_vars => IInv'
<1> SUFFICES ASSUME IInv, [Next]_vars
             PROVE  IInv'
  OBVIOUS
<1>1. CASE Next
  BY <1>1, StepType, StepOffset, StepKnown, StepPoll, StepDone DEF IInv
<1>2. CASE UNCHANGED vars
  BY <1>2 DEF IInv, TypeOK, CollectorTypeOK, OffsetIsEarned, DoneIsKnown, PollIsRight,
     DoneIsEarned, Bytes, vars, cvars, tvars, disk, log, given, hand, noted
<1> QED
  BY <1>1, <1>2

\* The inductive invariant is an invariant.
LEMMA Invariance == Spec => []IInv
  BY InitIInv, Inductive, PTL DEF Spec
-----------------------------------------------------------------------------
\* The types of all variables of the collector and the tailer, and that a file is
\* in hand exactly while the tailer reads.
THEOREM TypeCorrect == Spec => []TypeOK
<1>1. IInv => TypeOK
  BY DEF IInv
<1> QED
  BY <1>1, Invariance, PTL

\* The reading position passes no line that was not taken, whatever the collector
\* does to the file in the meantime.
THEOREM OffsetIsEarnedHolds == Spec => []OffsetIsEarned
<1>1. IInv => OffsetIsEarned
  BY DEF IInv
<1> QED
  BY <1>1, Invariance, PTL

\* A file in the done list is whole and published, unless the collector had it
\* open after the tailer did.
THEOREM DoneIsEarnedHolds == Spec => []DoneIsEarned
<1>1. IInv => DoneIsEarned
  BY DEF IInv
<1> QED
  BY <1>1, Invariance, PTL

\* No line of a file of the done list on disk is published again, after however
\* many restarts, but for the names that a process failed to read or to remember.
THEOREM DoneIsNotRepublishedHolds == Spec => DoneIsNotRepublished
<1>1. IInv /\ [Next]_vars =>
          [\A f \in doneFile \ (missed \ done) :
               file = f => offset' = offset \/ file' # f]_vars
  <2> SUFFICES ASSUME IInv, NEW f \in doneFile \ (missed \ done)
               PROVE  file # f
    OBVIOUS
  <2>1. f # NoFile
    BY NoFileAssumption DEF IInv, TypeOK, CollectorTypeOK
  <2>2. CASE f \in done
    BY <2>2 DEF IInv, DoneIsKnown
  <2>3. CASE f \notin done
    BY <2>1, <2>3 DEF IInv, DoneIsKnown, TypeOK
  <2> QED
    BY <2>2, <2>3
<1> QED
  BY <1>1, Invariance, PTL DEF Spec, DoneIsNotRepublished
-----------------------------------------------------------------------------
\* What FilesStayShort needs to be inductive: a serial number is used once in a
\* process, so that a file it has not got to yet has all its lines from the
\* processes before, and the file it has open at most record_count more, which is
\* below the largest limit whenever the next record is taken.
ProcessAddsOneFileful ==
    /\ cpc = "off" => limit = RecordsPerFile
    /\ cpc \in {"off", "open"} => cur = NoFile
    /\ cpc # "off" => 0 < limit /\ limit <= most /\ most <= allowed
    /\ \A f \in Names : lines[f] <= allowed
    /\ cpc # "off" =>
           \A f \in Names : f[2] >= seq => lines[f] + most <= allowed
    /\ cur # NoFile =>
           /\ cur[2] < seq
           /\ lines[cur] + most <= allowed + count
           /\ count <= most
           /\ cpc = "loop" => count < most

ShortInv == RecordsPerFile > 0 => ProcessAddsOneFileful

\* A record more keeps the files short.
LEMMA AppendStaysShort ==
    ASSUME TypeOK, ProcessAddsOneFileful, AppendRecord
    PROVE  ProcessAddsOneFileful'
<1> USE DEF TypeOK, CollectorTypeOK, given
<1> UNCHANGED <<cur, seq, limit, starts, most, allowed>> /\ cpc = "loop" /\ cpc' = "rotate"
  BY DEF AppendRecord
<1>1. CASE cur = NoFile
  BY <1>1 DEF AppendRecord, ProcessAddsOneFileful
<1>2. CASE cur # NoFile
  <2>1. cur \in Names /\ lines[cur] \in Nat
    BY <1>2
  <2>2. /\ count' = count + 1
        /\ lines' \in [Names -> Nat]
        /\ lines'[cur] <= lines[cur] + 1
        /\ \A f \in Names : f # cur => lines'[f] = lines[f]
    BY <1>2, <2>1 DEF AppendRecord
  <2>3. lines'[cur] + most <= allowed + count' /\ count' <= most
    BY <1>2, <2>1, <2>2 DEF ProcessAddsOneFileful
  <2>4. lines'[cur] <= allowed
    BY <2>1, <2>2, <2>3
  <2>5. \A f \in Names : f[2] >= seq => f # cur
    BY <1>2 DEF ProcessAddsOneFileful, Names
  <2> QED
    BY <2>1, <2>2, <2>3, <2>4, <2>5 DEF ProcessAddsOneFileful
<1> QED
  BY <1>1, <1>2

\* The next file takes the next serial number, which this process has not used.
LEMMA OpenStaysShort ==
    ASSUME TypeOK, ProcessAddsOneFileful, OpenFile
    PROVE  ProcessAddsOneFileful'
<1> USE DEF TypeOK, CollectorTypeOK, given
<1> DEFINE f == <<now, seq>>
<1>1. /\ f \in Names /\ f # NoFile /\ f[2] = seq
      /\ cur' = f /\ seq' = seq + 1 /\ count' = 0
      /\ cpc # "off" /\ cpc' = "loop"
      /\ UNCHANGED <<lines, limit, most, allowed>>
  BY TimeAssumption, NoFileAssumption DEF OpenFile, Names
<1> HIDE DEF f
<1>2. lines[f] + most <= allowed /\ lines[f] \in Nat
  BY <1>1, TimeAssumption DEF ProcessAddsOneFileful
<1>3. \A g \in Names : g[2] >= seq' => g[2] >= seq
  BY <1>1, TimeAssumption DEF Names
<1>4. cur'[2] < seq'
  BY <1>1, TimeAssumption
<1> QED
  BY <1>1, <1>2, <1>3, <1>4 DEF ProcessAddsOneFileful

\* Every step keeps the files short.
LEMMA StepShort ==
    ASSUME TypeOK, ShortInv, Next
    PROVE  ShortInv'
<1> SUFFICES ASSUME RecordsPerFile > 0
             PROVE  ProcessAddsOneFileful'
  BY DEF ShortInv
<1> ProcessAddsOneFileful
  BY DEF ShortInv
<1> USE DEF given
<1>1. CASE AppendRecord
  BY <1>1, AppendStaysShort
<1>2. CASE OpenFile
  BY <1>2, OpenStaysShort
<1>3. CASE KeepFile
  <2>1. /\ UNCHANGED <<lines, cur, seq, count, limit, most, allowed>>
        /\ cpc' = "loop" /\ cpc # "off"
    BY <1>3 DEF KeepFile, disk, log
  <2>2. count < limit
    BY <1>3 DEF KeepFile, Full, ProcessAddsOneFileful, TypeOK, CollectorTypeOK
  <2> QED
    BY <2>1, <2>2 DEF ProcessAddsOneFileful, TypeOK, CollectorTypeOK
<1>4. CASE CloseFile
  BY <1>4 DEF CloseFile, disk, ProcessAddsOneFileful
<1>5. CASE RotateWithoutFile \/ StopCollector \/ KillCollector
  BY <1>5 DEF RotateWithoutFile, StopCollector, KillCollector, End, disk,
     ProcessAddsOneFileful
<1>6. CASE OpenFileFails
  <2>1. CASE cpc = "start" /\ End
    BY <1>6, <2>1 DEF OpenFileFails, End, disk, ProcessAddsOneFileful
  <2>2. CASE cpc = "open" /\ seq' \in {seq, seq + 1}
    <3>1. cpc' = "loop" /\ UNCHANGED <<lines, cur, count, limit, most, allowed>>
      BY <1>6, <2>2 DEF OpenFileFails, disk
    <3>2. \A f \in Names : f[2] >= seq' => f[2] >= seq
      BY <2>2, TimeAssumption DEF Names, TypeOK, CollectorTypeOK
    <3>3. cur = NoFile
      BY <2>2 DEF ProcessAddsOneFileful
    <3> QED
      BY <2>2, <3>1, <3>2, <3>3 DEF ProcessAddsOneFileful
  <2> QED
    BY <1>6, <2>1, <2>2 DEF OpenFileFails
<1>7. CASE ApplyCtrlFile
  <2>1. PICK n \in CtrlRecords :
            /\ n > 0 /\ limit' = n
            /\ IF n > most THEN most' = n /\ allowed' = allowed + (n - most)
                           ELSE UNCHANGED given
    BY <1>7 DEF ApplyCtrlFile
  <2>2. n \in Nat /\ most \in Nat /\ allowed \in Nat /\ count \in Nat
    BY RecordsAssumption DEF TypeOK, CollectorTypeOK
  <2>3. /\ UNCHANGED <<lines, cpc, cur, seq, count>>
        /\ cpc = "loop"
    BY <1>7 DEF ApplyCtrlFile, disk
  <2>4. \A f \in Names : lines[f] \in Nat
    BY DEF TypeOK, CollectorTypeOK
  <2>5. cur # NoFile => cur \in Names
    BY DEF TypeOK, CollectorTypeOK
  <2>6. CASE n > most
    BY <2>1, <2>2, <2>3, <2>4, <2>5, <2>6 DEF ProcessAddsOneFileful
  <2>7. CASE ~(n > most)
    BY <2>1, <2>2, <2>3, <2>7 DEF ProcessAddsOneFileful
  <2> QED
    BY <2>6, <2>7
<1>8. CASE StartCollector
  <2>1. /\ UNCHANGED <<lines, cur, seq, count, limit>>
        /\ most' = limit /\ allowed' = allowed + limit
        /\ cpc = "off" /\ cpc' = "start"
    BY <1>8 DEF StartCollector, disk, log
  <2>2. limit > 0 /\ limit \in Nat /\ allowed \in Nat /\ cur = NoFile
    BY <2>1 DEF ProcessAddsOneFileful, TypeOK, CollectorTypeOK
  <2>3. \A f \in Names : lines[f] \in Nat /\ lines[f] <= allowed
    BY DEF ProcessAddsOneFileful, TypeOK, CollectorTypeOK
  <2> QED
    BY <2>1, <2>2, <2>3 DEF ProcessAddsOneFileful
<1>9. CASE UNCHANGED <<lines, cpc, cur, seq, count, limit, most, allowed>>
  BY <1>9 DEF ProcessAddsOneFileful
<1>10. CASE TailerWork \/ StopTailer \/ (Tick /\ UNCHANGED tvars)
  BY <1>9, <1>10 DEF TailerWork, StartTailer, StartTailerMisses, Pick, Open, Stat,
     FileFails, PublishTaken, PublishRefused, LastLine, MarkDone, PollAgain,
     StopTailer, Tick, cvars, world,
     disk, log
<1> QED
  BY <1>1, <1>2, <1>3, <1>4, <1>5, <1>6, <1>7, <1>8, <1>10
  DEF Next, CollectorStep, CollectorNext, CollectorWork

\* No file grows beyond what the processes so far could each add to it: a serial
\* number that is used again after a restart within the second is the only way to
\* a second fileful.
THEOREM FilesStayShortHolds == Spec => []FilesStayShort
<1>1. Init => TypeOK /\ ShortInv
  BY InitType, RecordsAssumption
  DEF ShortInv, Init, CollectorInit, ProcessAddsOneFileful
<1>2. TypeOK /\ ShortInv /\ [Next]_vars => TypeOK' /\ ShortInv'
  <2>1. ASSUME UNCHANGED vars, TypeOK, ShortInv
        PROVE  TypeOK' /\ ShortInv'
    BY <2>1 DEF vars, cvars, tvars, disk, log, given, hand, noted, TypeOK, CollectorTypeOK,
       ShortInv, ProcessAddsOneFileful
  <2> QED
    BY <2>1, StepType, StepShort
<1>3. ShortInv => FilesStayShort
  BY DEF ShortInv, ProcessAddsOneFileful, FilesStayShort
<1> QED
  BY <1>1, <1>2, <1>3, PTL DEF Spec
=============================================================================
