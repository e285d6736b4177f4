------------------------ MODULE HttpUploader_proofs ------------------------
(* Proofs about HttpUploader, for any number of files, lines and retries.  *)
EXTENDS HttpUploader, TLAPS

USE BoundsAssumption, NoFileAssumption DEF Files

Handling == {"open", "post", "retry", "discard", "save", "write"}

\* What the uploader knows of the file in hand: it is complete (older than the
\* collector's) and after the record that stands, the lines before the one posted
\* next are accepted, and it is earned by the time it is to be recorded.  What
\* stands is what the state file says, but for the moment it is truncated.
Progress ==
    /\ mark = NoFile \/ mark < made
    /\ pc \in {"idle", "relist", "open"} => line = 1
    /\ pc \in Handling => kept < item /\ item < made
    /\ kept = NoFile \/ kept = mark \/ pc = "write"
    /\ pc = "post" => 1 .. (line - 1) \subseteq got[item]
    /\ pc \in {"save", "write"} =>
          item \in binned \/ 1 .. Len(text[item]) \subseteq got[item]

IInv == TypeOK /\ Progress /\ RecordIsEarned /\ LinesInOrder
-----------------------------------------------------------------------------
\* The inductive invariant holds before the first file.
LEMMA InitInv == Init => IInv
BY DEF Init, IInv, TypeOK, Progress, RecordIsEarned, LinesInOrder, PcStates,
       Handling

\* A file that may be posted is complete and after the record.
LEMMA DueIsComplete ==
    ASSUME TypeOK, NEW record \in {mark, NoFile}, NEW f \in Due(dir, record)
    PROVE  f \in 1 .. made /\ record < f /\ f < made
BY DEF TypeOK, Due, Candidates

\* What Pick does: no file is taken, or a complete one after the record that
\* stands; and that is, from now on, the one in the state file or none.
LEMMA PickTakes ==
    ASSUME TypeOK, Progress, pc # "write", Pick(dir)
    PROVE  /\ UNCHANGED <<collector, disk, line, try, faulty, got, binned>>
           /\ kept' \in {mark, NoFile}
           /\ \/ pc' = "idle" /\ item' = NoFile
              \/ /\ pc' = "open"
                 /\ item' \in 1 .. made /\ kept' < item' /\ item' < made
<1>1. PICK record \in {mark, NoFile} :
         /\ LoadRecord(record)
         /\ \/ \E f \in Due(dir, record) : pc' = "open" /\ item' = f
            \/ faulty /\ pc' = "idle" /\ item' = NoFile
            \/ Due(dir, record) = {} /\ pc' = "idle" /\ item' = NoFile
  BY DEF Pick
<1>0. UNCHANGED <<collector, disk, line, try, faulty, got, binned>>
  BY DEF Pick
<1>2. kept' = record
  BY <1>1 DEF LoadRecord, Progress
<1>3. CASE \E f \in Due(dir, record) : pc' = "open" /\ item' = f
  BY <1>0, <1>2, <1>3, DueIsComplete
<1>4. CASE pc' = "idle" /\ item' = NoFile
  BY <1>0, <1>2, <1>4
<1> QED
  <2>1. \/ \E f \in Due(dir, record) : pc' = "open" /\ item' = f
        \/ pc' = "idle" /\ item' = NoFile
    BY <1>1
  <2> QED
    BY <1>0, <1>3, <1>4, <2>1

\* The variables keep their types.
LEMMA TypeStep == TypeOK /\ Progress /\ [Next]_vars => TypeOK'
<1> SUFFICES ASSUME TypeOK, Progress, [Next]_vars PROVE TypeOK'
  OBVIOUS
<1> USE DEF TypeOK, PcStates, collector, disk, local, seen, Idle, PutOff
<1>1. CASE NewFile
  BY <1>1 DEF NewFile
<1>2. CASE AppendLine
  BY <1>2 DEF AppendLine
<1>3. ASSUME Pick(dir), pc \in {"idle", "relist"} PROVE TypeOK'
  <2>1. /\ UNCHANGED <<made, dir, text, mark, line, try, faulty, got, binned>>
        /\ kept' \in {mark, NoFile}
        /\ \/ pc' = "idle" /\ item' = NoFile
           \/ pc' = "open" /\ item' \in 1 .. made
    BY <1>3, PickTakes
  <2> QED
    BY <2>1
<1>4. CASE Scan
  BY <1>3, <1>4 DEF Scan
<1>5. CASE Prune
  BY <1>5 DEF Prune
<1>6. CASE Relist
  BY <1>3, <1>6 DEF Relist
<1>7. CASE Open
  BY <1>7 DEF Open
<1>8. ASSUME pc \in Handling
      PROVE  item \in Files /\ (Accepted => got' \in [Files -> SUBSET Nat])
  BY <1>8 DEF Accepted, Handling
<1>9. CASE PostFail
  <2>1. got' \in [Files -> SUBSET Nat]
    BY <1>8, <1>9 DEF PostFail, Handling
  <2>2. UNCHANGED <<made, dir, text, mark, item, line, faulty, binned, kept>>
    BY <1>9 DEF PostFail
  <2>3. pc' \in {"post", "retry"} /\ try' \in 0 .. Retries
    BY <1>9 DEF PostFail
  <2> QED
    BY <1>8, <1>9, <2>1, <2>2, <2>3 DEF PostFail
<1>10. CASE PostOk
  <2>1. got' \in [Files -> SUBSET Nat]
    BY <1>8, <1>10 DEF PostOk, Handling
  <2>2. /\ UNCHANGED <<made, dir, text, mark, pc, item, faulty, binned, kept>>
        /\ line' = line + 1 /\ try' = 0
    BY <1>10 DEF PostOk
  <2> QED
    BY <1>10, <2>1, <2>2 DEF PostOk
<1>13. CASE PostBad \/ PostEnd \/ RetryLater
  <2>1. CASE PostBad
    BY <2>1 DEF PostBad
  <2>2. CASE PostEnd
    BY <2>2 DEF PostEnd
  <2>3. CASE RetryLater
    BY <2>3 DEF RetryLater
  <2> QED
    BY <1>13, <2>1, <2>2, <2>3
<1>11. CASE Discard \/ SaveTruncate \/ SaveWrite
  <2>1. CASE Discard
    BY <1>8, <2>1 DEF Discard, Handling
  <2>2. CASE SaveTruncate
    BY <2>2 DEF SaveTruncate
  <2>3. CASE SaveWrite
    BY <2>3 DEF SaveWrite
  <2> QED
    BY <1>11, <2>1, <2>2, <2>3
<1>12. CASE Crash \/ Recover \/ UNCHANGED vars
  <2>1. CASE Crash
    BY <2>1 DEF Crash
  <2>2. CASE Recover
    BY <2>2 DEF Recover
  <2>3. CASE UNCHANGED vars
    BY <2>3 DEF vars
  <2> QED
    BY <1>12, <2>1, <2>2, <2>3
<1> QED
  BY <1>1, <1>2, <1>4, <1>5, <1>6, <1>7, <1>9, <1>10, <1>11, <1>12, <1>13
  DEF Next, Collector, Upload

\* What is known of the file in hand stays true.
LEMMA ProgressStep == TypeOK /\ Progress /\ [Next]_vars => Progress'
<1> SUFFICES ASSUME TypeOK, Progress, [Next]_vars PROVE Progress'
  OBVIOUS
<1> USE DEF Progress, Handling, collector, disk, local, seen, Idle, PutOff
<1>1. CASE NewFile
  BY <1>1 DEF NewFile, TypeOK
<1>2. CASE AppendLine
  <2>1. /\ UNCHANGED <<made, mark, pc, item, line, got, binned, kept>>
        /\ pc \in Handling => text'[item] = text[item]
    BY <1>2 DEF AppendLine, TypeOK
  <2> QED
    BY <2>1
<1>3. ASSUME Pick(dir), pc \in {"idle", "relist"} PROVE Progress'
  BY <1>3, PickTakes
<1>4. CASE Scan \/ Relist
  BY <1>3, <1>4 DEF Scan, Relist
<1>5. CASE Prune
  BY <1>5 DEF Prune
<1>6. CASE Open
  BY <1>6 DEF Open, TypeOK
<1>7. CASE PostFail
  <2>1. got[item] \subseteq got'[item]
    BY <1>7 DEF PostFail, Accepted, TypeOK
  <2>2. /\ UNCHANGED <<made, mark, item, line, kept>>
        /\ pc = "post" /\ pc' \in {"post", "retry"}
    BY <1>7 DEF PostFail
  <2> QED
    BY <2>1, <2>2
<1>8. CASE PostOk
  <2>1. got'[item] = got[item] \cup {line}
    BY <1>8 DEF PostOk, Accepted, TypeOK
  <2>2. UNCHANGED <<made, mark, pc, item, kept>> /\ pc = "post" /\ line' = line + 1
    BY <1>8 DEF PostOk
  <2>3. 1 .. (line' - 1) \subseteq got'[item']
    BY <2>1, <2>2 DEF TypeOK
  <2> QED
    BY <2>2, <2>3
<1>9. CASE PostBad
  BY <1>9 DEF PostBad
<1>10. CASE PostEnd
  <2>1. line > Len(text[item]) => 1 .. Len(text[item]) \subseteq 1 .. (line - 1)
    <3>1. item \in Files /\ Len(text[item]) \in Nat /\ line \in Nat
      BY <1>10 DEF PostEnd, TypeOK
    <3> QED
      BY <3>1
  <2> QED
    BY <1>10, <2>1 DEF PostEnd
<1>11. CASE RetryLater \/ Crash \/ Recover
  BY <1>11 DEF RetryLater, Crash, Recover
<1>12. CASE Discard
  BY <1>12 DEF Discard
<1>13. CASE SaveTruncate
  BY <1>13 DEF SaveTruncate, TypeOK
<1>14. CASE SaveWrite
  BY <1>14 DEF SaveWrite, TypeOK
<1>15. CASE UNCHANGED vars
  BY <1>15 DEF vars
<1> QED
  BY <1>1, <1>2, <1>4, <1>5, <1>6, <1>7, <1>8, <1>9, <1>10, <1>11, <1>12,
     <1>13, <1>14, <1>15
  DEF Next, Collector, Upload

\* The lines a file has and those that were accepted only grow, and the lines
\* of a complete file no longer change.
LEMMA OnlyGrows ==
    ASSUME TypeOK, [Next]_vars
    PROVE  /\ \A f \in Files : got[f] \subseteq got'[f]
           /\ \A f \in Files : f < made => text'[f] = text[f]
           /\ binned \subseteq binned'
<1> USE DEF collector, disk, local, seen, TypeOK
<1>0. CASE NewFile
  BY <1>0 DEF NewFile
<1>1. CASE AppendLine
  <2>1. UNCHANGED <<made, got, binned>> /\ made \in Files
    BY <1>1 DEF AppendLine
  <2>2. PICK l \in {"ok", "torn"} : text' = [text EXCEPT ![made] = Append(@, l)]
    BY <1>1 DEF AppendLine
  <2> QED
    BY <2>1, <2>2
<1>2. CASE PostFail \/ PostOk
  <2>1. item \in Files
    BY <1>2 DEF PostFail, PostOk
  <2>2. /\ got' = got \/ got' = [got EXCEPT ![item] = @ \cup {line}]
        /\ UNCHANGED <<text, binned>>
    BY <1>2 DEF PostFail, PostOk, Accepted
  <2> QED
    BY <2>1, <2>2
<1>3. CASE Scan \/ Prune \/ Relist \/ Open
  BY <1>3 DEF Scan, Prune, Relist, Open, Pick
<1>4. CASE PostBad \/ PostEnd \/ RetryLater \/ Discard
  BY <1>4 DEF PostBad, PostEnd, RetryLater, Discard
<1>5. CASE SaveTruncate \/ SaveWrite \/ Crash \/ Recover
  BY <1>5 DEF SaveTruncate, SaveWrite, Crash, Recover
<1>6. CASE UNCHANGED vars
  BY <1>6 DEF vars
<1> QED
  BY <1>0, <1>1, <1>2, <1>3, <1>4, <1>5, <1>6 DEF Next, Collector, Upload

\* Only the two steps that save change the record.
LEMMA RecordMoves ==
    ASSUME TypeOK, Progress, [Next]_vars
    PROVE  mark' = mark \/ mark' = NoFile \/ (pc = "write" /\ mark' = item)
<1> USE DEF collector, disk, local, seen
<1>1. CASE NewFile \/ AppendLine
  BY <1>1 DEF NewFile, AppendLine
<1>2. CASE PostFail \/ PostOk
  BY <1>2 DEF PostFail, PostOk
<1>3. CASE Scan \/ Prune \/ Relist \/ Open
  BY <1>3 DEF Scan, Prune, Relist, Open, Pick
<1>4. CASE PostBad \/ PostEnd \/ RetryLater \/ Discard
  BY <1>4 DEF PostBad, PostEnd, RetryLater, Discard
<1>5. CASE SaveTruncate \/ SaveWrite \/ Crash \/ Recover
  BY <1>5 DEF SaveTruncate, SaveWrite, Crash, Recover
<1>6. CASE UNCHANGED vars
  BY <1>6 DEF vars
<1> QED
  BY <1>1, <1>2, <1>3, <1>4, <1>5, <1>6 DEF Next, Collector, Upload

\* A file is recorded only when it is earned, and it stays earned.
LEMMA EarnedStep ==
    ASSUME TypeOK, Progress, RecordIsEarned, [Next]_vars
    PROVE  RecordIsEarned'
<1> SUFFICES ASSUME mark' # NoFile
             PROVE  mark' \in binned' \/ 1 .. Len(text'[mark']) \subseteq got'[mark']
  BY DEF RecordIsEarned
<1>1. /\ mark' \in Files /\ mark' < made
      /\ mark' \in binned \/ 1 .. Len(text[mark']) \subseteq got[mark']
  <2>1. CASE mark' = mark
    BY <2>1 DEF RecordIsEarned, Progress, TypeOK
  <2>2. CASE pc = "write" /\ mark' = item
    BY <2>2 DEF Progress, Handling, TypeOK
  <2> QED
    BY <2>1, <2>2, RecordMoves
<1> QED
  BY <1>1, OnlyGrows

\* A line is accepted only after the lines before it.
LEMMA OrderStep ==
    ASSUME TypeOK, Progress, LinesInOrder, [Next]_vars
    PROVE  LinesInOrder'
<1>1. CASE PostFail \/ PostOk
  <2>1. /\ pc = "post" /\ item \in Files
        /\ got' = got \/ got' = [got EXCEPT ![item] = @ \cup {line}]
    BY <1>1 DEF PostFail, PostOk, Accepted, TypeOK
  <2>2. 1 .. line \subseteq got[item] \cup {line}
    BY <2>1 DEF Progress, TypeOK
  <2>3. ASSUME NEW f \in Files, NEW l \in got'[f] PROVE 1 .. l \subseteq got'[f]
    <3>1. CASE l \in got[f]
      <4>1. got[f] \subseteq got'[f]
        BY <2>1 DEF TypeOK
      <4> QED
        BY <3>1, <4>1 DEF LinesInOrder
    <3>2. CASE l \notin got[f]
      <4>1. f = item /\ l = line /\ got'[f] = got[item] \cup {line}
        BY <2>1, <2>3, <3>2 DEF TypeOK
      <4> QED
        BY <2>2, <4>1
    <3> QED
      BY <3>1, <3>2
  <2> QED
    BY <2>3 DEF LinesInOrder
<1>2. CASE UNCHANGED got
  BY <1>2 DEF LinesInOrder
<1> QED
  BY <1>1, <1>2 DEF Next, Collector, Upload, NewFile, AppendLine, Scan, Prune,
     Relist, Pick, Open, PostBad, PostEnd, RetryLater, Discard, SaveTruncate,
     SaveWrite, Crash, Recover, vars, seen
-----------------------------------------------------------------------------
\* The inductive invariant is an invariant.
LEMMA Inductive == Spec => []IInv
<1>1. IInv /\ [Next]_vars => IInv'
  BY TypeStep, ProgressStep, EarnedStep, OrderStep DEF IInv
<1> QED
  BY <1>1, InitInv, PTL DEF Spec

\* The variables keep their types, for any number of files, lines and retries:
\* the attempts never exceed http_retries, and the record and the file in hand
\* are files the collector has made.
THEOREM TypeCorrect == Spec => []TypeOK
BY Inductive, PTL DEF IInv

\* Whatever crashes or fails, the state file names only a file whose lines the
\* server has all accepted or that was found bad.
THEOREM RecordIsEarnedHolds == Spec => []RecordIsEarned
BY Inductive, PTL DEF IInv

\* The server accepts a line only after all the lines before it in its file.
THEOREM LinesInOrderHolds == Spec => []LinesInOrder
BY Inductive, PTL DEF IInv

\* A record that stands is respected: nothing up to it is posted again, and what
\* is saved next is not older.
THEOREM RecordIsRespectedHolds == Spec => RecordIsRespected
<1> DEFINE Respected == /\ PostOk \/ PostFail => item > kept
                        /\ kept' # NoFile => kept' >= kept
<1>1. ASSUME IInv, [Next]_vars PROVE [Respected]_vars
  <2>1. PostOk \/ PostFail => item > kept
    BY <1>1 DEF IInv, Progress, Handling, TypeOK, PostOk, PostFail
  <2>2. kept' # NoFile => kept' >= kept
    <3> USE DEF IInv, Progress, Handling, TypeOK
    <3>1. CASE Scan \/ Relist
      BY <1>1, <3>1, PickTakes DEF Scan, Relist
    <3>2. CASE SaveWrite \/ Crash
      BY <1>1, <3>2 DEF SaveWrite, Crash
    <3>3. CASE UNCHANGED kept
      BY <1>1, <3>3
    <3> QED
      BY <1>1, <3>1, <3>2, <3>3 DEF Next, Collector, Upload, NewFile, AppendLine,
         Prune, Open, PostFail, PostOk, PostBad, PostEnd, RetryLater, Discard,
         SaveTruncate, Recover, vars, seen
  <2> QED
    BY <2>1, <2>2
<1> QED
  BY <1>1, Inductive, PTL DEF Spec, RecordIsRespected
=============================================================================
