--------------------------- MODULE Framer_proofs ---------------------------
(***************************************************************************)
(* Proofs about modbus_framer.  Its codec loses nothing, the timers of a   *)
(* line are ordered as they must be, a snapshot asks for each register     *)
(* that it is made of, and the exit status of a request and the counters   *)
(* of the stress test are right, for any configuration file and command    *)
(* line and any answers.  Each setting is what was said last, of a kind    *)
(* that can be worked with; a scan and a snapshot that succeed have asked  *)
(* for all they should, and nothing is written that the file does not say. *)
(***************************************************************************)
EXTENDS Framer, Startup_proofs, FiniteSetTheorems, TLAPS

\* A register gives back the bytes it is made of.
LEMMA TwoBytes ==
    ASSUME NEW x \in Byte, NEW y \in Byte
    PROVE  /\ x * 256 + y \in Register
           /\ (x * 256 + y) \div 256 = x /\ (x * 256 + y) % 256 = y
<1> DEFINE r == x * 256 + y
<1>1. x * 256 + y \in Register
  BY SMT DEF Register, Byte
<1>2. r \div 256 = x
  BY SMT DEF Byte
<1>3. r % 256 = y
  BY SMT DEF Byte
<1> QED  BY <1>1, <1>2, <1>3

Bytes4 == [1 .. 4 -> Byte]

\* What mb_u32_to_regs and mb_f32_to_regs write is what mb_u32_from_regs,
\* mb_s32_from_regs and mb_f32_from_regs read with the same byte order.
THEOREM RegsHoldTheValue ==
    ASSUME NEW v \in Bytes4, NEW order \in Orders
    PROVE  /\ ToRegs(v, order)[1] \in Register /\ ToRegs(v, order)[2] \in Register
           /\ FromRegs(ToRegs(v, order), order) = v
<1> DEFINE b == [i \in 1 .. 4 |-> v[Shuffle(order)[i]]]
<1>1. \A i \in 1 .. 4 : Shuffle(order)[i] \in 1 .. 4 /\ Shuffle(order)[Shuffle(order)[i]] = i
  BY DEF Shuffle, Orders
<1>2. \A i \in 1 .. 4 : b[i] \in Byte
  BY <1>1 DEF Bytes4
<1>3. /\ ToRegs(v, order)[1] = b[1] * 256 + b[2]
      /\ ToRegs(v, order)[2] = b[3] * 256 + b[4]
  BY DEF ToRegs
<1> DEFINE r == ToRegs(v, order)
           c == <<r[1] \div 256, r[1] % 256, r[2] \div 256, r[2] % 256>>
<1>4. /\ b[1] \in Byte /\ b[2] \in Byte /\ b[3] \in Byte /\ b[4] \in Byte
  BY <1>2
<1> HIDE DEF b
<1>5. /\ r[1] \in Register /\ r[2] \in Register
      /\ r[1] \div 256 = b[1] /\ r[1] % 256 = b[2]
      /\ r[2] \div 256 = b[3] /\ r[2] % 256 = b[4]
  <2> HIDE DEF r
  <2> DEFINE u == b[1] * 256 + b[2]  w == b[3] * 256 + b[4]
  <2>1. u \in Register /\ u \div 256 = b[1] /\ u % 256 = b[2]
    BY <1>4, TwoBytes
  <2>2. w \in Register /\ w \div 256 = b[3] /\ w % 256 = b[4]
    BY <1>4, TwoBytes
  <2>3. r[1] = u /\ r[2] = w
    BY <1>3 DEF r
  <2> HIDE DEF u, w
  <2> QED  BY <2>1, <2>2, <2>3
<1>6. \A i \in 1 .. 4 : c[i] = b[i]
  BY <1>5
<1>7. FromRegs(r, order) = [i \in 1 .. 4 |-> c[Shuffle(order)[i]]]
  BY DEF FromRegs
<1> HIDE DEF c
<1>8. \A i \in 1 .. 4 : c[Shuffle(order)[i]] = v[i]
  BY <1>1, <1>6 DEF b
<1>9. v = [i \in 1 .. 4 |-> v[i]]
  BY DEF Bytes4
<1> QED  BY <1>5, <1>7, <1>8, <1>9
-----------------------------------------------------------------------------
\* A coil is in a byte that there is.
LEMMA Eighths ==
    ASSUME NEW n \in Nat, NEW i \in 0 .. n - 1
    PROVE  /\ i \div 8 \in 0 .. (n + 7) \div 8 - 1 /\ i % 8 \in 0 .. 7
           /\ 8 * (i \div 8) + (i % 8) = i
<1>1. i \in Int /\ n \in Int /\ 0 <= i /\ i + 1 <= n
  OBVIOUS
<1>2. i % 8 \in 0 .. 7 /\ 8 * (i \div 8) + (i % 8) = i
  BY <1>1
<1>3. i \div 8 \in Int /\ 0 <= i \div 8
  BY <1>1
<1>4. (n + 7) \div 8 >= i \div 8 + 1
  BY <1>1
<1>5. (n + 7) \div 8 \in Int
  BY <1>1
<1> QED  BY <1>2, <1>3, <1>4, <1>5

\* pack_bits uses the bytes that the request has room for, fills no bit beyond the
\* last coil, and unpack_bits finds each coil again, whatever non-zero value was on.
THEOREM CoilsSurvivePacking ==
    ASSUME NEW n \in Nat, NEW bits \in [0 .. n - 1 -> Byte]
    PROVE  /\ PackBits(bits, n) \in [0 .. NBytes(n) - 1 -> SUBSET (0 .. 7)]
           /\ UnpackBits(PackBits(bits, n), n)
                = [i \in 0 .. n - 1 |-> IF bits[i] # 0 THEN 1 ELSE 0]
<1> DEFINE p == PackBits(bits, n)
<1>1. p \in [0 .. NBytes(n) - 1 -> SUBSET (0 .. 7)]
  BY DEF PackBits
<1>2. ASSUME NEW i \in 0 .. n - 1
      PROVE  i % 8 \in p[i \div 8] <=> bits[i] # 0
  <2>1. /\ i \div 8 \in 0 .. NBytes(n) - 1 /\ i % 8 \in 0 .. 7
        /\ 8 * (i \div 8) + (i % 8) = i
    BY Eighths DEF NBytes
  <2> DEFINE k == i \div 8  b == i % 8
  <2> HIDE DEF k, b
  <2>2. p[k] = {a \in 0 .. 7 : 8 * k + a < n /\ bits[8 * k + a] # 0}
    BY <2>1 DEF PackBits, k
  <2>3. 8 * k + b = i /\ b \in 0 .. 7 /\ i < n
    BY <2>1 DEF k, b
  <2>4. b \in p[k] <=> bits[i] # 0
    BY <2>2, <2>3
  <2> QED  BY <2>4 DEF k, b
<1> HIDE DEF p
<1>3. UnpackBits(p, n) = [i \in 0 .. n - 1 |-> IF bits[i] # 0 THEN 1 ELSE 0]
  BY <1>2 DEF UnpackBits
<1> QED  BY <1>1, <1>3 DEF p
-----------------------------------------------------------------------------
SerialLines == [baud : Nat \ {0}, data_bits : {7, 8}, parity : {"N", "E", "O"}, stop_bits : {1, 2}]

LEMMA QuotientAtLeast ==
    ASSUME NEW a \in Nat, NEW d \in Nat \ {0}, NEW m \in Nat, a >= m * d
    PROVE  a \div d \in Nat /\ a \div d >= m
<1>1. a \div d \in Nat /\ a < d * (a \div d + 1)
  OBVIOUS
<1> DEFINE q == a \div d
<1> HIDE DEF q
<1>2. SUFFICES ASSUME q < m PROVE FALSE
  BY <1>1 DEF q
<1>3. q + 1 <= m
  BY <1>1, <1>2 DEF q
<1>4. d * (q + 1) <= m * d
  BY <1>1, <1>3 DEF q
<1> QED  BY <1>1, <1>4 DEF q

LEMMA QuotientOneMore ==
    ASSUME NEW a \in Nat, NEW d \in Nat \ {0}, NEW b \in Nat, b >= a + d
    PROVE  /\ a \div d \in Nat /\ b \div d \in Nat
           /\ b \div d >= a \div d + 1
<1>1. a \div d \in Nat /\ d * (a \div d) <= a
  OBVIOUS
<1>2. b >= (a \div d + 1) * d
  BY <1>1
<1> QED  BY <1>1, <1>2, QuotientAtLeast

\* On every line the silence that ends a frame is longer than the one allowed
\* within a frame, the lower limit that is put on the latter included.
THEOREM TimersAreOrdered ==
    ASSUME NEW line \in SerialLines
    PROVE  /\ Timers(line).t15 \in Nat /\ Timers(line).t35 \in Nat
           /\ Timers(line).t15 >= MB_MIN_T15_US
           /\ Timers(line).t15 < Timers(line).t35
<1> DEFINE bits == 1 + line.data_bits + (IF line.parity = "N" THEN 0 ELSE 1) + line.stop_bits
           within == (3 * bits * 1000000 + line.baud) \div (2 * line.baud)
           after == (7 * bits * 1000000 + line.baud) \div (2 * line.baud)
<1>1. line.baud \in Nat \ {0} /\ bits \in 9 .. 12
  BY SMT DEF SerialLines
<1>2. CASE line.baud > 19200
  BY SMT, <1>2 DEF Timers, MB_MIN_T15_US
<1>3. CASE line.baud <= 19200
  <2> DEFINE baud == line.baud
  <2> HIDE DEF bits, baud
  <2>1. bits \in 9 .. 12 /\ baud \in Nat /\ 1 <= baud /\ baud <= 19200
    BY SMT, <1>1, <1>3 DEF baud
  <2>2. 7 * bits * 1000000 + baud >= (3 * bits * 1000000 + baud) + 2 * baud
    BY SMT, <2>1
  <2>3. 7 * bits * 1000000 + baud >= 1001 * (2 * baud)
    BY SMT, <2>1
  <2>4. within \in Nat /\ after \in Nat /\ after >= within + 1
    <3> DEFINE a == 3 * bits * 1000000 + baud  b == 7 * bits * 1000000 + baud
               d == 2 * baud
    <3>1. a \in Nat /\ b \in Nat /\ d \in Nat \ {0} /\ b >= a + d
      BY SMT, <2>1, <2>2
    <3>2. within = a \div d /\ after = b \div d
      BY DEF baud
    <3> HIDE DEF a, b, d, within, after
    <3> QED  BY SMT, <3>1, <3>2, QuotientOneMore
  <2>5. after >= 1001
    BY SMT, <2>1, <2>3, QuotientAtLeast DEF baud
  <2>6. /\ Timers(line).t15 = IF within < MB_MIN_T15_US THEN MB_MIN_T15_US ELSE within
        /\ Timers(line).t35 = after
    BY SMT, <1>1, <1>3 DEF Timers, bits
  <2> HIDE DEF within, after
  <2> QED  BY SMT, <2>4, <2>5, <2>6 DEF MB_MIN_T15_US
<1> QED  BY SMT, <1>1, <1>2, <1>3
-----------------------------------------------------------------------------
LEMMA LeastAndGreatest ==
    ASSUME NEW a \in Int, NEW b \in Int, NEW c \in Int, NEW S, S = {a, b} \/ S = {a, b, c}
    PROVE  /\ Min(S) \in S /\ \A x \in S : Min(S) <= x
           /\ Max(S) \in S /\ \A x \in S : x <= Max(S)
<1>1. \E m \in S : \A x \in S : m <= x
  OBVIOUS
<1>2. \E m \in S : \A x \in S : m >= x
  OBVIOUS
<1>3. S \subseteq Int
  OBVIOUS
<1> QED  BY <1>1, <1>2, <1>3 DEF Min, Max

\* The requests of a snapshot are for registers that there are, of a number that
\* one answer can hold, and together they are for every register of the snapshot,
\* unless the lowest register and the highest are both among them: then the number
\* comes out as 0, and 0 is what is asked for.
THEOREM SnapshotAsksForAll ==
    ASSUME NEW temp \in Register, NEW hum \in Register, NEW device \in Register \cup {-1},
           NEW S, S = Wanted(temp, hum, device),
           NEW reads, reads = SnapshotReads(temp, hum, device)
    PROVE  \/ Max(S) - Min(S) = 65535 /\ reads = <<<<Min(S), 0>>>>
           \/ /\ \A i \in DOMAIN reads : reads[i][2] \in 1 .. MB_MAX_READ_REGS
              /\ \A a \in S : \E i \in DOMAIN reads :
                    reads[i][1] <= a /\ a < reads[i][1] + reads[i][2]
<1> DEFINE lo == Min(S)  hi == Max(S)
<1>1. /\ lo \in S /\ \A x \in S : lo <= x
      /\ hi \in S /\ \A x \in S : x <= hi
  <2>1. temp \in Int /\ hum \in Int /\ device \in Int
    BY DEF Register
  <2>2. S = {temp, hum} \/ S = {temp, hum, device}
    BY DEF Wanted
  <2> QED  BY <2>1, <2>2, LeastAndGreatest
<1>2. \A x \in S : x \in Int /\ 0 <= x /\ x < 65536
  BY SMT DEF Wanted, Register
<1> HIDE DEF lo, hi
<1>3. Quantity(S) = (hi - lo + 1) % 65536
  BY DEF Quantity, lo, hi
<1>4. CASE hi - lo = 65535
  <2>1. Quantity(S) = 0
    BY SMT, <1>1, <1>2, <1>3, <1>4
  <2> QED  BY <1>4, <2>1 DEF SnapshotReads, MB_MAX_READ_REGS, lo, hi
<1>5. CASE hi - lo # 65535
  <2>1. hi - lo + 1 \in Int /\ 1 <= hi - lo + 1 /\ hi - lo + 1 < 65536
    BY SMT, <1>1, <1>2, <1>5
  <2>2. Quantity(S) = hi - lo + 1
    BY SMT, <1>3, <2>1
  <2>3. CASE Quantity(S) <= MB_MAX_READ_REGS
    <3>1. reads = <<<<lo, Quantity(S)>>>>
      BY <2>3 DEF SnapshotReads, lo
    <3>2. \A a \in S : lo <= a /\ a < lo + Quantity(S)
      BY SMT, <1>1, <1>2, <2>2
    <3>3. Quantity(S) \in 1 .. MB_MAX_READ_REGS
      BY SMT, <2>1, <2>2, <2>3 DEF MB_MAX_READ_REGS
    <3> HIDE DEF lo, hi
    <3> QED  BY <3>1, <3>2, <3>3
  <2>4. CASE ~(Quantity(S) <= MB_MAX_READ_REGS)
    <3>1. 1 \in 1 .. MB_MAX_READ_REGS
      BY DEF MB_MAX_READ_REGS
    <3>2. CASE device >= 0
      <4>1. reads = <<<<hum, 1>>, <<temp, 1>>, <<device, 1>>>>
        BY <2>4, <3>2 DEF SnapshotReads
      <4>2. S = {temp, hum, device}
        BY <3>2 DEF Wanted
      <4> HIDE DEF lo, hi
      <4> QED  BY <1>2, <3>1, <4>1, <4>2
    <3>3. CASE ~(device >= 0)
      <4>1. reads = <<<<hum, 1>>, <<temp, 1>>>>
        BY <2>4, <3>3 DEF SnapshotReads
      <4>2. S = {temp, hum}
        BY <3>3 DEF Wanted
      <4> HIDE DEF lo, hi
      <4> QED  BY <1>2, <3>1, <4>1, <4>2
    <3> QED  BY <3>2, <3>3
  <2> QED  BY <2>3, <2>4
<1> QED  BY <1>4, <1>5 DEF lo, hi
-----------------------------------------------------------------------------
(* The exit status and the counters *)

Early == {"find", "file", "args", "open"}
Stressing == {"wait", "mailbox", "echo", "coil", "coils"}
Differences == tally.mismatch + tally.ack_err + tally.coil_err
Counted == tally.ok + tally.exc + (tally.err - Differences)

\* Nothing was asked and nothing counted before there is a job.
Fresh == job.command \notin Requests \cup {"stress"} /\ asks = <<>> /\ tally = Tally0
FreshBefore ==
    /\ phase \in Early => stage = "idle" /\ Fresh
    /\ stage = "start" => phase = "work" /\ Fresh

\* One request is made for a job that is one, and its answer is the status.
OneRequest ==
    job.command \in Requests =>
        \/ stage = "request" /\ phase = "work" /\ asks = <<>>
        \/ /\ stage = "idle" /\ phase = "exit"
           /\ code = 0 => Len(asks) = 1 /\ asks[1].answer = "ok"

\* The loop that is under way is not counted yet.
LoopsCounted ==
    job.command = "stress" =>
        /\ stage \in Stressing \cup {"idle"}
        /\ stage = "idle" => phase = "exit" /\ (code = 0 => tally.err = 0)
        /\ stage # "idle" => phase = "work"
        /\ tally \in Tallies
        /\ tally.err >= Differences
        /\ tally.loops = Counted + (IF stage \in {"wait", "idle"} THEN 0 ELSE 1)

IInv == FreshBefore /\ OneRequest /\ LoopsCounted

LEMMA InitFresh == Init => IInv
<1> SUFFICES ASSUME Init
             PROVE  IInv
  OBVIOUS
<1>1. job = NoJob /\ stage = "idle" /\ asks = <<>> /\ tally = Tally0
  BY DEF Init
<1>2. job.command = "none"
  BY <1>1 DEF NoJob
<1>3. Fresh
  BY <1>1, <1>2 DEF Fresh, Requests
<1> QED  BY <1>1, <1>3 DEF IInv, FreshBefore, Fresh, OneRequest, LoopsCounted

\* Until the line is open there is no job, whatever is read.
LEMMA ReadingIsEarly ==
    ASSUME Read
    PROVE  phase \in Early
  BY DEF Read, FindConfig, ReadSection, ReadEntry, RejectLine, EndOfFile, MoreLines,
         SetOption, UnknownOption, Help, EndOfArgs, Early

LEMMA ReadingKeeps ==
    ASSUME IInv, ReadWords
    PROVE  IInv'
<1>1. stage = "idle" /\ Fresh
  BY ReadingIsEarly DEF ReadWords, IInv, FreshBefore
<1>2. UNCHANGED <<job, stage, asks, tally>>
  BY DEF ReadWords
<1>3. Fresh' /\ stage' = "idle"
  BY <1>1, <1>2 DEF Fresh
<1> QED  BY <1>3 DEF IInv, FreshBefore, Fresh, OneRequest, LoopsCounted

\* The same when the command is given and the line opened.
LEMMA OpeningKeeps ==
    ASSUME IInv, GiveCommand \/ OpenLine
    PROVE  IInv'
<1>1. stage = "idle" /\ Fresh
  BY DEF GiveCommand, OpenLine, IInv, FreshBefore, Early
<1>2. UNCHANGED <<job, asks, tally>>
  BY DEF GiveCommand, OpenLine
<1>3. Fresh'
  BY <1>1, <1>2 DEF Fresh
<1>4. \/ stage' = "idle"
      \/ stage' = "start" /\ phase' = "work"
  BY <1>1 DEF GiveCommand, OpenLine
<1>5. phase' \in Early => stage' = "idle"
  BY <1>1 DEF GiveCommand, OpenLine, Early
<1> QED  BY <1>3, <1>4, <1>5 DEF IInv, FreshBefore, Fresh, OneRequest, LoopsCounted

\* A job is given a stage of its own.
LEMMA StartKeeps ==
    ASSUME IInv, stage = "start", UNCHANGED <<asks, tally>>,
           \/ phase' = "exit" /\ stage' = "idle" /\ (UNCHANGED job \/ job'.command = "scan")
           \/ stage' = Stage(job') /\ UNCHANGED <<phase, code>>
    PROVE  IInv'
<1>1. phase = "work" /\ Fresh
  BY DEF IInv, FreshBefore
<1>2. CASE phase' = "exit" /\ stage' = "idle" /\ (UNCHANGED job \/ job'.command = "scan")
  <2>1. Fresh'
    BY <1>1, <1>2 DEF Fresh, Requests
  <2> QED  BY <2>1, <1>2 DEF IInv, FreshBefore, Fresh, OneRequest, LoopsCounted, Early
<1>3. CASE stage' = Stage(job') /\ UNCHANGED <<phase, code>>
  <2>1. asks' = <<>> /\ tally' = Tally0 /\ phase' = "work"
    BY <1>1, <1>3 DEF Fresh
  <2>2. FreshBefore'
    <3>1. CASE job'.command \in Requests \cup {"stress"}
      BY <3>1, <2>1, <1>3 DEF Stage, FreshBefore, Early, Requests
    <3>2. CASE job'.command \notin Requests \cup {"stress"}
      BY <3>2, <2>1 DEF FreshBefore, Fresh, Early
    <3> QED  BY <3>1, <3>2
  <2>3. OneRequest'
    <3>1. SUFFICES ASSUME job'.command \in Requests
                   PROVE  OneRequest'
      BY DEF OneRequest
    <3>2. stage' = "request"
      BY <3>1, <1>3 DEF Stage, Requests
    <3> QED  BY <3>2, <2>1 DEF OneRequest
  <2>4. LoopsCounted'
    <3>1. SUFFICES ASSUME job'.command = "stress"
                   PROVE  LoopsCounted'
      BY DEF LoopsCounted
    <3>2. stage' = "wait"
      BY <3>1, <1>3 DEF Stage, Requests
    <3> QED  BY <3>2, <2>1 DEF LoopsCounted, Stressing, Tallies, Tally0, Differences, Counted
  <2> QED  BY <2>2, <2>3, <2>4 DEF IInv
<1> QED  BY <1>2, <1>3

LEMMA RunKeeps ==
    ASSUME IInv, RunConfig \/ RunCommand \/ UnknownCommand \/ RunCollect
    PROVE  IInv'
<1>1. stage = "start" /\ UNCHANGED <<asks, tally>>
  BY DEF RunConfig, RunCommand, UnknownCommand, RunCollect
<1>2. \/ phase' = "exit" /\ stage' = "idle" /\ (UNCHANGED job \/ job'.command = "scan")
      \/ stage' = Stage(job') /\ UNCHANGED <<phase, code>>
  <2>1. CASE RunConfig
    BY <2>1 DEF RunConfig, Finish, Exit
  <2>2. CASE RunCommand
    BY <2>2 DEF RunCommand, Finish, Exit, EmptyScan
  <2>3. CASE UnknownCommand
    BY <2>3 DEF UnknownCommand, Finish, Exit
  <2>4. CASE RunCollect
    BY <2>4 DEF RunCollect, Finish, Exit
  <2> QED  BY <2>1, <2>2, <2>3, <2>4
<1> QED  BY <1>1, <1>2, StartKeeps

\* The answer of the one request is the status.
LEMMA RequestKeeps ==
    ASSUME IInv, Request
    PROVE  IInv'
<1>1. stage = "request" /\ UNCHANGED <<job, tally>>
  BY DEF Request
<1>2. job.command # "stress"
  BY <1>1 DEF IInv, LoopsCounted, Stressing
<1>3. PICK a \in Answers(Slave, job.command \in Reads, job.n) :
        /\ Ask(job.command, Slave, job.addr, job.n, job.values, a)
        /\ Finish(Result(a))
  BY DEF Request
<1>4. phase' = "exit" /\ stage' = "idle" /\ (code' = 0 => a = "ok")
  BY <1>3 DEF Finish, Exit, Result
<1>5. job.command \in Requests => asks = <<>>
  BY <1>1 DEF IInv, OneRequest
<1>6. asks = <<>> => Len(asks') = 1 /\ asks'[1].answer = a
  BY <1>3 DEF Ask
<1> QED  BY <1>1, <1>2, <1>4, <1>5, <1>6 DEF IInv, FreshBefore, OneRequest, LoopsCounted, Early

\* A scan and the collector are neither.
LEMMA OthersKeep ==
    ASSUME IInv, ScanOn \/ ScanFault \/ ScanDone \/ Snapshot
    PROVE  IInv'
<1>1. /\ stage \in {"scan", "snapshot", "taken", "failed"}
      /\ stage' \in {"scan", "snapshot", "taken", "failed", "idle"}
      /\ UNCHANGED job
      /\ UNCHANGED phase \/ phase' = "exit"
  BY DEF ScanOn, ScanFault, ScanDone, Snapshot, SnapshotRead, SnapshotTaken, NextSnapshot,
         StopCollect, Finish, Exit, startVars
<1>2. job.command \notin Requests \cup {"stress"} /\ phase \notin Early
  BY <1>1 DEF IInv, FreshBefore, OneRequest, LoopsCounted, Stressing
<1> QED  BY <1>1, <1>2 DEF IInv, FreshBefore, OneRequest, LoopsCounted, Early

\* A step of the stress loop counts at most once.
LEMMA StressKeeps ==
    ASSUME IInv, Stress
    PROVE  IInv'
<1>1. stage \in Stressing /\ UNCHANGED job
  BY DEF Stress, StressBegin, StressException, StressError, StressWritten, StressEcho,
         StressReadBack, StressEnd, InLoop, Quiet, Stressing
<1>2. /\ stage' \in Stressing \cup {"idle"}
      /\ stage' = "idle" => phase' = "exit"
      /\ stage' # "idle" => UNCHANGED phase
  BY DEF Stress, StressBegin, StressException, StressError, StressWritten, StressEcho,
         StressReadBack, StressEnd, Quiet, startVars, Finish, Exit, Stressing
<1>3. job.command \notin Requests /\ phase \notin Early
  BY <1>1 DEF IInv, FreshBefore, OneRequest, Stressing
<1>4. FreshBefore' /\ OneRequest'
  BY <1>1, <1>2, <1>3 DEF FreshBefore, OneRequest, Stressing, Early
<1>5. LoopsCounted'
  <2>1. SUFFICES ASSUME job.command = "stress"
                 PROVE  LoopsCounted'
    BY <1>1 DEF LoopsCounted
  <2>2. /\ phase = "work" /\ tally \in Tallies /\ tally.err >= Differences
        /\ tally.loops = Counted + (IF stage = "wait" THEN 0 ELSE 1)
    BY <1>1, <2>1 DEF IInv, LoopsCounted, Stressing
  <2>3. /\ tally' \in Tallies /\ (tally.err >= Differences)'
        /\ tally'.loops = Counted' + (IF stage' \in {"wait", "idle"} THEN 0 ELSE 1)
    <3>1. CASE StressBegin
      BY <2>2, <3>1 DEF StressBegin, More, Tallies, Differences, Counted
    <3>2. CASE StressException
      BY <2>2, <3>2 DEF StressException, InLoop, More, Tallies, Differences, Counted
    <3>3. CASE StressError
      BY <2>2, <3>3 DEF StressError, InLoop, More, Tallies, Differences, Counted
    <3>4. CASE StressWritten
      BY <2>2, <3>4 DEF StressWritten, Tallies, Differences, Counted
    <3>5. CASE StressEcho
      <4>1. PICK differs \in 0 .. 1, same \in 0 .. (IF acked THEN 1 ELSE 0) :
              tally' = [tally EXCEPT !.mismatch = @ + differs, !.ack_err = @ + same,
                                     !.err = @ + differs + same]
        BY <3>5, Zenon DEF StressEcho
      <4>2. differs \in Nat /\ same \in Nat
        OBVIOUS
      <4>3. stage = "echo" /\ stage' = "coil"
        BY <3>5 DEF StressEcho
      <4>4. /\ tally'.loops = tally.loops /\ tally'.ok = tally.ok /\ tally'.exc = tally.exc
            /\ tally'.coil_err = tally.coil_err
            /\ tally'.mismatch = tally.mismatch + differs
            /\ tally'.ack_err = tally.ack_err + same
            /\ tally'.err = tally.err + differs + same
        BY <2>2, <4>1 DEF Tallies
      <4>5. tally' \in Tallies
        <5> DEFINE t == [tally EXCEPT !.mismatch = @ + differs]
                   u == [t EXCEPT !.ack_err = @ + same]
        <5>1. t \in Tallies /\ t.ack_err = tally.ack_err /\ t.err = tally.err
          BY <2>2, <4>2 DEF Tallies
        <5>2. tally' = [u EXCEPT !.err = @ + differs + same]
          BY <2>2, <4>1 DEF Tallies
        <5> HIDE DEF t
        <5>3. u \in Tallies
          BY <5>1, <4>2 DEF Tallies
        <5> HIDE DEF u
        <5> QED  BY <5>2, <5>3, <4>2 DEF Tallies
      <4> QED  BY <2>2, <4>2, <4>3, <4>4, <4>5 DEF Tallies, Differences, Counted
    <3>6. CASE StressReadBack
      <4>1. PICK differs \in 0 .. 1 :
              tally' = [tally EXCEPT !.coil_err = @ + differs, !.err = @ + differs, !.ok = @ + 1]
        BY <3>6 DEF StressReadBack
      <4>2. stage = "coils" /\ stage' = "wait"
        BY <3>6 DEF StressReadBack
      <4>3. /\ tally'.loops = tally.loops /\ tally'.ok = tally.ok + 1 /\ tally'.exc = tally.exc
            /\ tally'.coil_err = tally.coil_err + differs
            /\ tally'.mismatch = tally.mismatch /\ tally'.ack_err = tally.ack_err
            /\ tally'.err = tally.err + differs
        BY <2>2, <4>1 DEF Tallies
      <4>4. tally' \in Tallies
        <5> DEFINE t == [tally EXCEPT !.coil_err = @ + differs]
                   u == [t EXCEPT !.err = @ + differs]
        <5>1. t \in Tallies /\ t.err = tally.err /\ t.ok = tally.ok
          BY <2>2 DEF Tallies
        <5>2. tally' = [u EXCEPT !.ok = @ + 1]
          BY <2>2, <4>1 DEF Tallies
        <5> HIDE DEF t
        <5>3. u \in Tallies
          BY <5>1 DEF Tallies
        <5> HIDE DEF u
        <5> QED  BY <5>2, <5>3 DEF Tallies
      <4> QED  BY <2>2, <4>2, <4>3, <4>4 DEF Tallies, Differences, Counted
    <3>7. CASE StressEnd
      BY <2>2, <3>7 DEF StressEnd, Finish, Differences, Counted
    <3> QED  BY <3>1, <3>2, <3>3, <3>4, <3>5, <3>6, <3>7 DEF Stress
  <2>4. stage' = "idle" => (code' = 0 => tally'.err = 0)
    BY DEF Stress, StressBegin, StressException, StressError, StressWritten, StressEcho,
           StressReadBack, StressEnd, Finish, Exit
  <2> QED  BY <1>2, <2>2, <2>3, <2>4 DEF LoopsCounted
<1> QED  BY <1>4, <1>5 DEF IInv

LEMMA StepKeeps == IInv /\ [Next]_vars => IInv'
<1> SUFFICES ASSUME IInv, [Next]_vars
             PROVE  IInv'
  OBVIOUS
<1>1. CASE UNCHANGED vars
  BY <1>1 DEF vars, startVars, IInv, FreshBefore, Fresh, OneRequest, LoopsCounted,
              Differences, Counted
<1> QED  BY <1>1, ReadingKeeps, OpeningKeeps, RunKeeps, RequestKeeps, OthersKeep, StressKeeps
         DEF Next

LEMMA StatusAndCounters == Spec => []IInv
  BY InitFresh, StepKeeps, PTL DEF Spec

\* run_config_command and main: an exit status of 0 after a request says that the
\* slave has answered it, whatever file, command line and answers there are.
THEOREM ZeroMeansDoneHolds == Spec => []ZeroMeansDone
<1>1. IInv => ZeroMeansDone
  BY DEF IInv, OneRequest, ZeroMeansDone
<1> QED  BY <1>1, StatusAndCounters, PTL

\* run_stress: however the answers and the comparisons turn out, each loop is in
\* one counter, and a test that ends with 0 has compared without a difference.
THEOREM EveryLoopIsCountedHolds == Spec => []EveryLoopIsCounted
<1>1. IInv => EveryLoopIsCounted
  BY DEF IInv, LoopsCounted, EveryLoopIsCounted, Tallies, Differences, Counted, Stressing
<1> QED  BY <1>1, StatusAndCounters, PTL
-----------------------------------------------------------------------------
(* What modbus_framer was told *)

Untold == {"find", "file", "args"}

\* A program at work is modbus_framer, each of its settings is what was said last
\* and of its kind, and there is a command.
Told ==
    /\ program \in Programs
    /\ IsSequence(operands)
    /\ SaidLast /\ WorkedWith /\ KindsAreRight
    /\ phase = "open" \/ stage # "idle" => program = "framer"
    /\ stage # "idle" => phase = "work"
    /\ phase \in Untold => command = "none"
    /\ phase \in {"open", "work"} /\ program = "framer" /\ command = "none" =>
         "command" \in DOMAIN settings

\* What has to be done fits the stage that it is in.
JobOfStage ==
    /\ phase \in Early \/ stage = "start" => job = NoJob /\ asks = <<>>
    /\ stage = "request" => job.command \in Requests
    /\ stage = "scan" => job.command = "scan"
    /\ stage \in Stressing => job.command = "stress"
    /\ stage \in {"snapshot", "taken", "failed"} => job.command = "collect"

Typed ==
    /\ TypeOK /\ JobOfStage
    /\ IsSequence(asks)
    /\ found # 0 => stage = "scan" \/ phase = "exit"

\* What was asked so far.
ScanSoFar ==
    stage = "scan" =>
        /\ job.addr \in Int /\ job.n \in Int
        /\ Len(asks) <= job.n - job.addr + 1
        /\ \A i \in DOMAIN asks : asks[i].slave = job.addr + i - 1
        /\ found = Cardinality({i \in DOMAIN asks : asks[i].answer \in Heard})

SnapshotSoFar ==
    stage \in {"snapshot", "taken"} =>
        /\ Len(asks) <= Len(ToRead)
        /\ stage = "taken" => Len(asks) = Len(ToRead)
        /\ \A i \in DOMAIN asks :
             /\ asks[i].addr = ToRead[i][1] /\ asks[i].n = ToRead[i][2]
             /\ asks[i].answer = "ok" /\ asks[i].n # 0

WriteIsGiven ==
    stage = "request" /\ command = "none" => GivenWrite(job.command, job.addr, job.values)

Asked == ScanSoFar /\ ScanAsksAll /\ SnapshotSoFar /\ WriteIsGiven /\ NoUngivenWrite
-----------------------------------------------------------------------------
LEMMA InitTold == Init => Told
  BY InitSaid, InitKinds, EmptyIsSequence DEF Init, StartInit, Told, WorkedWith, Untold

LEMMA ReadingKeepsTold ==
    ASSUME Told, ReadWords
    PROVE  Told'
<1>1. phase \in Untold
  BY DEF ReadWords, Read, FindConfig, ReadSection, ReadEntry, RejectLine, EndOfFile, MoreLines,
         SetOption, UnknownOption, Help, EndOfArgs, Untold
<1>2. /\ UNCHANGED <<program, command, operands, stage>>
      /\ phase' \in Untold \cup {"exit"} \/ EndOfArgs
  BY DEF ReadWords, Read, FindConfig, ReadSection, ReadEntry, RejectLine, EndOfFile, MoreLines,
         SetOption, UnknownOption, Help, EndOfArgs, Untold, Exit
<1>3. SaidLast' /\ WorkedWith' /\ KindsAreRight'
  BY ReadKeepsSaid, ReadKeepsKinds DEF Told, ReadWords
<1>4. stage = "idle"
  BY <1>1 DEF Told, Untold
<1>5. CASE phase' \in Untold \cup {"exit"}
  BY <1>1, <1>2, <1>3, <1>4, <1>5 DEF Told, Untold
<1>6. CASE EndOfArgs
  <2>1. /\ phase' = "open" => program = "framer" /\ "command" \in DOMAIN settings'
        /\ phase' = "work" => program # "framer"
        /\ phase' \notin Untold
    BY <1>6 DEF EndOfArgs, Exit, Untold
  <2> QED  BY <1>2, <1>3, <1>4, <2>1 DEF Told
<1> QED  BY <1>2, <1>5, <1>6

\* A collector that is given as a command starts from its defaults again.
LEMMA CommandKeepsTold ==
    ASSUME Told, GiveCommand
    PROVE  Told'
<1> PICK c \in DOMAIN CommandLines :
        /\ command' = c
        /\ operands' \in CommandLines[c]
        /\ settings' = IF c = "collect" THEN Over(CollectDefaults, settings) ELSE settings
  BY DEF GiveCommand
<1>1. /\ phase = "args" /\ program = "framer" /\ phase' = "open"
      /\ UNCHANGED <<program, lines, args, stage>>
  BY DEF GiveCommand
<1>2. IsSequence(operands') /\ command' # "none"
  <2>1. \A words \in CommandLines[c] : IsSequence(words)
    BY CommandLinesAssumption
  <2>2. IsSequence(operands')
    BY <2>1
  <2> QED  BY <2>2, CommandLinesAssumption
<1>3. settings = Said
  BY <1>1 DEF Told, SaidLast
<1>4. SaidLast'
  BY <1>1 DEF Told, SaidLast
<1>5. WorkedWith'
  <2> SUFFICES ASSUME NEW f \in DOMAIN settings' \ DOMAIN CollectDefaults
               PROVE  settings'[f] = Said'[f]
    BY <1>1 DEF WorkedWith
  <2>1. f \in DOMAIN settings /\ settings'[f] = settings[f]
    BY DEF Over
  <2>2. settings[f] = LastWord(f, Meant)
    BY <1>3, <2>1 DEF Said
  <2>3. Said'[f] = LastWord(f, Meant)'
    BY DEF Said
  <2> QED  BY <1>1, <2>1, <2>2, <2>3, SameWord
<1>6. KindsAreRight'
  <2>1. CASE c = "collect"
    <3>1. settings' = Over(CollectDefaults, settings)
      BY <2>1
    <3>2. ASSUME NEW f \in DOMAIN settings'
          PROVE  RightKind(f, settings'[f])
      <4>1. CASE f \in DOMAIN CollectDefaults
        BY <3>1, <4>1, CollectDefaultsKind DEF Over
      <4>2. CASE f \notin DOMAIN CollectDefaults
        BY <1>1, <3>1, <4>2 DEF Over, Told, KindsAreRight
      <4> QED  BY <4>1, <4>2
    <3>3. {"temp_addr", "hum_addr", "device_addr"} \subseteq DOMAIN settings'
      BY <3>1, CollectDefaultsKind DEF Over
    <3> QED  BY <3>2, <3>3 DEF KindsAreRight
  <2>2. CASE c # "collect"
    BY <1>1, <2>2 DEF Told, KindsAreRight
  <2> QED  BY <2>1, <2>2
<1> QED  BY <1>1, <1>2, <1>4, <1>5, <1>6 DEF Told, Untold

\* With nothing more said, and the settings of a collector changed at most.
LEMMA StillTold ==
    ASSUME Told, UNCHANGED <<program, lines, args, command, operands>>,
           program = "framer", phase \in {"open", "work"}, phase' \in {"open", "work", "exit"},
           phase' = "open" => phase = "open", stage' # "idle" => phase' = "work",
           DOMAIN settings' = DOMAIN settings,
           \A f \in DOMAIN settings \ DOMAIN CollectDefaults : settings'[f] = settings[f],
           \A f \in DOMAIN settings : RightKind(f, settings'[f])
    PROVE  Told'
<1>1. Said' = Said
  BY SameSaid
<1>2. SaidLast'
  BY DEF Told, SaidLast
<1>3. WorkedWith'
  BY <1>1 DEF Told, WorkedWith
<1>4. KindsAreRight'
  BY DEF Told, KindsAreRight
<1> QED  BY <1>2, <1>3, <1>4 DEF Told, Untold

LEMMA WholeFileChanges ==
    ASSUME NEW s
    PROVE  /\ DOMAIN WholeFile(s) = DOMAIN s
           /\ \A f \in DOMAIN s : f # "max_total_bytes" => WholeFile(s)[f] = s[f]
           /\ "max_total_bytes" \in DOMAIN CollectDefaults
           /\ \A v : RightKind("max_total_bytes", v)
<1>1. /\ DOMAIN WholeFile(s) = DOMAIN s
      /\ \A f \in DOMAIN s : f # "max_total_bytes" => WholeFile(s)[f] = s[f]
  BY DEF WholeFile
<1>2. \A v : RightKind("max_total_bytes", v)
  BY DEF RightKind, WriteFields
<1> QED  BY <1>1, <1>2, CollectFields

LEMMA ConfigKeepsTold ==
    ASSUME Told, RunConfig
    PROVE  Told'
<1>1. /\ stage # "idle" /\ UNCHANGED <<program, lines, args, command, operands>>
      /\ phase' \in {phase, "exit"} /\ (stage' # "idle" => phase' = phase)
      /\ settings' \in {settings, WholeFile(settings)}
  <2>1. stage # "idle" /\ UNCHANGED <<program, lines, args, command, operands>>
    BY DEF RunConfig
  <2>2. /\ phase' \in {phase, "exit"} /\ (stage' # "idle" => phase' = phase)
        /\ settings' \in {settings, WholeFile(settings)}
    BY DEF RunConfig, Finish, Exit
  <2> QED  BY <2>1, <2>2
<1>2. phase = "work" /\ program = "framer"
  BY <1>1 DEF Told
<1>3. /\ DOMAIN settings' = DOMAIN settings
      /\ \A f \in DOMAIN settings \ DOMAIN CollectDefaults : settings'[f] = settings[f]
      /\ \A f \in DOMAIN settings : RightKind(f, settings'[f])
  <2>1. CASE settings' = settings
    BY <1>2, <2>1 DEF Told, KindsAreRight
  <2>2. CASE settings' = WholeFile(settings)
    BY <1>2, <2>2, WholeFileChanges DEF Told, KindsAreRight
  <2> QED  BY <1>1, <2>1, <2>2
<1> QED  BY <1>1, <1>2, <1>3, StillTold

\* The options of the collect command are entries of its section, and change no
\* setting but those of a collector.
LEMMA CollectOptionIs ==
    ASSUME NEW o, NEW e \in CollectOption(o)
    PROVE  e \in CollectEntries /\ e.field \in DOMAIN CollectDefaults
<1>1. DOMAIN CollectOptions \subseteq DOMAIN CollectDefaults
  BY CollectFields DEF CollectOptions
<1> QED  BY <1>1 DEF CollectOption

LEMMA CollectKeepsTold ==
    ASSUME Told, RunCollect
    PROVE  Told'
<1> DEFINE E(i) == CHOOSE e \in CollectOption(operands[i]) : TRUE
           good == \A i \in DOMAIN operands :
                     CollectOption(operands[i]) # {} /\ Accepts(E(i), operands[i][2])
           ofField(f) == {i \in DOMAIN operands : E(i).field = f}
           s == [f \in DOMAIN settings |->
                  IF ofField(f) = {} THEN settings[f]
                  ELSE Stored(E(Max(ofField(f))), operands[Max(ofField(f))][2])]
<1>1. /\ stage = "start" /\ UNCHANGED <<program, lines, args, command, operands>>
      /\ phase' \in {phase, "exit"} /\ (stage' # "idle" => phase' = phase)
      /\ UNCHANGED settings \/ (good /\ settings' = WholeFile(s))
  <2>1. stage = "start" /\ UNCHANGED <<program, lines, args, command, operands>>
    BY DEF RunCollect
  <2>2. phase' \in {phase, "exit"} /\ (stage' # "idle" => phase' = phase)
    BY DEF RunCollect, Finish, Exit
  <2>3. UNCHANGED settings \/ (good /\ settings' = WholeFile(s))
    BY DEF RunCollect
  <2> QED  BY <2>1, <2>2, <2>3
<1>2. phase = "work" /\ program = "framer"
  BY <1>1 DEF Told
<1>3. /\ DOMAIN settings' = DOMAIN settings
      /\ \A f \in DOMAIN settings \ DOMAIN CollectDefaults : settings'[f] = settings[f]
      /\ \A f \in DOMAIN settings : RightKind(f, settings'[f])
  <2>1. CASE UNCHANGED settings
    BY <1>2, <2>1 DEF Told, KindsAreRight
  <2>2. CASE good /\ settings' = WholeFile(s)
    <3>1. ASSUME NEW i \in DOMAIN operands
          PROVE  /\ E(i) \in CollectEntries /\ E(i).field \in DOMAIN CollectDefaults
                 /\ RightKind(E(i).field, Stored(E(i), operands[i][2]))
      <4>1. E(i) \in CollectOption(operands[i]) /\ Accepts(E(i), operands[i][2])
        BY <2>2
      <4> HIDE DEF E
      <4> QED  BY <4>1, CollectOptionIs, CollectEntryKind
    <3>2. ASSUME NEW f \in DOMAIN settings
          PROVE  /\ f \notin DOMAIN CollectDefaults => s[f] = settings[f]
                 /\ RightKind(f, s[f])
      <4> DEFINE S == ofField(f)
      <4>1. CASE S = {}
        BY <1>2, <4>1 DEF Told, KindsAreRight
      <4>2. CASE S # {}
        <5>1. Max(S) \in DOMAIN operands /\ E(Max(S)).field = f
          <6>1. PICK n \in Nat : DOMAIN operands = 1 .. n
            <7>1. Len(operands) \in Nat /\ DOMAIN operands = 1 .. Len(operands)
              BY AppendIsSequence DEF Told
            <7> QED  BY <7>1
          <6>2. S \in SUBSET (1 .. n)
            BY <6>1
          <6>3. Max(S) \in S
            <7> HIDE DEF S
            <7> QED  BY <4>2, <6>2, LastPlace
          <6> QED  BY <6>3
        <5>2. s[f] = Stored(E(Max(S)), operands[Max(S)][2])
          BY <4>2
        <5> HIDE DEF E, S
        <5> QED  BY <3>1, <5>1, <5>2
      <4> QED  BY <4>1, <4>2
    <3>3. DOMAIN s = DOMAIN settings
      OBVIOUS
    <3> HIDE DEF s
    <3> QED  BY <2>2, <3>2, <3>3, WholeFileChanges
  <2> QED  BY <1>1, <2>1, <2>2
<1> QED  BY <1>1, <1>2, <1>3, StillTold

\* At work nothing is said any more, and no setting changes.
LEMMA WorkChanges ==
    ASSUME RunCommand \/ UnknownCommand \/ Request \/ ScanOn \/ ScanFault \/ ScanDone
           \/ Stress \/ Snapshot
    PROVE  /\ UNCHANGED <<program, lines, args, settings, command, operands>>
           /\ stage # "idle" /\ phase' \in {phase, "exit"}
           /\ stage' # "idle" => phase' = phase
<1>1. CASE RunCommand \/ UnknownCommand \/ Request \/ ScanFault \/ ScanDone
  BY <1>1 DEF RunCommand, UnknownCommand, Request, ScanFault, ScanDone, Finish, Exit
<1>2. CASE ScanOn \/ Snapshot
  BY <1>2 DEF ScanOn, Snapshot, SnapshotRead, SnapshotTaken, NextSnapshot, StopCollect, startVars,
              Finish, Exit
<1>3. CASE Stress
  BY <1>3 DEF Stress, StressBegin, StressException, StressError, StressWritten, StressEcho,
              StressReadBack, StressEnd, InLoop, Quiet, startVars, Finish, Exit
<1> QED  BY <1>1, <1>2, <1>3

LEMMA WorkKeepsTold ==
    ASSUME Told,
           RunCommand \/ UnknownCommand \/ Request \/ ScanOn \/ ScanFault \/ ScanDone
           \/ Stress \/ Snapshot
    PROVE  Told'
<1>1. phase = "work" /\ program = "framer"
  BY WorkChanges DEF Told
<1>2. \A f \in DOMAIN settings : RightKind(f, settings[f])
  BY <1>1 DEF Told, KindsAreRight
<1> QED  BY <1>1, <1>2, WorkChanges, StillTold

LEMMA OpenKeepsTold ==
    ASSUME Told, OpenLine
    PROVE  Told'
<1>1. phase = "open" /\ program = "framer"
  BY DEF OpenLine, Told
<1>2. \A f \in DOMAIN settings : RightKind(f, settings[f])
  BY <1>1 DEF Told, KindsAreRight
<1>3. phase' \in {"work", "exit"} /\ (stage' # "idle" => phase' = "work")
  BY <1>1 DEF OpenLine, Exit, Told
<1>4. UNCHANGED <<program, lines, args, settings, command, operands>>
  BY DEF OpenLine
<1> QED  BY <1>1, <1>2, <1>3, <1>4, StillTold

LEMMA StepKeepsTold == Told /\ [Next]_vars => Told'
<1> SUFFICES ASSUME Told, [Next]_vars
             PROVE  Told'
  OBVIOUS
<1>1. CASE UNCHANGED vars
  <2>1. Said' = Said
    BY <1>1, SameSaid DEF vars, startVars
  <2> QED  BY <1>1, <2>1 DEF vars, startVars, Told, SaidLast, WorkedWith, KindsAreRight
<1> QED  BY <1>1, ReadingKeepsTold, CommandKeepsTold, OpenKeepsTold, ConfigKeepsTold,
            CollectKeepsTold, WorkKeepsTold
         DEF Next

LEMMA AlwaysTold == Spec => []Told
  BY InitTold, StepKeepsTold, PTL DEF Spec
-----------------------------------------------------------------------------
LEMMA InitTyped == Init => Typed
<1> SUFFICES ASSUME Init
             PROVE  Typed
  OBVIOUS
<1>1. tally \in Tallies
  BY DEF Init, Tallies, Tally0
<1>2. found \in Nat /\ found <= Len(asks)
  BY DEF Init
<1>3. code \in 0 .. 2 /\ acked \in BOOLEAN
  <2>1. code = 0
    BY Zenon DEF Init, StartInit
  <2>2. code \in 0 .. 2
    BY <2>1
  <2>3. acked \in BOOLEAN
    BY Zenon DEF Init
  <2> QED  BY <2>2, <2>3, Zenon
<1>4. program \in Programs /\ phase = "find" /\ stage = "idle"
  BY DEF Init, StartInit
<1>5. TypeOK
  BY <1>1, <1>2, <1>3, <1>4 DEF TypeOK
<1> QED  BY <1>4, <1>5, EmptyIsSequence DEF Init, Typed, JobOfStage, Stressing

\* A job is of the command that it is made for, and goes to that command's stage.
LEMMA FileJobIs ==
    ASSUME NEW c \in DOMAIN CommandNames
    PROVE  FileJob(c).command = c /\ c \in Requests \cup {"scan", "stress", "collect"}
<1>1. \A a, n, vs : Job(c, a, n, vs).command = c
  BY DEF Job
<1>2. c \in {"read_holding", "read_input", "write_reg", "write_regs", "read_coils",
            "write_coil", "write_coils", "scan", "stress", "collect"}
  BY DEF CommandNames, Same
<1> QED  BY <1>1, <1>2 DEF FileJob, Reads, Requests

LEMMA LineJobIs ==
    ASSUME NEW c \in DOMAIN Ranges
    PROVE  LineJob(c).command = c /\ c \in Requests \cup {"scan", "stress"}
<1>1. \A a, n, vs : Job(c, a, n, vs).command = c
  BY DEF Job
<1>2. c \in {"read_holding", "read_input", "write_reg", "write_regs", "read_coils",
            "write_coil", "write_coils", "scan", "stress"}
  BY DEF Ranges
<1> QED  BY <1>1, <1>2 DEF LineJob, Reads, Requests

LEMMA StageOf ==
    ASSUME NEW j, j.command \in Requests \cup {"scan", "stress", "collect"}
    PROVE  /\ Stage(j) \in {"request", "scan", "wait", "snapshot"}
           /\ Stage(j) = "request" => j.command \in Requests
           /\ Stage(j) = "scan" => j.command = "scan"
           /\ Stage(j) = "wait" => j.command = "stress"
           /\ Stage(j) = "snapshot" => j.command = "collect"
  BY DEF Stage, Requests

\* What is done before there is a job.
LEMMA EarlyKeepsTyped ==
    ASSUME Typed, Told, ReadWords \/ GiveCommand \/ OpenLine
    PROVE  Typed'
<1>1. phase \in Early
  BY ReadingIsEarly DEF ReadWords, GiveCommand, OpenLine, Early
<1>2. /\ UNCHANGED <<program, job, asks, found, tally, acked>>
      /\ phase' \in {"find", "file", "args", "open", "work", "exit"} /\ code' \in 0 .. 2
      /\ stage' = "idle" \/ (stage' = "start" /\ phase' = "work")
  <2>1. CASE ReadWords
    <3>1. UNCHANGED <<job, asks, found, tally, acked, stage>>
      BY <2>1 DEF ReadWords
    <3>2. stage = "idle"
      BY <1>1 DEF Told, Early
    <3>3. phase \in {"find", "file", "args", "open"} /\ code \in 0 .. 2
      BY <1>1 DEF Early, Typed, TypeOK
    <3>4. CASE FindConfig \/ ReadSection \/ ReadEntry \/ RejectLine \/ EndOfFile
      BY <3>1, <3>2, <3>3, <3>4 DEF FindConfig, ReadSection, ReadEntry, RejectLine, EndOfFile, Exit
    <3>5. CASE SetOption
      BY <3>1, <3>2, <3>3, <3>5 DEF SetOption
    <3>6. CASE UnknownOption \/ Help
      BY <3>1, <3>2, <3>3, <3>6 DEF UnknownOption, Help, Exit
    <3>7. CASE EndOfArgs
      <4>1. /\ program' = program
            /\ \/ phase' \in {"open", "work"} /\ code' = code
               \/ phase' = "exit" /\ code' = 2
        BY <3>7 DEF EndOfArgs, Exit
      <4> QED  BY <3>1, <3>2, <3>3, <4>1
    <3> QED  BY <2>1, <3>4, <3>5, <3>6, <3>7 DEF ReadWords, Read
  <2>2. CASE GiveCommand
    BY <1>1, <2>2 DEF GiveCommand, Typed, TypeOK, Told, Early
  <2>3. CASE OpenLine
    BY <1>1, <2>3 DEF OpenLine, Exit, Typed, TypeOK, Told, Early
  <2> QED  BY <2>1, <2>2, <2>3
<1>3. stage' = "start" => program = "framer"
  <2>1. CASE OpenLine
    BY <2>1 DEF OpenLine, Told
  <2>2. CASE ReadWords \/ GiveCommand
    BY <1>1, <2>2 DEF ReadWords, GiveCommand, Told, Early
  <2> QED  BY <2>1, <2>2
<1>4. job = NoJob /\ asks = <<>> /\ found = 0
  BY <1>1 DEF Typed, JobOfStage, Told, Early
<1>5. JobOfStage'
  BY <1>2, <1>4 DEF JobOfStage, Stressing
<1>6. TypeOK'
  BY <1>2, <1>3, <1>4 DEF Typed, TypeOK
<1> QED  BY <1>2, <1>4, <1>5, <1>6 DEF Typed

LEMMA RunKeepsTyped ==
    ASSUME Typed, Told, RunConfig \/ RunCommand \/ UnknownCommand \/ RunCollect
    PROVE  Typed'
<1>1. /\ stage = "start" /\ phase = "work" /\ program = "framer"
      /\ UNCHANGED <<program, asks, found, tally, acked>>
  BY DEF RunConfig, RunCommand, UnknownCommand, RunCollect, Told
<1>2. job = NoJob /\ asks = <<>> /\ found = 0
  BY <1>1 DEF Typed, JobOfStage
<1>3. \/ phase' = "exit" /\ stage' = "idle" /\ code' \in 0 .. 2
      \/ /\ stage' = Stage(job') /\ UNCHANGED <<phase, code>>
         /\ job'.command \in Requests \cup {"scan", "stress", "collect"}
  <2>1. CASE RunConfig
    <3> DEFINE c == settings["command"][2]
    <3>1. c \in DOMAIN CommandNames
      <4>1. command = "none"
        BY <2>1 DEF RunConfig
      <4>2. "command" \in DOMAIN settings
        BY <1>1, <4>1 DEF Told
      <4> QED  BY <1>1, <4>2 DEF Told, KindsAreRight, RightKind
    <3>2. \/ phase' = "exit" /\ stage' = "idle" /\ code' \in 0 .. 2
          \/ stage' = Stage(job') /\ UNCHANGED <<phase, code>> /\ job' = FileJob(c)
      BY <2>1 DEF RunConfig, Finish, Exit
    <3> HIDE DEF c
    <3> QED  BY <3>1, <3>2, FileJobIs
  <2>2. CASE RunCommand
    <3>1. \/ phase' = "exit" /\ stage' = "idle" /\ code' \in 0 .. 2
          \/ /\ stage' = Stage(job') /\ UNCHANGED <<phase, code>> /\ job' = LineJob(command)
             /\ command \in DOMAIN Ranges
      BY <2>2 DEF RunCommand, Finish, Exit
    <3> QED  BY <3>1, LineJobIs
  <2>3. CASE UnknownCommand
    BY <2>3 DEF UnknownCommand, Finish, Exit
  <2>4. CASE RunCollect
    <3>1. \/ phase' = "exit" /\ stage' = "idle" /\ code' \in 0 .. 2
          \/ /\ stage' = Stage(job') /\ UNCHANGED <<phase, code>>
             /\ job' = Job("collect", 0, 0, <<>>)
      BY <2>4 DEF RunCollect, Finish, Exit
    <3> QED  BY <3>1 DEF Job
  <2> QED  BY <2>1, <2>2, <2>3, <2>4
<1>4. CASE phase' = "exit" /\ stage' = "idle" /\ code' \in 0 .. 2
  BY <1>1, <1>2, <1>4 DEF Typed, TypeOK, JobOfStage, Early, Stressing
<1>5. CASE /\ stage' = Stage(job') /\ UNCHANGED <<phase, code>>
           /\ job'.command \in Requests \cup {"scan", "stress", "collect"}
  <2>1. JobOfStage'
    BY <1>1, <1>5, StageOf DEF JobOfStage, Early, Stressing
  <2>2. TypeOK'
    BY <1>1, <1>2, <1>5, StageOf DEF Typed, TypeOK
  <2> QED  BY <1>1, <1>2, <2>1, <2>2, EmptyIsSequence DEF Typed
<1> QED  BY <1>3, <1>4, <1>5

\* One more request.
LEMMA AskAppends ==
    ASSUME IsSequence(asks), NEW c, NEW slave, NEW a, NEW n, NEW vs, NEW answer,
           Ask(c, slave, a, n, vs, answer)
    PROVE  /\ Len(asks) \in Nat /\ DOMAIN asks = 1 .. Len(asks)
           /\ IsSequence(asks') /\ Len(asks') = Len(asks) + 1
           /\ DOMAIN asks' = 1 .. Len(asks) + 1
           /\ \A i \in 1 .. Len(asks) : asks'[i] = asks[i]
           /\ asks'[Len(asks) + 1] = [command |-> c, slave |-> slave, addr |-> a, n |-> n,
                                     values |-> vs, answer |-> answer]
  BY AppendIsSequence DEF Ask

LEMMA FinishIs ==
    ASSUME NEW rc, Finish(rc)
    PROVE  /\ phase' = "exit" /\ stage' = "idle" /\ code' \in 0 .. 2
           /\ code' = 0 <=> rc = "ok"
  BY DEF Finish, Exit

\* The end of a job.
LEMMA FinishKeepsTyped ==
    ASSUME Typed, phase' = "exit", stage' = "idle", code' \in 0 .. 2,
           UNCHANGED <<program, tally, acked, found>>, Len(asks') \in Nat, IsSequence(asks'),
           found <= Len(asks')
    PROVE  Typed'
  BY DEF Typed, TypeOK, JobOfStage, Early, Stressing

LEMMA AskingKeepsTyped ==
    ASSUME Typed, Told, Request \/ ScanFault
    PROVE  Typed'
<1>1. /\ UNCHANGED <<program, tally, acked, found>>
      /\ \E c, slave, a, n, vs, answer : Ask(c, slave, a, n, vs, answer)
      /\ \E rc : Finish(rc)
  BY DEF Request, ScanFault
<1>2. Len(asks) \in Nat /\ IsSequence(asks') /\ Len(asks') = Len(asks) + 1
  BY <1>1, AskAppends DEF Typed
<1>3. found <= Len(asks') /\ Len(asks') \in Nat
  BY <1>2 DEF Typed, TypeOK
<1>4. phase' = "exit" /\ stage' = "idle" /\ code' \in 0 .. 2
  BY <1>1, FinishIs
<1> QED  BY <1>1, <1>2, <1>3, <1>4, FinishKeepsTyped

LEMMA EndingKeepsTyped ==
    ASSUME Typed, Told, ScanDone \/ StressEnd \/ StopCollect
    PROVE  Typed'
<1>1. /\ UNCHANGED <<program, tally, acked, found, asks>>
      /\ \E rc : Finish(rc)
  BY DEF ScanDone, StressEnd, StopCollect
<1>2. Len(asks) \in Nat
  BY AppendIsSequence DEF Typed
<1> QED  BY <1>1, <1>2, FinishIs, FinishKeepsTyped DEF Typed, TypeOK

LEMMA ScanKeepsTyped ==
    ASSUME Typed, Told, ScanOn
    PROVE  Typed'
<1>1. /\ stage = "scan" /\ UNCHANGED <<program, phase, code, job, stage, tally, acked>>
      /\ \E c, slave, a, n, vs, answer : Ask(c, slave, a, n, vs, answer)
      /\ found' \in {found, found + 1}
  BY DEF ScanOn, startVars
<1>2. Len(asks) \in Nat /\ IsSequence(asks') /\ Len(asks') = Len(asks) + 1
  BY <1>1, AskAppends DEF Typed
<1>3. found' \in Nat /\ found' <= Len(asks')
  BY <1>1, <1>2 DEF Typed, TypeOK
<1>4. TypeOK'
  BY <1>1, <1>3 DEF Typed, TypeOK
<1>5. phase = "work"
  BY <1>1 DEF Told
<1>6. JobOfStage'
  BY <1>1, <1>5 DEF Typed, JobOfStage, Early, Stressing
<1> QED  BY <1>1, <1>2, <1>4, <1>6 DEF Typed

LEMMA StressKeepsTyped ==
    ASSUME Typed, Told, IInv, Stress
    PROVE  Typed'
<1>1. CASE StressEnd
  BY <1>1, EndingKeepsTyped
<1>2. CASE ~StressEnd
  <2>1. /\ UNCHANGED <<program, phase, code, job, asks, found>>
        /\ stage \in Stressing /\ stage' \in Stressing
        /\ acked' \in BOOLEAN
    BY <1>2 DEF Stress, StressBegin, StressException, StressError, StressWritten, StressEcho,
                StressReadBack, InLoop, Quiet, startVars, Stressing, Typed, TypeOK
  <2>2. job.command = "stress" /\ phase = "work" /\ program = "framer"
    BY <2>1 DEF Typed, JobOfStage, Told, Stressing
  <2>3. tally' \in Tallies
    BY <2>1, <2>2, StressKeeps DEF IInv, LoopsCounted
  <2>4. TypeOK'
    BY <2>1, <2>2, <2>3 DEF Typed, TypeOK, Stressing
  <2>5. JobOfStage'
    BY <2>1, <2>2 DEF JobOfStage, Early, Stressing
  <2>6. found' = 0
    BY <2>1, <2>2 DEF Typed, Stressing
  <2> QED  BY <2>1, <2>4, <2>5, <2>6 DEF Typed
<1> QED  BY <1>1, <1>2

LEMMA SnapshotKeepsTyped ==
    ASSUME Typed, Told, Snapshot
    PROVE  Typed'
<1>1. CASE StopCollect
  BY <1>1, EndingKeepsTyped
<1>2. CASE SnapshotRead \/ SnapshotTaken \/ NextSnapshot
  <2>1. /\ UNCHANGED <<program, phase, code, job, found, acked>>
        /\ stage \in {"snapshot", "taken", "failed"}
        /\ stage' \in {"snapshot", "taken", "failed"}
    BY <1>2 DEF SnapshotRead, SnapshotTaken, NextSnapshot, startVars
  <2>2. phase = "work" /\ program = "framer" /\ found = 0
    BY <2>1 DEF Told, Typed
  <2>3. IsSequence(asks')
    <3>1. CASE SnapshotRead
      <4>1. \E c, slave, a, n, vs, answer : Ask(c, slave, a, n, vs, answer)
        BY <3>1 DEF SnapshotRead
      <4> QED  BY <4>1, AskAppends DEF Typed
    <3>2. CASE SnapshotTaken
      BY <3>2 DEF SnapshotTaken, Typed
    <3>3. CASE NextSnapshot
      BY <3>3, EmptyIsSequence DEF NextSnapshot
    <3> QED  BY <1>2, <3>1, <3>2, <3>3
  <2>4. tally' \in Tallies
    <3>1. CASE SnapshotRead \/ SnapshotTaken
      BY <3>1 DEF SnapshotRead, SnapshotTaken, Typed, TypeOK
    <3>2. CASE NextSnapshot
      BY <3>2 DEF NextSnapshot, More, Typed, TypeOK, Tallies
    <3> QED  BY <1>2, <3>1, <3>2
  <2>5. Len(asks') \in Nat
    BY <2>3, AppendIsSequence
  <2>6. TypeOK'
    BY <2>1, <2>2, <2>4, <2>5 DEF Typed, TypeOK
  <2>7. JobOfStage'
    BY <2>1, <2>2 DEF Typed, JobOfStage, Early, Stressing
  <2> QED  BY <2>1, <2>2, <2>3, <2>6, <2>7 DEF Typed
<1> QED  BY <1>1, <1>2 DEF Snapshot

LEMMA StepKeepsTyped == Typed /\ Told /\ IInv /\ [Next]_vars => Typed'
<1> SUFFICES ASSUME Typed, Told, IInv, [Next]_vars
             PROVE  Typed'
  OBVIOUS
<1>1. CASE UNCHANGED vars
  BY <1>1 DEF vars, startVars, Typed, TypeOK, JobOfStage
<1> QED  BY <1>1, EarlyKeepsTyped, RunKeepsTyped, AskingKeepsTyped, EndingKeepsTyped,
            ScanKeepsTyped, StressKeepsTyped, SnapshotKeepsTyped
         DEF Next

LEMMA AlwaysTyped == Spec => []Typed
  BY InitTyped, StepKeepsTyped, AlwaysTold, StatusAndCounters, PTL DEF Spec

\* In any run each variable has its type, no stage lasts but in a modbus_framer at
\* work, and no more slaves are found than were asked.
THEOREM TypeCorrect == Spec => []TypeOK
<1>1. Typed => TypeOK
  BY DEF Typed
<1> QED  BY <1>1, AlwaysTyped, PTL

\* The three programs work with what was said last, for any configuration file and
\* command line of any length.
THEOREM LastWordWinsHolds == Spec => []LastWordWins
<1>1. Told => LastWordWins
  BY DEF Told, SaidLast, WorkedWith, Said, LastWordWins
<1> QED  BY <1>1, AlwaysTold, PTL
-----------------------------------------------------------------------------
(* What a write of the file says *)

LEMMA WriteNeeds ==
    ASSUME NEW c \in Requests \ Reads
    PROVE  /\ Needs[c] \subseteq WriteFields
           /\ FieldOf[c]["addr"] \in Needs[c]
           /\ c \in {"write_reg", "write_coil"} => FieldOf[c]["value"] \in Needs[c]
           /\ c = "write_regs" => FieldOf[c]["values"] \in Needs[c]
           /\ c = "write_coils" => FieldOf[c]["bytes"] \in Needs[c]
<1>1. c \in {"write_reg", "write_coil", "write_regs", "write_coils"}
  BY DEF Requests, Reads
<1>2. /\ FieldOf["write_reg"] = [addr |-> "write_reg.addr", value |-> "write_reg.value"]
      /\ FieldOf["write_coil"] = [addr |-> "write_coil.addr", value |-> "write_coil.value"]
      /\ FieldOf["write_regs"] = [addr |-> "write_regs.addr", values |-> "write_regs.values"]
      /\ FieldOf["write_coils"] = [addr |-> "write_coils.addr", n_bits |-> "write_coils.n_bits",
                                   bytes |-> "write_coils.bytes"]
  BY DEF FieldOf
<1>3. Needs[c] = {FieldOf[c][f] : f \in DOMAIN FieldOf[c]}
  BY DEF Needs
<1>4. CASE c = "write_reg"
  BY <1>2, <1>3, <1>4 DEF WriteFields
<1>5. CASE c = "write_coil"
  BY <1>2, <1>3, <1>5 DEF WriteFields
<1>6. CASE c = "write_regs"
  BY <1>2, <1>3, <1>6 DEF WriteFields
<1>7. CASE c = "write_coils"
  BY <1>2, <1>3, <1>7 DEF WriteFields
<1> QED  BY <1>1, <1>4, <1>5, <1>6, <1>7

\* A field that a write needs is the last word on it, in a modbus_framer at work.
LEMMA NeededIsSaid ==
    ASSUME Told, phase = "work", program = "framer",
           NEW f \in WriteFields, f \in DOMAIN settings
    PROVE  settings[f] = LastWord(f, Meant) /\ LastWord(f, Meant) # Empty
<1>1. f \notin DOMAIN CollectDefaults
  BY CollectFields DEF WriteFields
<1>2. settings[f] = LastWord(f, Meant)
  BY <1>1 DEF Told, WorkedWith, Said
<1>3. settings[f][1] # "str"
  BY DEF Told, KindsAreRight, RightKind
<1>4. Empty[1] = "str"
  BY DEF Empty
<1> QED  BY <1>2, <1>3, <1>4

LEMMA FileJobIsGiven ==
    ASSUME Told, phase = "work", program = "framer", NEW c \in Requests, HasAll(c)
    PROVE  GivenWrite(c, FileJob(c).addr, FileJob(c).values)
<1> SUFFICES ASSUME c \in Requests \ Reads
             PROVE  GivenWrite(c, FileJob(c).addr, FileJob(c).values)
  BY DEF GivenWrite
<1>1. \A f \in Needs[c] : /\ f \in DOMAIN settings
                         /\ settings[f] = LastWord(f, Meant) /\ LastWord(f, Meant) # Empty
  BY WriteNeeds, NeededIsSaid DEF HasAll
<1>2. \A f : FieldOf[c][f] \in Needs[c] => Field(c, f) = WordOn(c, f)
  BY <1>1 DEF Field, WordOn
<1>3. \A a, n, vs : Job(c, a, n, vs).addr = a /\ Job(c, a, n, vs).values = vs
  BY DEF Job
<1>4. c \in {"write_reg", "write_coil", "write_regs", "write_coils"}
  BY DEF Requests, Reads
<1>5. CASE c \in {"write_reg", "write_coil"}
  <2>1. FileJob(c) = Job(c, Field(c, "addr"), 1, <<Field(c, "value")>>)
    BY <1>5 DEF FileJob, Reads
  <2> QED  BY <1>1, <1>2, <1>3, <1>5, <2>1, WriteNeeds DEF GivenWrite
<1>6. CASE c = "write_regs"
  <2>1. FileJob(c) = Job(c, Field(c, "addr"), Len(Field(c, "values")), Field(c, "values"))
    BY <1>6 DEF FileJob, Reads
  <2> QED  BY <1>1, <1>2, <1>3, <1>6, <2>1, WriteNeeds DEF GivenWrite
<1>7. CASE c = "write_coils"
  <2>1. FileJob(c) = Job(c, Field(c, "addr"), Field(c, "n_bits"), Field(c, "bytes"))
    BY <1>7 DEF FileJob, Reads
  <2> QED  BY <1>1, <1>2, <1>3, <1>7, <2>1, WriteNeeds DEF GivenWrite
<1> QED  BY <1>4, <1>5, <1>6, <1>7

LEMMA SameGiven ==
    ASSUME UNCHANGED <<program, lines, args>>
    PROVE  \A c, a, vs : GivenWrite(c, a, vs)' <=> GivenWrite(c, a, vs)
<1>1. \A c, f : WordOn(c, f)' = WordOn(c, f)
  BY SameWord DEF WordOn
<1> QED  BY <1>1, SameWord DEF GivenWrite

LEMMA GivenAfter ==
    ASSUME UNCHANGED <<program, lines, args, command>>,
           command = "none" => \A i \in DOMAIN asks' :
             GivenWrite(asks'[i].command, asks'[i].addr, asks'[i].values)
    PROVE  NoUngivenWrite'
  BY SameWord DEF NoUngivenWrite, GivenWrite, WordOn

\* A request that a file may make.
LEMMA AskKeepsGiven ==
    ASSUME NoUngivenWrite, IsSequence(asks), UNCHANGED <<program, lines, args, command>>,
           NEW c, NEW slave, NEW a, NEW n, NEW vs, NEW answer, Ask(c, slave, a, n, vs, answer),
           command = "none" => GivenWrite(c, a, vs)
    PROVE  NoUngivenWrite'
<1> DEFINE r == [command |-> c, slave |-> slave, addr |-> a, n |-> n,
                 values |-> vs, answer |-> answer]
<1>1. /\ Len(asks) \in Nat /\ DOMAIN asks = 1 .. Len(asks)
      /\ DOMAIN asks' = 1 .. Len(asks) + 1
      /\ \A i \in 1 .. Len(asks) : asks'[i] = asks[i]
      /\ asks'[Len(asks) + 1] = r
  BY AskAppends
<1>2. command = "none" => GivenWrite(r.command, r.addr, r.values)
  OBVIOUS
<1> HIDE DEF r
<1>3. command = "none" => \A i \in DOMAIN asks' :
        GivenWrite(asks'[i].command, asks'[i].addr, asks'[i].values)
  <2> SUFFICES ASSUME command = "none", NEW i \in DOMAIN asks'
               PROVE  GivenWrite(asks'[i].command, asks'[i].addr, asks'[i].values)
    OBVIOUS
  <2>1. CASE i = Len(asks) + 1
    BY <1>1, <1>2, <2>1
  <2>2. CASE i # Len(asks) + 1
    <3>1. i \in DOMAIN asks /\ asks'[i] = asks[i]
      BY <1>1, <2>2
    <3> QED  BY <3>1 DEF NoUngivenWrite
  <2> QED  BY <2>1, <2>2
<1> QED  BY <1>3, GivenAfter
-----------------------------------------------------------------------------
(* What was asked *)

\* Nothing is asked before there is a job.
LEMMA StartKeepsAsked ==
    ASSUME Asked, Told, Typed, ReadWords \/ GiveCommand \/ OpenLine \/ UnknownCommand
    PROVE  Asked'
<1>1. job = NoJob /\ asks = <<>> /\ UNCHANGED <<job, asks>> /\ stage' \in {"idle", "start"}
  <2>1. phase \in Early \/ stage = "start"
    BY ReadingIsEarly DEF ReadWords, GiveCommand, OpenLine, UnknownCommand, Early
  <2>2. UNCHANGED <<job, asks>>
    BY DEF ReadWords, GiveCommand, OpenLine, UnknownCommand
  <2>3. CASE UnknownCommand
    BY <2>1, <2>2, <2>3 DEF UnknownCommand, Finish, Typed, JobOfStage
  <2>4. CASE ReadWords \/ GiveCommand \/ OpenLine
    <3>1. phase \in Early
      BY <2>4, ReadingIsEarly DEF ReadWords, GiveCommand, OpenLine, Early
    <3>2. stage = "idle"
      BY <3>1 DEF Told, Early, Typed, TypeOK, OpenLine
    <3>3. stage' \in {"idle", "start"}
      BY <2>4, <3>2 DEF ReadWords, GiveCommand, OpenLine
    <3> QED  BY <2>1, <2>2, <3>3 DEF Typed, JobOfStage
  <2> QED  BY <2>3, <2>4
<1>2. ScanSoFar' /\ SnapshotSoFar' /\ WriteIsGiven'
  BY <1>1 DEF ScanSoFar, SnapshotSoFar, WriteIsGiven
<1>3. ScanAsksAll'
  BY <1>1 DEF ScanAsksAll, NoJob
<1>4. NoUngivenWrite'
  BY <1>1 DEF NoUngivenWrite
<1> QED  BY <1>2, <1>3, <1>4 DEF Asked

\* A snapshot has up to three requests.
LEMMA ReadsAre ==
    ASSUME NEW temp, NEW hum, NEW device,
           NEW reads, reads = SnapshotReads(temp, hum, device)
    PROVE  Len(reads) \in 1 .. 3 /\ DOMAIN reads = 1 .. Len(reads)
<1> DEFINE S == Wanted(temp, hum, device)
<1>1. \/ reads = <<<<Min(S), Quantity(S)>>>>
      \/ reads = <<<<hum, 1>>, <<temp, 1>>, <<device, 1>>>>
      \/ reads = <<<<hum, 1>>, <<temp, 1>>>>
  BY DEF SnapshotReads
<1> HIDE DEF S
<1> QED  BY <1>1

LEMMA NoneAsked ==
    ASSUME NEW s, s = <<>>
    PROVE  /\ Len(s) = 0 /\ DOMAIN s = {}
           /\ Cardinality({i \in DOMAIN s : s[i].answer \in Heard}) = 0
<1>1. Len(s) = 0 /\ DOMAIN s = {}
  OBVIOUS
<1>2. {i \in DOMAIN s : s[i].answer \in Heard} = {}
  BY <1>1
<1> QED  BY <1>1, <1>2, FS_EmptySet

\* A job that begins has asked nothing yet.
LEMMA BeginAsked ==
    ASSUME asks' = <<>>, found' = 0, phase' = "work", stage' # "taken",
           stage' = "scan" => job'.addr \in Int /\ job'.n \in Int /\ job'.addr <= job'.n,
           WriteIsGiven'
    PROVE  Asked'
<1>1. /\ Len(asks') = 0 /\ DOMAIN asks' = {}
      /\ Cardinality({i \in DOMAIN asks' : asks'[i].answer \in Heard}) = 0
  BY NoneAsked
<1>2. ScanSoFar'
  BY <1>1 DEF ScanSoFar
<1>3. ScanAsksAll'
  BY DEF ScanAsksAll
<1>4. SnapshotSoFar'
  <2>1. ToRead' = SnapshotReads(Temp', Hum', Device')
    BY DEF ToRead
  <2>2. Len(ToRead') \in 1 .. 3
    BY <2>1, ReadsAre
  <2> QED  BY <1>1, <2>2 DEF SnapshotSoFar
<1>5. NoUngivenWrite'
  BY <1>1 DEF NoUngivenWrite
<1> QED  BY <1>2, <1>3, <1>4, <1>5 DEF Asked

LEMMA WriteAfter ==
    ASSUME UNCHANGED <<program, lines, args, command>>,
           stage' = "request" /\ command = "none" =>
             GivenWrite(job'.command, job'.addr, job'.values)
    PROVE  WriteIsGiven'
  BY SameWord DEF WriteIsGiven, GivenWrite, WordOn

\* The range of a scan is one of numbers, and not empty.
LEMMA FileScanIs ==
    ASSUME Told, program = "framer", NEW j, j = FileJob("scan"), ~BadJob(j)
    PROVE  j.addr \in Int /\ j.n \in Int /\ j.addr <= j.n
<1>1. j = Job("scan", Field("scan", "start"), Field("scan", "end"), <<>>)
  BY DEF FileJob, Reads
<1>2. FieldOf["scan"]["start"] = "scan.start" /\ FieldOf["scan"]["end"] = "scan.end"
  BY DEF FieldOf
<1>3. Field("scan", "start") \in Int /\ Field("scan", "end") \in Int
  BY <1>2 DEF Field, Told, KindsAreRight, RightKind
<1> QED  BY <1>1, <1>3 DEF Job, BadJob

LEMMA LineScanIs ==
    ASSUME Told, GoodOperands("scan"), NEW j, j = LineJob("scan"), ~EmptyScan(j)
    PROVE  j.addr \in Int /\ j.n \in Int /\ j.addr <= j.n
<1>1. j = Job("scan", Operand(1, 1), Operand(2, 247), <<>>)
  BY DEF LineJob, Reads
<1>2. Ranges["scan"] = <<<<1, 247>>, <<1, 247>>, <<1, 60000>>>>
  BY DEF Ranges
<1>3. Len(operands) \in Nat /\ DOMAIN operands = 1 .. Len(operands)
  BY AppendIsSequence DEF Told
<1>4. /\ 1 \in DOMAIN operands => operands[1][2] \in Int
      /\ 2 \in DOMAIN operands => operands[2][2] \in Int
  BY <1>2 DEF GoodOperands, InRange
<1>5. Operand(1, 1) \in Int /\ Operand(2, 247) \in Int
  BY <1>3, <1>4 DEF Operand
<1> QED  BY <1>1, <1>5 DEF Job, EmptyScan

LEMMA RunKeepsAsked ==
    ASSUME Asked, Told, Typed, RunConfig \/ RunCommand \/ RunCollect
    PROVE  Asked'
<1>1. /\ stage = "start" /\ phase = "work" /\ program = "framer"
      /\ UNCHANGED <<program, lines, args, command, asks, found>>
  BY DEF RunConfig, RunCommand, RunCollect, Told
<1>2. job = NoJob /\ asks = <<>> /\ found = 0
  BY <1>1 DEF Typed, JobOfStage
<1>3. ASSUME phase' = "exit", stage' = "idle", UNCHANGED job \/ code' # 0
      PROVE  Asked'
  <2>1. ScanSoFar' /\ SnapshotSoFar' /\ WriteIsGiven'
    BY <1>3 DEF ScanSoFar, SnapshotSoFar, WriteIsGiven
  <2>2. ScanAsksAll'
    BY <1>2, <1>3 DEF ScanAsksAll, NoJob
  <2>3. NoUngivenWrite'
    BY <1>1, <1>2 DEF NoUngivenWrite
  <2> QED  BY <2>1, <2>2, <2>3 DEF Asked
<1>4. ASSUME stage' = Stage(job'), phase' = phase,
             job'.command \in Requests \cup {"scan", "stress", "collect"},
             job'.command = "scan" => job'.addr \in Int /\ job'.n \in Int /\ job'.addr <= job'.n,
             command = "none" => GivenWrite(job'.command, job'.addr, job'.values)
      PROVE  Asked'
  BY <1>1, <1>2, <1>4, StageOf, WriteAfter, BeginAsked
<1>5. CASE RunConfig
  <2> DEFINE c == settings["command"][2]
  <2>1. c \in DOMAIN CommandNames
    <3>1. "command" \in DOMAIN settings
      BY <1>1, <1>5 DEF RunConfig, Told
    <3> QED  BY <1>1, <3>1 DEF Told, KindsAreRight, RightKind
  <2>2. \/ HasAll(c) /\ ~BadJob(FileJob(c)) /\ job' = FileJob(c) /\ stage' = Stage(job')
           /\ phase' = phase
        \/ phase' = "exit" /\ stage' = "idle" /\ UNCHANGED job
    BY <1>5 DEF RunConfig, Finish, Exit
  <2> HIDE DEF c
  <2>3. CASE HasAll(c) /\ ~BadJob(FileJob(c)) /\ job' = FileJob(c) /\ stage' = Stage(job')
             /\ phase' = phase
    <3>1. job'.command = c /\ c \in Requests \cup {"scan", "stress", "collect"}
      BY <2>1, <2>3, FileJobIs
    <3>2. c = "scan" => job'.addr \in Int /\ job'.n \in Int /\ job'.addr <= job'.n
      BY <1>1, <2>3, FileScanIs
    <3>3. GivenWrite(c, job'.addr, job'.values)
      <4>1. CASE c \in Requests
        BY <1>1, <2>3, <4>1, FileJobIsGiven
      <4>2. CASE c \notin Requests
        BY <4>2 DEF GivenWrite
      <4> QED  BY <4>1, <4>2
    <3> QED  BY <1>4, <2>3, <3>1, <3>2, <3>3
  <2> QED  BY <1>3, <2>2, <2>3
<1>6. CASE RunCommand
  <2>1. command \in DOMAIN Ranges /\ command # "none"
    BY <1>6 DEF RunCommand, Ranges
  <2>2. \/ phase' = "exit" /\ stage' = "idle" /\ (UNCHANGED job \/ code' # 0)
        \/ GoodOperands(command) /\ job' = LineJob(command) /\ ~EmptyScan(job')
           /\ stage' = Stage(job') /\ phase' = phase
    BY <1>6 DEF RunCommand, Finish, Exit
  <2>3. CASE GoodOperands(command) /\ job' = LineJob(command) /\ ~EmptyScan(job')
             /\ stage' = Stage(job') /\ phase' = phase
    <3>1. job'.command = command /\ command \in Requests \cup {"scan", "stress"}
      BY <2>1, <2>3, LineJobIs
    <3>2. command = "scan" => job'.addr \in Int /\ job'.n \in Int /\ job'.addr <= job'.n
      BY <2>3, LineScanIs
    <3> QED  BY <1>4, <2>1, <2>3, <3>1, <3>2
  <2> QED  BY <1>3, <2>2, <2>3
<1>7. CASE RunCollect
  <2>1. command # "none"
    BY <1>7 DEF RunCollect
  <2>2. \/ phase' = "exit" /\ stage' = "idle" /\ UNCHANGED job
        \/ job' = Job("collect", 0, 0, <<>>) /\ stage' = Stage(job') /\ phase' = phase
    BY <1>7 DEF RunCollect, Finish, Exit
  <2>3. CASE job' = Job("collect", 0, 0, <<>>) /\ stage' = Stage(job') /\ phase' = phase
    <3>1. job'.command = "collect"
      BY <2>3 DEF Job
    <3> QED  BY <1>4, <2>1, <2>3, <3>1
  <2> QED  BY <1>3, <2>2, <2>3
<1> QED  BY <1>5, <1>6, <1>7

\* What is asked stays what was given, whoever asks it.
LEMMA RequestKeepsAsked ==
    ASSUME Asked, Told, Typed, IInv, Request
    PROVE  Asked'
<1>1. PICK a : /\ Ask(job.command, Slave, job.addr, job.n, job.values, a)
               /\ Finish(Result(a))
  BY DEF Request
<1>2. /\ stage = "request" /\ phase' = "exit" /\ stage' = "idle"
      /\ UNCHANGED <<program, lines, args, command, job>>
  BY FinishIs, <1>1 DEF Request
<1>3. job.command \in Requests
  BY <1>2 DEF Typed, JobOfStage
<1>4. ScanSoFar' /\ SnapshotSoFar' /\ WriteIsGiven' /\ ScanAsksAll'
  BY <1>2, <1>3 DEF ScanSoFar, SnapshotSoFar, WriteIsGiven, ScanAsksAll, Requests
<1>5. NoUngivenWrite'
  <2>1. command = "none" => GivenWrite(job.command, job.addr, job.values)
    BY <1>2 DEF Asked, WriteIsGiven
  <2>2. NoUngivenWrite /\ IsSequence(asks)
    BY DEF Asked, Typed
  <2> QED  BY <1>1, <1>2, <2>1, <2>2, AskKeepsGiven
<1> QED  BY <1>4, <1>5 DEF Asked

\* A read writes nothing.
LEMMA ReadKeepsGiven ==
    ASSUME NoUngivenWrite, IsSequence(asks), UNCHANGED <<program, lines, args, command>>,
           NEW c \in Reads, NEW slave, NEW a, NEW n, NEW vs, NEW answer,
           Ask(c, slave, a, n, vs, answer)
    PROVE  NoUngivenWrite'
<1>1. GivenWrite(c, a, vs)
  BY DEF GivenWrite
<1> QED  BY <1>1, AskKeepsGiven

LEMMA ScanOnKeepsAsked ==
    ASSUME Asked, Told, Typed, ScanOn
    PROVE  Asked'
<1>1. PICK a : /\ Ask("read_holding", NextId, 0, 1, <<>>, a)
               /\ found' = IF a \in Heard THEN found + 1 ELSE found
  BY DEF ScanOn
<1>2. /\ stage = "scan" /\ NextId <= job.n
      /\ UNCHANGED <<program, phase, lines, args, command, job, stage>>
  BY DEF ScanOn, startVars
<1> DEFINE k == Len(asks)
           A == {i \in DOMAIN asks : asks[i].answer \in Heard}
           B == {i \in DOMAIN asks' : asks'[i].answer \in Heard}
<1>3. /\ k \in Nat /\ DOMAIN asks = 1 .. k /\ IsSequence(asks)
      /\ IsSequence(asks') /\ Len(asks') = k + 1 /\ DOMAIN asks' = 1 .. k + 1
      /\ \A i \in 1 .. k : asks'[i] = asks[i]
      /\ asks'[k + 1].slave = NextId /\ asks'[k + 1].answer = a
  <2>1. /\ k \in Nat /\ DOMAIN asks = 1 .. k /\ IsSequence(asks)
        /\ IsSequence(asks') /\ Len(asks') = k + 1 /\ DOMAIN asks' = 1 .. k + 1
        /\ \A i \in 1 .. k : asks'[i] = asks[i]
    BY <1>1, AskAppends DEF Typed
  <2>2. asks'[k + 1] = [command |-> "read_holding", slave |-> NextId, addr |-> 0, n |-> 1,
                        values |-> <<>>, answer |-> a]
    BY <1>1, AskAppends DEF Typed
  <2> HIDE DEF k
  <2> QED  BY <2>1, <2>2
<1>4. /\ job.addr \in Int /\ job.n \in Int /\ NextId = job.addr + k
      /\ \A i \in DOMAIN asks : asks[i].slave = job.addr + i - 1
      /\ found = Cardinality(A)
  BY <1>2 DEF Asked, ScanSoFar, NextId
<1> HIDE DEF k
<1>5. \A i \in DOMAIN asks' : asks'[i].slave = job.addr + i - 1
  BY <1>3, <1>4
<1>6. Len(asks') <= job.n - job.addr + 1
  BY <1>2, <1>3, <1>4
<1>7. B = IF a \in Heard THEN A \cup {k + 1} ELSE A
  BY <1>3
<1>8. IsFiniteSet(A) /\ k + 1 \notin A
  <2>1. IsFiniteSet(1 .. k)
    BY <1>3, FS_Interval
  <2>2. A \subseteq 1 .. k
    BY <1>3
  <2> HIDE DEF A
  <2>3. IsFiniteSet(A)
    BY <2>1, <2>2, FS_Subset
  <2> QED  BY <1>3, <2>2, <2>3
<1>9. found' = Cardinality(B)
  <2> HIDE DEF A, B
  <2>1. CASE a \in Heard
    <3>1. Cardinality(A \cup {k + 1}) = Cardinality(A) + 1
      BY <1>8, FS_AddElement
    <3> QED  BY <1>1, <1>4, <1>7, <2>1, <3>1
  <2>2. CASE a \notin Heard
    BY <1>1, <1>4, <1>7, <2>2
  <2> QED  BY <2>1, <2>2
<1>10. ScanSoFar'
  BY <1>2, <1>4, <1>5, <1>6, <1>9 DEF ScanSoFar
<1>11. phase' # "exit"
  BY <1>2 DEF Told
<1>12. ScanAsksAll' /\ SnapshotSoFar' /\ WriteIsGiven'
  BY <1>2, <1>11 DEF ScanAsksAll, SnapshotSoFar, WriteIsGiven
<1>13. NoUngivenWrite'
  <2>1. "read_holding" \in Reads /\ NoUngivenWrite
    BY DEF Reads, Asked
  <2> QED  BY <1>1, <1>2, <1>3, <2>1, ReadKeepsGiven
<1> QED  BY <1>10, <1>12, <1>13 DEF Asked

LEMMA ScanFaultKeepsAsked ==
    ASSUME Asked, Told, Typed, ScanFault
    PROVE  Asked'
<1>1. /\ Ask("read_holding", NextId, 0, 1, <<>>, "io") /\ Finish("io")
      /\ UNCHANGED <<program, lines, args, command>>
  BY DEF ScanFault
<1>2. phase' = "exit" /\ stage' = "idle" /\ code' # 0
  BY <1>1, FinishIs
<1>3. ScanSoFar' /\ SnapshotSoFar' /\ WriteIsGiven' /\ ScanAsksAll'
  BY <1>2 DEF ScanSoFar, SnapshotSoFar, WriteIsGiven, ScanAsksAll
<1>4. "read_holding" \in Reads /\ NoUngivenWrite /\ IsSequence(asks)
  BY DEF Reads, Asked, Typed
<1>5. NoUngivenWrite'
  BY <1>1, <1>4, ReadKeepsGiven
<1> QED  BY <1>3, <1>5 DEF Asked

\* When there is none left each one has been asked.
LEMMA ScanDoneKeepsAsked ==
    ASSUME Asked, Told, Typed, ScanDone
    PROVE  Asked'
<1>1. /\ stage = "scan" /\ NextId > job.n /\ stage' = "idle"
      /\ UNCHANGED <<program, lines, args, command, asks, found, job>>
  BY DEF ScanDone, Finish
<1>2. /\ job.command = "scan"
      /\ Len(asks) \in Nat /\ DOMAIN asks = 1 .. Len(asks)
  BY <1>1, AppendIsSequence DEF Typed, JobOfStage
<1>3. /\ job.addr \in Int /\ job.n \in Int
      /\ Len(asks) <= job.n - job.addr + 1
      /\ \A i \in DOMAIN asks : asks[i].slave = job.addr + i - 1
      /\ found = Cardinality({i \in DOMAIN asks : asks[i].answer \in Heard})
  BY <1>1 DEF Asked, ScanSoFar
<1>4. Len(asks) = job.n - job.addr + 1
  BY <1>1, <1>2, <1>3 DEF NextId
<1>5. [i \in DOMAIN asks |-> asks[i].slave]
        = [i \in 1 .. job.n - job.addr + 1 |-> job.addr + i - 1]
  BY <1>2, <1>3, <1>4
<1>6. ScanAsksAll'
  BY <1>1, <1>3, <1>5 DEF ScanAsksAll
<1>7. ScanSoFar' /\ SnapshotSoFar' /\ WriteIsGiven'
  BY <1>1 DEF ScanSoFar, SnapshotSoFar, WriteIsGiven
<1>8. NoUngivenWrite'
  BY <1>1, GivenAfter DEF Asked, NoUngivenWrite
<1> QED  BY <1>6, <1>7, <1>8 DEF Asked

LEMMA StressKeepsAsked ==
    ASSUME Asked, Told, Typed, Stress
    PROVE  Asked'
<1>1. /\ stage \in Stressing /\ stage' \in Stressing \cup {"idle"}
      /\ UNCHANGED <<program, lines, args, command, asks, found, job>>
  BY DEF Stress, StressBegin, StressException, StressError, StressWritten, StressEcho,
         StressReadBack, StressEnd, InLoop, Quiet, startVars, Finish, Stressing
<1>2. job.command = "stress"
  BY <1>1 DEF Typed, JobOfStage
<1>3. ScanSoFar' /\ SnapshotSoFar' /\ WriteIsGiven' /\ ScanAsksAll'
  BY <1>1, <1>2 DEF ScanSoFar, SnapshotSoFar, WriteIsGiven, ScanAsksAll, Stressing
<1>4. NoUngivenWrite'
  BY <1>1, GivenAfter DEF Asked, NoUngivenWrite
<1> QED  BY <1>3, <1>4 DEF Asked

\* An answer to a read that goes well is one to a read of something.
LEMMA OkReadsSomething ==
    ASSUME NEW slave, NEW n, "ok" \in Answers(slave, TRUE, n)
    PROVE  n # 0
  BY DEF Answers

LEMMA SnapshotReadKeepsAsked ==
    ASSUME Asked, Told, Typed, SnapshotRead
    PROVE  Asked'
<1> DEFINE k == Len(asks)
           r == ToRead[k + 1]
<1>1. PICK a \in Answers(Slave, TRUE, r[2]) :
        /\ Ask(Function, Slave, r[1], r[2], <<>>, a)
        /\ stage' = IF a = "ok" THEN stage ELSE "failed"
  BY DEF SnapshotRead
<1>2. /\ stage = "snapshot" /\ k < Len(ToRead)
      /\ UNCHANGED <<program, phase, lines, args, settings, command, job>>
  BY DEF SnapshotRead, startVars
<1>3. /\ k \in Nat /\ DOMAIN asks = 1 .. k /\ IsSequence(asks)
      /\ Len(asks') = k + 1 /\ DOMAIN asks' = 1 .. k + 1
      /\ \A i \in 1 .. k : asks'[i] = asks[i]
      /\ asks'[k + 1].addr = r[1] /\ asks'[k + 1].n = r[2] /\ asks'[k + 1].answer = a
  <2> HIDE DEF r
  <2>1. /\ k \in Nat /\ DOMAIN asks = 1 .. k /\ IsSequence(asks)
        /\ Len(asks') = k + 1 /\ DOMAIN asks' = 1 .. k + 1
        /\ \A i \in 1 .. k : asks'[i] = asks[i]
    BY <1>1, AskAppends DEF Typed
  <2>2. asks'[k + 1] = [command |-> Function, slave |-> Slave, addr |-> r[1], n |-> r[2],
                        values |-> <<>>, answer |-> a]
    BY <1>1, AskAppends DEF Typed
  <2> HIDE DEF k
  <2> QED  BY <2>1, <2>2
<1>4. ToRead' = ToRead /\ Len(ToRead) \in 1 .. 3
  BY <1>2, ReadsAre DEF ToRead, Temp, Hum, Device
<1>5. \A i \in DOMAIN asks : /\ asks[i].addr = ToRead[i][1] /\ asks[i].n = ToRead[i][2]
                           /\ asks[i].answer = "ok" /\ asks[i].n # 0
  BY <1>2 DEF Asked, SnapshotSoFar
<1>6. SnapshotSoFar'
  <2>1. CASE a # "ok"
    BY <1>1, <2>1 DEF SnapshotSoFar
  <2>2. CASE a = "ok"
    <3>1. r[2] # 0
      BY <1>1, <2>2, OkReadsSomething
    <3>2. stage' = "snapshot"
      BY <1>1, <1>2, <2>2
    <3>3. Len(asks') <= Len(ToRead)
      BY <1>2, <1>3, <1>4
    <3>4. ASSUME NEW i \in DOMAIN asks'
          PROVE  /\ asks'[i].addr = ToRead[i][1] /\ asks'[i].n = ToRead[i][2]
                 /\ asks'[i].answer = "ok" /\ asks'[i].n # 0
      <4>1. CASE i = k + 1
        BY <1>3, <2>2, <3>1, <4>1
      <4>2. CASE i # k + 1
        <5> HIDE DEF k
        <5>1. i \in DOMAIN asks /\ asks'[i] = asks[i]
          BY <1>3, <4>2
        <5> QED  BY <1>5, <5>1
      <4> QED  BY <4>1, <4>2
    <3> QED  BY <1>4, <3>2, <3>3, <3>4 DEF SnapshotSoFar
  <2> QED  BY <2>1, <2>2
<1>7. stage' \in {"snapshot", "failed"} /\ phase' # "exit"
  BY <1>1, <1>2 DEF Told
<1>8. ScanSoFar' /\ WriteIsGiven' /\ ScanAsksAll'
  BY <1>7 DEF ScanSoFar, WriteIsGiven, ScanAsksAll
<1>9. NoUngivenWrite'
  <2>1. Function \in Reads /\ NoUngivenWrite
    BY DEF Function, Reads, Asked
  <2> QED  BY <1>1, <1>2, <1>3, <2>1, ReadKeepsGiven
<1> QED  BY <1>6, <1>8, <1>9 DEF Asked

LEMMA SnapshotKeepsAsked ==
    ASSUME Asked, Told, Typed, Snapshot
    PROVE  Asked'
<1>1. CASE SnapshotTaken \/ StopCollect
  <2>1. /\ UNCHANGED <<program, lines, args, settings, command, job, asks>>
        /\ stage \in {"snapshot", "taken", "failed"}
        /\ \/ stage = "snapshot" /\ stage' = "taken" /\ Len(asks) = Len(ToRead)
           \/ stage' = "idle"
    BY <1>1 DEF SnapshotTaken, StopCollect, startVars, Finish
  <2>2. job.command = "collect"
    BY <2>1 DEF Typed, JobOfStage
  <2>3. SnapshotSoFar'
    <3>1. ToRead' = ToRead
      BY <2>1 DEF ToRead, Temp, Hum, Device
    <3> QED  BY <2>1, <3>1 DEF Asked, SnapshotSoFar
  <2>4. ScanSoFar' /\ WriteIsGiven' /\ ScanAsksAll'
    BY <2>1, <2>2 DEF ScanSoFar, WriteIsGiven, ScanAsksAll
  <2>5. NoUngivenWrite'
    BY <2>1, GivenAfter DEF Asked, NoUngivenWrite
  <2> QED  BY <2>3, <2>4, <2>5 DEF Asked
<1>2. CASE NextSnapshot
  <2>1. /\ UNCHANGED <<phase, found>> /\ stage \in {"taken", "failed"}
        /\ stage' = "snapshot" /\ asks' = <<>>
    BY <1>2 DEF NextSnapshot, startVars
  <2>2. phase' = "work" /\ found' = 0
    BY <2>1 DEF Told, Typed
  <2>3. WriteIsGiven'
    BY <2>1 DEF WriteIsGiven
  <2> QED  BY <2>1, <2>2, <2>3, BeginAsked
<1> QED  BY <1>1, <1>2, SnapshotReadKeepsAsked DEF Snapshot

LEMMA InitAsked == Init => Asked
<1> SUFFICES ASSUME Init
             PROVE  Asked
  OBVIOUS
<1>1. stage = "idle" /\ asks = <<>> /\ phase = "find"
  BY DEF Init, StartInit
<1> QED  BY <1>1 DEF Asked, ScanSoFar, ScanAsksAll, SnapshotSoFar, WriteIsGiven, NoUngivenWrite

LEMMA StepKeepsAsked == Asked /\ Told /\ Typed /\ IInv /\ [Next]_vars => Asked'
<1> SUFFICES ASSUME Asked, Told, Typed, IInv, [Next]_vars
             PROVE  Asked'
  OBVIOUS
<1>1. CASE UNCHANGED vars
  <2>1. UNCHANGED <<program, phase, lines, args, settings, command, code, job, stage, asks, found>>
    BY <1>1 DEF vars, startVars
  <2>2. NoUngivenWrite'
    BY <2>1, GivenAfter DEF Asked, NoUngivenWrite
  <2>3. WriteIsGiven'
    BY <2>1, WriteAfter DEF Asked, WriteIsGiven
  <2>4. ScanSoFar' /\ ScanAsksAll'
    BY <2>1 DEF Asked, ScanSoFar, ScanAsksAll
  <2>5. SnapshotSoFar'
    <3>1. ToRead' = ToRead
      BY <2>1 DEF ToRead, Temp, Hum, Device
    <3> QED  BY <2>1, <3>1 DEF Asked, SnapshotSoFar
  <2> QED  BY <2>2, <2>3, <2>4, <2>5 DEF Asked
<1> QED  BY <1>1, StartKeepsAsked, RunKeepsAsked, RequestKeepsAsked, ScanOnKeepsAsked,
            ScanFaultKeepsAsked, ScanDoneKeepsAsked, StressKeepsAsked, SnapshotKeepsAsked
         DEF Next

LEMMA AlwaysAsked == Spec => []Asked
  BY InitAsked, StepKeepsAsked, AlwaysTold, AlwaysTyped, StatusAndCounters, PTL DEF Spec

\* run_config_command: a command of the file writes to no address and no value that
\* its section does not give, whatever lines there are and in whatever order.
THEOREM NoUngivenWriteHolds == Spec => []NoUngivenWrite
<1>1. Asked => NoUngivenWrite
  BY DEF Asked
<1> QED  BY <1>1, AlwaysAsked, PTL

\* mb_scan_slaves: a scan that ends with 0 has asked each slave of any range once
\* and counted the ones that answered.
THEOREM ScanAsksAllHolds == Spec => []ScanAsksAll
<1>1. Asked => ScanAsksAll
  BY DEF Asked
<1> QED  BY <1>1, AlwaysAsked, PTL

\* collect_read_snapshot: a snapshot that was taken holds each of its registers,
\* wherever in the 65,536 the file and the command line put them.
THEOREM SnapshotIsRightHolds == Spec => []SnapshotIsRight
<1>1. Asked /\ Told /\ Typed => SnapshotIsRight
  <2> SUFFICES ASSUME Asked, Told, Typed, stage = "taken"
               PROVE  \A a \in Wanted(Temp, Hum, Device) :
                        \E i \in DOMAIN asks :
                          /\ asks[i].answer = "ok"
                          /\ asks[i].addr <= a /\ a < asks[i].addr + asks[i].n
    BY DEF SnapshotIsRight
  <2>1. Temp \in Register /\ Hum \in Register /\ Device \in Register \cup {-1}
    BY DEF Told, KindsAreRight, RightKind, Temp, Hum, Device, Addresses, Register
  <2> DEFINE S == Wanted(Temp, Hum, Device)
  <2>2. \/ Max(S) - Min(S) = 65535 /\ ToRead = <<<<Min(S), 0>>>>
        \/ \A a \in S : \E i \in DOMAIN ToRead :
              ToRead[i][1] <= a /\ a < ToRead[i][1] + ToRead[i][2]
    BY <2>1, SnapshotAsksForAll DEF ToRead
  <2> HIDE DEF S
  <2>3. \A i \in DOMAIN ToRead :
          /\ i \in DOMAIN asks
          /\ asks[i].addr = ToRead[i][1] /\ asks[i].n = ToRead[i][2]
          /\ asks[i].answer = "ok" /\ asks[i].n # 0
    <3>1. Len(ToRead) \in 1 .. 3 /\ DOMAIN ToRead = 1 .. Len(ToRead)
      BY ReadsAre DEF ToRead
    <3>2. Len(asks) = Len(ToRead)
      BY DEF Asked, SnapshotSoFar
    <3>3. DOMAIN asks = 1 .. Len(asks)
      BY AppendIsSequence DEF Typed
    <3> QED  BY <3>1, <3>2, <3>3 DEF Asked, SnapshotSoFar
  <2>4. ToRead # <<<<Min(S), 0>>>>
    <3>1. SUFFICES ASSUME ToRead = <<<<Min(S), 0>>>>
                   PROVE  FALSE
      OBVIOUS
    <3>2. 1 \in DOMAIN ToRead /\ ToRead[1][2] = 0
      BY <3>1
    <3> QED  BY <2>3, <3>2
  <2> QED  BY <2>2, <2>3, <2>4 DEF S
<1> QED  BY <1>1, AlwaysAsked, AlwaysTold, AlwaysTyped, PTL
=============================================================================
