------------------------------- MODULE Framer -------------------------------
(***************************************************************************)
(* The commands of modbus_framer, given by its configuration file          *)
(* (run_config_command) or on its command line (main): one request, the    *)
(* scan of a range of slaves, the stress loop, and what the collector      *)
(* reads.  The requests go through mb_submit_and_wait (ModbusCore), of     *)
(* which only the answer is left here.                                     *)
(***************************************************************************)
EXTENDS Startup, RegCodec

CONSTANTS CommandLines,     \* a command -> what may follow it on the command line
          MaxBefore,        \* entries and options before a command on the command line
          MaxRounds         \* rounds of the stress loop and of the collector

\* What follows a command is a sequence of words; "none" is no command.
ASSUME CommandLinesAssumption ==
    /\ \A c \in DOMAIN CommandLines : \A words \in CommandLines[c] : IsSequence(words)
    /\ "none" \notin DOMAIN CommandLines

VARIABLES job,      \* what is being done: command, addr, n, values
          stage,    \* where in it
          asks,     \* the requests made: command, slave, addr, n, values, answer
          found,    \* slaves found by a scan
          tally,    \* the counters of run_stress
          acked     \* ack_init of run_stress

vars == <<startVars, job, stage, asks, found, tally, acked>>

Requests == {"read_holding", "read_input", "write_reg", "write_regs", "read_coils",
             "write_coil", "write_coils"}
Reads == {"read_holding", "read_input", "read_coils"}
NoJob == [command |-> "none", addr |-> 0, n |-> 0, values |-> <<>>]
Tallies == [loops : Nat, ok : Nat, err : Nat, exc : Nat,
            mismatch : Nat, ack_err : Nat, coil_err : Nat]
Tally0 == [loops |-> 0, ok |-> 0, err |-> 0, exc |-> 0,
           mismatch |-> 0, ack_err |-> 0, coil_err |-> 0]

Init ==
    /\ StartInit
    /\ job = NoJob /\ stage = "idle"
    /\ asks = <<>> /\ found = 0
    /\ tally = Tally0 /\ acked = FALSE

ReadWords == Read /\ UNCHANGED <<job, stage, asks, found, tally, acked>>

\* The first word that is no option.  Every command takes the settings of the
\* line as they are; collect starts from the defaults again, whatever the file
\* says of it.
GiveCommand ==
    /\ phase = "args" /\ program = "framer"
    /\ Len(lines) + Len(args) <= MaxBefore
    /\ \E c \in DOMAIN CommandLines :
         /\ command' = c
         /\ operands' \in CommandLines[c]
         /\ settings' = IF c = "collect" THEN Over(CollectDefaults, settings) ELSE settings
    /\ phase' = "open"
    /\ UNCHANGED <<program, section, lines, args, code, job, stage, asks, found, tally, acked>>

\* mb_ctx_init
OpenLine ==
    /\ phase = "open"
    /\ \/ phase' = "work" /\ stage' = "start" /\ UNCHANGED code
       \/ Exit(1) /\ UNCHANGED stage
    /\ UNCHANGED <<program, section, lines, args, settings, command, operands, job, asks, found,
                   tally, acked>>

\* A slip: the stage is left as it was.
FinishInStage(rc) == Exit(IF rc = "ok" THEN 0 ELSE 1) /\ stage' = stage
Finish(rc) == Exit(IF rc = "ok" THEN 0 ELSE 1) /\ stage' = "idle"
-----------------------------------------------------------------------------
(* What the file asks for *)

Job(c, a, n, vs) == [command |-> c, addr |-> a, n |-> n, values |-> vs]

Needs == [c \in Requests |-> {FieldOf[c][f] : f \in DOMAIN FieldOf[c]}]

HasAddr(c) == c \in Requests => FieldOf[c].addr \in DOMAIN settings     \* a slip
HasAll(c) == c \in Requests => Needs[c] \subseteq DOMAIN settings

\* A field nobody gave is zero, or has no members.
Field(c, f) == IF FieldOf[c][f] \in DOMAIN settings THEN settings[FieldOf[c][f]][2]
               ELSE IF f \in {"values", "bytes"} THEN <<>> ELSE 0

FileJob(c) ==
    CASE c \in Reads -> Job(c, Field(c, "addr"), Field(c, "qty"), <<>>)
      [] c \in {"write_reg", "write_coil"} ->
           Job(c, Field(c, "addr"), 1, <<Field(c, "value")>>)
      [] c = "write_regs" ->
           Job(c, Field(c, "addr"), Len(Field(c, "values")), Field(c, "values"))
      [] c = "write_coils" -> Job(c, Field(c, "addr"), Field(c, "n_bits"), Field(c, "bytes"))
      [] c = "scan" -> Job(c, Field(c, "start"), Field(c, "end"), <<>>)
      [] c = "stress" -> Job(c, 0, Field(c, "duration_s"), <<>>)
      [] c = "collect" -> Job(c, 0, 0, <<>>)

\* max_total_bytes of a collector is never less than max_file_bytes.
WholeFile(s) ==
    IF s["max_total_bytes"][2] < s["max_file_bytes"][2]
    THEN [s EXCEPT !["max_total_bytes"] = s["max_file_bytes"]] ELSE s

Stage(j) == CASE j.command \in Requests -> "request"
              [] j.command = "scan" -> "scan"
              [] j.command = "stress" -> "wait"
              [] j.command = "collect" -> "snapshot"

BadJob(j) ==
    \/ j.command = "scan" /\ j.addr > j.n
    \/ j.command = "write_coils" /\ Len(j.values) # NBytes(j.n)

RunConfig ==
    /\ stage = "start" /\ command = "none"
    /\ LET c == settings["command"][2] IN
       IF HasAll(c) /\ ~BadJob(FileJob(c))
       THEN /\ job' = FileJob(c) /\ stage' = Stage(job')
            /\ settings' = IF c = "collect" THEN WholeFile(settings) ELSE settings
            /\ UNCHANGED <<phase, code>>
       ELSE Finish("param") /\ UNCHANGED <<job, settings>>
    /\ UNCHANGED <<program, section, lines, args, command, operands, asks, found, tally, acked>>
-----------------------------------------------------------------------------
(* What the command line asks for *)

Address == <<0, 65535>>
Ranges == [read_holding |-> <<Address, <<1, 125>>>>, read_input |-> <<Address, <<1, 125>>>>,
           read_coils |-> <<Address, <<1, 2000>>>>, write_reg |-> <<Address, <<0, 65535>>>>,
           write_coil |-> <<Address, <<0, 1>>>>, write_regs |-> <<Address, <<1, 123>>>>,
           write_coils |-> <<Address, <<1, 1968>>>>,
           scan |-> <<<<1, 247>>, <<1, 247>>, <<1, 60000>>>>,
           stress |-> <<<<0, 86400>>, <<0, 10000>>, <<0, 2147483647>>, <<1, 3600>>>>]

\* How many values follow the fixed operands, and the largest they may be.
Following(c) == CASE c = "write_regs" -> operands[2][2]
                  [] c = "write_coils" -> NBytes(operands[2][2])
                  [] OTHER -> 0
Largest(c) == IF c = "write_coils" THEN 255 ELSE 65535

InRange(v, r) == v[1] = "num" /\ v[2] \in r[1] .. r[2]

GoodOperands(c) ==
    LET r == Ranges[c] IN
    /\ \A i \in DOMAIN operands \cap DOMAIN r : InRange(operands[i], r[i])
    /\ IF c \in {"scan", "stress"} THEN Len(operands) <= Len(r)
       ELSE /\ Len(operands) >= Len(r)
            /\ Len(operands) >= Len(r) + Following(c)
            /\ \A i \in Len(r) + 1 .. Len(r) + Following(c) :
                 InRange(operands[i], <<0, Largest(c)>>)

Operand(i, default) == IF i <= Len(operands) THEN operands[i][2] ELSE default

LineJob(c) ==
    CASE c \in Reads -> Job(c, Operand(1, 0), Operand(2, 0), <<>>)
      [] c \in {"write_reg", "write_coil"} -> Job(c, Operand(1, 0), 1, <<Operand(2, 0)>>)
      [] c \in {"write_regs", "write_coils"} ->
           Job(c, Operand(1, 0), Operand(2, 0), [i \in 1 .. Following(c) |-> Operand(i + 2, 0)])
      [] c = "scan" -> Job(c, Operand(1, 1), Operand(2, 247), <<>>)
      [] c = "stress" -> Job(c, 0, Operand(1, 0), <<>>)

\* mb_scan_slaves has nothing to scan.
EmptyScan(j) == j.command = "scan" /\ j.addr > j.n

\* What is wrong with the operands ends the program with the status of the last
\* thing that went well: that the line was opened.
RunCommand ==
    /\ stage = "start" /\ command \in DOMAIN Ranges
    /\ IF ~GoodOperands(command) THEN Finish("ok") /\ UNCHANGED job
       ELSE /\ job' = LineJob(command)
            /\ IF EmptyScan(job') THEN Finish("param")
               ELSE stage' = Stage(job') /\ UNCHANGED <<phase, code>>
    /\ UNCHANGED <<program, section, lines, args, settings, command, operands, asks, found,
                   tally, acked>>

UnknownCommand ==
    /\ stage = "start" /\ command \notin DOMAIN Ranges \cup {"none", "collect"}
    /\ Finish("param")
    /\ UNCHANGED <<program, section, lines, args, settings, command, operands, job, asks, found,
                   tally, acked>>

\* collect: its operands are options, each with its value.
CollectOption(o) == {e \in CollectEntries : e.field \in DOMAIN CollectOptions
                                            /\ CollectOptions[e.field] = o[1]}

RunCollect ==
    /\ stage = "start" /\ command = "collect"
    /\ LET E(i) == CHOOSE e \in CollectOption(operands[i]) : TRUE
           good == \A i \in DOMAIN operands :
                     CollectOption(operands[i]) # {} /\ Accepts(E(i), operands[i][2])
           ofField(f) == {i \in DOMAIN operands : E(i).field = f} IN
       IF ~good THEN Finish("ok") /\ UNCHANGED <<job, settings>>
       ELSE /\ settings' = WholeFile([f \in DOMAIN settings |->
                 IF ofField(f) = {} THEN settings[f]
                 ELSE Stored(E(Max(ofField(f))), operands[Max(ofField(f))][2])])
            /\ job' = Job("collect", 0, 0, <<>>) /\ stage' = Stage(job')
            /\ UNCHANGED <<phase, code>>
    /\ UNCHANGED <<program, section, lines, args, command, operands, asks, found, tally, acked>>
-----------------------------------------------------------------------------
(* The requests *)

Slave == settings["slave"][2]

\* What mb_submit_and_wait may return: a broadcast is not answered and reads
\* nothing, an address above 247 is refused by libmodbus, and no slave answers a
\* read of nothing.
Answers(slave, reads, n) ==
    CASE slave = 0 -> IF reads THEN {"error"} ELSE {"ok", "error", "io"}
      [] slave > 247 -> {"error"}
      [] reads /\ n = 0 -> {"exception", "error", "io"}
      [] OTHER -> {"ok", "exception", "error", "io"}

Ask(c, slave, a, n, vs, answer) ==
    asks' = Append(asks, [command |-> c, slave |-> slave, addr |-> a, n |-> n,
                          values |-> vs, answer |-> answer])

\* A slip: an exception is only reported.
ResultOrException(answer) == IF answer = "exception" THEN "ok" ELSE answer
Result(answer) == answer

Request ==
    /\ stage = "request"
    /\ \E a \in Answers(Slave, job.command \in Reads, job.n) :
         /\ Ask(job.command, Slave, job.addr, job.n, job.values, a)
         /\ Finish(Result(a))
    /\ UNCHANGED <<program, section, lines, args, settings, command, operands, job, found,
                   tally, acked>>

\* mb_scan_slaves: who answers at all is found; a fault of the line ends the scan.
Heard == {"ok", "exception"}
NextId == job.addr + Len(asks)

ScanOn ==
    /\ stage = "scan" /\ NextId <= job.n
    /\ \E a \in Answers(NextId, TRUE, 1) \ {"io"} :
         /\ Ask("read_holding", NextId, 0, 1, <<>>, a)
         /\ found' = IF a \in Heard THEN found + 1 ELSE found
    /\ UNCHANGED <<startVars, job, stage, tally, acked>>

ScanFault ==
    /\ stage = "scan" /\ NextId <= job.n
    /\ Ask("read_holding", NextId, 0, 1, <<>>, "io")
    /\ Finish("io")
    /\ UNCHANGED <<program, section, lines, args, settings, command, operands, job, found,
                   tally, acked>>

\* A slip: the last slave is left out.
ScanDoneEarly ==
    /\ stage = "scan" /\ NextId >= job.n
    /\ Finish("ok")
    /\ UNCHANGED <<program, section, lines, args, settings, command, operands, job, asks, found,
                   tally, acked>>

ScanDone ==
    /\ stage = "scan" /\ NextId > job.n
    /\ Finish("ok")
    /\ UNCHANGED <<program, section, lines, args, settings, command, operands, job, asks, found,
                   tally, acked>>
-----------------------------------------------------------------------------
(* run_stress: a loop writes eight registers, reads them and the slave's count
   of writes back, sets a coil and reads it back. *)

More(f) == tally' = [tally EXCEPT ![f] = @ + 1]
Quiet == UNCHANGED <<startVars, job, asks, found>>

StressBegin ==
    /\ job.command = "stress" /\ stage = "wait" /\ tally.loops < MaxRounds
    /\ More("loops") /\ stage' = "mailbox"
    /\ UNCHANGED acked /\ Quiet

InLoop == stage \in {"mailbox", "echo", "coil", "coils"}

\* A slip: an exception counts as an error as well.
StressExceptionTwice ==
    /\ InLoop
    /\ tally' = [tally EXCEPT !.exc = @ + 1, !.err = @ + 1]
    /\ stage' = "wait" /\ UNCHANGED acked /\ Quiet

StressException ==
    /\ InLoop /\ "exception" \in Answers(Slave, stage \in {"echo", "coils"}, 1)
    /\ More("exc")
    /\ stage' = "wait" /\ UNCHANGED acked /\ Quiet

StressError ==
    /\ InLoop
    /\ More("err")
    /\ stage' = "wait" /\ UNCHANGED acked /\ Quiet

Answered == "ok" \in Answers(Slave, stage \in {"echo", "coils"}, 1)

StressWritten ==
    /\ stage \in {"mailbox", "coil"} /\ Answered
    /\ stage' = IF stage = "mailbox" THEN "echo" ELSE "coils"
    /\ UNCHANGED <<tally, acked>> /\ Quiet

\* The registers may differ, and the count may be the one of the loop before.
StressEcho ==
    /\ stage = "echo" /\ Answered
    /\ \E differs \in 0 .. 1, same \in 0 .. (IF acked THEN 1 ELSE 0) :
         tally' = [tally EXCEPT !.mismatch = @ + differs, !.ack_err = @ + same,
                                !.err = @ + differs + same]
    /\ acked' = TRUE /\ stage' = "coil"
    /\ Quiet

StressReadBack ==
    /\ stage = "coils" /\ Answered
    /\ \E differs \in 0 .. 1 :
         tally' = [tally EXCEPT !.coil_err = @ + differs, !.err = @ + differs, !.ok = @ + 1]
    /\ stage' = "wait" /\ UNCHANGED acked /\ Quiet

\* Without a duration the loop ends with the process only.
StressEnd ==
    /\ job.command = "stress" /\ stage = "wait" /\ job.n > 0
    /\ Finish(IF tally.err = 0 THEN "ok" ELSE "proto")
    /\ UNCHANGED <<program, section, lines, args, settings, command, operands, job, asks, found,
                   tally, acked>>

Stress == StressBegin \/ StressException \/ StressError \/ StressWritten \/ StressEcho
          \/ StressReadBack \/ StressEnd
-----------------------------------------------------------------------------
(* collect_read_snapshot *)

Temp == settings["temp_addr"][2]
Hum == settings["hum_addr"][2]
Device == settings["device_addr"][2]
Function == IF settings["func_code"][2] = 3 THEN "read_holding" ELSE "read_input"
ToRead == SnapshotReads(Temp, Hum, Device)

\* A request that fails ends the snapshot.
SnapshotRead ==
    /\ stage = "snapshot" /\ Len(asks) < Len(ToRead)
    /\ LET r == ToRead[Len(asks) + 1] IN
       \E a \in Answers(Slave, TRUE, r[2]) :
         /\ Ask(Function, Slave, r[1], r[2], <<>>, a)
         /\ stage' = IF a = "ok" THEN stage ELSE "failed"
    /\ UNCHANGED <<startVars, job, found, tally, acked>>

SnapshotTaken ==
    /\ stage = "snapshot" /\ Len(asks) = Len(ToRead)
    /\ stage' = "taken"
    /\ UNCHANGED <<startVars, job, asks, found, tally, acked>>

\* Whatever became of it, the next one follows (Collector), until a signal.
NextSnapshot ==
    /\ stage \in {"taken", "failed"} /\ tally.loops < MaxRounds
    /\ stage' = "snapshot" /\ asks' = <<>> /\ More("loops")
    /\ UNCHANGED <<startVars, job, found, acked>>

StopCollect ==
    /\ stage \in {"taken", "failed"}
    /\ Finish("ok")
    /\ UNCHANGED <<program, section, lines, args, settings, command, operands, job, asks, found,
                   tally, acked>>

Snapshot == SnapshotRead \/ SnapshotTaken \/ NextSnapshot \/ StopCollect
-----------------------------------------------------------------------------
Next == ReadWords \/ GiveCommand \/ OpenLine
        \/ RunConfig \/ RunCommand \/ UnknownCommand \/ RunCollect
        \/ Request \/ ScanOn \/ ScanFault \/ ScanDone \/ Stress \/ Snapshot

Spec == Init /\ [][Next]_vars
-----------------------------------------------------------------------------
(* Properties *)

\* Types; nothing is asked of the bus before the line is open or after the
\* program has ended.
TypeOK ==
    /\ program \in Programs
    /\ phase \in {"find", "file", "args", "open", "work", "exit"}
    /\ code \in 0 .. 2
    /\ stage \in {"idle", "start", "request", "scan", "wait", "mailbox", "echo", "coil", "coils",
                  "snapshot", "taken", "failed"}
    /\ stage # "idle" => phase = "work" /\ program = "framer"
    /\ found \in Nat /\ found <= Len(asks)
    /\ tally \in Tallies
    /\ acked \in BOOLEAN

\* While the command line is read, and in modbus_framer after it, every setting
\* is what was said of it last, the command line after the file; what the other
\* two work with is that, corrected.  (The comments at the head of the three
\* configuration files.)
LastWordWins ==
    LET meant == Meant
        said == [f \in DOMAIN settings |-> LastWord(f, meant)] IN
    /\ phase \in {"file", "args"} => settings = said
    /\ phase = "work" /\ program # "framer" =>
         \E serial \in {"", "cpu"} : settings = Corrected(program, said, serial)
    /\ phase \in {"open", "work"} /\ program = "framer" =>
         \A f \in DOMAIN settings \ DOMAIN CollectDefaults : settings[f] = said[f]

\* A write of the file, as the last words on its fields have it.
WordOn(c, f) == LastWord(FieldOf[c][f], Meant)[2]
GivenWrite(c, addr, values) ==
    c \in Requests \ Reads =>
        /\ \A f \in Needs[c] : LastWord(f, Meant) # Empty
        /\ addr = WordOn(c, "addr")
        /\ values = CASE c \in {"write_reg", "write_coil"} -> <<WordOn(c, "value")>>
                      [] c = "write_regs" -> WordOn(c, "values")
                      [] c = "write_coils" -> WordOn(c, "bytes")

\* A command of the file never writes what the file does not say: each address
\* and each value that is written stands in a line of its section, the last one.
NoUngivenWrite ==
    command = "none" =>
        \A i \in DOMAIN asks : GivenWrite(asks[i].command, asks[i].addr, asks[i].values)

\* modbus_framer ends with 0 after a request only when the slave has done what
\* was asked, and after no request of the file when none was made.
ZeroMeansDone ==
    phase = "exit" /\ code = 0 /\ job.command \in Requests =>
        Len(asks) = 1 /\ asks[1].answer = "ok"

\* Between two loops of the stress test every loop is counted once, as good, as
\* an exception or as an error, the comparisons that failed apart; and a test
\* that ends with 0 has no comparison that failed.
EveryLoopIsCounted ==
    job.command = "stress" =>
        /\ stage = "wait" =>
             tally.loops = tally.ok + tally.exc
                           + (tally.err - tally.mismatch - tally.ack_err - tally.coil_err)
        /\ phase = "exit" /\ code = 0 =>
             tally.mismatch + tally.ack_err + tally.coil_err = 0
             /\ tally.loops = tally.ok + tally.exc

\* A scan that ends with 0 has asked every slave of its range once, in order,
\* and found those that answered.
ScanAsksAll ==
    phase = "exit" /\ code = 0 /\ job.command = "scan" =>
        /\ [i \in DOMAIN asks |-> asks[i].slave]
             = [i \in 1 .. job.n - job.addr + 1 |-> job.addr + i - 1]
        /\ found = Cardinality({i \in DOMAIN asks : asks[i].answer \in Heard})

\* A snapshot that was taken has every register it is made of from an answer that
\* holds it, however far the registers are apart.
SnapshotIsRight ==
    stage = "taken" =>
        \A a \in Wanted(Temp, Hum, Device) :
            \E i \in DOMAIN asks : /\ asks[i].answer = "ok"
                                  /\ asks[i].addr <= a /\ a < asks[i].addr + asks[i].n
=============================================================================
