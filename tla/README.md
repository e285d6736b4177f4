# A TLA+ model of the gateway programs

Three programs run side by side on the gateway and meet only in the file system:

```
 RTU slaves <--serial--> modbus_framer --data_*.jsonl--> mqtt_gateway_demo --MQTT--> broker
                              ^      \                        |  ^
                              |       \--data_*.jsonl--> http_uploader_demo --HTTP--> server
                              +------ control file <----------+  (commands, configuration)
```

`modbus_framer` reads registers and appends one record a line to the newest data
file; the MQTT tailer and the HTTP uploader each read the files with a memory of
their own (the done list; the sent-state file); configuration messages from the
broker are saved to a control file which the collector and the telemetry thread poll.

## Inventory

| Part (source) | State | Operations | What is hard | What makes it correct |
|---|---|---|---|---|
| Modbus core (`modbus_framer_core.c`, `modbus_framer.h`) | ring of request pointers, `running`, per request `done`/`status`, the worker's loop variables, the port | submit (async / and wait), wait, poll, cleanup; worker: pop, attempt, reconnect, complete; start, shutdown | several callers, one worker, one condition variable for both directions; timeouts against completions; retries and reconnects; shutdown at any moment | no request lost, duplicated or left dangling; FIFO; the status is that of the last exchange; nothing answered is repeated; waits end |
| Register codec, timers, scan (same file) | none | `mb_u32_*`, `pack_bits`, `calc_modbus_timers`, `mb_scan_slaves` | word orders, zero and overflow at the edges | inverse functions, bounds |
| Collector (`modbus_framer_cli.c`) | open file, its size and record count, sequence number, configuration, mtime of the control file | read, append, rotate, apply control file, stop | failed writes and rotations, equal mtimes, restarts in the same second | every record in one file, one writer a file, updates applied |
| MQTT connection (`mqtt_gateway_mqtt.c`, `mqtt_gateway_demo.c`) | `mqtt_connected`, `mqtt_lock`, the library's session, backoff, `g_running` | connect and subscribe, loss callback, publish, message callback, signal, join, shutdown | callbacks between two critical sections, a lock held during slow calls | the flag follows the session, losses are repaired, the process ends |
| Publishers (`mqtt_gateway_telemetry.c`) | interval and enable flag with their control-file overrides | telemetry, network, test value, online heartbeat | one thread for heartbeat and telemetry | the heartbeat goes on |
| Tailer (`mqtt_gateway_tailer.c`) | current file, offset, stability, done list | scan, open, publish lines, finish | a writer behind it, publishing that fails, torn lines, crashes | every record at least once, no file blocks the rest |
| Commands and control file (`mqtt_gateway_mqtt.c`, `mqtt_gateway_modbus.c`) | control file | power action, toggle, save configuration, answer | executing and answering are two steps; the file is replaced as a whole | one answer a command; updates are not lost |
| Uploader (`http_uploader_demo.c`) | sent-state file, the directory | scan, prune, post line by line, discard a bad file, save the state | crashes between post and save, failures at every step, the collector writing | recorded means delivered or bad; order; progress |
| Configuration and start (`demo_config.h` and the three `main`s) | the settings | load the file, apply an entry, take an option, correct | three vocabularies, file against command line, what is refused and what is corrected | the last word counts |
| Commands of modbus_framer (`modbus_framer_cli.c`) | the job, the counters of a stress test | one request, scan, stress, collect | fields that nobody gave, a fault in the middle, several failures in one loop | nothing is written that was not given, the exit status is true |
| Test modes (`mqtt_gateway_telemetry.c`, `http_uploader_demo.c`) | the last value | next value | rounding against the step | the values go one way, and on |
| cJSON, logging, Makefiles | - | - | - | vendored or without state of interest |

The hazards of each part are listed, with their lines, in `PROJECT.json`.

## Modules

| Module | Models | Kind |
|---|---|---|
| `RequestService` | what the Modbus core promises: a FIFO service | abstract specification |
| `ModbusCore` | the core: callers, ring, worker, context | detailed specification |
| `MCModbusCore`, `ModbusCore_proofs` | its instances; eight theorems | model, proofs |
| `RegCodec` | register pairs, packed coils, line timers, the registers of a snapshot | calculations |
| `Options` | entries of the configuration files, options, defaults, corrections | tables |
| `Startup` (extends `Options`) | configuration file, command line, corrections of the three programs | specification |
| `Framer` (extends `Startup`, `RegCodec`) | the commands of modbus_framer, from its first word to its exit status | specification |
| `MCFramer`, `Startup_proofs`, `Framer_proofs` | its instance; lemmas about the settings; eleven theorems about the commands, the settings and the codec | model, proofs |
| `Collector` | the collector's files: records, rotation, failures, restarts | component |
| `Tailer` (extends `Collector`) | the MQTT tailer, next to the collector that writes its files | composition |
| `MCTailer`, `Tailer_proofs` | its instances; five theorems | model, proofs |
| `CtrlMessage` | what a command or a configuration message is taken for | calculations |
| `Control` (extends `CtrlMessage`) | message callback, control file, and the two programs that poll it | composition |
| `MCControl`, `Control_proofs` | its instance; five theorems | model, proofs |
| `MqttLink` | the MQTT connection shared by main, publishers and callbacks | specification |
| `MCMqttLink`, `MqttLink_proofs` | its instances; four theorems | model, proofs |
| `HttpUploader` | the uploader with the collector's files around it | specification |
| `MCHttpUploader`, `HttpUploader_proofs` | its instances; four theorems | model, proofs |
| `FileOrder` | the order of the uploader's files, and its record written and read | calculations |
| `TestValues` | the values of the two test modes | calculations |
| `Calculations_proofs` | eight theorems about `FileOrder` and `TestValues` | proofs |

Operators whose comment starts with "Slip" (or "A slip") are wrong variants of the
operator they stand before, kept to show that the properties notice the mistake.

### ModbusCore

A critical section under `queue.m` or `r->m` is one action. Waiting on a condition
variable is a state (`pushWait`, `popWait`, `sleep`, `tsleep`) left by a broadcast,
a timeout or a spurious wake-up, after which the section is entered again; that
producers and the worker share `queue.cv` is visible in `WokenCallers` and
`WokenWorker`. `pc[r]` is where the caller of request object `r` is. A caller of
`mb_submit_and_wait` is `Submit; Push; Wait; Cleanup`; `mb_submit_async` with
`mb_request_wait`/`mb_request_is_done` interleaves freely. `wpc`, `cur`, `attempt`,
`finalRc`, `tries` are the locals of `io_thread_main` and `mb_reconnect`.
`RequestResult` is `do_libmodbus_request` with `map_libmodbus_error`: a function from
the kind of request and what libmodbus came back with (a member of `Replies`: an
amount, or an errno class) to a status. `exchanges` and `last` only observe what
reached the bus.

Data that no property tells apart is left out: register values, addresses, the
serial line's settings, the line timing. `AnyKind` stands for the fields of a request
object before it is filled in. A call after `mb_ctx_shutdown` has destroyed the
mutex is undefined behaviour; the model lets such a caller see `running = FALSE`.

- `Custody`: accepted and not completed means in the ring or with the worker, once.
- `ImplementsService`: the ring, seen from its head, is `RequestService`'s queue.
- `QuietAfterShutdown`: after the join nobody changes the queue, the port or a result.
- `StatusIsEarned`, `NoExchangeAfterAnswer`: what a status means; no answered request
  goes out again.
- `WaiterIsAnswered`, `ShutdownReturns`, `BlockedCallerReleased`: nobody waits for ever.

### Collector and Tailer

`Collector` is `run_collect` with `log_append`, `rotate_if_needed` and `open_new_log`.
A file is the pair of the second and the serial number in its name, and holds a number
of whole lines and perhaps a torn one. `count`, `size`, `limit`, `seq` and `cur` are
`log_state_t` and `cfg.max_records_per_file`. stdio fails where its result is
dropped (`AppendRecord`: the line is lost or torn, and counted all the same) and where it
is looked at (`OpenFileFails`). `RotateWithoutFile` is the rotation after a rotation that
failed: `fileno(NULL)`, modelled as the end of the process, which is what it is on the
libraries the program is built with.

`Tailer` adds `file_tailer_main`. `tpc` is where the loop is: `scan` (`collect_files` and
the choice, `Pick`), `open` (`tail_file_open`), `stat`, `line`, `end`; between any two of
them the collector may write, rotate, stop or be killed. The directory itself is read in one
moment. `hand` is `tail_file_t`. The result of a publication is a choice, which is all
that the tailer sees of `MqttLink`. The done list is in memory (`done`) and on disk
(`doneFile`); the second survives. Reading it may fail and so may the append (their results
are dropped in the code): `StartTailerMisses` starts with any part of the list, with
nothing of it when it cannot be opened, and `MarkDone` enters a name in both, one or none.
`missed` are the names on disk that the running process may not know of. `taken`, `shared`
and `missed` only observe. The list of an older version of the program
(`legacy_done_path`), which is read and never written, and a name that is only partly
written are left out.

- `OffsetIsEarned`, `DoneIsEarned`, `DoneIsNotRepublished`: at least once, in order, and
  not again after the done list. A process that could not read a name of the list, or keep
  it in memory, does publish that file again, once; the property leaves out exactly those
  names (`missed \ done`) and holds of every other. `DoneIsEarned` has to leave out `shared` files, which
  the collector had open after the tailer did: that is finding 5.
- `FilesStayShort`: a limit on records bounds a file through reopened names, lost flushes
  and changes of the limit, by one fileful for each process.
- `NoCollectingWithoutFile`: a collector without a file does not go on for ever.
- `BacklogSettles`: every file but the newest gets done, or one that ends in a torn line
  stands in the way.

### CtrlMessage and Control

`CtrlMessage` is what `parse_local_command`, `json_get_boolish` and `merge_ctrl_fields`
make of a message; JSON values are pairs of a type and a value. `Control` is the
callback that executes one message (`pc`: `power`, `toggle`, `write`, `rename`,
`respond`), the file (`file`, `tmp`) and its two readers: `TelemetryStat`,
`TelemetryRead` (`reload_ctrl_overrides`) and `CollectorStat`, `CollectorRead`
(`apply_ctrl_file`). Both compare modification times in seconds, the telemetry
thread the size too; so that two versions of one second differ or not, a version
carries its length (`size`) and the lengths it replaced within its second (`earlier`).
A short write is not noticed by `write_file_atomic` and leaves a file that
is cut anywhere, a number included (`Cuts`): the collector scans the text for its
fields and takes what is there, the telemetry thread rejects it as no JSON.

What the readers see of a file depends on how long it is. The collector reads
511 bytes (`CollectorBuffer`), the telemetry thread 4095 (`TelemetryBuffer`), and
`merge_ctrl_fields` copies texts of any length. A version therefore carries the place
in the file at which each value begins (`at`): members stand in the order in which they were
first put (`FirstLayer`, `Ahead`, `Starts`), so that a long `dir` at the top of a message
stands before an `interval_ms` of its `modbus` object. `Found` is `json_find_int`: nothing when the
name is beyond the buffer, the first digits when the number is across its end, nothing
too when the quoted name is there before as the text of another setting (`Hidden`). A file
longer than the other buffer does not parse, and is read again at every poll.
`LongTexts` gives the lengths of the strings that stand for long ones.

- `NoEffectWithoutOk`, `OkIsTrue`: the answer and the effect belong together.
- `FileIsReplacedWhole`, `TelemetryRunsAsAsked`: the readers never see a mixture.
- `CollectorCatchesUp`, `TelemetryCatchesUp`: both end up with the last version, except
  for the reasons the properties name. The collector misses a file after a second
  version within the second or one failed reading, because it notes the time of a
  file before it reads it; and a setting that does not end within its 511 bytes or is
  hidden (`InReach`). The telemetry thread misses a file that is cut, has more than 4095
  bytes, or has the length of an older version of the same second.

### Options, Startup and Framer

`Options` holds the tables: sections, keys, ranges and words of each entry
(`*_apply_config_entry`), how each option converts its text (`atoi` among them),
defaults, and what each `main` corrects at last (`Floors`, `StandIns`). The
settings are a function from names to values: `With` sets one, `Over` lays the defaults
of a collector over them. `FieldOf` names the settings of a command (`modbus_file_cfg_t`).
`Startup` reads a file line by line and a command line from left to right, choosing both
as it goes; a malformed line, an unknown key or a bad value ends the program. That a key
has one entry, so that the order of the `if`s in the code does not matter, is evaluated in
`MCFramer` (`OneEntryEach`). `Framer`
goes on with what modbus_framer does: `RunConfig` (a command of the file), `RunCommand`
and `RunCollect` (of the command line), then `Request`, the scan, the stress loop
or a snapshot, each request with any answer the slave and the line may give.

- `LastWordWins`: over all entries, options and corrections.
- `NoUngivenWrite`: a write command of the file writes what lines of its section say.
- `ZeroMeansDone`, `ScanAsksAll`, `EveryLoopIsCounted`: exit status and counters are true.
- `SnapshotIsRight`: the registers are covered wherever they are, although the quantity is
  computed in 16 bits: 0 and 65535 together ask for nothing, which no slave answers.

### FileOrder and TestValues

Calculations without state of their own, on all inputs: `compare_file_order` and the
sent-state line with and without a date; `add_test_value` of both programs, with the
rounding of the one and the lack of it in the other. A number is counted in units of which
`Nano` make 10^-9, so that steps may be finer than the nine decimals that the gateway prints of
them (`Printed`, which rounds as `%.9f` does) to find the decimals it keeps: a step of
10^-10 is printed as 0, has no decimals and is rounded away. Arithmetic is exact; that a
`double` holds some 16 digits, and what a cast to `long long` makes of a number
beyond its range, is left out.

### MqttLink

The lock is modelled where it is held over something slow: `lock = "main"` while
`MQTTClient_connect` runs (`connecting`) and in the last section of `main`. Short
sections are single actions with the guard `lock = NoThread`. `mqtt_publish_json` has
three steps (`PublishCheck`, `PublishSend`, `PublishAwait`), taken by any thread.
`session` and `lossPending` are the library's: a loss takes the session down and one
call of `mqtt_connection_lost` follows. Topics, payloads and QoS are left out. The code
after the offline status in `main` has no action: with the session up it is not reached.

- `FlagFollowsSession`: with the session up the flag refuses nobody, outside the
  window between connecting and setting it.
- `LossForgottenOnlyAtSubscribe`: the only step that can end in "flag set, session
  down, no callback to come".
- `ShownLossIsRepaired`, `SignalEndsThreads`: progress of main and of the publishers.

### HttpUploader

Files are numbers in the order of their names. That this is an order, whatever the names
and dates, is `FileOrder`'s subject; that it is the order of creation
(`data_<local time>_<seq>`) is an assumption: the clock does not step back.
A file is a sequence of lines, each good JSON or torn; sizes count lines. `made` is the
collector's open file, older ones are complete: `NewFile` and `AppendLine` are what
`open_new_log` and `log_append` leave on disk. `mark` is the name in the sent-state file
(`NoFile` when it is absent or empty). Each scan reads it (`LoadRecord`), and a file that
cannot be opened, or whose name cannot be placed in the order, counts as no record: the code
goes on, with a warning at most. `upload_once` is cut where a crash, a failure or
the collector can come between: `Scan` (list and choose), `Prune` and `Relist`, `Open`,
one action per posted line and attempt, `Discard`, and the truncation and the write of
the state file. `Crash` forgets everything but the disk. A failed post may have been
stored by the server (`Accepted` in `PostFail`).

- `RecordIsEarned`: the recorded file was accepted to its last line, or was bad.
- `LinesInOrder`: no line before the lines above it.
- `RecordIsRespected`: every attempt to post a line (`PostOk`, `PostFail`), whether the
  server has the line already or not, is for a file after the record that stands. That is the
  name last saved or read (`kept`), and none once the state file has lost it or a
  reading has failed; it moves on or is lost, never back. It is the state file that
  bounds repetition: after a loss of the record, a failed reading or a crash before it is written, files
  are posted again.
- `LastCompleteFileSettles`: the uploader does not sit on the newest complete file.

## Runs

| Run | Instance | Shows |
|---|---|---|
| `core_safety` | 3 callers, ring of 2, no retries, 2 bus fates, symmetric | types, custody, refinement, quiet after shutdown |
| `core_liveness` | 2 callers, ring of 1, a read with one retry and two broadcasts, 4 bus fates, 2 reconnects | statuses, no repetition, progress |
| `core_stranded` | 2 callers, ring of 1 | violated: see Findings |
| `link` | 2 publishers with 2 messages a round, backoff 1, 2, 4 | flag, losses, progress |
| `link_loss`, `link_shutdown` | the same | violated: see Findings |
| `uploader` | 3 files, 5 lines in all; 3 lines are too large a file, 4 lines too large a directory; 1 retry | all uploader properties; the calculations of `FileOrder` and `TestValues` on small sets |
| `uploader_skips` | 3 files, 3 lines, no limits | violated: see Findings |
| `pipeline` | 3 seconds, 2 processes, 2 files, 2 lines, 2 failures; one record a file, 2 by the control file | all properties of collector and tailer |
| `sent` | the same with 3 files and 3 lines | violated: see Findings |
| `control` | 12 messages of which 2 arrive, two with long texts or hidden names, 3 seconds, 1 failure or crash | all properties of `Control` |
| `framer` | the three programs; up to 4 words of file and command line, 2 rounds of a loop | all properties of `Startup` and `Framer` |

Why the bounds are enough. Three callers and two slots give a full ring with a
blocked caller, a wrapped index and two threads woken by one broadcast; two callers and
one slot do so with retries, where the state is larger. One retry and two reconnect
attempts separate first, middle and last attempt. Two publishers and the callback thread
let one thread act between the sections of another while a third waits; the backoff takes its
first, a middle and its last value. Three files are the least with a newest file, a
candidate and one that is passed over; five lines let one file exceed `MaxFile`,
and the directory exceed `MaxTotal`, while others are in order. In `pipeline` there
are the newest file, which may still grow, and one behind it, which nothing writes to; two
processes of the collector can open the same name within a second, two failures let a
rotation fail and its process die, or a write fail and a publication be refused; a file
takes two lines after the limit was raised, so that a reader stands before, between and behind
them. Two messages in `control` are the least of which one overtakes the other within the
second, with the same length or another, or is a copy of it; a third would meet a file that
one of the two has left. One message has a text of 485 letters, which puts the second of four
digits at the end of the collector's buffer, and one of 4100, which is beyond the other buffer.
`Nano` is 2 in the uploader's runs, which has steps below, at and above the last decimal printed,
and 1 for the sets of ordinary steps. The four words of `framer` give an entry in the wrong section, a
field given twice or missing, a file and a command line that contradict each other. What goes
beyond these sizes is the theorems' part.

`CHECK_DEADLOCK FALSE` everywhere: each of these systems may stop (a context that is shut
down, a process that has ended or hangs, an uploader with nothing to collect, a clock at
its bound).

The bounds in guards: `RoundMax` (messages in a round), `FileCount` and `LineCount`
(what the collector writes for `HttpUploader`); `MaxTime`, `MaxSeq`, `MaxStarts`,
`MaxFiles`, `MaxLines`, `MaxFaults` (`Collector`); `MaxMessages`, `MaxTime`, `MaxFaults`
(`Control`); `MaxWords`, `MaxBefore`, `MaxRounds` (`Startup`, `Framer`). Nothing else is
capped. In the last second of `Collector` nothing is written, so that the tailer is seen
with files that have become idle.

## Fairness

- `ModbusCore`: weak fairness of the worker, of the join, and of a caller's push and
  wait, which is what the scheduler and a mutex that is held only briefly give.
  Nobody has to submit, to time out or to shut down. Spurious wake-ups are not fair.
- `MqttLink`: weak fairness of main and of the publishers' loops. Steps that take
  the lock are strongly fair: main holds it during a connection attempt but sleeps
  without it between two attempts, so a waiting thread finds it free again and again.
  `ConnectOk` is strongly fair: the broker does not refuse every attempt for ever;
  without that nothing can be repaired. The library delivers the loss callback.
- `HttpUploader`: weak fairness of the uploader's steps, and `Recover`: failures,
  crashes and too recent files come to an end. The collector need not write.
- `Tailer`: the clock runs, and both loops are scheduled. Failures are finitely many
  (`MaxFaults`), and nothing makes one happen or a process start again.
- `Control`: the callback, and a poll of each reader. A reading that fails uses up
  a fault; nobody has to send, to fail or to restart.

## Findings

1. `core_stranded`. `io_thread_main` leaves when `running` is cleared, with requests
   still queued; callers in `mb_request_wait(r, -1)` are never woken, although
   the comment of `mb_ctx_shutdown` says that every blocked thread is.
2. `link_loss`. A connection lost between `MQTTClient_connect` and
   `mqtt_connected = true` is overwritten and never repaired: the program believes it is
   connected, no callback follows and `main` does not connect again.
3. `link_shutdown`. `main` publishes the offline status while it holds the lock that
   publishing takes: with the broker connected, a signal makes it wait for itself.
4. `uploader_skips`. A file whose upload failed is "retried later" only until a newer
   file is complete; then it falls behind the record.
5. `sent`. The only file of the directory is taken up when it has been idle for a
   while, although the collector has it open, and is then taken for complete at its end
   at once. What is appended to it later is never published, although the log and the
   comment at that line say that the file was sent.

## What is proved

For every value of the constants, from the named assumptions next to them (capacity and
limits are numbers, sets of threads are disjoint, the null values are not members):

- `ModbusCore_proofs`. `TypeCorrect` is inductive as it stands. `Custody` is not: it needs
  `Phases`, which ties the program counters of worker and controller to
  `running`, `cur` and the port, and facts about the occupied slots of a ring that grows
  at its tail and shrinks at its head (`OccupiedPush`, `OccupiedPop`). On that
  invariant rest `QuietAfterShutdownHolds` and `Refinement`: a push appends to the
  abstract queue, a pop takes its head, a completion gives the verdict, everything else
  stutters. `StatusIsEarnedHolds` and `NoExchangeAfterAnswerHolds` add
  `CurrentEarns`, what the worker's counters say of the request in hand before an
  attempt, after one and at completion, and `Untouched` for requests it has not met.
- `MqttLink_proofs`. `FlagFollowsSession` becomes inductive with `ClearedFlagIsRight`: a
  cleared flag outside the connection window means a session that is down with its
  loss delivered, and main connects only with the flag cleared.
  `LossForgottenHolds` follows from it step by step.
- `HttpUploader_proofs`. `Progress` says what the uploader knows of the file in hand
  (complete, after the record, posted up to the current line, earned when it is saved).
  With `OnlyGrows` (accepted lines are not taken back, complete files do not change) and
  `RecordMoves` it makes `RecordIsEarned` and `LinesInOrder` inductive and gives
  `RecordIsRespectedHolds`: the file in hand is after the record that was read when it was
  taken (`PickTakes`), and that one stands until the file is recorded itself.
- `Tailer_proofs`. `DoneIsEarned` is not inductive: a file gets on the list by what an
  earlier `stat` saw. `PollIsRight` says what the last `stat` is worth by now (the file has
  not shrunk, and unless it is shared it is as long as it was), `DoneIsKnown` that the
  list in memory contains the one on disk, what was missed of it apart, and that the file in hand is
  not in it, and with `OffsetIsEarned` they carry it; `DoneIsNotRepublishedHolds` follows. `FilesStayShortHolds` needs `ProcessAddsOneFileful`: what this process has added to its
  file is counted in `count`, and the rest is within what earlier processes were allowed.
- `Control_proofs`. `Handled` ties the step of the callback to its message (the temporary
  file holds what the message asks for before the rename), `Untouched` says that nothing
  has happened before the step that does it, `FileIsAsked` that all a file in one piece
  says was asked for; a file that is cut is no JSON and does not get past the telemetry thread. The messages are any JSON values.
- `Startup_proofs`, `Framer_proofs`. The codec's theorems go through the division of a sum
  (`TwoBytes`) and bounds of quotients (`QuotientAtLeast`). About the commands there are four
  invariants, one on top of the other; each is assumed by the steps of the next.
  1. `IInv`: `OneRequest` follows a request from the job to the status, `LoopsCounted`
     says that the loop under way is the one that is in no counter yet. It gives
     `ZeroMeansDoneHolds` and `EveryLoopIsCountedHolds`.
  2. `Told`: while words are read, the settings are what was said last (`SaidLast`); at
     work, that with the corrections, the fields of a collector apart (`WorkedWith`). The
     induction has to follow the last place of a field through both sequences
     (`LineIsLastWord`, `OptionIsLastWord`). `KindsAreRight` adds that a field that
     modbus_framer writes or computes with came through an entry or option of its kind. It
     gives `LastWordWinsHolds`.
  3. `Typed`: `TypeOK` is not inductive, since a scan without a job, or a job in the wrong
     stage, would count what it does not have: `JobOfStage` ties the job to the stage, and `Told`
     supplies the types of what a job is made of. It gives `TypeCorrect`.
  4. `Asked`: how far a scan or a snapshot is (`ScanSoFar`, `SnapshotSoFar`: the requests
     so far are a prefix of those to be made, all answered), and that the write under way is the
     one the file says (`WriteIsGiven`), which needs `WorkedWith` and `KindsAreRight`: a
     field that is there is the last word on it, and of a kind that the empty text, which stands
     for a field that nobody gave, is not of. It gives `ScanAsksAllHolds`, `SnapshotIsRightHolds` and
     `NoUngivenWriteHolds`. That what is to be read covers the registers is
     `SnapshotAsksForAll`.

  The assumptions are that the programs are among the three (`ProgramsAssumption`), and
  that what follows a command is a sequence of words, where "none" is no command
  (`CommandLinesAssumption`). Files, command
  lines and answers are otherwise any, ill-typed ones too.
- `Calculations_proofs`. The order of the files by cases on dated names; the record's order is that of
  its name, or of the time that is written next to it. Of the test values: rounding is
  monotone and moves a number by half a unit at most (`NearestIsMonotone`, `NearestGoesOn`), which
  gives `NumbersGoOneWay` for any step. A step of 10^-9 or more is more than half of the
  last decimal kept (`StepAndDecimals`), since that decimal is taken from the step as it is printed
  and printing rounds to the nearest; so it is never rounded away (`KeptMoves`, `FloatsDiffer`). One
  of less than half of 10^-9 always is (`FinerStepIsLost`). The assumption is that `Nano` is a
  positive number (`NanoAssumption`), which is how fine the numbers are and no limit on them.

Liveness is out of the prover's reach, but the part of it that is safety is not:

- `NoWakeUpIsLostHolds` and `SomebodyWorksHolds` (`ModbusCore_proofs`) are what
  `WaiterIsAnswered`, `BlockedCallerReleased` and `ShutdownReturns` rest on besides fairness. Nobody
  sleeps on a condition that is true, and callers and worker never all sleep at once. Both
  need `Custody`'s invariant: that the count is the number of occupied slots, and that the
  request of a sleeping caller is in one of them or with the worker.
- `LockIsMainsHolds` (`MqttLink_proofs`) is what `SignalEndsThreads` rests on: the
  lock that main waits for in vain at the end (finding 3) is one that no publisher is waiting for.

Only model-checked: the liveness properties (fairness and ENABLED are outside the
prover's reach), and what the violated runs refute. Every invariant and every action
property of a passing run is also a theorem.

## Plan

Done: everything in the table of modules. Left, in the order of what it would add:

1. One directory with collector, tailer and uploader: the uploader's pruning, its bad
   directory and the tailer's open file. Each pair with the collector is modelled; the two
   readers do not know of each other.
2. The broker's side of a session: retained status, queued commands of `clean_session=0`,
   subscriptions that were refused.
3. A clock that steps back while names are made from it.

## Not modelled

- `cJSON.c`, twice: one third-party library. Its values are modelled where the code looks at
  them, its printing as the length of a file (`Digits`, `Size`).
- The online heartbeat, which the telemetry thread leaves out while `telemetry_enable` is false:
  `Control` has the thread's settings, not what it publishes.
- What telemetry reads from `/proc` and `/sys` (`read_cpu_ticks` to `collect_interfaces`) and
  the payloads made of it: pure input and formatting, without a state that outlives a round.
- The text of records, payloads and topics, log output, usage texts, TLS settings.
- Register values on the bus and their scaling, except for the codec.
- Memory and descriptors that run out, except where an error path of a modelled handler
  stands for it.
- The libraries are modelled by the outcomes the code distinguishes; that a subscription
  was refused, a message never acknowledged or a status retained is nowhere looked at by the
  code, so that no property of the programs could tell.
- Makefiles, service scripts and the logging module: no behaviour of the programs.
