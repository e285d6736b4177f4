------------------------------ MODULE Control ------------------------------
(***************************************************************************)
(* Remote control of the board: the callback of the MQTT gateway that      *)
(* handles one message after the other, the control file it replaces, and  *)
(* the two programs that poll the file, the gateway's telemetry thread and *)
(* the collector.  The payloads are those of CtrlMessage.                  *)
(*                                                                         *)
(* Both readers look for a change in the modification time, which they     *)
(* take in seconds; the collector looks at nothing else.                   *)
(***************************************************************************)
EXTENDS CtrlMessage, FiniteSetsExt

CONSTANTS Messages,      \* what may arrive: [topic |-> ..., body |-> a payload]
          MaxMessages,   \* bound: arrivals, redeliveries included
          MaxTime,       \* bound: seconds, from 1
          MaxFaults,     \* bound: failures, lost connections and crashes
          LongTexts,     \* strings that stand for longer ones, with their lengths
          Interval,      \* cfg.telemetry_interval_ms, and the collector's cfg.interval_ms
          Records        \* the collector's cfg.max_records_per_file

ASSUME BoundsAssumption ==
    /\ MaxMessages \in Nat /\ MaxTime \in Nat \ {0} /\ MaxFaults \in Nat
    /\ Interval \in Nat /\ Records \in Nat
ASSUME MessagesAssumption ==
    \A m \in Messages : m.topic \in {"cmd", "cfg", "test"} /\ IsJson(m.body)

VARIABLES
    now,         \* the clock, in seconds
    link,        \* the connection: "down", "window" (subscribed, not flagged), "up"
    pc,          \* where mqtt_message_arrived is; "off": no gateway
    msg,         \* the message in hand
    reply,       \* the status of its response
    tmp,         \* ctrl_path.tmp as write_file_atomic left it
    file,        \* ctrl_path: contents, seconds and length
    devices,     \* what /dev/user-led and /dev/user-buzzer were last told
    due,         \* when a scheduled power action strikes, 0 for never
    tpc, tseen, tlast, interval, enable,   \* telemetry_publisher_main
    cpc, clast, cinterval, records,        \* run_collect
    arrivals, faults,                      \* the bounds, as they are used up
    \* observation only
    before,      \* file, devices and due when the message in hand arrived
    quiet,       \* a failure has gone unnoticed since
    asked,       \* settings that were written into a control file
    blind        \* the collector could not read the file it has seen last

gateway == <<link, pc, msg, reply>>
effects == <<file, devices, due>>
telemetry == <<tpc, tseen, tlast, interval, enable>>
collector == <<cpc, clast, cinterval, records>>
observed == <<before, quiet, asked>>
vars == <<now, gateway, tmp, effects, telemetry, collector, arrivals, faults,
          observed, blind>>

NoSettings == [f \in {} |-> 0]

\* What each message is taken for.
Commands == [m \in {k \in Messages : k.topic = "cmd"} |-> Command(m.body)]
Saved == [m \in {k \in Messages : k.topic = "cfg" /\ k.body # NoObject} |-> Merge(m.body)]
NoFile == [settings |-> NoSettings, at |-> NoSettings, stamp |-> 0, size |-> 0,
           cut |-> FALSE, earlier |-> {}]
NoMessage == [topic |-> "none", body |-> NoObject]
NoEffects == <<NoFile, [d \in {"led", "buzzer"} |-> 0], 0>>

Fails == faults > 0 /\ faults' = faults - 1
-----------------------------------------------------------------------------
(* The control file *)

Order == <<"interval_ms", "records_per_file", "func", "temp_addr", "hum_addr",
           "device_addr", "slave", "baud", "data_bits", "stop_bits", "file_kb",
           "total_kb", "timeout_ms", "retries", "device_id", "dir", "dev", "parity",
           "temp_signed", "telemetry_enable", "rs485", "debug">>

Place(f) == CHOOSE i \in 1 .. Len(Order) : Order[i] = f

Scales == {1, 10, 100, 1000, 10000, 100000, 1000000}

Digits(n) == IF n = 0 THEN 1 ELSE Cardinality({d \in Scales : d <= n})

Letters(s) == IF s \in DOMAIN LongTexts THEN LongTexts[s] ELSE Len(s)

Width(v) == CASE v[1] = "num" -> IF v[2] < 0 THEN 2 ELSE Digits(v[2])
              [] v[1] = "bool" -> IF v[2] THEN 4 ELSE 5
              [] v[1] = "str" -> Letters(v[2]) + 2

\* cJSON_PrintUnformatted: {"name":value,...}
Length(c, F) == MapThenSumSet(LAMBDA f : Len(f) + 4 + Width(c[f]), F)

Size(c) == 1 + Length(c, DOMAIN c)

\* put_object_item: a member stays where it was first put, in the order in which
\* merge_ctrl_fields goes through the objects of the message and their fields.
FirstLayer(o, f) ==
    CHOOSE i \in 1 .. 4 : /\ \E p \in Places(o, f) : p[1] = i
                          /\ \A p \in Places(o, f) : p[1] >= i

Ahead(o, f) ==
    {g \in Given(o) : \/ FirstLayer(o, g) < FirstLayer(o, f)
                      \/ FirstLayer(o, g) = FirstLayer(o, f) /\ Place(g) < Place(f)}

\* Where in the file the values begin: the bytes before them.
Starts ==
    [m \in DOMAIN Saved |->
        [f \in Given(m.body) |->
            1 + Length(Saved[m], Ahead(m.body, f)) + Len(f) + 3]]

\* What a reader that does not parse finds in a file that ends early: the
\* fields before some place, and the one at it, with a number that may have
\* lost its last digits.
Cuts(c, at) ==
    UNION {{[g \in {h \in DOMAIN c : at[h] < at[f]} |-> c[g]]}
           \cup {[g \in {h \in DOMAIN c : at[h] <= at[f]} |->
                     IF g = f THEN <<"num", c[f][2] \div d>> ELSE c[g]] :
                    d \in {e \in Scales : /\ c[f][1] = "num" /\ c[f][2] >= 0
                                        /\ (e = 1 \/ e <= c[f][2])}} : f \in DOMAIN c}

\* The length of a file that is cut tells nobody anything.  "earlier" is there for
\* the properties only: the lengths of older versions of the same second.
Version(c, at, cut) == [settings |-> c, at |-> at, stamp |-> now, cut |-> cut,
                        size |-> IF cut THEN 0 ELSE Size(c), earlier |-> {}]
-----------------------------------------------------------------------------
(* mqtt_message_arrived *)

Respond(status) == pc' = "respond" /\ reply' = status
Handle(step) == pc' = step /\ UNCHANGED reply

\* Message in, and the decision what it is.  The broker may deliver one again.
Arrive ==
    /\ pc = "idle" /\ link # "down"
    /\ arrivals < MaxMessages /\ arrivals' = arrivals + 1
    /\ \E m \in Messages :
          /\ msg' = m
          /\ \/ m.topic = "cmd" /\ Commands[m].do = "refuse" /\ Respond("error")
             \/ m.topic = "cmd" /\ Commands[m].do = "power" /\ Handle("power")
             \/ m.topic = "cmd" /\ Commands[m].do = "set" /\ Handle("toggle")
             \/ m.topic = "cfg" /\ m.body = NoObject /\ Respond("error")
             \/ m.topic = "cfg" /\ m.body # NoObject
                /\ IF DOMAIN Saved[m] = {} THEN Respond("ignored") ELSE Handle("write")
    /\ before' = effects
    /\ UNCHANGED <<now, link, tmp, effects, telemetry, collector, faults, quiet, asked,
                   blind>>

\* print_test_down_payload only logs.
ArriveTest ==
    /\ pc = "idle" /\ link # "down"
    /\ arrivals < MaxMessages /\ arrivals' = arrivals + 1
    /\ \E m \in Messages : m.topic = "test"
    /\ UNCHANGED <<now, gateway, tmp, effects, telemetry, collector, faults, observed,
                   blind>>

\* launch_detached_shell and its "sleep 2".  What becomes of the children is
\* not looked at.
SchedulePower ==
    /\ pc = "power"
    /\ \/ due' = now + 2 /\ Respond("ok") /\ UNCHANGED <<quiet, faults>>
       \/ Fails /\ Respond("ok") /\ quiet' = TRUE /\ UNCHANGED due
       \/ Fails /\ Respond("error") /\ UNCHANGED <<due, quiet>>
    /\ UNCHANGED <<now, link, msg, tmp, file, devices, telemetry, collector, arrivals,
                   before, asked, blind>>

\* write_toggle_file: only a failing open is noticed.
Toggle ==
    /\ pc = "toggle"
    /\ \/ /\ devices' = [devices EXCEPT ![Commands[msg].device] = Commands[msg].val]
          /\ Respond("ok") /\ UNCHANGED <<quiet, faults>>
       \/ Fails /\ Respond("ok") /\ quiet' = TRUE /\ UNCHANGED devices
       \/ Fails /\ Respond("error") /\ UNCHANGED <<devices, quiet>>
    /\ UNCHANGED <<now, link, msg, tmp, file, due, telemetry, collector, arrivals,
                   before, asked, blind>>

\* Slip: the file itself is opened for writing.
WriteInPlace ==
    /\ pc = "write"
    /\ LET c == Saved[msg]  at == Starts[msg] IN
          \/ /\ tmp' = Version(c, at, FALSE) /\ file' = tmp'
             /\ pc' = "rename" /\ UNCHANGED <<reply, faults>>
          \/ /\ Fails
             /\ \E short \in Cuts(c, at) : file' = Version(short, at, TRUE)
             /\ Respond("error") /\ UNCHANGED tmp
    /\ UNCHANGED <<now, link, msg, devices, due, telemetry, collector, arrivals,
                   observed, blind>>

\* write_file_atomic up to the fclose.  A short fwrite is noticed, what fflush
\* and fclose cannot write is not.
WriteTmp ==
    /\ pc = "write"
    /\ LET c == Saved[msg]  at == Starts[msg] IN
          \/ /\ tmp' = Version(c, at, FALSE)
             /\ pc' = "rename" /\ UNCHANGED <<reply, quiet, faults>>
          \/ /\ Fails
             /\ \E short \in Cuts(c, at) : tmp' = Version(short, at, TRUE)
             /\ pc' = "rename" /\ quiet' = TRUE /\ UNCHANGED reply
          \/ Fails /\ tmp' = NoFile /\ Respond("error") /\ UNCHANGED quiet
    /\ UNCHANGED <<now, link, msg, effects, telemetry, collector, arrivals,
                   before, asked, blind>>

\* Slip: what rename returns is not looked at.
RenameUnchecked ==
    /\ pc = "rename"
    /\ tmp' = NoFile
    /\ \/ /\ file' = [tmp EXCEPT !.earlier =
                    IF file.stamp = tmp.stamp THEN file.earlier \cup {file.size} ELSE {}]
          /\ asked' = asked \cup {<<f, Saved[msg][f]>> : f \in DOMAIN Saved[msg]}
          /\ UNCHANGED faults
       \/ Fails /\ UNCHANGED <<file, asked>>
    /\ Respond("ok")
    /\ UNCHANGED <<now, link, msg, devices, due, telemetry, collector, arrivals,
                   before, quiet, blind>>

\* The new file has the times it was written at, not those of the rename.
Rename ==
    /\ pc = "rename"
    /\ tmp' = NoFile
    /\ \/ /\ file' = [tmp EXCEPT !.earlier =
                    IF file.stamp = tmp.stamp THEN file.earlier \cup {file.size} ELSE {}]
          /\ asked' = asked \cup {<<f, Saved[msg][f]>> : f \in DOMAIN Saved[msg]}
          /\ Respond("ok") /\ UNCHANGED faults
       \/ Fails /\ Respond("error") /\ UNCHANGED <<file, asked>>
    /\ UNCHANGED <<now, link, msg, devices, due, telemetry, collector, arrivals,
                   before, quiet, blind>>

\* publish_command_response, publish_config_response: without the flag
\* mqtt_publish_json gives up and the response is lost.
Answer ==
    /\ pc = "respond"
    /\ pc' = "idle"
    /\ msg' = NoMessage /\ reply' = "none"
    /\ before' = NoEffects /\ quiet' = FALSE
    /\ UNCHANGED <<now, link, tmp, effects, telemetry, collector, arrivals, faults,
                   asked, blind>>

Callback == SchedulePower \/ Toggle \/ WriteTmp \/ Rename \/ Answer

\* The main loop connects, subscribes and sets the flag.
Connect ==
    /\ pc # "off"
    /\ \/ link = "down" /\ link' = "window"
       \/ link = "window" /\ link' = "up"
    /\ UNCHANGED <<now, pc, msg, reply, tmp, effects, telemetry, collector, arrivals,
                   faults, observed, blind>>

LoseLink ==
    /\ Fails
    /\ link # "down"
    /\ link' = "down"
    /\ UNCHANGED <<now, pc, msg, reply, tmp, effects, telemetry, collector, arrivals,
                   observed, blind>>
-----------------------------------------------------------------------------
(* telemetry_publisher_main and reload_ctrl_overrides *)

Setting(f, name) == Member(f.settings, name)

\* Slip: only while the telemetry is enabled.
TelemetryStatEnabled ==
    /\ tpc = "poll" /\ enable
    /\ file.stamp # 0 /\ tlast # <<file.stamp, file.size>>
    /\ tseen' = <<file.stamp, file.size>>
    /\ tpc' = "read"
    /\ UNCHANGED <<now, gateway, tmp, effects, tlast, interval, enable, collector,
                   arrivals, faults, observed, blind>>

\* stat, against what was read last.
TelemetryStat ==
    /\ tpc = "poll"
    /\ file.stamp # 0 /\ tlast # <<file.stamp, file.size>>
    /\ tseen' = <<file.stamp, file.size>>
    /\ tpc' = "read"
    /\ UNCHANGED <<now, gateway, tmp, effects, tlast, interval, enable, collector,
                   arrivals, faults, observed, blind>>

GoodInterval(n) == 500 <= n /\ n <= 3600000

\* The settings of a text that parses.
TakeSettings ==
    LET i == Setting(file, "interval_ms")  e == Setting(file, "telemetry_enable") IN
    /\ interval' = IF i[1] = "num" /\ GoodInterval(i[2]) THEN i[2] ELSE interval
    /\ enable' = IF e[1] = "bool" THEN e[2] ELSE enable

\* Slip: a text that does not parse counts as read, as far as it goes.
TelemetryReadAnything ==
    /\ tpc = "read"
    /\ tlast' = tseen /\ TakeSettings
    /\ tpc' = "poll"
    /\ UNCHANGED <<now, gateway, tmp, effects, tseen, collector, arrivals, faults,
                   observed, blind>>

\* TELEMETRY_CTRL_FILE_BUFFER_SIZE, less the NUL: what it reads of a file.
TelemetryBuffer == 4095

\* The file is read, perhaps a newer one than stat saw, and remembered under what
\* stat saw; a text that does not parse, or not within the buffer, is read again
\* at the next poll.
TelemetryRead ==
    /\ tpc = "read"
    /\ IF file.cut \/ file.size > TelemetryBuffer THEN UNCHANGED <<tlast, interval, enable>>
       ELSE tlast' = tseen /\ TakeSettings
    /\ tpc' = "poll"
    /\ UNCHANGED <<now, gateway, tmp, effects, tseen, collector, arrivals, faults,
                   observed, blind>>

TelemetryReadFails ==
    /\ Fails
    /\ tpc = "read"
    /\ tpc' = "poll"
    /\ UNCHANGED <<now, gateway, tmp, effects, tseen, tlast, interval, enable, collector,
                   arrivals, observed, blind>>
-----------------------------------------------------------------------------
(* run_collect and apply_ctrl_file *)

\* stat, and the time counts as seen before the file is opened.
CollectorStat ==
    /\ cpc = "poll"
    /\ file.stamp # 0 /\ clast # file.stamp
    /\ clast' = file.stamp
    /\ cpc' = "read"
    /\ blind' = FALSE
    /\ UNCHANGED <<now, gateway, tmp, effects, telemetry, cinterval, records, arrivals,
                   faults, observed>>

\* What it reads of a file.
CollectorBuffer == 511

\* strstr finds the name first as the text of another setting.
Hidden(name) ==
    \E g \in DOMAIN file.settings :
        file.settings[g] = <<"str", name>> /\ file.at[g] < file.at[name]

\* json_find_int looks for the name in the text, whether it parses or not, and
\* takes the digits of its number that are in the buffer: the new value of a
\* setting, or the old one.
Found(name, old) ==
    LET v == Setting(file, name)
        room == CollectorBuffer - file.at[name]
        Read == {k \in {v[2] \div d : d \in Scales} :
                    /\ k > 0
                    /\ \/ k = v[2] /\ Digits(k) <= room
                       \/ Digits(v[2]) > room /\ Digits(k) = room}
    IN  IF v[1] # "num" \/ Hidden(name) \/ Read = {} THEN {old} ELSE Read

\* Slip: the file is remembered by the time of the reading.
CollectorReadNow ==
    /\ cpc = "read"
    /\ cinterval' \in Found("interval_ms", cinterval)
    /\ records' \in Found("records_per_file", records)
    /\ clast' = now
    /\ cpc' = "poll"
    /\ UNCHANGED <<now, gateway, tmp, effects, telemetry, arrivals, faults, observed,
                   blind>>

CollectorRead ==
    /\ cpc = "read"
    /\ cinterval' \in Found("interval_ms", cinterval)
    /\ records' \in Found("records_per_file", records)
    /\ cpc' = "poll"
    /\ UNCHANGED <<now, gateway, tmp, effects, telemetry, clast, arrivals, faults,
                   observed, blind>>

CollectorReadFails ==
    /\ Fails
    /\ cpc = "read"
    /\ cpc' = "poll"
    /\ blind' = TRUE
    /\ UNCHANGED <<now, gateway, tmp, effects, telemetry, clast, cinterval, records,
                   arrivals, observed>>
-----------------------------------------------------------------------------
(* Processes and time *)

GatewayEnds ==
    /\ link' = "down" /\ pc' = "off" /\ msg' = NoMessage /\ reply' = "none"
    /\ tpc' = "off" /\ tseen' = <<0, 0>> /\ tlast' = <<0, 0>>
    /\ interval' = Interval /\ enable' = TRUE
    /\ before' = NoEffects /\ quiet' = FALSE

CollectorEnds == cpc' = "off" /\ clast' = 0 /\ cinterval' = Interval /\ records' = Records

\* Killed, at any point; a tmp file stays behind.
KillGateway ==
    /\ Fails
    /\ pc # "off"
    /\ GatewayEnds
    /\ UNCHANGED <<now, tmp, effects, collector, arrivals, asked, blind>>

KillCollector ==
    /\ Fails
    /\ cpc # "off"
    /\ CollectorEnds
    /\ UNCHANGED <<now, gateway, tmp, effects, telemetry, arrivals, observed, blind>>

\* The power action, two seconds after it was scheduled, answered or not.
PowerOff ==
    /\ due # 0 /\ now >= due
    /\ due' = 0
    /\ GatewayEnds /\ CollectorEnds
    /\ UNCHANGED <<now, tmp, file, devices, arrivals, faults, asked, blind>>

Start ==
    \/ /\ pc = "off"
       /\ pc' = "idle" /\ tpc' = "poll"
       /\ UNCHANGED <<now, link, msg, reply, tmp, effects, tseen, tlast, interval,
                      enable, collector, arrivals, faults, observed, blind>>
    \/ /\ cpc = "off"
       /\ cpc' = "poll"
       /\ UNCHANGED <<now, gateway, tmp, effects, telemetry, clast, cinterval, records,
                      arrivals, faults, observed, blind>>

Tick ==
    /\ now < MaxTime
    /\ now' = now + 1
    /\ UNCHANGED <<gateway, tmp, effects, telemetry, collector, arrivals, faults,
                   observed, blind>>

Init ==
    /\ now = 1
    /\ link = "down" /\ pc = "off" /\ msg = NoMessage /\ reply = "none"
    /\ tmp = NoFile /\ file = NoFile
    /\ devices = [d \in {"led", "buzzer"} |-> 0]
    /\ due = 0
    /\ tpc = "off" /\ tseen = <<0, 0>> /\ tlast = <<0, 0>>
    /\ interval = Interval /\ enable = TRUE
    /\ cpc = "off" /\ clast = 0 /\ cinterval = Interval /\ records = Records
    /\ arrivals = 0 /\ faults = MaxFaults
    /\ before = NoEffects
    /\ quiet = FALSE /\ asked = {} /\ blind = FALSE

Next == \/ Arrive \/ ArriveTest \/ Callback \/ Connect \/ LoseLink
        \/ TelemetryStat \/ TelemetryRead \/ TelemetryReadFails
        \/ CollectorStat \/ CollectorRead \/ CollectorReadFails
        \/ KillGateway \/ KillCollector \/ PowerOff \/ Start \/ Tick

\* The threads are scheduled and a reading sooner or later succeeds.
Fairness == /\ WF_vars(Callback) /\ WF_vars(TelemetryStat \/ TelemetryRead)
            /\ WF_vars(CollectorStat \/ CollectorRead)

Spec == Init /\ [][Next]_vars
FairSpec == Spec /\ Fairness
-----------------------------------------------------------------------------
(* Properties *)

IsVersion(v) == /\ DOMAIN v.settings \subseteq DOMAIN Fields
                /\ \A f \in DOMAIN v.settings : IsValue(v.settings[f])
                /\ v.stamp \in 0 .. MaxTime /\ v.cut \in BOOLEAN

\* Every variable has a value of its kind, and the callback is where its message
\* takes it.
TypeOK ==
    /\ now \in 1 .. MaxTime
    /\ link \in {"down", "window", "up"}
    /\ pc \in {"off", "idle", "power", "toggle", "write", "rename", "respond"}
    /\ reply \in {"none", "ok", "ignored", "error"}
    /\ IsVersion(tmp) /\ IsVersion(file)
    /\ (pc = "rename" => tmp.stamp # 0)
    /\ devices \in [{"led", "buzzer"} -> {0, 1}]
    /\ due \in 0 .. MaxTime + 2
    /\ tpc \in {"off", "poll", "read"} /\ (tpc = "off" <=> pc = "off")
    /\ interval \in Nat /\ enable \in BOOLEAN
    /\ cpc \in {"off", "poll", "read"}
    /\ clast \in 0 .. MaxTime /\ cinterval \in Nat /\ records \in Nat
    /\ faults \in 0 .. MaxFaults /\ arrivals \in 0 .. MaxMessages

\* A message that is not answered "ok" has left the control file, the devices and
\* a pending power action as they were when it arrived, at whichever of the steps
\* of its handling it failed.
NoEffectWithoutOk ==
    pc = "respond" /\ reply # "ok" =>
        /\ <<file, devices>> = <<before[1], before[2]>>
        /\ due = before[3]

\* "ok" means that the control file is what the message asked for, or that the
\* device or the power action has been seen to, unless a failure that the code
\* does not look at came in between.
OkIsTrue ==
    pc = "respond" /\ reply = "ok" /\ ~quiet =>
        IF msg.topic = "cfg"
        THEN ~file.cut /\ file.settings = Saved[msg]
        ELSE IF Action(msg.body) \in PowerNames THEN due # 0
        ELSE devices[Commands[msg].device] = Commands[msg].val

\* Wherever the gateway is killed, and whichever call fails, the control file is
\* replaced as a whole, by a file that was written to its end or whose writing
\* failed unnoticed.
FileIsReplacedWhole == [][file' = file \/ ~file'.cut \/ quiet]_vars

AskedFor(name, type, v) == \E s \in asked : s[1] = name /\ s[2][1] = type /\ s[2][2] = v

\* The telemetry thread runs with settings that it was configured with or that
\* one message asked for, also when the control file breaks off in a number.
TelemetryRunsAsAsked ==
    /\ interval = Interval \/ AskedFor("interval_ms", "num", interval)
    /\ enable \/ AskedFor("telemetry_enable", "bool", enable)

Heeded(n, v) == Setting(file, n)[1] = "num" => v = Setting(file, n)[2]

\* A number that is in the buffer to its last digit, and whose name is not taken
\* for another setting's text before it.
InReach(n) == /\ Setting(file, n)[1] = "num"
              /\ ~Hidden(n)
              /\ file.at[n] + Width(Setting(file, n)) <= CollectorBuffer

\* In the end the collector runs with what the control file says, cut or not.
\* It misses a file for two reasons only: its reading failed, or an older version
\* has been written in the same second.  In a file that it does not miss it misses
\* a setting only when it is not in reach.
CollectorCatchesUp ==
    <>[](\/ cpc = "off" \/ blind \/ file.earlier # {}
         \/ /\ InReach("interval_ms") => Heeded("interval_ms", cinterval)
            /\ InReach("records_per_file") => Heeded("records_per_file", records))

\* In the end the telemetry thread runs with what the control file says, failed
\* readings, restarts and a time in which it was disabled notwithstanding, unless
\* the file is cut, is longer than its buffer, or an older version of the same
\* second has the same length.
TelemetryCatchesUp ==
    <>[](\/ tpc = "off" \/ file.cut \/ file.size > TelemetryBuffer
         \/ file.size \in file.earlier
         \/ /\ GoodInterval(Setting(file, "interval_ms")[2]) =>
                  Heeded("interval_ms", interval)
            /\ Setting(file, "telemetry_enable")[1] = "bool" =>
                  enable = Setting(file, "telemetry_enable")[2])
=============================================================================
