----------------------------- MODULE CtrlMessage -----------------------------
(***************************************************************************)
(* What the MQTT gateway makes of a message: which command a payload on    *)
(* cmd/down is, and what a payload on config/down leaves in the control    *)
(* file.                                                                   *)
(*                                                                         *)
(* A JSON value is a pair of its type and its contents, and an object is a *)
(* function on the names of its members.  A payload is an object or        *)
(* NoObject, anything else, text that does not parse included.  Names that *)
(* the code compares without regard to case are in lower case.             *)
(***************************************************************************)
EXTENDS Integers, Sequences

CONSTANT NoObject

Member(o, k) == IF k \in DOMAIN o THEN o[k] ELSE <<"null", 0>>

\* A string member, "" when it is missing or of another type.
Text(o, k) == IF Member(o, k)[1] = "str" THEN o[k][2] ELSE ""
-----------------------------------------------------------------------------
(* Commands *)

LedNames == {"led", "set_led", "lamp", "user_led"}
BuzzerNames == {"buzzer", "set_buzzer", "beeper", "beep"}
PowerNames == {"shutdown", "poweroff", "suspend", "sleep"}
CoilNames == {"write_coil", "write", "coil", "set_do", "do"}
OnWords == {"1", "true", "on", "yes"}
OffWords == {"0", "false", "off", "no"}

Nothing == "none"

\* resolve_named_target
Named(s) == IF s \in LedNames THEN "led"
            ELSE IF s \in BuzzerNames THEN "buzzer" ELSE Nothing

\* fill_cmd_meta: "name" is taken for a "target" that is missing.
Action(o) == Text(o, "action")
Target(o) == IF Member(o, "target")[1] = "str" THEN Text(o, "target")
             ELSE Text(o, "name")

\* The coils that the devices used to be.
Addressed(o) ==
    LET a == Member(o, "addr") IN
    IF a[1] # "num" THEN Nothing
    ELSE IF a[2] \in {0, 10} THEN "buzzer"
    ELSE IF a[2] \in {1, 11} THEN "led" ELSE Nothing

\* The target decides, then the action, then, for a coil, the address.
Device(o) ==
    IF Named(Target(o)) # Nothing THEN Named(Target(o))
    ELSE IF Named(Action(o)) # Nothing THEN Named(Action(o))
    ELSE IF Action(o) \in CoilNames THEN Addressed(o) ELSE Nothing

\* Slip: a number is taken as it is.
BoolishRaw(v) ==
    CASE v[1] = "bool" -> IF v[2] THEN 1 ELSE 0
      [] v[1] = "num" -> v[2]
      [] v[1] = "str" -> IF v[2] \in OnWords THEN 1
                         ELSE IF v[2] \in OffWords THEN 0 ELSE -1
      [] OTHER -> -1

\* json_get_boolish, -1 when the value is none.
Boolish(v) ==
    CASE v[1] = "bool" -> IF v[2] THEN 1 ELSE 0
      [] v[1] = "num" -> IF v[2] = 0 THEN 0 ELSE 1
      [] v[1] = "str" -> IF v[2] \in OnWords THEN 1
                         ELSE IF v[2] \in OffWords THEN 0 ELSE -1
      [] OTHER -> -1

Refusal(e) == [do |-> "refuse", error |-> e]

\* resolve_power_action and parse_local_command
Command(o) ==
    IF o = NoObject THEN Refusal("bad_json")
    ELSE IF Action(o) \in PowerNames THEN [do |-> "power"]
    ELSE IF Action(o) = "" THEN Refusal("missing_action")
    ELSE IF /\ Named(Target(o)) = Nothing /\ Named(Action(o)) = Nothing
            /\ Action(o) \in CoilNames /\ Member(o, "addr")[1] # "num"
         THEN Refusal("missing_addr")
    ELSE IF Device(o) = Nothing THEN Refusal("modbus_direct_control_removed")
    ELSE IF Boolish(Member(o, "val")) = -1 THEN Refusal("missing_val")
    ELSE [do |-> "set", device |-> Device(o), val |-> Boolish(Member(o, "val"))]
-----------------------------------------------------------------------------
(* The configuration *)

Number(ks, lo, hi) == [keys |-> ks, type |-> "num", lo |-> lo, hi |-> hi]
Word(ks) == [keys |-> ks, type |-> "str", lo |-> 0, hi |-> 0]
Switch(ks) == [keys |-> ks, type |-> "bool", lo |-> 0, hi |-> 0]

\* merge_ctrl_fields: what the control file may hold, under which names a
\* message may give it, later names before earlier ones.
Fields ==
    [interval_ms      |-> Number(<<"interval_ms", "telemetry_interval_ms">>, 1, 600000),
     records_per_file |-> Number(<<"records_per_file", "max_records_per_file">>, 1, 100000),
     func             |-> Number(<<"func", "func_code">>, 3, 4),
     temp_addr        |-> Number(<<"temp_addr">>, 0, 65535),
     hum_addr         |-> Number(<<"hum_addr">>, 0, 65535),
     device_addr      |-> Number(<<"device_addr">>, -1, 65535),
     slave            |-> Number(<<"slave">>, 1, 247),
     baud             |-> Number(<<"baud">>, 1, 4000000),
     data_bits        |-> Number(<<"data_bits">>, 5, 8),
     stop_bits        |-> Number(<<"stop_bits">>, 1, 2),
     file_kb          |-> Number(<<"file_kb">>, 1, 10240),
     total_kb         |-> Number(<<"total_kb">>, 1, 10240),
     timeout_ms       |-> Number(<<"timeout_ms">>, 1, 60000),
     retries          |-> Number(<<"retries">>, 0, 100),
     device_id        |-> Word(<<"device_id">>),
     dir              |-> Word(<<"dir", "data_dir">>),
     dev              |-> Word(<<"dev", "port">>),
     parity           |-> Word(<<"parity">>),
     temp_signed      |-> Switch(<<"temp_signed">>),
     telemetry_enable |-> Switch(<<"telemetry_enable">>),
     rs485            |-> Switch(<<"rs485", "rs485_enable">>),
     debug            |-> Switch(<<"debug">>)]

\* copy_number_if_present, copy_string_if_present, copy_bool_if_present
Fits(f, v) ==
    CASE Fields[f].type = "num" -> v[1] = "num" /\ v[2] \in Fields[f].lo .. Fields[f].hi
      [] Fields[f].type = "str" -> v[1] = "str" /\ v[2] # ""
      [] Fields[f].type = "bool" -> v[1] \in {"bool", "num"}

Copied(f, v) == IF Fields[f].type = "bool" /\ v[1] = "num"
                THEN <<"bool", v[2] # 0>> ELSE v

Inner(o, k) == IF o # NoObject /\ Member(o, k)[1] = "obj" THEN o[k][2] ELSE NoObject

\* The objects a message is read from, the last one has the last word.
Layers(o) == <<o, Inner(o, "modbus"), Inner(Inner(o, "modbus"), "collect"),
               Inner(o, "collect")>>

\* What a value is, as far as its type goes, in each of these objects.
IsValue(v) == /\ v[1] = "num" => v[2] \in Int
              /\ v[1] = "bool" => v[2] \in BOOLEAN

IsJson(o) == \A i \in 1 .. 4 :
    Layers(o)[i] # NoObject =>
        \A k \in DOMAIN Layers(o)[i] : IsValue(Layers(o)[i][k])

Places(o, f) ==
    {p \in (1 .. 4) \X (1 .. Len(Fields[f].keys)) :
        LET layer == Layers(o)[p[1]]  key == Fields[f].keys[p[2]] IN
        layer # NoObject /\ key \in DOMAIN layer /\ Fits(f, layer[key])}

At(o, f, p) == Copied(f, Layers(o)[p[1]][Fields[f].keys[p[2]]])

Given(o) == {f \in DOMAIN Fields : Places(o, f) # {}}

\* save_ctrl_config_file, up to the writing; no field, no file.
Merge(o) ==
    [f \in Given(o) |->
        At(o, f, CHOOSE p \in Places(o, f) :
            \A q \in Places(o, f) : p[1] > q[1] \/ (p[1] = q[1] /\ p[2] >= q[2]))]
=============================================================================
