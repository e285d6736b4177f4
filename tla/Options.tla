------------------------------ MODULE Options ------------------------------
(***************************************************************************)
(* What the configuration files and the command lines of the three         *)
(* programs may say: the entries that modbus_apply_config_entry,           *)
(* mqtt_apply_config_entry and http_apply_config_entry know, the options   *)
(* that the three main functions know, and what becomes of a value.        *)
(*                                                                         *)
(* A text is a pair of its kind and its contents: a number, a word for a   *)
(* truth value, a list of numbers, or some other string.  Names are as     *)
(* demo_config_name_eq compares them, in lower case, with "_" for "-",     *)
(* "." and " ".                                                            *)
(***************************************************************************)
EXTENDS Integers, Sequences

\* One function laid over another, and a function with another value at x.
Over(f, g) == [x \in DOMAIN f \cup DOMAIN g |-> IF x \in DOMAIN f THEN f[x] ELSE g[x]]
With(s, x, v) == [y \in DOMAIN s \cup {x} |-> IF y = x THEN v ELSE s[y]]

\* Words and what each of them means.
Same(ws) == [w \in ws |-> w]
NoWords == Same({})

Entry(ss, ks, f, t, lo, hi, scale, ws) ==
    [sections |-> ss, keys |-> ks, field |-> f, type |-> t,
     lo |-> lo, hi |-> hi, scale |-> scale, words |-> ws]
Whole(ss, ks, f, lo, hi) == Entry(ss, ks, f, "int", lo, hi, 1, NoWords)
KiB(ss, ks, f, hi) == Entry(ss, ks, f, "int", 1, hi, 1024, NoWords)
List(ss, ks, f, hi, n) == Entry(ss, ks, f, "list", 0, hi, n, NoWords)
Word(ss, ks, f, ws) == Entry(ss, ks, f, "word", 0, 0, 1, ws)
Bool(ss, ks, f) == Entry(ss, ks, f, "bool", 0, 0, 1, NoWords)
Text(ss, ks, f) == Entry(ss, ks, f, "text", 0, 0, 1, NoWords)
Real(ss, ks, f) == Entry(ss, ks, f, "real", 0, 0, 1, NoWords)

TestTypes == Over(Same({"int", "float", "bool", "string", "json"}),
                  [integer |-> "int", double |-> "float", boolean |-> "bool", text |-> "string"])
TestPatterns == Over(Same({"fixed", "inc", "dec"}), [increase |-> "inc", decrease |-> "dec"])
TailFormats == Same({"auto", "text", "json", "xml"})
CommandNames == Same({"read_holding", "read_input", "write_reg", "write_regs", "read_coils",
                      "write_coil", "write_coils", "scan", "stress", "collect"})

LineSections == {"", "serial", "common"}
LineEntries ==
    {Text(LineSections, {"dev", "port"}, "dev"),
     Whole(LineSections, {"baud"}, "baud", 1, 4000000),
     Word(LineSections, {"parity"}, "parity", Same({"N", "E", "O"})),
     Whole(LineSections, {"data_bits"}, "data_bits", 7, 8),
     Whole(LineSections, {"stop_bits"}, "stop_bits", 1, 2),
     Bool(LineSections, {"rs485", "rs485_enable"}, "rs485"),
     Bool(LineSections, {"debug"}, "debug"),
     Whole(LineSections, {"slave"}, "slave", 1, 247),
     Word(LineSections, {"command"}, "command", CommandNames),
     Word({"command"}, {"name", "cmd"}, "command", CommandNames)}

\* What a command has settings for, and their names.
FieldOf ==
    [read_holding |-> [addr |-> "read_holding.addr", qty |-> "read_holding.qty"],
     read_input |-> [addr |-> "read_input.addr", qty |-> "read_input.qty"],
     read_coils |-> [addr |-> "read_coils.addr", qty |-> "read_coils.qty"],
     write_reg |-> [addr |-> "write_reg.addr", value |-> "write_reg.value"],
     write_coil |-> [addr |-> "write_coil.addr", value |-> "write_coil.value"],
     write_regs |-> [addr |-> "write_regs.addr", values |-> "write_regs.values"],
     write_coils |-> [addr |-> "write_coils.addr", n_bits |-> "write_coils.n_bits",
                      bytes |-> "write_coils.bytes"],
     scan |-> [start |-> "scan.start", end |-> "scan.end"],
     stress |-> [duration_s |-> "stress.duration_s"]]

RequestEntries ==
    {Whole({c}, {"addr"}, FieldOf[c].addr, 0, 65535) :
             c \in {"read_holding", "read_input", "write_reg", "write_regs", "read_coils",
                    "write_coil", "write_coils"}}
    \cup {Whole({"read_holding"}, {"qty"}, "read_holding.qty", 1, 125),
          Whole({"read_input"}, {"qty"}, "read_input.qty", 1, 125),
          Whole({"read_coils"}, {"qty"}, "read_coils.qty", 1, 2000),
          Whole({"write_reg"}, {"value", "val"}, "write_reg.value", 0, 65535),
          Bool({"write_coil"}, {"value", "val"}, "write_coil.value"),
          List({"write_regs"}, {"values"}, "write_regs.values", 65535, 123),
          Whole({"write_coils"}, {"n_bits"}, "write_coils.n_bits", 1, 1968),
          List({"write_coils"}, {"bytes"}, "write_coils.bytes", 255, 246)}

LoopEntries ==
         {Whole({"scan"}, {"start"}, "scan.start", 1, 247),
          Whole({"scan"}, {"end"}, "scan.end", 1, 247),
          Whole({"scan"}, {"timeout_ms"}, "scan.timeout_ms", 1, 60000),
          Whole({"stress"}, {"duration_s"}, "stress.duration_s", 0, 86400),
          Whole({"stress"}, {"interval_ms"}, "stress.interval_ms", 0, 10000),
          Real({"stress"}, {"seed"}, "stress.seed"),
          Whole({"stress"}, {"report_s"}, "stress.report_s", 1, 3600)}

CollectEntries ==
    LET collect == {"collect"} IN
         {Whole(collect, {"interval_ms", "telemetry_interval_ms"}, "interval_ms", 10, 600000),
          Text(collect, {"dir", "out_dir", "data_dir"}, "out_dir"),
          Text(collect, {"device_id"}, "device_id"),
          Text(collect, {"ctrl_file", "ctrl_path"}, "ctrl_path"),
          KiB(collect, {"file_kb"}, "max_file_bytes", 10240),
          KiB(collect, {"total_kb"}, "max_total_bytes", 10240),
          Whole(collect, {"records_per_file"}, "max_records_per_file", 1, 100000),
          Whole(collect, {"func", "func_code"}, "func_code", 3, 4),
          Whole(collect, {"temp_addr"}, "temp_addr", 0, 65535),
          Whole(collect, {"hum_addr"}, "hum_addr", 0, 65535),
          Whole(collect, {"device_addr"}, "device_addr", -1, 65535),
          Bool(collect, {"temp_signed"}, "temp_signed"),
          Whole(collect, {"timeout_ms"}, "timeout_ms", 1, 60000),
          Whole(collect, {"retries"}, "retries", 0, 100)}

MqttSections == {"", "mqtt", "common"}
MqttEntries ==
    LET tail == {"tail", "tailer"}  telemetry == {"telemetry"}  test == {"test"} IN
    {Text(MqttSections, {k}, k) : k \in {"broker", "client_id", "device_id", "username", "password",
                                 "cafile"}}
    \cup {Whole(MqttSections, {"keepalive", "keepalive_s"}, "keepalive_s", 1, 3600),
          Bool(MqttSections, {"clean_session"}, "clean_session"),
          Text(MqttSections, {"ctrl_file", "ctrl_path"}, "ctrl_path"),
          Bool(MqttSections, {"ssl", "ssl_enable"}, "ssl_enable"),
          Bool(MqttSections, {"ssl_insecure"}, "ssl_insecure"),
          Text(MqttSections, {"cert", "certfile"}, "certfile"),
          Text(MqttSections, {"key", "keyfile"}, "keyfile"),
          Bool(tail, {"enable", "tail_enable"}, "tail_enable"),
          Text(tail, {"data_dir"}, "data_dir"),
          Text(tail, {"data_ext"}, "data_ext"),
          Word(tail, {"format", "tail_format"}, "tail_format", TailFormats),
          Whole(tail, {"poll_ms", "tail_poll_ms"}, "tail_poll_ms", 1, 3600000),
          Whole(tail, {"idle_ms", "tail_idle_ms"}, "tail_idle_ms", 1, 3600000),
          Bool(telemetry, {"enable", "telemetry_enable"}, "telemetry_enable"),
          Whole(telemetry, {"interval_ms", "telemetry_interval_ms"}, "telemetry_interval_ms",
              1, 3600000),
          Text(telemetry, {"disk_path", "telemetry_disk_path"}, "telemetry_disk_path"),
          Text(telemetry, {"temp_path", "telemetry_temp_path"}, "telemetry_temp_path"),
          Bool(test, {"enable", "test_mode"}, "test_mode"),
          Whole(test, {"interval_ms", "test_interval_ms"}, "test_interval_ms", 1, 3600000),
          Word(test, {"type", "test_type"}, "test_type", TestTypes),
          Word(test, {"pattern", "test_pattern"}, "test_pattern", TestPatterns),
          Text(test, {"value", "test_value"}, "test_value"),
          Real(test, {"step", "test_step"}, "test_step")}

HttpSections == {"", "http", "common"}
HttpEntries ==
    LET test == {"test"} IN
    {Text(HttpSections, {k}, k) : k \in {"dir", "url", "device_id", "bad_dir"}}
    \cup {Whole(HttpSections, {"interval_s"}, "interval_s", 1, 86400),
          Whole(HttpSections, {"http_timeout_ms", "timeout_ms"}, "http_timeout_ms", 100, 600000),
          Whole(HttpSections, {"http_retries", "retries"}, "http_retries", 0, 100),
          Whole(HttpSections, {"http_backoff_ms", "backoff_ms"}, "http_backoff_ms", 0, 600000),
          KiB(HttpSections, {"max_file_kb"}, "max_file_bytes", 102400),
          KiB(HttpSections, {"max_total_kb"}, "max_total_bytes", 102400),
          Whole(HttpSections, {"stable_age_s"}, "stable_age_s", 0, 86400),
          Text(HttpSections, {"log", "log_path"}, "log_path"),
          Text(HttpSections, {"state", "state_file", "done_file", "sent_file"}, "state_path"),
          Bool(HttpSections, {"http_insecure"}, "http_insecure"),
          Bool(HttpSections, {"test_mode"}, "test_mode"),
          Bool(test, {"enable", "test_mode"}, "test_mode"),
          Whole(test, {"interval_s", "test_interval_s"}, "test_interval_s", 1, 86400),
          Word(test, {"type", "test_type"}, "test_type", TestTypes),
          Word(test, {"pattern", "test_pattern"}, "test_pattern", TestPatterns),
          Text(test, {"value", "test_value"}, "test_value"),
          Real(test, {"step", "test_step"}, "test_step")}

Entries == [framer |-> LineEntries \cup RequestEntries \cup LoopEntries \cup CollectEntries,
            mqtt |-> MqttEntries, http |-> HttpEntries]

\* A number is also a list of one.
AsList(v) == IF v[1] = "num" THEN <<v[2]>> ELSE v[2]

\* demo_config_parse_long, parse_cfg_bool01, parse_u16_csv and the like
Accepts(e, v) ==
    CASE e.type = "int" -> v[1] = "num" /\ v[2] \in e.lo .. e.hi
      [] e.type = "bool" -> v[1] = "bool" \/ (v[1] = "num" /\ v[2] \in 0 .. 1)
      [] e.type = "word" -> v[1] = "str" /\ v[2] \in DOMAIN e.words
      [] e.type = "real" -> v[1] = "num"
      [] e.type = "list" -> /\ v[1] \in {"num", "list"}
                            /\ Len(AsList(v)) \in 1 .. e.scale
                            /\ \A i \in 1 .. Len(AsList(v)) : AsList(v)[i] \in e.lo .. e.hi
      [] e.type = "text" -> TRUE

Stored(e, v) ==
    CASE e.type = "int" -> <<"num", v[2] * e.scale>>
      [] e.type = "bool" /\ v[1] = "num" -> <<"bool", v[2] = 1>>
      [] e.type = "word" -> <<"str", e.words[v[2]]>>
      [] e.type = "list" -> <<"list", AsList(v)>>
      [] OTHER -> v
-----------------------------------------------------------------------------
(* Command lines *)

\* How an option takes its text: as it is, through atoi, as a truth value
\* through atoi, as a word with a fallback, or not at all; "byte" is atoi cut to
\* eight bits.
Option(n, f, t) == [name |-> n, field |-> f, type |-> t, fallback |-> "", words |-> NoWords]
OneOf(n, f, ws, w) == [name |-> n, field |-> f, type |-> "word", fallback |-> w, words |-> ws]

FramerOptions ==
    {Option("-d", "dev", "text"), Option("-b", "baud", "atoi"),
     Option("-p", "parity", "text"), Option("-D", "data_bits", "atoi"),
     Option("-S", "stop_bits", "atoi"), Option("--rs485", "rs485", "flag"),
     Option("-v", "debug", "flag"), Option("-a", "slave", "byte")}

MqttOptions ==
    {Option("--broker", "broker", "text"), Option("--ssl", "ssl_enable", "flag"),
     Option("--cafile", "cafile", "text"), Option("--cert", "certfile", "text"),
     Option("--key", "keyfile", "text"), Option("--ssl-insecure", "ssl_insecure", "flag"),
     Option("--client-id", "client_id", "text"), Option("--device-id", "device_id", "text"),
     Option("--username", "username", "text"), Option("--password", "password", "text"),
     Option("--keepalive", "keepalive_s", "atoi"),
     Option("--clean-session", "clean_session", "switch"),
     Option("--ctrl-file", "ctrl_path", "text"),
     Option("--tail-enable", "tail_enable", "switch"),
     Option("--data-dir", "data_dir", "text"), Option("--data-ext", "data_ext", "text"),
     OneOf("--tail-format", "tail_format", TailFormats, "auto"),
     Option("--tail-poll-ms", "tail_poll_ms", "atoi"),
     Option("--tail-idle-ms", "tail_idle_ms", "atoi"),
     Option("--telemetry-enable", "telemetry_enable", "switch"),
     Option("--telemetry-interval-ms", "telemetry_interval_ms", "atoi"),
     Option("--telemetry-disk-path", "telemetry_disk_path", "text"),
     Option("--telemetry-temp-path", "telemetry_temp_path", "text"),
     Option("--test-mode", "test_mode", "switch"),
     OneOf("--test-type", "test_type", TestTypes, "int"),
     OneOf("--test-pattern", "test_pattern", TestPatterns, "fixed"),
     Option("--test-value", "test_value", "text"), Option("--test-step", "test_step", "real"),
     Option("--test-interval-ms", "test_interval_ms", "atoi")}

HttpOptions ==
    {Option("--dir", "dir", "text"), Option("--url", "url", "text"),
     Option("--device-id", "device_id", "text"), Option("--interval-s", "interval_s", "atoi"),
     Option("--http-timeout-ms", "http_timeout_ms", "atoi"),
     Option("--http-retries", "http_retries", "atoi"),
     Option("--http-backoff-ms", "http_backoff_ms", "atoi"),
     Option("--max-file-kb", "max_file_bytes", "kib"),
     Option("--max-total-kb", "max_total_bytes", "kib"),
     Option("--stable-age-s", "stable_age_s", "atoi"), Option("--bad-dir", "bad_dir", "text"),
     Option("--log", "log_path", "text"), Option("--state-file", "state_path", "text"),
     Option("--http-insecure", "http_insecure", "flag"), Option("--test-mode", "test_mode", "flag"),
     OneOf("--test-type", "test_type", TestTypes, "int"),
     OneOf("--test-pattern", "test_pattern", TestPatterns, "fixed"),
     Option("--test-value", "test_value", "text"), Option("--test-step", "test_step", "real"),
     Option("--test-interval-s", "test_interval_s", "atoi")}

\* The options of the collect command take what its entries of the file take.
CollectOptions ==
    [interval_ms |-> "--interval-ms", out_dir |-> "--dir", device_id |-> "--device-id",
     max_file_bytes |-> "--file-kb", max_records_per_file |-> "--records-per-file",
     max_total_bytes |-> "--total-kb", func_code |-> "--func", temp_addr |-> "--temp-addr",
     hum_addr |-> "--hum-addr", device_addr |-> "--device-addr",
     temp_signed |-> "--temp-signed"]

ProgramOptions == [framer |-> FramerOptions, mqtt |-> MqttOptions, http |-> HttpOptions]

\* atoi, as far as the beginning of the text is a number
Atoi(v) == IF v[1] = "num" THEN v[2] ELSE 0

\* (size_t)atoi(text) * 1024: a negative number is an immense one.  It is kept as
\* -1, more than any size there is.
Kib(n) == IF n < 0 THEN -1 ELSE n * 1024

Converted(o, v) ==
    CASE o.type \in {"atoi", "real"} -> <<"num", Atoi(v)>>
      [] o.type = "byte" -> <<"num", Atoi(v) % 256>>
      [] o.type = "kib" -> <<"num", Kib(Atoi(v))>>
      [] o.type = "switch" -> <<"bool", Atoi(v) # 0>>
      [] o.type = "flag" -> <<"bool", TRUE>>
      [] o.type = "word" -> IF v[1] = "str" /\ v[2] \in DOMAIN o.words
                          THEN <<"str", o.words[v[2]]>> ELSE <<"str", o.fallback>>
      [] o.type = "text" -> v

-----------------------------------------------------------------------------
(* What a setting is when nobody sets it, and what main makes of it at last. *)

Num(r) == [f \in DOMAIN r |-> <<"num", r[f]>>]
Str(r) == [f \in DOMAIN r |-> <<"str", r[f]>>]
Flags(r) == [f \in DOMAIN r |-> <<"bool", r[f]>>]

CollectDefaults ==
    Over(Over(Str([out_dir |-> "./data", device_id |-> "modbus_framer",
                   ctrl_path |-> "/tmp/modbus_framer_ctrl.json"]),
              Num([interval_ms |-> 1000, timeout_ms |-> 1000, retries |-> 2,
                   max_file_bytes |-> 200 * 1024, max_total_bytes |-> 1024 * 1024,
                   max_records_per_file |-> 20, func_code |-> 4, temp_addr |-> 0, hum_addr |-> 1,
                   device_addr |-> 2])),
         Flags([temp_signed |-> FALSE]))

LoopDefaults ==
    [f \in {"scan.start", "scan.end", "scan.timeout_ms", "stress.duration_s",
            "stress.interval_ms", "stress.seed", "stress.report_s"} |->
        <<"num", CASE f = "scan.start" -> 1 [] f = "scan.end" -> 247 [] f = "scan.timeout_ms" -> 50
                   [] f = "stress.interval_ms" -> 20 [] f = "stress.report_s" -> 5
                   [] OTHER -> 0>>]

LineDefaults ==
    Over(Over(Str([dev |-> "/dev/ttyS1", parity |-> "E"]),
              Num([baud |-> 115200, data_bits |-> 8, stop_bits |-> 1, slave |-> 1])),
         Flags([rs485 |-> FALSE, debug |-> FALSE]))

MqttDefaults ==
    Over(Over(Str([broker |-> "tcp://127.0.0.1:1883", client_id |-> "gw001", device_id |-> "gw001",
                   username |-> "", password |-> "", cafile |-> "", certfile |-> "", keyfile |-> "",
                   ctrl_path |-> "/tmp/modbus_framer_ctrl.json",
                   data_dir |-> "/userdata/modbus_data", data_ext |-> "",
                   tail_format |-> "auto", telemetry_disk_path |-> "/",
                   telemetry_temp_path |-> "", test_type |-> "int", test_pattern |-> "fixed",
                   test_value |-> "0"]),
              Num([keepalive_s |-> 30, tail_poll_ms |-> 200, tail_idle_ms |-> 3000,
                   telemetry_interval_ms |-> 5000, test_interval_ms |-> 1000, test_step |-> 1])),
         Flags([clean_session |-> TRUE, ssl_enable |-> FALSE, ssl_insecure |-> FALSE,
                tail_enable |-> TRUE, telemetry_enable |-> TRUE, test_mode |-> FALSE]))

HttpDefaults ==
    Over(Over(Str([dir |-> "./data", url |-> "http://47.100.112.208:8080/ingest",
                   device_id |-> "http_uploader", bad_dir |-> "", log_path |-> "",
                   state_path |-> "", test_type |-> "int", test_pattern |-> "fixed",
                   test_value |-> "0"]),
              Num([interval_s |-> 5, http_timeout_ms |-> 5000, http_retries |-> 3,
                   http_backoff_ms |-> 500, stable_age_s |-> 3, max_file_bytes |-> 10 * 1024 * 1024,
                   max_total_bytes |-> 4 * 1024 * 1024, test_interval_s |-> 1, test_step |-> 1])),
         Flags([http_insecure |-> FALSE, test_mode |-> FALSE]))

Defaults == [framer |-> Over(CollectDefaults, Over(LoopDefaults, LineDefaults)),
             mqtt |-> MqttDefaults, http |-> HttpDefaults]

\* What main makes of a setting that is too small, after all else.
Floors == [framer |-> <<>>,
           mqtt |-> [keepalive_s |-> 5, tail_poll_ms |-> 50, tail_idle_ms |-> 500,
                     telemetry_interval_ms |-> 500, test_interval_ms |-> 200],
           http |-> [interval_s |-> 1, test_interval_s |-> 1, http_timeout_ms |-> 100,
                     http_retries |-> 0, stable_age_s |-> 0]]

\* What stands in for an empty text.
StandIns == [framer |-> <<>>,
              mqtt |-> [ctrl_path |-> "/tmp/modbus_framer_ctrl.json",
                        telemetry_disk_path |-> "/"],
              http |-> [bad_dir |-> "<dir>/bad_data",
                        log_path |-> "/var/log/http_uploader_demo.log",
                        state_path |-> "/var/log/http_uploader_demo.sent"]]
=============================================================================
