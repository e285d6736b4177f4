------------------------------ MODULE MCControl ------------------------------
(* Instances of Control for TLC. *)
EXTENDS Control, TLC

Num(n) == <<"num", n>>
Str(s) == <<"str", s>>
Obj(o) == <<"obj", o>>

Cmd(o) == [topic |-> "cmd", body |-> o]
Cfg(o) == [topic |-> "cfg", body |-> o]

MCLongTexts == "485 letters" :> 485 @@ "4100 letters" :> 4100

\* Two settings of the same length; one of another, with a second one behind a text
\* that is its name; the switch of the telemetry; an interval of which the collector
\* reads two digits, in a file that is too long for the telemetry thread; and
\* messages that say nothing.
MCMessages ==
    {Cfg("interval_ms" :> Num(6000)),
     Cfg("telemetry_interval_ms" :> Num(7000)),
     Cfg("port" :> Str("records_per_file")
         @@ "modbus" :> Obj("collect" :> Obj("interval_ms" :> Num(50)
                                             @@ "records_per_file" :> Num(20)))),
     Cfg("telemetry_enable" :> <<"bool", FALSE>>),
     Cfg("telemetry_enable" :> Num(1) @@ "max_records_per_file" :> Num(30)),
     Cfg("dir" :> Str("485 letters")
         @@ "collect" :> Obj("interval_ms" :> Num(8000) @@ "port" :> Str("4100 letters"))),
     Cfg("interval_ms" :> Num(0)),
     Cfg(NoObject),
     Cmd("target" :> Str("buzzer") @@ "action" :> Str("led") @@ "val" :> Num(2)),
     Cmd("action" :> Str("write") @@ "addr" :> Num(11)),
     Cmd("action" :> Str("poweroff")),
     [topic |-> "test", body |-> NoObject]}
=============================================================================
