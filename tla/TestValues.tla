----------------------------- MODULE TestValues -----------------------------
(***************************************************************************)
(* The test mode of the MQTT gateway and of the HTTP uploader: a value     *)
(* that is made up anew for every interval and sent, whether the one       *)
(* before it arrived or not.                                               *)
(*                                                                         *)
(* Numbers are exact, and counted in units of which Nano make 10^-9, the   *)
(* last decimal that is printed of a step.  A cfg holds the settings       *)
(* test_mode, test_type, test_pattern and test_step, and of the text       *)
(* test_value what strtod makes of it (value), the decimals written in it  *)
(* (places), the text itself and whether it parses as JSON.                *)
(***************************************************************************)
EXTENDS Integers

CONSTANT Nano   \* how fine the numbers are: units in 10^-9

ASSUME NanoAssumption == Nano \in Nat \ {0}

\* The last of so many decimals, in 10^-9.
Unit(places) ==
    CASE places <= 0 -> 1000000000 [] places = 1 -> 100000000 [] places = 2 -> 10000000
      [] places = 3 -> 1000000     [] places = 4 -> 100000    [] places = 5 -> 10000
      [] places = 6 -> 1000        [] places = 7 -> 100       [] places = 8 -> 10
      [] OTHER -> 1

\* decimal_scale
Grid(places) == Unit(places) * Nano

One == Grid(0)

\* "%.9f" of a number that is not negative, in 10^-9: the nearest, in the middle
\* the even one.
Printed(v) ==
    LET n == v \div Nano  rest == v % Nano IN
    IF 2 * rest > Nano \/ (2 * rest = Nano /\ n % 2 = 1) THEN n + 1 ELSE n

\* detect_decimal_places, of a number that is printed with nine decimals
PlacesOf(n) == CHOOSE p \in 0 .. 9 : /\ n % Unit(p) = 0
                                     /\ \A q \in 0 .. p - 1 : n % Unit(q) # 0

\* round_to_long_long and quantize_decimal: the nearest multiple of a unit, the
\* one further from zero in the middle.
Nearest(v, unit) == IF v >= 0 THEN ((v + unit \div 2) \div unit) * unit
                    ELSE -(((unit \div 2 - v) \div unit) * unit)

\* normalize_test_step
Step(cfg) == IF cfg.step = 0 THEN One ELSE IF cfg.step < 0 THEN -cfg.step ELSE cfg.step

\* resolve_test_decimal_places: a step that is printed as 0 has none.
Places(cfg) == LET p == PlacesOf(Printed(Step(cfg))) IN
               IF cfg.places > p THEN cfg.places ELSE p

\* parse_bool_text
TrueWords == {"1", "true", "yes", "on"}

Fresh == [ready |-> FALSE, value |-> 0]

Exact(cfg, state) == IF state.ready THEN state.value ELSE cfg.value

\* The gateway keeps floats to the decimals they were given with, the uploader
\* leaves them as they come.
Kept(program, cfg, v) ==
    IF program = "mqtt" /\ cfg.type = "float" THEN Nearest(v, Grid(Places(cfg))) ELSE v

Current(program, cfg, state) == Kept(program, cfg, Exact(cfg, state))

\* add_test_value: what is sent
Data(program, cfg, state) ==
    CASE cfg.type = "int" -> <<"num", Nearest(Exact(cfg, state), One)>>
      [] cfg.type = "float" -> <<"num", Current(program, cfg, state)>>
      [] cfg.type = "bool" -> <<"bool", cfg.text \in TrueWords>>
      [] cfg.type = "json" /\ cfg.parses -> <<"json", cfg.text>>
      [] OTHER -> <<"str", cfg.text>>

\* and what it goes on from the next time
After(program, cfg, state) ==
    IF cfg.type \notin {"int", "float"} THEN state
    ELSE [ready |-> TRUE,
          value |-> CASE cfg.pattern = "fixed" -> Exact(cfg, state)
                      [] cfg.pattern = "inc" ->
                           Kept(program, cfg, Current(program, cfg, state) + Step(cfg))
                      [] cfg.pattern = "dec" ->
                           Kept(program, cfg, Current(program, cfg, state) - Step(cfg))]

\* One payload is made and published.  When there is no memory for it the value may
\* or may not have been used up.
Try(program, cfg, state, taken) ==
    {[sent |-> IF taken THEN {Data(program, cfg, state)} ELSE {},
      state |-> After(program, cfg, state)]}
    \cup IF taken THEN {} ELSE {[sent |-> {}, state |-> state]}

\* A round of test_publisher_main; without test_mode it only waits.
TestPublisher(cfg, state, taken) ==
    IF cfg.test_mode THEN Try("mqtt", cfg, state, taken)
    ELSE {[sent |-> {}, state |-> state]}

\* send_test_payload_once: the payload may be posted several times (HttpUploader,
\* for one line), and what becomes of it is not looked at.
SendTestPayload(cfg, state, taken) == Try("http", cfg, state, taken)

Rounds(program, cfg, state, taken) ==
    IF program = "mqtt" THEN TestPublisher(cfg, state, taken)
    ELSE SendTestPayload(cfg, state, taken)
=============================================================================
