--------------------------- MODULE Startup_proofs ---------------------------
(***************************************************************************)
(* What the settings of a program are while its configuration file and its *)
(* command line are read, and what kind of value each of those of          *)
(* modbus_framer holds.                                                    *)
(***************************************************************************)
EXTENDS Startup, TLAPS, WellFoundedInduction

\* One more at the end of a sequence.
LEMMA AppendIsSequence ==
    ASSUME NEW s, IsSequence(s), NEW e
    PROVE  /\ Len(s) \in Nat /\ DOMAIN s = 1 .. Len(s)
           /\ IsSequence(Append(s, e))
           /\ DOMAIN Append(s, e) = 1 .. Len(s) + 1 /\ Len(Append(s, e)) = Len(s) + 1
           /\ \A i \in 1 .. Len(s) : Append(s, e)[i] = s[i]
           /\ Append(s, e)[Len(s) + 1] = e
<1> DEFINE S == {s[i] : i \in DOMAIN s}  t == Append(s, e)
<1>1. s \in Seq(S)
  BY DEF IsSequence
<1>2. Len(s) \in Nat /\ DOMAIN s = 1 .. Len(s)
  BY <1>1
<1>3. s \in Seq(S \cup {e})
  BY <1>1
<1> HIDE DEF S
<1>4. /\ DOMAIN t = 1 .. Len(s) + 1 /\ Len(t) = Len(s) + 1
      /\ \A i \in 1 .. Len(s) : t[i] = s[i]
      /\ t[Len(s) + 1] = e
  BY <1>3
<1>5. t \in Seq({t[i] : i \in DOMAIN t})
  <2> DEFINE R == {t[i] : i \in DOMAIN t}
  <2>1. t \in [1 .. Len(s) + 1 -> S \cup {e}]
    <3>1. t \in Seq(S \cup {e})
      BY <1>3
    <3> HIDE DEF t
    <3> QED  BY <3>1, <1>4
  <2>2. \A i \in 1 .. Len(s) + 1 : t[i] \in R
    BY <1>4
  <2> HIDE DEF t, R
  <2>3. t \in [1 .. Len(s) + 1 -> R]
    BY <2>1, <2>2
  <2> QED  BY <2>3, <1>2 DEF R
<1> QED  BY <1>2, <1>4, <1>5 DEF IsSequence

LEMMA EmptyIsSequence == IsSequence(<<>>)
  BY DEF IsSequence

\* Of some of the places of a sequence there is a last one.
LEMMA LastPlace ==
    ASSUME NEW n \in Nat, NEW S \in SUBSET (1 .. n), S # {}
    PROVE  Max(S) \in S /\ \A x \in S : x <= Max(S)
<1> DEFINE T == {n - x : x \in S}
<1>1. T \subseteq Nat /\ T # {}
  <2>1. \A x \in S : n - x \in Nat
    OBVIOUS
  <2> QED  BY <2>1
<1>2. PICK t \in T : \A y \in T : ~(<<y, t>> \in OpToRel(<, Nat))
  BY <1>1, NatLessThanWellFounded, WFMin
<1>3. \A y \in T : ~(y < t)
  BY <1>1, <1>2 DEF OpToRel
<1>4. PICK m \in S : t = n - m
  BY <1>2
<1>5. \A x \in S : m >= x
  BY <1>3, <1>4
<1> QED  BY <1>4, <1>5 DEF Max
-----------------------------------------------------------------------------
(* The last word *)

\* While the file and the command line are read every setting is what was said
\* last, and the command line comes after the file.
Said == [f \in DOMAIN settings |-> LastWord(f, Meant)]
SaidLast ==
    /\ IsSequence(lines) /\ IsSequence(args)
    /\ phase \in {"find", "file"} => args = <<>>
    /\ phase \in {"find", "file", "args"} => settings = Said

LEMMA DefaultsAreFunctions ==
    /\ MqttDefaults = [f \in DOMAIN MqttDefaults |-> MqttDefaults[f]]
    /\ HttpDefaults = [f \in DOMAIN HttpDefaults |-> HttpDefaults[f]]
<1>1. MqttDefaults = [f \in DOMAIN MqttDefaults |-> MqttDefaults[f]]
  BY DEF Over, MqttDefaults, Str, Num, Flags
<1>2. HttpDefaults = [f \in DOMAIN HttpDefaults |-> HttpDefaults[f]]
  BY DEF Over, HttpDefaults, Str, Num, Flags
<1> QED  BY <1>1, <1>2

LEMMA InitSaid == StartInit => SaidLast
<1> SUFFICES ASSUME StartInit
             PROVE  SaidLast
  OBVIOUS
<1>1. lines = <<>> /\ args = <<>> /\ settings = Defaults[program]
  BY DEF StartInit
<1>2. \A f : LastWord(f, Meant) = IF f \in DOMAIN settings THEN settings[f] ELSE Empty
  BY <1>1 DEF LastWord
<1>3. settings = [f \in DOMAIN settings |-> settings[f]]
  <2>1. program \in {"framer", "mqtt", "http"}
    BY ProgramsAssumption DEF StartInit
  <2>2. CASE program = "framer"
    BY <1>1, <2>2 DEF Defaults, Over
  <2>3. CASE program = "mqtt"
    BY <1>1, <2>3, DefaultsAreFunctions DEF Defaults
  <2>4. CASE program = "http"
    BY <1>1, <2>4, DefaultsAreFunctions DEF Defaults
  <2> QED  BY <2>1, <2>2, <2>3, <2>4
<1> QED  BY <1>1, <1>2, <1>3, EmptyIsSequence DEF SaidLast, Said

\* A line of the file is the last word on its field.
LEMMA LineIsLastWord ==
    ASSUME SaidLast, ReadEntry
    PROVE  SaidLast'
<1> PICK l \in Lines[program] :
        /\ l[1] = "entry" /\ Good(l)
        /\ lines' = Append(lines, [section |-> section, key |-> l[2], value |-> l[3]])
        /\ ApplyEntry(section, l[2], l[3])
  BY DEF ReadEntry
<1> DEFINE n == Len(lines)
           e == EntryFor(section, l[2])
<1>1. /\ phase = "file" /\ args = <<>> /\ UNCHANGED <<program, phase, args>>
      /\ settings' = With(settings, e.field, Stored(e, l[3]))
  BY DEF ReadEntry, MoreLines, SaidLast, ApplyEntry
<1>2. /\ n \in Nat /\ DOMAIN lines = 1 .. n
      /\ IsSequence(lines') /\ DOMAIN lines' = 1 .. n + 1
      /\ \A i \in 1 .. n : lines'[i] = lines[i]
      /\ lines'[n + 1] = [section |-> section, key |-> l[2], value |-> l[3]]
  BY AppendIsSequence DEF SaidLast
<1>3. \A s, k : EntryFor(s, k)' = EntryFor(s, k)
  BY <1>1 DEF EntryFor, EntriesFor
<1>4. /\ \A i \in 1 .. n : Meant[i] = EntryFor(lines[i].section, lines[i].key)
      /\ \A i \in 1 .. n + 1 : Meant'[i] = EntryFor(lines'[i].section, lines'[i].key)
  BY <1>2, <1>3 DEF Meant
<1>5. /\ \A i \in 1 .. n : Meant'[i] = Meant[i]
      /\ Meant'[n + 1] = e
  BY <1>2, <1>4
<1> HIDE DEF n, e
<1>6. ASSUME NEW f \in DOMAIN settings'
      PROVE  settings'[f] = LastWord(f, Meant)'
  <2> DEFINE L == {i \in 1 .. n : Meant[i].field = f}
             M == {i \in 1 .. n + 1 : Meant'[i].field = f}
  <2>1. LastWord(f, Meant)' = IF M # {} THEN Stored(Meant'[Max(M)], lines'[Max(M)].value)
                              ELSE IF f \in DOMAIN Defaults[program] THEN Defaults[program][f]
                              ELSE Empty
    <3>1. {i \in DOMAIN args' : args'[i][1].field = f} = {}
      BY <1>1
    <3> QED  BY <1>1, <1>2, <3>1 DEF LastWord
  <2>2. LastWord(f, Meant) = IF L # {} THEN Stored(Meant[Max(L)], lines[Max(L)].value)
                             ELSE IF f \in DOMAIN Defaults[program] THEN Defaults[program][f]
                             ELSE Empty
    BY <1>1, <1>2 DEF LastWord
  <2>3. CASE f = e.field
    <3>1. n + 1 \in M
      BY <1>2, <1>5, <2>3
    <3>2. Max(M) = n + 1
      <4>1. n + 1 \in Nat /\ M \in SUBSET (1 .. n + 1) /\ M # {}
        BY <1>2, <3>1
      <4> HIDE DEF M
      <4>2. Max(M) \in M /\ n + 1 <= Max(M)
        BY <4>1, <3>1, LastPlace
      <4>3. Max(M) \in 1 .. n + 1
        BY <4>1, <4>2
      <4> QED  BY <4>1, <4>2, <4>3
    <3> HIDE DEF M
    <3>3. LastWord(f, Meant)' = Stored(e, l[3])
      BY <1>2, <1>5, <2>1, <3>1, <3>2
    <3> QED  BY <1>1, <2>3, <3>3 DEF With
  <2>4. CASE f # e.field
    <3>1. M = L
      BY <1>2, <1>5, <2>4
    <3>2. L # {} => Max(L) \in 1 .. n
      <4>1. L \in SUBSET (1 .. n)
        OBVIOUS
      <4> HIDE DEF L
      <4> QED  BY <1>2, <4>1, LastPlace
    <3> HIDE DEF L, M
    <3>3. LastWord(f, Meant)' = LastWord(f, Meant)
      BY <1>2, <1>5, <2>1, <2>2, <3>1, <3>2
    <3>4. f \in DOMAIN settings /\ settings'[f] = settings[f]
      BY <1>1, <2>4 DEF With
    <3> QED  BY <1>1, <3>3, <3>4 DEF SaidLast, Said
  <2> QED  BY <2>3, <2>4
<1>7. settings' = [f \in DOMAIN settings' |-> settings'[f]]
  BY <1>1 DEF With
<1>8. settings' = Said'
  BY <1>6, <1>7 DEF Said
<1> QED  BY <1>1, <1>2, <1>8 DEF SaidLast

\* An option is the last word on its field.
LEMMA OptionIsLastWord ==
    ASSUME SaidLast, SetOption
    PROVE  SaidLast'
<1> PICK o \in Options, v \in Texts[program] :
        /\ args' = Append(args, <<o, v>>)
        /\ settings' = With(settings, o.field, Converted(o, v))
  BY DEF SetOption
<1> DEFINE n == Len(args)
<1>1. phase = "args" /\ UNCHANGED <<program, phase, lines>>
  BY DEF SetOption
<1>2. /\ n \in Nat /\ DOMAIN args = 1 .. n
      /\ IsSequence(args') /\ DOMAIN args' = 1 .. n + 1
      /\ \A i \in 1 .. n : args'[i] = args[i]
      /\ args'[n + 1] = <<o, v>>
  BY AppendIsSequence DEF SaidLast
<1>3. Meant' = Meant
  BY <1>1 DEF Meant, EntryFor, EntriesFor
<1> HIDE DEF n
<1>4. ASSUME NEW f \in DOMAIN settings'
      PROVE  settings'[f] = LastWord(f, Meant)'
  <2> DEFINE A == {i \in 1 .. n : args[i][1].field = f}
             B == {i \in 1 .. n + 1 : args'[i][1].field = f}
             L == {i \in DOMAIN lines : Meant[i].field = f}
             file == IF L # {} THEN Stored(Meant[Max(L)], lines[Max(L)].value)
                     ELSE IF f \in DOMAIN Defaults[program] THEN Defaults[program][f]
                     ELSE Empty
  <2>1. LastWord(f, Meant)' = IF B # {} THEN Converted(args'[Max(B)][1], args'[Max(B)][2])
                              ELSE file
    BY <1>1, <1>2, <1>3 DEF LastWord
  <2>2. LastWord(f, Meant) = IF A # {} THEN Converted(args[Max(A)][1], args[Max(A)][2])
                             ELSE file
    BY <1>2 DEF LastWord
  <2> HIDE DEF file
  <2>3. CASE f = o.field
    <3>1. n + 1 \in B
      BY <1>2, <2>3
    <3>2. Max(B) = n + 1
      <4>1. n + 1 \in Nat /\ B \in SUBSET (1 .. n + 1) /\ B # {}
        BY <1>2, <3>1
      <4> HIDE DEF B
      <4>2. Max(B) \in B /\ n + 1 <= Max(B)
        BY <4>1, <3>1, LastPlace
      <4> QED  BY <1>2, <4>1, <4>2
    <3> HIDE DEF B
    <3>3. LastWord(f, Meant)' = Converted(o, v)
      BY <1>2, <2>1, <3>1, <3>2
    <3> QED  BY <2>3, <3>3 DEF With
  <2>4. CASE f # o.field
    <3>1. A = B
      BY <1>2, <2>4
    <3>2. A # {} => Max(A) \in 1 .. n
      <4>1. A \in SUBSET (1 .. n)
        OBVIOUS
      <4> HIDE DEF A
      <4> QED  BY <1>2, <4>1, LastPlace
    <3> HIDE DEF A, B
    <3>3. LastWord(f, Meant)' = LastWord(f, Meant)
      BY <1>2, <2>1, <2>2, <3>1, <3>2
    <3>4. f \in DOMAIN settings /\ settings'[f] = settings[f]
      BY <2>4 DEF With
    <3> QED  BY <1>1, <3>3, <3>4 DEF SaidLast, Said
  <2> QED  BY <2>3, <2>4
<1>5. settings' = [f \in DOMAIN settings' |-> settings'[f]]
  BY DEF With
<1>6. settings' = Said'
  BY <1>4, <1>5 DEF Said
<1> QED  BY <1>1, <1>2, <1>6 DEF SaidLast

\* A program works with what was said last: modbus_framer with just that, but for
\* the settings of a collector, which its command line has words of its own for,
\* and the other two with what main makes of it.
WorkedWith ==
    /\ phase = "work" /\ program # "framer" =>
         \E serial \in {"", "cpu"} : settings = Corrected(program, Said, serial)
    /\ phase \in {"open", "work"} /\ program = "framer" =>
         \A f \in DOMAIN settings \ DOMAIN CollectDefaults : settings[f] = Said[f]

LEMMA CorrectedDomain ==
    ASSUME NEW p \in {"mqtt", "http"}, NEW s, NEW serial
    PROVE  DOMAIN Corrected(p, s, serial) = DOMAIN s
<1>1. \A r : DOMAIN AtLeast(p, r) = DOMAIN r
  BY DEF AtLeast
<1>2. DOMAIN Named(s, serial) = DOMAIN s
  BY DEF Named
<1> QED  BY <1>1, <1>2 DEF Corrected

\* Nothing more is said.
LEMMA SameWord ==
    ASSUME UNCHANGED <<program, lines, args>>
    PROVE  /\ Meant' = Meant
           /\ \A f : LastWord(f, Meant)' = LastWord(f, Meant)
<1>1. Meant' = Meant
  BY DEF Meant, EntryFor, EntriesFor
<1> QED  BY <1>1 DEF LastWord

LEMMA SameSaid ==
    ASSUME UNCHANGED <<program, lines, args>>, DOMAIN settings' = DOMAIN settings
    PROVE  Said' = Said
  BY SameWord DEF Said

LEMMA ReadKeepsSaid ==
    ASSUME SaidLast, WorkedWith, program \in Programs, Read
    PROVE  SaidLast' /\ WorkedWith'
<1>1. CASE ReadEntry
  BY <1>1, LineIsLastWord DEF ReadEntry, MoreLines, WorkedWith
<1>2. CASE SetOption
  BY <1>2, OptionIsLastWord DEF SetOption, WorkedWith
<1>3. CASE FindConfig \/ ReadSection \/ RejectLine \/ EndOfFile \/ UnknownOption \/ Help
  <2>1. /\ phase \in {"find", "file", "args"}
        /\ phase' \in {"find", "file", "args", "exit"}
        /\ phase = "args" => phase' \in {"args", "exit"}
        /\ UNCHANGED <<program, lines, args, settings>>
    BY <1>3 DEF FindConfig, ReadSection, RejectLine, EndOfFile, UnknownOption, Help, MoreLines,
                Exit
  <2>2. Said' = Said
    BY <2>1, SameSaid
  <2> QED  BY <2>1, <2>2 DEF SaidLast, WorkedWith
<1>4. CASE EndOfArgs
  <2>1. phase = "args" /\ UNCHANGED <<program, lines, args>> /\ settings = Said
    BY <1>4 DEF EndOfArgs, SaidLast
  <2>2. CASE program = "framer"
    <3>1. UNCHANGED settings /\ phase' \in {"open", "exit"}
      BY <1>4, <2>2 DEF EndOfArgs, Exit
    <3>2. Said' = Said
      BY <2>1, <3>1, SameSaid
    <3> QED  BY <2>1, <2>2, <3>1, <3>2 DEF SaidLast, WorkedWith
  <2>3. CASE program # "framer"
    <3>1. PICK serial \in {"", "cpu"} : settings' = Corrected(program, settings, serial)
      BY <1>4, <2>3 DEF EndOfArgs
    <3>2. program \in {"mqtt", "http"}
      BY <2>3, ProgramsAssumption
    <3>3. Said' = Said
      BY <2>1, <3>1, <3>2, CorrectedDomain, SameSaid
    <3>4. settings' = Corrected(program', Said', serial)
      BY <2>1, <3>1, <3>3
    <3>5. phase' = "work"
      BY <1>4, <2>3 DEF EndOfArgs
    <3> QED  BY <2>1, <2>3, <3>4, <3>5 DEF SaidLast, WorkedWith
  <2> QED  BY <2>2, <2>3
<1> QED  BY <1>1, <1>2, <1>3, <1>4 DEF Read
-----------------------------------------------------------------------------
(* What kind of value a setting of modbus_framer holds *)

Addresses == {r \in Nat : r < 65536}
WriteFields == {"write_reg.addr", "write_reg.value", "write_coil.addr", "write_coil.value",
                "write_regs.addr", "write_regs.values",
                "write_coils.addr", "write_coils.n_bits", "write_coils.bytes"}

\* The fields of a snapshot are registers, those of a scan numbers, the command is
\* one that there is, and what is written is no text.
RightKind(f, v) ==
    /\ f \in {"temp_addr", "hum_addr"} => v[2] \in Addresses
    /\ f = "device_addr" => v[2] \in Addresses \cup {-1}
    /\ f \in {"scan.start", "scan.end"} => v[2] \in Int
    /\ f = "command" => v[2] \in DOMAIN CommandNames
    /\ f \in WriteFields => v[1] # "str"

\* What is stored of a value that is accepted.
LEMMA StoredIs ==
    ASSUME NEW e, NEW v, Accepts(e, v)
    PROVE  /\ e.type = "int" => /\ v[2] \in e.lo .. e.hi
                                /\ Stored(e, v) = <<"num", v[2] * e.scale>>
           /\ e.type = "word" => /\ v[2] \in DOMAIN e.words
                                 /\ Stored(e, v) = <<"str", e.words[v[2]]>>
           /\ e.type \in {"int", "bool", "list"} => Stored(e, v)[1] # "str"
<1>1. e.type = "int" => /\ v[2] \in e.lo .. e.hi
                        /\ Stored(e, v) = <<"num", v[2] * e.scale>>
  BY DEF Accepts, Stored
<1>2. e.type = "word" => /\ v[2] \in DOMAIN e.words
                         /\ Stored(e, v) = <<"str", e.words[v[2]]>>
  BY DEF Accepts, Stored
<1>3. e.type = "bool" => Stored(e, v)[1] # "str"
  BY DEF Accepts, Stored
<1>4. e.type = "list" => Stored(e, v)[1] # "str"
  BY DEF Accepts, Stored
<1> QED  BY <1>1, <1>2, <1>3, <1>4

LEMMA LineEntryKind ==
    ASSUME NEW e \in LineEntries, NEW v, Accepts(e, v)
    PROVE  RightKind(e.field, Stored(e, v))
<1>1. e.field \in {"dev", "baud", "parity", "data_bits", "stop_bits", "rs485", "debug", "slave",
                   "command"}
  BY SMT DEF Entry, Whole, Word, Bool, Text, LineEntries
<1>2. e.field = "command" => e.type = "word" /\ e.words = CommandNames
  BY SMT DEF Entry, Whole, Word, Bool, Text, LineEntries
<1>3. e.field = "command" => Stored(e, v)[2] \in DOMAIN CommandNames
  BY <1>2, StoredIs DEF CommandNames, Same
<1> QED  BY <1>1, <1>3 DEF RightKind, WriteFields

LEMMA RequestEntryKind ==
    ASSUME NEW e \in RequestEntries, NEW v, Accepts(e, v)
    PROVE  RightKind(e.field, Stored(e, v))
<1>1. e.type \in {"int", "bool", "list"}
  BY SMT DEF Entry, Whole, List, Bool, RequestEntries
<1>2. e.field \in WriteFields \cup {"read_holding.addr", "read_input.addr", "read_coils.addr",
                                    "read_holding.qty", "read_input.qty", "read_coils.qty"}
  BY SMT DEF Entry, Whole, List, Bool, RequestEntries, FieldOf, WriteFields
<1>3. Stored(e, v)[1] # "str"
  BY <1>1, StoredIs
<1> QED  BY <1>2, <1>3 DEF RightKind, WriteFields

LEMMA LoopEntryKind ==
    ASSUME NEW e \in LoopEntries, NEW v, Accepts(e, v)
    PROVE  RightKind(e.field, Stored(e, v))
<1>1. e.field \in {"scan.start", "scan.end"} =>
        e.type = "int" /\ e.lo = 1 /\ e.hi = 247 /\ e.scale = 1
  BY SMT DEF Entry, Whole, Real, LoopEntries
<1>2. e.field \in {"scan.start", "scan.end", "scan.timeout_ms", "stress.duration_s",
                   "stress.interval_ms", "stress.seed", "stress.report_s"}
  BY SMT DEF Entry, Whole, Real, LoopEntries
<1>3. e.field \in {"scan.start", "scan.end"} => Stored(e, v)[2] \in Int
  BY <1>1, StoredIs
<1> QED  BY <1>2, <1>3 DEF RightKind, WriteFields

LEMMA CollectEntryKind ==
    ASSUME NEW e \in CollectEntries, NEW v, Accepts(e, v)
    PROVE  RightKind(e.field, Stored(e, v))
<1>1. /\ e.field \in {"temp_addr", "hum_addr"} =>
           e.type = "int" /\ e.lo = 0 /\ e.hi = 65535 /\ e.scale = 1
      /\ e.field = "device_addr" =>
           e.type = "int" /\ e.lo = -1 /\ e.hi = 65535 /\ e.scale = 1
  BY SMT DEF Entry, Whole, KiB, Bool, Text, CollectEntries
<1>2. e.field \in {"interval_ms", "out_dir", "device_id", "ctrl_path", "max_file_bytes",
                   "max_total_bytes", "max_records_per_file", "func_code", "temp_addr",
                   "hum_addr", "device_addr", "temp_signed", "timeout_ms", "retries"}
  BY SMT DEF Entry, Whole, KiB, Bool, Text, CollectEntries
<1>3. e.field \in {"temp_addr", "hum_addr"} => Stored(e, v)[2] \in Addresses
  BY <1>1, StoredIs DEF Addresses
<1>4. e.field = "device_addr" => Stored(e, v)[2] \in Addresses \cup {-1}
  BY <1>1, StoredIs DEF Addresses
<1> QED  BY <1>2, <1>3, <1>4 DEF RightKind, WriteFields

LEMMA EntryKind ==
    ASSUME NEW e \in Entries["framer"], NEW v, Accepts(e, v)
    PROVE  RightKind(e.field, Stored(e, v))
  BY LineEntryKind, RequestEntryKind, LoopEntryKind, CollectEntryKind DEF Entries

\* The defaults of a collector, which a command of its own starts from again.
LEMMA CollectFields ==
    DOMAIN CollectDefaults =
        {"interval_ms", "out_dir", "device_id", "ctrl_path", "max_file_bytes",
         "max_total_bytes", "max_records_per_file", "func_code", "temp_addr",
         "hum_addr", "device_addr", "temp_signed", "timeout_ms", "retries"}
  BY SMT DEF CollectDefaults, Over, Str, Num, Flags

LEMMA CollectDefaultsKind ==
    /\ {"temp_addr", "hum_addr", "device_addr"} \subseteq DOMAIN CollectDefaults
    /\ \A f \in DOMAIN CollectDefaults : RightKind(f, CollectDefaults[f])
<1>1. /\ CollectDefaults["temp_addr"] = <<"num", 0>>
      /\ CollectDefaults["hum_addr"] = <<"num", 1>>
      /\ CollectDefaults["device_addr"] = <<"num", 2>>
  BY SMT DEF CollectDefaults, Over, Str, Num, Flags
<1> QED  BY SMT, <1>1, CollectFields DEF RightKind, WriteFields, Addresses

LEMMA DefaultsKind ==
    ASSUME NEW f \in DOMAIN Defaults["framer"]
    PROVE  RightKind(f, Defaults["framer"][f])
<1>1. CASE f \in DOMAIN CollectDefaults
  <2>1. Defaults["framer"][f] = CollectDefaults[f]
    BY <1>1 DEF Defaults, Over
  <2> QED  BY <1>1, <2>1, CollectDefaultsKind
<1>2. CASE f \in DOMAIN LoopDefaults \ DOMAIN CollectDefaults
  <2>1. Defaults["framer"][f] = LoopDefaults[f]
    BY <1>2 DEF Defaults, Over
  <2>2. RightKind(f, LoopDefaults[f])
    BY <1>2 DEF LoopDefaults, RightKind, WriteFields
  <2> QED  BY <2>1, <2>2
<1>3. CASE f \in DOMAIN LineDefaults
  <2>1. f \in {"dev", "parity", "baud", "data_bits", "stop_bits", "slave", "rs485", "debug"}
    BY <1>3 DEF LineDefaults, Over, Str, Num, Flags
  <2> QED  BY <2>1 DEF RightKind, WriteFields
<1> QED  BY <1>1, <1>2, <1>3 DEF Defaults, Over

\* Every setting of modbus_framer is of its kind, whatever was read.
KindsAreRight ==
    program = "framer" =>
        /\ {"temp_addr", "hum_addr", "device_addr"} \subseteq DOMAIN settings
        /\ \A f \in DOMAIN settings : RightKind(f, settings[f])

LEMMA InitKinds == StartInit => KindsAreRight
<1>1. DOMAIN CollectDefaults \subseteq DOMAIN Defaults["framer"]
  BY DEF Defaults, Over
<1> QED  BY <1>1, CollectDefaultsKind, DefaultsKind DEF StartInit, KindsAreRight

LEMMA WithKeepsKinds ==
    ASSUME KindsAreRight, UNCHANGED program,
           NEW f, NEW v, program = "framer" => RightKind(f, v), settings' = With(settings, f, v)
    PROVE  KindsAreRight'
  BY DEF KindsAreRight, With

\* The options are of the line only.
LEMMA OptionFields ==
    ASSUME NEW o \in FramerOptions
    PROVE  o.field \in {"dev", "baud", "parity", "data_bits", "stop_bits", "slave", "rs485",
                        "debug"}
<1>1. \A n, field, t : Option(n, field, t).field = field
  BY DEF Option
<1> QED  BY <1>1 DEF FramerOptions

LEMMA ReadKeepsKinds ==
    ASSUME KindsAreRight, program \in Programs, Read
    PROVE  KindsAreRight'
<1>1. CASE ReadEntry
  <2>1. PICK l \in Lines[program] : Good(l) /\ ApplyEntry(section, l[2], l[3])
    BY <1>1 DEF ReadEntry
  <2> DEFINE e == EntryFor(section, l[2])
  <2>2. e \in Entries[program] /\ Accepts(e, l[3])
    BY <2>1 DEF Good, EntryFor, EntriesFor
  <2>3. settings' = With(settings, e.field, Stored(e, l[3]))
    BY <2>1 DEF ApplyEntry
  <2>4. program = "framer" => RightKind(e.field, Stored(e, l[3]))
    BY <2>2, EntryKind
  <2>5. UNCHANGED program
    BY <1>1 DEF ReadEntry
  <2> HIDE DEF e
  <2> QED  BY <2>3, <2>4, <2>5, WithKeepsKinds
<1>2. CASE SetOption
  <2>1. PICK o \in Options, v \in Texts[program] :
          settings' = With(settings, o.field, Converted(o, v))
    BY <1>2 DEF SetOption
  <2>2. program = "framer" => o \in FramerOptions
    BY DEF Options, ProgramOptions
  <2>3. program = "framer" => RightKind(o.field, Converted(o, v))
    BY <2>2, OptionFields DEF RightKind, WriteFields
  <2>4. UNCHANGED program
    BY <1>2 DEF SetOption
  <2> QED  BY <2>1, <2>3, <2>4, WithKeepsKinds
<1>3. CASE \/ FindConfig \/ ReadSection \/ RejectLine \/ EndOfFile \/ UnknownOption \/ Help
           \/ program = "framer" /\ EndOfArgs
  <2>1. UNCHANGED <<program, settings>>
    BY <1>3 DEF FindConfig, ReadSection, RejectLine, EndOfFile, UnknownOption, Help, EndOfArgs
  <2> QED  BY <2>1 DEF KindsAreRight
<1>4. CASE program # "framer" /\ EndOfArgs
  BY <1>4 DEF EndOfArgs, KindsAreRight
<1> QED  BY <1>1, <1>2, <1>3, <1>4 DEF Read
=============================================================================
