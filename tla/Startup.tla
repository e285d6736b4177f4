------------------------------ MODULE Startup ------------------------------
(***************************************************************************)
(* From the start of modbus_framer, mqtt_gateway_demo or                   *)
(* http_uploader_demo to its work: the configuration file is read line by  *)
(* line (demo_config_load), then the command line from left to right, then *)
(* main corrects what is unusable.                                         *)
(*                                                                         *)
(* The file and the command line are chosen as they are read; what has     *)
(* been read is kept for the properties.                                   *)
(***************************************************************************)
EXTENDS Options, FiniteSetsExt

CONSTANTS Programs,     \* which of the three are started
          Lines,        \* lines of a configuration file, of each program
          Texts,        \* what may follow an option
          Given,        \* the options that are given, of each program
          MaxWords      \* entries of the file and options together, of each program

ASSUME ProgramsAssumption == Programs \subseteq {"framer", "mqtt", "http"}

IsSequence(s) == s \in Seq({s[i] : i \in DOMAIN s})

VARIABLES program,
          phase,        \* "find" the file, "file", "args", "open" the line, "work", "exit"
          section,      \* the section of the file
          lines,        \* the entries read so far: section, key, value
          args,         \* the options read so far: the option and what follows it
          settings,     \* the name of a setting -> its value
          command,      \* of modbus_framer: from the command line, or "none"
          operands,     \* what follows it there
          code          \* the status it exits with

startVars == <<program, phase, section, lines, args, settings, command, operands, code>>

StartInit ==
    /\ program \in Programs
    /\ phase = "find"
    /\ section = ""
    /\ lines = <<>> /\ args = <<>>
    /\ settings = Defaults[program]
    /\ command = "none" /\ operands = <<>>
    /\ code = 0

Exit(c) == phase' = "exit" /\ code' = c

\* modbus_find_config_path and its likes; a path that is missing or cannot be
\* opened ends the program.
FindConfig ==
    /\ phase = "find"
    /\ \/ phase' \in {"file", "args"} /\ UNCHANGED code
       \/ Exit(2)
    /\ UNCHANGED <<program, section, lines, args, settings, command, operands>>
-----------------------------------------------------------------------------
(* The configuration file *)

\* The entry that the handler of the program finds for a key.
EntriesFor(s, k) == {e \in Entries[program] : s \in e.sections /\ k \in e.keys}

EntryFor(s, k) == CHOOSE e \in EntriesFor(s, k) : TRUE

\* A line is <<"section", name>>, <<"entry", key, value>> or <<"malformed">>: a
\* header without its name or its bracket, an entry without its "=" or its key.
\* Blank lines and comments change nothing.
MoreLines == phase = "file" /\ Len(lines) < MaxWords[program]

ReadSection ==
    /\ MoreLines
    /\ \E l \in Lines[program] : l[1] = "section" /\ l[2] # section /\ section' = l[2]
    /\ UNCHANGED <<program, phase, lines, args, settings, command, operands, code>>

Good(l) == EntriesFor(section, l[2]) # {} /\ Accepts(EntryFor(section, l[2]), l[3])

ApplyEntry(s, k, v) ==
    LET e == EntryFor(s, k) IN settings' = With(settings, e.field, Stored(e, v))

ReadEntry ==
    /\ MoreLines
    /\ \E l \in Lines[program] :
         /\ l[1] = "entry" /\ Good(l)
         /\ lines' = Append(lines, [section |-> section, key |-> l[2], value |-> l[3]])
         /\ ApplyEntry(section, l[2], l[3])
    /\ UNCHANGED <<program, phase, section, args, command, operands, code>>

\* The first line that is malformed, has an unknown key or a bad value is the
\* end of the file and of the program.
RejectLine ==
    /\ MoreLines
    /\ \E l \in Lines[program] : l[1] = "malformed" \/ (l[1] = "entry" /\ ~Good(l))
    /\ Exit(2)
    /\ UNCHANGED <<program, section, lines, args, settings, command, operands>>

EndOfFile ==
    /\ phase = "file"
    /\ phase' = "args"
    /\ UNCHANGED <<program, section, lines, args, settings, command, operands, code>>
-----------------------------------------------------------------------------
(* The command line *)

Options == {o \in ProgramOptions[program] : o.name \in Given[program]}

\* A slip: the command line only says what the file does not.
SetOptionOnce ==
    /\ phase = "args" /\ command = "none" /\ Len(lines) + Len(args) < MaxWords[program]
    /\ \E o \in Options, v \in Texts[program] :
         /\ args' = Append(args, <<o, v>>)
         /\ settings' = IF o.field \in DOMAIN settings THEN settings
                        ELSE With(settings, o.field, Converted(o, v))
    /\ UNCHANGED <<program, phase, section, lines, command, operands, code>>

SetOption ==
    /\ phase = "args" /\ command = "none" /\ Len(lines) + Len(args) < MaxWords[program]
    /\ \E o \in Options, v \in Texts[program] :
         /\ o.type = "flag" => v = <<"str", "">>
         /\ args' = Append(args, <<o, v>>)
         /\ settings' = With(settings, o.field, Converted(o, v))
    /\ UNCHANGED <<program, phase, section, lines, command, operands, code>>

\* What no option is, or an option without what should follow it.  For
\* modbus_framer it is the name of a command (GiveCommand); mqtt_gateway_demo
\* passes over it.
UnknownOption ==
    /\ phase = "args" /\ program = "http"
    /\ Exit(2)
    /\ UNCHANGED <<program, section, lines, args, settings, command, operands>>

Help ==
    /\ phase = "args" /\ program = "mqtt"
    /\ Exit(0)
    /\ UNCHANGED <<program, section, lines, args, settings, command, operands>>

-----------------------------------------------------------------------------
(* The end of the command line *)

Empty == <<"str", "">>

\* The serial number of the processor takes the place of the names that come
\* with the program.
Named(s, serial) ==
    LET own == {Empty, <<"str", "gw001">>} IN
    IF serial = "" \/ s["device_id"] \notin own THEN s
    ELSE [s EXCEPT !["device_id"] = <<"str", serial>>,
                   !["client_id"] = IF @ \in own THEN <<"str", serial>> ELSE @]

AtLeast(p, s) ==
    [f \in DOMAIN s |->
        CASE f \in DOMAIN Floors[p] /\ s[f][2] < Floors[p][f] -> <<"num", Floors[p][f]>>
          [] f \in DOMAIN StandIns[p] /\ s[f] = Empty -> <<"str", StandIns[p][f]>>
          [] OTHER -> s[f]]

Corrected(p, s, serial) ==
    CASE p = "mqtt" ->
           LET n == Named(s, serial)
               m == IF n["client_id"] = Empty THEN [n EXCEPT !["client_id"] = n["device_id"]]
                    ELSE n IN
           AtLeast(p, IF m["data_dir"] = Empty THEN [m EXCEPT !["tail_enable"] = <<"bool", FALSE>>]
                      ELSE m)
      [] p = "http" ->
           AtLeast(p, IF s["max_file_bytes"] = <<"num", 0>>
                      THEN [s EXCEPT !["max_file_bytes"] = HttpDefaults["max_file_bytes"]] ELSE s)

EndOfArgs ==
    /\ phase = "args"
    /\ IF program = "framer"
         THEN /\ IF "command" \in DOMAIN settings THEN phase' = "open" /\ UNCHANGED code
                                                  ELSE Exit(2)
              /\ UNCHANGED settings
         ELSE /\ \E serial \in {"", "cpu"} : settings' = Corrected(program, settings, serial)
              /\ phase' = "work" /\ UNCHANGED code
    /\ UNCHANGED <<program, section, lines, args, command, operands>>

Read == FindConfig \/ ReadSection \/ ReadEntry \/ RejectLine \/ EndOfFile
        \/ SetOption \/ UnknownOption \/ Help \/ EndOfArgs
-----------------------------------------------------------------------------
(* What a setting should be: the last word on the command line, or the last in
   the file, or what it is without either. *)

\* The entry that each line of the file is of.
Meant == [i \in DOMAIN lines |-> EntryFor(lines[i].section, lines[i].key)]

LastWord(f, meant) ==
    LET A == {i \in DOMAIN args : args[i][1].field = f}
        L == {i \in DOMAIN lines : meant[i].field = f} IN
    IF A # {} THEN Converted(args[Max(A)][1], args[Max(A)][2])
    ELSE IF L # {} THEN Stored(meant[Max(L)], lines[Max(L)].value)
    ELSE IF f \in DOMAIN Defaults[program] THEN Defaults[program][f]
    ELSE Empty
=============================================================================
