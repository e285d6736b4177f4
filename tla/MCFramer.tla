------------------------------ MODULE MCFramer ------------------------------
\* The three programs with files and command lines of a few words: files that
\* name a write command with some of its fields missing, a collector whose
\* registers are together, far apart, and at both ends of the addresses, settings
\* given twice, and values that are refused or corrected.
EXTENDS Framer

MCPrograms == {"framer", "mqtt", "http"}

Section(n) == <<"section", n>>
Line(k, v) == <<"entry", k, v>>
N(n) == <<"num", n>>
W(w) == <<"str", w>>

MCLines ==
    [framer |->
        {Section(s) : s \in {"write_reg", "write_coils", "collect"}}
        \cup {Line("command", W(c)) : c \in {"write_reg", "write_coils", "collect", "x"}}
        \cup {Line("slave", N(5)), Line("addr", N(7)), Line("value", N(9)), Line("n_bits", N(9)),
              Line("bytes", <<"list", <<1, 2>>>>), Line("bytes", N(1)),
              Line("temp_addr", N(65535)), Line("hum_addr", N(0)), <<"malformed">>},
     mqtt |->
        {Section("mqtt"), Section("tail"), Line("keepalive", N(0)), Line("keepalive_s", N(4)),
         Line("device_id", W("")), Line("device_id", W("a")), Line("tail_poll_ms", N(3000)),
         Line("format", W("csv")), Line("enable", <<"bool", FALSE>>)},
     http |->
        {Section("http"), Section("test"), Line("max_file_kb", N(2)), Line("interval_s", N(2)),
         Line("test_mode", N(1)), Line("type", W("double")), Line("stable_age_s", N(0))}]

MCTexts == [framer |-> {N(0), N(253)},
            mqtt |-> {N(0), N(9), W(""), W("gw001"), W("xml")},
            http |-> {N(-1), N(0), N(3), W(""), W("integer")}]

MCMaxWords == [framer |-> 4, mqtt |-> 2, http |-> 2]

MCGiven == [framer |-> {"-a", "--rs485"},
            mqtt |-> {"--keepalive", "--device-id", "--client-id", "--data-dir", "--tail-format",
                      "--ctrl-file", "--tail-enable"},
            http |-> {"--max-file-kb", "--interval-s", "--stable-age-s", "--test-mode",
                      "--test-type", "--bad-dir"}]

MCCommandLines ==
    [read_holding |-> {<<N(3)>>, <<N(3), N(2)>>, <<N(3), N(126)>>},
     write_coil |-> {<<N(3), N(1)>>},
     write_regs |-> {<<N(3), N(2), N(8)>>, <<N(3), N(2), N(8), N(9)>>},
     write_coils |-> {<<N(3), N(9), N(255), N(1)>>, <<N(3), N(9), N(256), N(1)>>},
     scan |-> {<<N(1), N(3)>>, <<N(3), N(2)>>, <<N(1), N(2), N(50), N(1)>>},
     stress |-> {<<>>, <<N(1)>>},
     collect |-> {<<>>, <<<<"--temp-addr", N(200)>>>>, <<<<"--temp-addr", N(126)>>>>,
                  <<<<"--func", N(3)>>, <<"--device-addr", N(-1)>>>>,
                  <<<<"--file-kb", N(2000)>>>>, <<<<"--func", N(5)>>>>},
     reboot |-> {<<>>}]

\* A key of a section has one entry of a program, so that EntryFor has no choice.
ASSUME OneEntryEach ==
    \A p \in MCPrograms : \A d, e \in Entries[p] :
        d.sections \cap e.sections # {} /\ d.keys \cap e.keys # {} => d = e
=============================================================================
