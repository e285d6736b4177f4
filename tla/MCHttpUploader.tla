--------------------------- MODULE MCHttpUploader ---------------------------
(* Instances of HttpUploader for TLC, and of the two modules that calculate *)
(* only: what Calculations_proofs proves, on small sets.                    *)
EXTENDS HttpUploader, TestValues, Integers

FO == INSTANCE FileOrder
TV == INSTANCE TestValues WITH Nano <- 1

\* Two names with the same date and serial number, one of another date, two
\* without a date; files that changed at the epoch, before it or after it.
SmallNames ==
    {[text |-> 1, dated |-> FALSE, ts |-> 0, seq |-> 0],
     [text |-> 2, dated |-> TRUE, ts |-> 5, seq |-> 1],
     [text |-> 3, dated |-> TRUE, ts |-> 5, seq |-> 1],
     [text |-> 4, dated |-> TRUE, ts |-> 5, seq |-> 0],
     [text |-> 5, dated |-> TRUE, ts |-> 4, seq |-> 9],
     [text |-> 6, dated |-> FALSE, ts |-> 0, seq |-> 0]}
SmallFiles == [name : SmallNames, mtime : {-1, 0, 4, 5}]

ASSUME FilesHaveAnOrder ==
    \A f, g \in SmallFiles :
        f.name # g.name => (FO!Listed(f, g) <=> ~FO!Listed(g, f))

ASSUME RecordIsReadBack ==
    \A f \in SmallFiles, later \in {0, 9} :
        LET s == FO!Advance(FO!NoState, FO!Item(f)) IN
        s.valid => FO!Load(FO!Save(s), later) = s

\* Values and steps with and without decimals, around zero.
SmallConfigs ==
    [type : {"int", "float"}, pattern : {"inc", "dec"}, value : {-400000000, -1, 0, 250000000},
     step : {0, 1, 500000000, -1000000000}, places : {0, 2, 9}, text : {""}, parses : {FALSE}]

ASSUME TestNumbersGoOneWay ==
    \A p \in {"mqtt", "http"}, c \in SmallConfigs :
        LET old == TV!Data(p, c, TV!Fresh)[2]
            new == TV!Data(p, c, TV!After(p, c, TV!Fresh))[2] IN
        IF c.type = "int" THEN IF c.pattern = "inc" THEN old <= new ELSE old >= new
                          ELSE IF c.pattern = "inc" THEN old < new ELSE old > new

\* With Nano = 2, the steps 0.5, 1, 1.5, 2.5 and 10.5 times 10^-9: the first is
\* printed as 0, the others in the middle as the even number.
FineConfigs ==
    [type : {"float"}, pattern : {"inc", "dec"}, value : {-41, -3, 0, 20, 500000000},
     step : {1, 2, -3, 5, 21}, places : {0, 2, 9}, text : {""}, parses : {FALSE}]

ASSUME FineStepsAreKept ==
    /\ <<Printed(1), Printed(2), Printed(3), Printed(5), Printed(21)>> = <<0, 1, 2, 2, 10>>
    /\ \A c \in FineConfigs :
          LET first == After("mqtt", c, Fresh)
              old == Data("mqtt", c, Fresh)[2]
              new == Data("mqtt", c, first)[2] IN
          IF c.step = 1 /\ c.places < 9 THEN old = new
          ELSE IF c.step = 1 THEN IF c.pattern = "inc" THEN old <= new ELSE old >= new
          ELSE IF c.pattern = "inc" THEN old < new ELSE old > new
=============================================================================
