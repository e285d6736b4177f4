--------------------------- MODULE Control_proofs ---------------------------
(***************************************************************************)
(* Proofs about Control, for any messages, any number of arrivals,         *)
(* failures and seconds.                                                   *)
(***************************************************************************)
EXTENDS Control, TLAPS

\* What becomes of a value on its way into the control file keeps its type.
LEMMA CopiedValue ==
    ASSUME NEW f \in DOMAIN Fields, NEW v, IsValue(v)
    PROVE  IsValue(Copied(f, v))
<1>1. CASE Fields[f].type = "bool" /\ v[1] = "num"
  <2>1. Copied(f, v) = <<"bool", v[2] # 0>>
    BY <1>1 DEF Copied
  <2>2. (v[2] # 0) \in BOOLEAN
    OBVIOUS
  <2> QED
    BY <2>1, <2>2 DEF IsValue
<1>2. CASE ~(Fields[f].type = "bool" /\ v[1] = "num")
  BY <1>2 DEF Copied
<1> QED
  BY <1>1, <1>2

\* A field has one name or two.
LEMMA NamesOfFields ==
    \A f \in DOMAIN Fields : Len(Fields[f].keys) \in {1, 2}
  BY SMT DEF Fields, Number, Word, Switch

\* Of some places there is a last one.
LEMMA LastPlace ==
    ASSUME NEW P, P # {}, P \subseteq (1 .. 4) \X (1 .. 2)
    PROVE  \E p \in P : \A q \in P : p[1] > q[1] \/ (p[1] = q[1] /\ p[2] >= q[2])
<1>1. \A q \in P : q = <<q[1], q[2]>> /\ q[1] \in {1, 2, 3, 4} /\ q[2] \in {1, 2}
  OBVIOUS
<1>2. CASE <<4, 2>> \in P
  BY <1>1, <1>2
<1>3. CASE <<4, 2>> \notin P /\ <<4, 1>> \in P
  BY <1>1, <1>3
<1>4. CASE <<4, 2>> \notin P /\ <<4, 1>> \notin P
  <2>1. \A q \in P : q[1] \in {1, 2, 3}
    BY <1>1, <1>4
  <2>2. CASE <<3, 2>> \in P
    BY <1>1, <2>1, <2>2
  <2>3. CASE <<3, 2>> \notin P /\ <<3, 1>> \in P
    BY <1>1, <2>1, <2>3
  <2>4. CASE <<3, 2>> \notin P /\ <<3, 1>> \notin P
    <3>1. \A q \in P : q[1] \in {1, 2}
      BY <1>1, <2>1, <2>4
    <3>2. CASE <<2, 2>> \in P
      BY <1>1, <3>1, <3>2
    <3>3. CASE <<2, 2>> \notin P /\ <<2, 1>> \in P
      BY <1>1, <3>1, <3>3
    <3>4. CASE <<2, 2>> \notin P /\ <<2, 1>> \notin P
      <4>1. \A q \in P : q[1] = 1
        BY <1>1, <3>1, <3>4
      <4>2. CASE <<1, 2>> \in P
        BY <1>1, <4>1, <4>2
      <4>3. CASE <<1, 2>> \notin P
        BY <1>1, <4>1, <4>3
      <4> QED
        BY <4>2, <4>3
    <3> QED
      BY <3>2, <3>3, <3>4
  <2> QED
    BY <2>2, <2>3, <2>4
<1> QED
  BY <1>2, <1>3, <1>4

\* A message leaves fields of the control file in it, with values of their types.
LEMMA MergedSettings ==
    ASSUME NEW o, IsJson(o)
    PROVE  /\ DOMAIN Merge(o) \subseteq DOMAIN Fields
           /\ \A f \in DOMAIN Merge(o) : IsValue(Merge(o)[f])
<1>1. DOMAIN Merge(o) = Given(o) /\ Given(o) \subseteq DOMAIN Fields
  BY Zenon DEF Merge, Given
<1>2. ASSUME NEW f \in Given(o)
      PROVE  IsValue(Merge(o)[f])
  <2> DEFINE Last(p) == \A q \in Places(o, f) :
                            p[1] > q[1] \/ (p[1] = q[1] /\ p[2] >= q[2])
  <2>1. Merge(o)[f] = At(o, f, CHOOSE p \in Places(o, f) : Last(p))
    BY <1>2 DEF Merge
  <2>2. \E p \in Places(o, f) : Last(p)
    <3>1. Places(o, f) # {}
      BY <1>2 DEF Given
    <3>2. Places(o, f) \subseteq (1 .. 4) \X (1 .. 2)
      <4>1. Len(Fields[f].keys) \in {1, 2}
        BY <1>1, NamesOfFields
      <4> QED
        BY <4>1 DEF Places
    <3> QED
      BY <3>1, <3>2, LastPlace
  <2>3. PICK p \in Places(o, f) : Merge(o)[f] = At(o, f, p)
    BY <2>1, <2>2, Zenon
  <2>4. IsValue(Layers(o)[p[1]][Fields[f].keys[p[2]]])
    BY <2>3, Zenon DEF Places, IsJson
  <2> QED
    BY <1>1, <2>3, <2>4, CopiedValue DEF At
<1> QED
  BY <1>1, <1>2

\* What a command is, by the kind of its outcome.
LEMMA CommandKinds ==
    ASSUME NEW o
    PROVE  /\ Command(o).do = "power" => Action(o) \in PowerNames
           /\ Command(o).do = "set" => /\ Action(o) \notin PowerNames
                                       /\ Command(o).device \in {"led", "buzzer"}
                                       /\ Command(o).val \in {0, 1}
<1>1. \A e : Refusal(e).do = "refuse"
  BY DEF Refusal
<1>2. Boolish(Member(o, "val")) \in {-1, 0, 1}
  BY DEF Boolish
<1>3. Device(o) \in {"led", "buzzer", Nothing}
  BY DEF Device, Named, Addressed
<1> DEFINE Set == [do |-> "set", device |-> Device(o), val |-> Boolish(Member(o, "val"))]
<1>4. Set.do = "set" /\ Set.device = Device(o) /\ Set.val = Boolish(Member(o, "val"))
  OBVIOUS
<1>5. \/ Command(o).do = "refuse"
      \/ Command(o).do = "power" /\ Action(o) \in PowerNames
      \/ /\ Command(o) = Set
         /\ Action(o) \notin PowerNames
         /\ Device(o) # Nothing /\ Boolish(Member(o, "val")) # -1
  <2> HIDE DEF Set
  <2>1. [do |-> "power"].do = "power"
    OBVIOUS
  <2> QED
    BY <1>1, <2>1 DEF Command, Set
<1> HIDE DEF Set
<1> QED
  BY <1>2, <1>3, <1>4, <1>5

\* What is left of a file that ends early: some of its fields, with values of their
\* types.
LEMMA CutSettings ==
    ASSUME NEW c, NEW at, NEW d \in Cuts(c, at), \A f \in DOMAIN c : IsValue(c[f])
    PROVE  DOMAIN d \subseteq DOMAIN c /\ \A f \in DOMAIN d : IsValue(d[f])
<1>1. \A e \in Scales : e \in Nat /\ e > 0
  BY SMT DEF Scales
<1> DEFINE Upto(f) == [g \in {h \in DOMAIN c : at[h] < at[f]} |-> c[g]]
           Broken(f, e) == [g \in {h \in DOMAIN c : at[h] <= at[f]} |->
                               IF g = f THEN <<"num", c[f][2] \div e>> ELSE c[g]]
           By(f) == {e \in Scales : /\ c[f][1] = "num" /\ c[f][2] >= 0
                                    /\ (e = 1 \/ e <= c[f][2])}
<1>2. PICK f \in DOMAIN c : \/ d = Upto(f)
                            \/ \E e \in By(f) : d = Broken(f, e)
  <2>1. Cuts(c, at) = UNION {{Upto(f)} \cup {Broken(f, e) : e \in By(f)} : f \in DOMAIN c}
    BY Zenon DEF Cuts
  <2> HIDE DEF Upto, Broken, By
  <2> QED
    BY <2>1, Zenon
<1>3. CASE d = Upto(f)
  BY <1>3
<1>4. ASSUME NEW e \in By(f), d = Broken(f, e)
      PROVE  DOMAIN d \subseteq DOMAIN c /\ \A g \in DOMAIN d : IsValue(d[g])
  <2>1. c[f][2] \div e \in Int
    BY <1>1 DEF IsValue
  <2>2. IsValue(<<"num", c[f][2] \div e>>)
    BY <2>1 DEF IsValue
  <2> QED
    BY <1>4, <2>2
<1> QED
  BY <1>2, <1>3, <1>4
-----------------------------------------------------------------------------
IsRecord(v) == v = [settings |-> v.settings, at |-> v.at, stamp |-> v.stamp,
                    cut |-> v.cut, size |-> v.size, earlier |-> v.earlier]

\* A file keeps all but the list of its older versions when it is renamed.
LEMMA RenamedVersion ==
    ASSUME NEW v, IsRecord(v), NEW X, NEW w, w = [v EXCEPT !.earlier = X]
    PROVE  /\ w.settings = v.settings /\ w.stamp = v.stamp /\ w.cut = v.cut
           /\ IsRecord(w)
  BY DEF IsRecord

\* A new file is one.
LEMMA NewVersion ==
    ASSUME NEW c, NEW at, NEW cut, NEW v, v = Version(c, at, cut)
    PROVE  /\ v.settings = c /\ v.stamp = now /\ v.cut = cut
           /\ IsRecord(v)
  BY DEF Version, IsRecord

\* What the handling of a message has established when it gets to a step.
Handled ==
    /\ IsRecord(tmp) /\ IsRecord(file)
    /\ pc \notin {"off", "idle"} => msg \in Messages
    /\ pc \in {"power", "toggle"} => msg.topic = "cmd"
    /\ pc = "power" => Commands[msg].do = "power"
    /\ pc = "toggle" => Commands[msg].do = "set"
    /\ pc \in {"write", "rename"} => msg.topic = "cfg" /\ msg.body # NoObject
    /\ pc = "rename" => /\ tmp.cut \/ tmp.settings = Saved[msg]
                        /\ tmp.cut => quiet

\* Until the message is answered "ok" nothing has happened.
Untouched ==
    pc \notin {"off", "idle"} /\ (pc = "respond" => reply # "ok") =>
        before = effects

\* All that a file in one piece says was asked for.
FileIsAsked ==
    file.cut \/ \A f \in DOMAIN file.settings : <<f, file.settings[f]>> \in asked

IInv == /\ TypeOK /\ Handled /\ Untouched /\ OkIsTrue
        /\ FileIsAsked /\ TelemetryRunsAsAsked

\* The messages that are configurations, and what they leave.
LEMMA SavedSettings ==
    ASSUME NEW m \in Messages, m.topic = "cfg", m.body # NoObject
    PROVE  /\ m \in DOMAIN Saved /\ Saved[m] = Merge(m.body)
           /\ DOMAIN Saved[m] \subseteq DOMAIN Fields
           /\ \A f \in DOMAIN Saved[m] : IsValue(Saved[m][f])
<1>1. Saved[m] = Merge(m.body) /\ m \in DOMAIN Saved
  BY Zenon DEF Saved
<1>2. IsJson(m.body)
  BY MessagesAssumption
<1> QED
  BY <1>1, <1>2, MergedSettings

\* The commands among the messages.
LEMMA CommandOf ==
    ASSUME NEW m \in Messages, m.topic = "cmd"
    PROVE  Commands[m] = Command(m.body)
  BY Zenon DEF Commands

\* No file at all.
LEMMA EmptyVersion ==
    /\ DOMAIN NoFile.settings = {} /\ NoFile.stamp = 0 /\ NoFile.cut = FALSE
    /\ IsRecord(NoFile) /\ IsVersion(NoFile)
<1>1. /\ DOMAIN NoFile.settings = {} /\ NoFile.stamp = 0 /\ NoFile.cut = FALSE
      /\ IsRecord(NoFile)
  BY DEF NoFile, NoSettings, IsRecord
<1>2. NoFile.cut \in BOOLEAN
  BY <1>1, Zenon
<1> QED
  BY <1>1, <1>2, BoundsAssumption DEF IsVersion

\* The initial states.
LEMMA InitIInv == Init => IInv
<1> SUFFICES ASSUME Init
             PROVE  IInv
  OBVIOUS
<1>1. TypeOK
  <2>1. devices \in [{"led", "buzzer"} -> {0, 1}]
    BY DEF Init
  <2>2. enable \in BOOLEAN
    BY Zenon DEF Init
  <2>3. IsVersion(tmp) /\ IsVersion(file)
    BY EmptyVersion, Zenon DEF Init
  <2> QED
    BY <2>1, <2>2, <2>3, BoundsAssumption DEF Init, TypeOK
<1>2. Handled
  BY EmptyVersion DEF Init, Handled
<1>3. FileIsAsked
  BY EmptyVersion DEF Init, FileIsAsked
<1> QED
  BY <1>1, <1>2, <1>3
  DEF Init, IInv, Untouched, OkIsTrue, TelemetryRunsAsAsked

\* What the collector takes for a setting is a natural number.
LEMMA FoundIsNat ==
    ASSUME IsVersion(file), NEW name, NEW old \in Nat
    PROVE  Found(name, old) \subseteq Nat
<1> DEFINE v == Setting(file, name)
           room == CollectorBuffer - file.at[name]
           Read == {k \in {v[2] \div d : d \in Scales} :
                       /\ k > 0
                       /\ \/ k = v[2] /\ Digits(k) <= room
                          \/ Digits(v[2]) > room /\ Digits(k) = room}
<1>1. CASE v[1] = "num"
  <2>1. v[2] \in Int
    BY <1>1 DEF Setting, Member, IsVersion, IsValue
  <2>2. \A d \in Scales : d \in Nat /\ d > 0
    BY SMT DEF Scales
  <2> HIDE DEF v, room
  <2>3. Read \subseteq Nat
    BY <2>1, <2>2
  <2>4. Found(name, old) \in {{old}, Read}
    BY Zenon DEF Found, v, room
  <2> HIDE DEF Read
  <2> QED
    BY <2>3, <2>4
<1>2. CASE v[1] # "num"
  BY <1>2 DEF Found
<1> QED
  BY <1>1, <1>2

\* Every step keeps the types.
LEMMA StepType ==
    ASSUME TypeOK, Handled, Next
    PROVE  TypeOK'
<1> USE BoundsAssumption DEF TypeOK
<1> USE DEF gateway, effects, telemetry, collector, observed, Fails
<1>1. CASE Arrive
  BY <1>1 DEF Arrive, Respond, Handle
<1>2. CASE ArriveTest \/ SchedulePower \/ Answer \/ Connect \/ LoseLink
  BY <1>2 DEF ArriveTest, SchedulePower, Answer, Connect, LoseLink, Respond
<1>3. CASE Toggle
  <2>1. Commands[msg].device \in {"led", "buzzer"} /\ Commands[msg].val \in {0, 1}
    BY <1>3, CommandOf, CommandKinds DEF Toggle, Handled
  <2>2. devices' \in [{"led", "buzzer"} -> {0, 1}]
    BY <1>3, <2>1 DEF Toggle
  <2> QED
    BY <1>3, <2>2 DEF Toggle, Respond
<1>4. CASE WriteTmp
  <2> DEFINE c == Saved[msg]
         at == Starts[msg]
  <2>1. DOMAIN c \subseteq DOMAIN Fields /\ \A f \in DOMAIN c : IsValue(c[f])
    BY <1>4, SavedSettings DEF WriteTmp, Handled
  <2>2. ASSUME NEW d, DOMAIN d \subseteq DOMAIN c, \A f \in DOMAIN d : IsValue(d[f]),
               NEW cut \in BOOLEAN, tmp' = Version(d, at, cut)
        PROVE  IsVersion(tmp)' /\ tmp'.stamp # 0
    <3>1. tmp'.settings = d /\ tmp'.stamp = now /\ tmp'.cut = cut
      BY <2>2, NewVersion
    <3> HIDE DEF c, at
    <3> QED
      BY <2>1, <2>2, <3>1 DEF IsVersion
  <2>3. \/ tmp' = NoFile /\ pc' = "respond"
        \/ tmp' = Version(c, at, FALSE) /\ pc' = "rename"
        \/ (\E short \in Cuts(c, at) : tmp' = Version(short, at, TRUE)) /\ pc' = "rename"
    BY <1>4 DEF WriteTmp, Respond
  <2>4. IsVersion(tmp)' /\ (pc' = "rename" => tmp'.stamp # 0)
    <3>1. ASSUME NEW short \in Cuts(c, at), tmp' = Version(short, at, TRUE)
          PROVE  IsVersion(tmp)' /\ tmp'.stamp # 0
      <4>1. DOMAIN short \subseteq DOMAIN c /\ \A f \in DOMAIN short : IsValue(short[f])
        BY <2>1, CutSettings
      <4> HIDE DEF c, at
      <4> QED
        BY <2>2, <3>1, <4>1
    <3>2. CASE tmp' = NoFile /\ pc' = "respond"
      BY <3>2, EmptyVersion DEF IsVersion
    <3>3. CASE tmp' = Version(c, at, FALSE)
      <4> HIDE DEF c, at
      <4> QED
        BY <2>1, <2>2, <3>3
    <3> QED
      BY <2>3, <3>1, <3>2, <3>3
  <2> HIDE DEF c, at
  <2>5. /\ pc' \in {"rename", "respond"} /\ reply' \in {reply, "error"} /\ pc = "write"
        /\ faults' \in {faults, faults - 1} /\ (faults' = faults \/ faults > 0)
        /\ UNCHANGED <<now, link, file, devices, due, tpc, interval, enable, cpc, clast,
                       cinterval, records, arrivals>>
    BY <1>4 DEF WriteTmp, Respond
  <2>6. IsVersion(file)'
    BY <2>5 DEF IsVersion
  <2> QED
    BY <2>4, <2>5, <2>6
<1>5. CASE Rename
  <2>1. tmp' = NoFile /\ IsVersion(tmp)'
    BY <1>5, EmptyVersion DEF Rename, IsVersion
  <2>2. IsVersion(file)'
    <3>1. ASSUME NEW X, file' = [tmp EXCEPT !.earlier = X]
          PROVE  IsVersion(file)'
      BY <3>1, RenamedVersion DEF IsVersion, Handled
    <3>2. CASE file' = file
      BY <3>2 DEF IsVersion
    <3> QED
      BY <1>5, <3>1, <3>2 DEF Rename
  <2> QED
    BY <1>5, <2>1, <2>2 DEF Rename, Respond
<1>6. CASE TelemetryStat \/ TelemetryReadFails
  BY <1>6 DEF TelemetryStat, TelemetryReadFails
<1>7. CASE TelemetryRead
  <2>1. interval' \in Nat /\ enable' \in BOOLEAN
    <3> SUFFICES ASSUME TakeSettings
                 PROVE  interval' \in Nat /\ enable' \in BOOLEAN
      BY <1>7 DEF TelemetryRead
    <3>1. \A n : IsValue(Setting(file, n))
      BY DEF Setting, Member, IsVersion, IsValue
    <3>2. interval' \in Nat
      BY <3>1 DEF TakeSettings, GoodInterval, IsValue
    <3>3. enable' \in BOOLEAN
      BY <3>1 DEF TakeSettings, IsValue
    <3> QED
      BY <3>2, <3>3
  <2> QED
    BY <1>7, <2>1 DEF TelemetryRead
<1>8. CASE CollectorStat \/ CollectorReadFails
  BY <1>8 DEF CollectorStat, CollectorReadFails, IsVersion
<1>9. CASE CollectorRead
  <2>1. cinterval' \in Nat /\ records' \in Nat
    BY <1>9, FoundIsNat DEF CollectorRead
  <2> QED
    BY <1>9, <2>1 DEF CollectorRead
<1>10. CASE KillGateway \/ KillCollector \/ PowerOff
  <2>1. enable' \in BOOLEAN
    BY <1>10, Zenon DEF KillGateway, KillCollector, PowerOff, GatewayEnds
  <2> QED
    BY <1>10, <2>1 DEF KillGateway, KillCollector, PowerOff, GatewayEnds, CollectorEnds
<1>11. CASE Start \/ Tick
  BY <1>11 DEF Start, Tick
<1> QED
  BY <1>1, <1>2, <1>3, <1>4, <1>5, <1>6, <1>7, <1>8, <1>9, <1>10, <1>11
  DEF Next, Callback

\* A message in hand is one of Messages, and what it is decides where it goes.
LEMMA StepHandled ==
    ASSUME TypeOK, Handled, Next
    PROVE  Handled'
<1> USE DEF gateway, effects, telemetry, collector, observed
<1>1. CASE Arrive
  <2>1. PICK m \in Messages :
            /\ msg' = m
            /\ \/ pc' = "respond"
               \/ m.topic = "cmd" /\ Commands[m].do = "power" /\ pc' = "power"
               \/ m.topic = "cmd" /\ Commands[m].do = "set" /\ pc' = "toggle"
               \/ m.topic = "cfg" /\ m.body # NoObject /\ pc' = "write"
               \/ pc' = "idle"
    BY <1>1 DEF Arrive, Respond, Handle
  <2> QED
    BY <1>1, <2>1 DEF Arrive, Handled, IsRecord
<1>2. CASE ArriveTest \/ SchedulePower \/ Toggle \/ Answer
  BY <1>2 DEF ArriveTest, SchedulePower, Toggle, Answer, Respond, Handled, IsRecord
<1>3. CASE WriteTmp
  <2>1. \/ tmp' = NoFile /\ pc' = "respond"
        \/ tmp' = Version(Saved[msg], Starts[msg], FALSE) /\ pc' = "rename"
        \/ /\ \E short \in Cuts(Saved[msg], Starts[msg]) :
                 tmp' = Version(short, Starts[msg], TRUE)
           /\ pc' = "rename" /\ quiet'
    BY <1>3 DEF WriteTmp, Respond
  <2>2. pc = "write" /\ UNCHANGED <<msg, file>>
    BY <1>3 DEF WriteTmp
  <2>3. CASE tmp' = NoFile /\ pc' = "respond"
    BY <2>2, <2>3, EmptyVersion DEF Handled, IsRecord
  <2>4. CASE tmp' = Version(Saved[msg], Starts[msg], FALSE) /\ pc' = "rename"
    <3>1. tmp'.settings = Saved[msg] /\ tmp'.cut = FALSE /\ IsRecord(tmp)'
      <4>1. tmp'.settings = Saved[msg] /\ tmp'.cut = FALSE /\ IsRecord(tmp')
        BY <2>4 DEF Version, IsRecord
      <4> QED
        BY <4>1 DEF IsRecord
    <3>2. (tmp.cut \/ tmp.settings = Saved[msg])' /\ (tmp.cut => quiet)'
      BY <2>2, <3>1, Zenon DEF Saved
    <3> QED
      BY <2>2, <2>4, <3>1, <3>2 DEF Handled, IsRecord
  <2>5. CASE /\ \E short \in Cuts(Saved[msg], Starts[msg]) :
                   tmp' = Version(short, Starts[msg], TRUE)
             /\ pc' = "rename" /\ quiet'
    <3>1. tmp'.cut = TRUE /\ IsRecord(tmp)'
      <4>1. tmp'.cut = TRUE /\ IsRecord(tmp')
        BY <2>5 DEF Version, IsRecord
      <4> QED
        BY <4>1 DEF IsRecord
    <3>2. (tmp.cut \/ tmp.settings = Saved[msg])' /\ (tmp.cut => quiet)'
      BY <2>5, <3>1, Zenon
    <3> QED
      BY <2>2, <2>5, <3>1, <3>2 DEF Handled, IsRecord
  <2> QED
    BY <2>1, <2>3, <2>4, <2>5
<1>4. CASE Rename
  <2>1. tmp' = NoFile /\ pc' = "respond" /\ msg' = msg /\ pc = "rename"
    BY <1>4 DEF Rename, Respond
  <2>2. IsRecord(file)'
    <3>1. ASSUME NEW X, file' = [tmp EXCEPT !.earlier = X]
          PROVE  IsRecord(file)'
      BY <3>1, RenamedVersion DEF Handled, IsRecord
    <3>2. CASE file' = file
      BY <3>2 DEF Handled, IsRecord
    <3> QED
      BY <1>4, <3>1, <3>2 DEF Rename
  <2> QED
    BY <2>1, <2>2, EmptyVersion DEF Handled, IsRecord
<1>5. CASE Connect \/ LoseLink \/ Tick
  BY <1>5, Zenon DEF Connect, LoseLink, Tick, Handled, IsRecord, Saved
<1>6. CASE TelemetryStat \/ TelemetryRead \/ TelemetryReadFails
  BY <1>6, Zenon DEF TelemetryStat, TelemetryRead, TelemetryReadFails, Handled, IsRecord,
     Saved
<1>7. CASE CollectorStat \/ CollectorRead \/ CollectorReadFails \/ KillCollector
  BY <1>7, Zenon DEF CollectorStat, CollectorRead, CollectorReadFails, KillCollector,
     Handled, IsRecord, Saved
<1>8. CASE KillGateway \/ PowerOff
  BY <1>8 DEF KillGateway, PowerOff, GatewayEnds, Handled, IsRecord
<1>9. CASE Start
  BY <1>9 DEF Start, Handled, IsRecord
<1> QED
  BY <1>1, <1>2, <1>3, <1>4, <1>5, <1>6, <1>7, <1>8, <1>9 DEF Next, Callback

\* A message that has not been answered "ok" has done nothing.
LEMMA StepUntouched ==
    ASSUME TypeOK, Untouched, Next
    PROVE  Untouched'
<1> USE DEF gateway, effects, telemetry, collector, observed, Untouched
<1>1. CASE Arrive
  BY <1>1 DEF Arrive
<1>2. CASE ArriveTest \/ SchedulePower \/ Toggle \/ WriteTmp \/ Answer
  BY <1>2 DEF ArriveTest, SchedulePower, Toggle, WriteTmp, Answer, Respond
<1>3. CASE Rename
  BY <1>3 DEF Rename, Respond
<1>4. CASE Connect \/ LoseLink \/ Tick \/ Start
  BY <1>4 DEF Connect, LoseLink, Tick, Start
<1>5. CASE TelemetryStat \/ TelemetryRead \/ TelemetryReadFails
  BY <1>5 DEF TelemetryStat, TelemetryRead, TelemetryReadFails
<1>6. CASE CollectorStat \/ CollectorRead \/ CollectorReadFails \/ KillCollector
  BY <1>6 DEF CollectorStat, CollectorRead, CollectorReadFails, KillCollector
<1>7. CASE KillGateway \/ PowerOff
  BY <1>7 DEF KillGateway, PowerOff, GatewayEnds
<1> QED
  BY <1>1, <1>2, <1>3, <1>4, <1>5, <1>6, <1>7 DEF Next, Callback

\* A message that has been answered "ok" has done what it asked for.
LEMMA StepOk ==
    ASSUME TypeOK, Handled, OkIsTrue, Next
    PROVE  OkIsTrue'
<1> USE DEF gateway, effects, telemetry, collector, observed
<1>1. CASE Arrive
  <2>1. pc' = "respond" => reply' # "ok"
    BY <1>1 DEF Arrive, Respond, Handle
  <2> QED
    BY <2>1 DEF OkIsTrue
<1>2. CASE SchedulePower
  <2>1. msg \in Messages /\ msg.topic = "cmd" /\ Action(msg.body) \in PowerNames
    BY <1>2, CommandOf, CommandKinds DEF SchedulePower, Handled
  <2>2. now + 2 # 0
    BY DEF TypeOK
  <2>3. pc' = "respond" /\ reply' = "ok" /\ ~quiet' => due' # 0
    BY <1>2, <2>2 DEF SchedulePower, Respond
  <2>4. msg' = msg
    BY <1>2 DEF SchedulePower
  <2> QED
    BY <2>1, <2>3, <2>4 DEF OkIsTrue
<1>3. CASE Toggle
  <2>1. /\ msg \in Messages /\ msg.topic = "cmd"
        /\ Action(msg.body) \notin PowerNames
        /\ Commands[msg].device \in {"led", "buzzer"}
    BY <1>3, CommandOf, CommandKinds DEF Toggle, Handled
  <2>2. reply' = "ok" /\ ~quiet' =>
            devices'[Commands[msg].device] = Commands[msg].val
    BY <1>3, <2>1 DEF Toggle, Respond, TypeOK
  <2>3. msg' = msg
    BY <1>3 DEF Toggle
  <2> QED
    BY <2>1, <2>2, <2>3 DEF OkIsTrue, Commands
<1>4. CASE WriteTmp
  <2>1. pc' = "respond" => reply' # "ok"
    BY <1>4 DEF WriteTmp, Respond
  <2> QED
    BY <2>1 DEF OkIsTrue
<1>5. CASE Rename
  <2>1. msg' = msg /\ quiet' = quiet /\ msg.topic = "cfg"
    BY <1>5 DEF Rename, Handled
  <2>2. ASSUME reply' = "ok", ~quiet
        PROVE  ~file'.cut /\ file'.settings = Saved[msg]
    <3>1. PICK X : file' = [tmp EXCEPT !.earlier = X]
      BY <1>5, <2>2 DEF Rename, Respond
    <3>2. ~tmp.cut /\ tmp.settings = Saved[msg]
      BY <1>5, <2>2 DEF Rename, Handled
    <3>3. file'.settings = tmp.settings /\ file'.cut = tmp.cut
      BY <3>1, RenamedVersion DEF Handled
    <3> QED
      BY <3>2, <3>3
  <2> QED
    BY <2>1, <2>2 DEF OkIsTrue, Saved
<1>6. CASE Answer \/ KillGateway \/ PowerOff
  <2>1. pc' # "respond"
    BY <1>6 DEF Answer, KillGateway, PowerOff, GatewayEnds
  <2> QED
    BY <2>1 DEF OkIsTrue
<1>7. CASE UNCHANGED <<pc, msg, reply, quiet, file, devices, due>>
  BY <1>7, Zenon DEF OkIsTrue, Saved, Commands
<1>8. CASE Start
  BY <1>7, <1>8 DEF Start, OkIsTrue
<1>9. CASE \/ ArriveTest \/ Connect \/ LoseLink \/ Tick \/ TelemetryStat \/ TelemetryRead
           \/ TelemetryReadFails \/ CollectorStat \/ CollectorRead
           \/ CollectorReadFails \/ KillCollector
  BY <1>7, <1>9 DEF ArriveTest, Connect, LoseLink, Tick, TelemetryStat, TelemetryRead,
     TelemetryReadFails, CollectorStat, CollectorRead, CollectorReadFails,
     KillCollector
<1> QED
  BY <1>1, <1>2, <1>3, <1>4, <1>5, <1>6, <1>8, <1>9 DEF Next, Callback

\* What the file says was asked for, and what telemetry takes from it.
LEMMA StepAsked ==
    ASSUME TypeOK, Handled, FileIsAsked, TelemetryRunsAsAsked, Next
    PROVE  FileIsAsked' /\ TelemetryRunsAsAsked'
<1> USE DEF gateway, effects, telemetry, collector, observed
<1>1. CASE Rename
  <2>1. asked \subseteq asked' /\ UNCHANGED <<interval, enable>>
    BY <1>1 DEF Rename
  <2>2. TelemetryRunsAsAsked'
    BY <2>1, Zenon DEF TelemetryRunsAsAsked, AskedFor
  <2>3. CASE UNCHANGED <<file, asked>>
    BY <2>2, <2>3, Zenon DEF FileIsAsked
  <2>4. CASE /\ \E X : file' = [tmp EXCEPT !.earlier = X]
             /\ asked' = asked \cup {<<f, Saved[msg][f]>> : f \in DOMAIN Saved[msg]}
    <3>1. file'.settings = tmp.settings /\ file'.cut = tmp.cut
      BY <2>4, RenamedVersion DEF Handled
    <3>2. tmp.cut \/ tmp.settings = Saved[msg]
      BY <1>1 DEF Rename, Handled
    <3>3. ASSUME ~tmp.cut, NEW f \in DOMAIN file'.settings
          PROVE  <<f, file'.settings[f]>> \in asked'
      BY <2>4, <3>1, <3>2, <3>3, Zenon
    <3>4. FileIsAsked'
      BY <3>1, <3>3, Zenon DEF FileIsAsked
    <3> QED
      BY <2>2, <3>4
  <2> QED
    BY <1>1, <2>2, <2>3, <2>4 DEF Rename
<1>2. CASE TelemetryRead
  <2>1. UNCHANGED <<file, asked>>
    BY <1>2 DEF TelemetryRead
  <2>2. FileIsAsked'
    BY <2>1, Zenon DEF FileIsAsked
  <2>3. CASE UNCHANGED <<interval, enable>>
    BY <2>1, <2>2, <2>3, Zenon DEF TelemetryRunsAsAsked, AskedFor
  <2>4. CASE ~file.cut /\ TakeSettings
    <3>1. \A n : Setting(file, n)[1] \in {"num", "bool"} =>
                     n \in DOMAIN file.settings /\ Setting(file, n) = file.settings[n]
      BY DEF Setting, Member
    <3>2. \A n : Setting(file, n)[1] \in {"num", "bool"} =>
                     \E s \in asked : s[1] = n /\ s[2] = Setting(file, n)
      <4> SUFFICES ASSUME NEW n, Setting(file, n)[1] \in {"num", "bool"}
                   PROVE  \E s \in asked : s[1] = n /\ s[2] = Setting(file, n)
        OBVIOUS
      <4>1. <<n, Setting(file, n)>> \in asked
        <5>1. n \in DOMAIN file.settings /\ Setting(file, n) = file.settings[n]
          BY <3>1
        <5>2. \A f \in DOMAIN file.settings : <<f, file.settings[f]>> \in asked
          BY <2>4, Zenon DEF FileIsAsked
        <5> QED
          BY <5>1, <5>2
      <4> QED
        BY <4>1
    <3>3. interval' = interval \/ AskedFor("interval_ms", "num", interval)'
      BY <2>1, <2>4, <3>2 DEF TakeSettings, AskedFor
    <3>4. enable' = enable \/ AskedFor("telemetry_enable", "bool", enable)'
      BY <2>1, <2>4, <3>2 DEF TakeSettings, AskedFor
    <3> QED
      BY <2>1, <2>2, <3>3, <3>4, Zenon DEF TelemetryRunsAsAsked, AskedFor
  <2> QED
    BY <1>2, <2>3, <2>4 DEF TelemetryRead
<1>3. CASE UNCHANGED <<file, asked, interval, enable>>
  BY <1>3, Zenon DEF FileIsAsked, TelemetryRunsAsAsked, AskedFor
<1>4. CASE KillGateway \/ PowerOff
  <2>1. UNCHANGED <<file, asked>> /\ interval' = Interval /\ enable'
    BY <1>4 DEF KillGateway, PowerOff, GatewayEnds
  <2> QED
    BY <2>1, Zenon DEF FileIsAsked, TelemetryRunsAsAsked
<1>5. CASE \/ Arrive \/ ArriveTest \/ SchedulePower \/ Toggle \/ WriteTmp \/ Answer
           \/ Connect \/ LoseLink
  BY <1>3, <1>5 DEF Arrive, ArriveTest, SchedulePower, Toggle, WriteTmp, Answer, Connect,
     LoseLink
<1>6. CASE \/ TelemetryStat \/ TelemetryReadFails \/ CollectorStat \/ CollectorRead
           \/ CollectorReadFails \/ KillCollector \/ Start \/ Tick
  BY <1>3, <1>6 DEF TelemetryStat, TelemetryReadFails, CollectorStat, CollectorRead,
     CollectorReadFails, KillCollector, Start, Tick
<1> QED
  BY <1>1, <1>2, <1>4, <1>5, <1>6 DEF Next, Callback

\* Every step preserves the inductive invariant.
LEMMA Inductive == IInv /\ [Next]_vars => IInv'
<1> SUFFICES ASSUME IInv, [Next]_vars
             PROVE  IInv'
  OBVIOUS
<1>1. CASE Next
  BY <1>1, StepType, StepHandled, StepUntouched, StepOk, StepAsked DEF IInv
<1>2. CASE UNCHANGED vars
  <2>1. /\ UNCHANGED <<now, link, pc, msg, reply, tmp, file, devices, due, tpc>>
        /\ UNCHANGED <<interval, enable, cpc, clast, cinterval, records>>
        /\ UNCHANGED <<arrivals, faults, before, quiet, asked>>
    BY <1>2 DEF vars, gateway, effects, telemetry, collector, observed
  <2>2. TypeOK'
    BY <2>1 DEF IInv, TypeOK, IsVersion
  <2>3. Handled'
    BY <2>1, Zenon DEF IInv, Handled, IsRecord, Commands, Saved
  <2>4. Untouched' /\ OkIsTrue'
    BY <2>1, Zenon DEF IInv, Untouched, OkIsTrue, effects, Commands, Saved
  <2>5. FileIsAsked' /\ TelemetryRunsAsAsked'
    BY <2>1, Zenon DEF IInv, FileIsAsked, TelemetryRunsAsAsked, AskedFor
  <2> QED
    BY <2>2, <2>3, <2>4, <2>5 DEF IInv
<1> QED
  BY <1>1, <1>2

\* The inductive invariant is an invariant.
LEMMA Invariance == Spec => []IInv
  BY InitIInv, Inductive, PTL DEF Spec
-----------------------------------------------------------------------------
\* The types of all variables: whatever a message holds and wherever a file breaks
\* off, the devices are told 0 or 1, the two readers run with natural numbers, and
\* the control file holds fields of merge_ctrl_fields with values of their types.
THEOREM TypeCorrect == Spec => []TypeOK
<1>1. IInv => TypeOK
  BY DEF IInv
<1> QED
  BY <1>1, Invariance, PTL

\* A message that is not answered "ok" changed nothing, at whichever step it failed.
THEOREM NoEffectWithoutOkHolds == Spec => []NoEffectWithoutOk
<1>1. IInv => NoEffectWithoutOk
  BY DEF IInv, Untouched, NoEffectWithoutOk, effects
<1> QED
  BY <1>1, Invariance, PTL

\* "ok" is answered to what was done, failures that nobody looks at apart.
THEOREM OkIsTrueHolds == Spec => []OkIsTrue
<1>1. IInv => OkIsTrue
  BY DEF IInv
<1> QED
  BY <1>1, Invariance, PTL

\* The control file is replaced by a whole file or by one whose writing failed
\* without a sign of it.
THEOREM FileIsReplacedWholeHolds == Spec => FileIsReplacedWhole
<1>1. IInv /\ [Next]_vars => [file' = file \/ ~file'.cut \/ quiet]_vars
  <2> SUFFICES ASSUME IInv, Next
               PROVE  file' = file \/ ~file'.cut \/ quiet
    OBVIOUS
  <2> USE DEF gateway, effects, telemetry, collector, observed
  <2>1. CASE Rename
    <3>1. CASE file' = file
      BY <3>1
    <3>2. ASSUME NEW X, file' = [tmp EXCEPT !.earlier = X]
          PROVE  ~file'.cut \/ quiet
      <4>1. file'.cut = tmp.cut
        BY <3>2, RenamedVersion DEF IInv, Handled
      <4>2. ~tmp.cut \/ quiet
        BY <2>1 DEF Rename, IInv, Handled
      <4> QED
        BY <4>1, <4>2, Zenon
    <3> QED
      BY <2>1, <3>1, <3>2 DEF Rename
  <2>2. CASE ~Rename
    BY <2>2 DEF Next, Callback, Arrive, ArriveTest, SchedulePower, Toggle, WriteTmp, Answer,
       Connect, LoseLink, TelemetryStat, TelemetryRead, TelemetryReadFails, CollectorStat,
       CollectorRead, CollectorReadFails, KillGateway, KillCollector, PowerOff, Start,
       Tick
  <2> QED
    BY <2>1, <2>2
<1> QED
  BY <1>1, Invariance, PTL DEF Spec, FileIsReplacedWhole

\* The telemetry thread never runs with a setting that nobody gave it.
THEOREM TelemetryRunsAsAskedHolds == Spec => []TelemetryRunsAsAsked
<1>1. IInv => TelemetryRunsAsAsked
  BY DEF IInv
<1> QED
  BY <1>1, Invariance, PTL
=============================================================================
