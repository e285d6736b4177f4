------------------------ MODULE Calculations_proofs ------------------------
(***************************************************************************)
(* Proofs about two calculations that every run of the uploader and the    *)
(* gateway leans on.                                                       *)
(*                                                                         *)
(* compare_file_order is an order, whatever mixture of dated, undated and  *)
(* timeless files the directory holds, and the record survives a restart   *)
(* and moves one way.                                                      *)
(*                                                                         *)
(* The values of the test mode go one way: with "inc" every number that is *)
(* sent is at least the one before, with "dec" at most.  The floats of the *)
(* gateway are never the same twice when the step is 10^-9 or more, and    *)
(* always the same when it is less than half of that.                      *)
(***************************************************************************)
EXTENDS FileOrder, TestValues, TLAPS

(* The order of the files *)

Names == [text : Int, dated : BOOLEAN, ts : Int, seq : Nat]
Orders == [valid : BOOLEAN, ts : Int, seq : Nat]
Items == [order : Orders, name : Names]
Files == [name : Names, mtime : Int]
SentStates == [valid : BOOLEAN, order : Orders, name : Names]

LEMMA InitOrderType ==
    ASSUME NEW n \in Names, NEW t \in Int
    PROVE  InitOrder(n, t) \in Orders
BY DEF InitOrder, DatedOrder, Ordered, Unordered, Names, Orders

LEMMA ItemType ==
    ASSUME NEW f \in Files
    PROVE  Item(f) \in Items
BY InitOrderType DEF Item, Items, Files

\* Of two files of different names one comes before the other and not the other
\* way round, so that qsort has one result and "newest" one meaning.
THEOREM OneBeforeTheOther ==
    ASSUME NEW x \in Items, NEW y \in Items, x.name.text # y.name.text
    PROVE  Before(x, y) <=> ~Before(y, x)
BY DEF Before, Items, Orders, Names

\* The order is transitive, also across the three kinds of files.
THEOREM BeforeIsTransitive ==
    ASSUME NEW x \in Items, NEW y \in Items, NEW z \in Items,
           Before(x, y), Before(y, z)
    PROVE  Before(x, z)
BY DEF Before, Items, Orders, Names

\* What cmp_file_item adds to compare_file_order is never asked for: the names of
\* a directory differ.
THEOREM ListedByOrder ==
    ASSUME NEW f \in Files, NEW g \in Files, f.name.text # g.name.text
    PROVE  Listed(f, g) <=> Before(Item(f), Item(g))
<1>1. Item(f) \in Items /\ Item(g) \in Items
  BY ItemType
<1>2. Item(f).name.text # Item(g).name.text
  BY DEF Item
<1> QED  BY <1>1, <1>2, OneBeforeTheOther DEF Listed

\* Whatever was sent last, a process that is started again finds the record it
\* would have gone on with, although the line holds no serial number and the file
\* may be gone or have changed.
THEOREM RecordSurvivesRestart ==
    ASSUME NEW f \in Files, NEW state \in SentStates, NEW later \in Int, Item(f).order.valid
    PROVE  Load(Save(Advance(state, Item(f))), later) = Advance(state, Item(f))
<1> DEFINE s == Advance(state, Item(f))
<1> SUFFICES Load(Save(s), later) = s  OBVIOUS
<1>1. s = [valid |-> TRUE, order |-> Item(f).order, name |-> f.name]
  BY DEF Advance, Item
<1>2. CASE f.name.dated
  <2>1. Item(f).order = Ordered(f.name.ts, f.name.seq)
    BY <1>2 DEF Item, InitOrder, DatedOrder
  <2>2. Save(s).name = f.name /\ Save(s).form = "stamped"
    BY <1>1 DEF Save
  <2>3. \A t : InitOrder(f.name, t) = Ordered(f.name.ts, f.name.seq)
    BY <1>2 DEF InitOrder, DatedOrder
  <2> HIDE DEF s
  <2> QED  BY <1>1, <2>1, <2>2, <2>3 DEF Load, ResolveOrder, Ordered
<1>3. CASE ~f.name.dated
  <2>1. f.mtime # 0 /\ Item(f).order = Ordered(f.mtime, 0)
    BY <1>3 DEF Item, InitOrder, Unordered
  <2>2. Save(s).ts = f.mtime /\ Save(s).name = f.name /\ Save(s).form = "stamped"
    BY <1>1, <2>1 DEF Save, Ordered
  <2> HIDE DEF s
  <2> QED  BY <1>1, <1>3, <2>1, <2>2 DEF Load, ResolveOrder, InitOrder, Ordered
<1> QED  BY <1>2, <1>3

\* The record moves on only: what is not after it stays so when a file after it
\* is recorded, and the file itself is not after it any more.
THEOREM RecordMovesOn ==
    ASSUME NEW state \in SentStates, NEW x \in Items, NEW y \in Items,
           AfterSentState(x, state), x.order.valid
    PROVE  /\ ~AfterSentState(x, Advance(state, x))
           /\ AfterSentState(y, Advance(state, x)) => AfterSentState(y, state)
<1> DEFINE s == Advance(state, x)
<1>1. s.valid /\ s.order = x.order /\ s.name = x.name
  BY DEF Advance
<1>2. \A z : Before(s, z) <=> Before(x, z)
  BY <1>1 DEF Before
<1>3. ~Before(x, x)
  BY DEF Before, Items, Orders, Names
<1>4. ASSUME state.valid, Before(x, y)
      PROVE  Before(state, y)
  <2>1. Before(state, x)
    BY <1>4 DEF AfterSentState
  <2>2. [order |-> state.order, name |-> state.name] \in Items
    BY DEF Items, SentStates
  <2> DEFINE t == [order |-> state.order, name |-> state.name]
  <2>3. \A z : Before(t, z) <=> Before(state, z)
    BY DEF Before
  <2> HIDE DEF t
  <2> QED  BY <1>4, <2>1, <2>2, <2>3, BeforeIsTransitive DEF t
<1> QED  BY <1>1, <1>2, <1>3, <1>4 DEF AfterSentState
-----------------------------------------------------------------------------
(* The values of the test mode *)

Configs == [type : {"int", "float", "bool", "string", "json"},
            pattern : {"fixed", "inc", "dec"}, value : Int, step : Int,
            places : 0 .. 9, text : STRING, parses : BOOLEAN, test_mode : BOOLEAN]
ValueStates == [ready : BOOLEAN, value : Int]

Units == {1000000000, 100000000, 10000000, 1000000, 100000, 10000, 1000, 100, 10, 1}

LEMMA GridType ==
    ASSUME NEW p \in Int
    PROVE  Unit(p) \in Units /\ Grid(p) \in Nat \ {0}
<1>1. Unit(p) \in Units
  BY DEF Unit, Units
<1> QED  BY <1>1, NanoAssumption DEF Grid, Units

\* Whole numbers divided, with what is left over.
LEMMA Division ==
    ASSUME NEW a \in Int, NEW u \in Nat \ {0}
    PROVE  /\ a \div u \in Int
           /\ (a \div u) * u <= a /\ a < (a \div u) * u + u
           /\ a % u = a - (a \div u) * u
OBVIOUS

\* Two multiples less than a unit apart are one.
LEMMA OneMultiple ==
    ASSUME NEW j \in Int, NEW k \in Int, NEW u \in Nat \ {0},
           j * u < k * u + u, k * u < j * u + u
    PROVE  j = k
<1>1. ASSUME j >= k + 1  PROVE FALSE
  <2>1. j * u >= (k + 1) * u
    BY <1>1
  <2> QED  BY <2>1
<1>2. ASSUME k >= j + 1  PROVE FALSE
  <2>1. k * u >= (j + 1) * u
    BY <1>2
  <2> QED  BY <2>1
<1> QED  BY <1>1, <1>2

LEMMA QuotientIsMonotone ==
    ASSUME NEW a \in Int, NEW b \in Int, NEW u \in Nat \ {0}, a <= b
    PROVE  (a \div u) * u <= (b \div u) * u
<1> DEFINE p == a \div u  q == b \div u
<1>1. p \in Int /\ q \in Int /\ p * u <= a /\ b < q * u + u
  BY Division
<1> HIDE DEF p, q
<1>2. ASSUME p >= q + 1  PROVE FALSE
  <2>1. p * u >= (q + 1) * u
    BY <1>1, <1>2
  <2> QED  BY <1>1, <2>1
<1>3. p * u <= q * u
  BY <1>1, <1>2
<1> QED  BY <1>3 DEF p, q

\* Half of a unit, as quantize_decimal adds it.
LEMMA Half ==
    ASSUME NEW u \in Nat \ {0}
    PROVE  /\ u \div 2 \in Nat
           /\ 2 * (u \div 2) <= u /\ 2 * (u \div 2) >= u - 1 /\ u \div 2 < u
OBVIOUS

\* A rounded number is a multiple of the unit, at most half a unit away.
LEMMA NearestType ==
    ASSUME NEW v \in Int, NEW u \in Nat \ {0}
    PROVE  LET h == u \div 2  n == Nearest(v, u) IN
           /\ n \in Int /\ \E k \in Int : n = k * u
           /\ v >= 0 => n <= v + h /\ v + h < n + u
           /\ v < 0 => -n <= h - v /\ h - v < u - n
<1> DEFINE h == u \div 2
           n == Nearest(v, u)
<1>1. h \in Nat
  BY Half
<1>2. CASE v >= 0
  <2> DEFINE q == (v + h) \div u
  <2>1. n = q * u
    BY <1>2 DEF Nearest
  <2> HIDE DEF n, h
  <2>2. q \in Int /\ q * u <= v + h /\ v + h < q * u + u
    BY <1>1, Division
  <2> HIDE DEF q
  <2>3. n \in Int /\ n <= v + h /\ v + h < n + u
    BY <2>1, <2>2
  <2> QED  BY <1>2, <2>1, <2>2, <2>3 DEF n, h
<1>3. CASE v < 0
  <2> DEFINE q == (h - v) \div u
  <2>1. n = -(q * u)
    BY <1>3 DEF Nearest
  <2> HIDE DEF n, h
  <2>2. q \in Int /\ q * u <= h - v /\ h - v < q * u + u
    BY <1>1, Division
  <2> HIDE DEF q
  <2>3. -q \in Int /\ n = (-q) * u /\ q * u \in Int
    BY <2>1, <2>2
  <2>4. n \in Int /\ -n <= h - v /\ h - v < u - n
    BY <1>1, <2>1, <2>2, <2>3
  <2>5. \E k \in Int : n = k * u
    BY <2>3
  <2> QED  BY <1>3, <2>4, <2>5 DEF n, h
<1> QED  BY <1>2, <1>3

\* Rounding keeps the order of numbers, across zero too.
LEMMA NearestIsMonotone ==
    ASSUME NEW v \in Int, NEW w \in Int, NEW u \in Nat \ {0}, v <= w
    PROVE  Nearest(v, u) <= Nearest(w, u)
<1> DEFINE h == u \div 2
           Up(x) == ((x + h) \div u) * u
           Down(x) == ((h - x) \div u) * u
<1>1. h \in Nat
  BY Half
<1>2. /\ v >= 0 => Nearest(v, u) = Up(v)
      /\ w >= 0 => Nearest(w, u) = Up(w)
      /\ v < 0 => Nearest(v, u) = -Down(v)
      /\ w < 0 => Nearest(w, u) = -Down(w)
  BY DEF Nearest
<1> HIDE DEF h
<1>3. \A x \in Int : Up(x) \in Int /\ Down(x) \in Int
  BY <1>1, Division
<1>4. Up(v) <= Up(w)
  BY <1>1, QuotientIsMonotone
<1>5. Down(w) <= Down(v)
  BY <1>1, QuotientIsMonotone
<1>6. CASE v < 0 /\ w >= 0
  <2>1. 0 \div u = 0
    BY Division, OneMultiple
  <2>2. Down(v) >= 0
    <3>1. (0 \div u) * u <= Down(v)
      BY <1>1, <1>6, QuotientIsMonotone
    <3> QED  BY <2>1, <3>1
  <2>3. Up(w) >= 0
    <3>1. (0 \div u) * u <= Up(w)
      BY <1>1, <1>6, QuotientIsMonotone
    <3> QED  BY <2>1, <3>1
  <2> HIDE DEF Up, Down
  <2> QED  BY <1>2, <1>3, <1>6, <2>2, <2>3
<1>7. CASE v >= 0 \/ w < 0
  <2> HIDE DEF Up, Down
  <2> QED  BY <1>2, <1>3, <1>4, <1>5, <1>7
<1> QED  BY <1>6, <1>7

\* What is less than half a unit from a multiple is rounded to it.
LEMMA NearestStays ==
    ASSUME NEW k \in Int, NEW x \in Int, NEW u \in Nat \ {0}, NEW v \in Int, v = k * u,
           2 * (x - v) < u, -u < 2 * (x - v)
    PROVE  Nearest(x, u) = v
<1> DEFINE h == u \div 2
           n == Nearest(x, u)
<1>1. h \in Nat /\ 2 * h <= u /\ 2 * h >= u - 1
  BY Half
<1>2. PICK j \in Int : n = j * u
  BY NearestType
<1>3. /\ n \in Int
      /\ x >= 0 => n <= x + h /\ x + h < n + u
      /\ x < 0 => -n <= h - x /\ h - x < u - n
  BY NearestType
<1> HIDE DEF n, h
<1>4. n < v + u /\ v < n + u
  BY <1>1, <1>3
<1>5. j = k
  BY <1>2, <1>4, OneMultiple
<1> QED  BY <1>2, <1>5 DEF n

\* A step of more than half a unit is not rounded back.
LEMMA NearestGoesOn ==
    ASSUME NEW v \in Int, NEW s \in Nat, NEW u \in Nat \ {0}, 2 * s > u
    PROVE  Nearest(v + s, u) > v /\ Nearest(v - s, u) < v
<1> DEFINE h == u \div 2
<1>1. h \in Nat /\ 2 * h <= u /\ 2 * h >= u - 1
  BY Half
<1>2. s + h >= u /\ h < s
  BY <1>1
<1>3. ASSUME NEW x \in Int
      PROVE  LET n == Nearest(x, u) IN
             /\ n \in Int
             /\ x >= 0 => n <= x + h /\ x + h < n + u
             /\ x < 0 => -n <= h - x /\ h - x < u - n
  BY NearestType
<1> HIDE DEF h
<1>4. v + s \in Int /\ v - s \in Int
  OBVIOUS
<1>5. Nearest(v + s, u) > v
  BY <1>1, <1>2, <1>3, <1>4
<1>6. Nearest(v - s, u) < v
  BY <1>1, <1>2, <1>3, <1>4
<1> QED  BY <1>5, <1>6

LEMMA PlacesOfType ==
    ASSUME NEW v \in Int
    PROVE  PlacesOf(v) \in 0 .. 9 /\ v % Unit(PlacesOf(v)) = 0
<1> DEFINE P(p) == v % Unit(p) = 0 /\ \A q \in 0 .. p - 1 : v % Unit(q) # 0
<1>1. \E p \in 0 .. 9 : P(p)
  <2>1. v % Unit(9) = 0
    BY DEF Unit
  <2>2. CASE \E p \in 0 .. 4 : P(p)
    BY <2>2
  <2>3. CASE \A p \in 0 .. 4 : v % Unit(p) # 0
    <3>1. CASE v % Unit(5) = 0
      BY <3>1, <2>3
    <3>2. CASE v % Unit(5) # 0 /\ v % Unit(6) = 0
      BY <3>2, <2>3
    <3>3. CASE v % Unit(5) # 0 /\ v % Unit(6) # 0 /\ v % Unit(7) = 0
      BY <3>3, <2>3
    <3>4. CASE v % Unit(5) # 0 /\ v % Unit(6) # 0 /\ v % Unit(7) # 0 /\ v % Unit(8) = 0
      BY <3>4, <2>3
    <3>5. CASE v % Unit(5) # 0 /\ v % Unit(6) # 0 /\ v % Unit(7) # 0 /\ v % Unit(8) # 0
      BY <3>5, <2>1, <2>3
    <3> QED  BY <3>1, <3>2, <3>3, <3>4, <3>5
  <2>4. CASE \E p \in 0 .. 4 : v % Unit(p) = 0
    <3>1. CASE v % Unit(0) = 0
      BY <3>1
    <3>2. CASE v % Unit(0) # 0 /\ v % Unit(1) = 0
      BY <3>2
    <3>3. CASE v % Unit(0) # 0 /\ v % Unit(1) # 0 /\ v % Unit(2) = 0
      BY <3>3
    <3>4. CASE v % Unit(0) # 0 /\ v % Unit(1) # 0 /\ v % Unit(2) # 0 /\ v % Unit(3) = 0
      BY <3>4
    <3>5. CASE /\ v % Unit(0) # 0 /\ v % Unit(1) # 0 /\ v % Unit(2) # 0 /\ v % Unit(3) # 0
               /\ v % Unit(4) = 0
      BY <3>5
    <3> QED  BY <2>4, <3>1, <3>2, <3>3, <3>4, <3>5
  <2> QED  BY <2>3, <2>4
<1>2. PlacesOf(v) = CHOOSE p \in 0 .. 9 : P(p)
  BY DEF PlacesOf
<1> QED  BY <1>1, <1>2

\* What is printed of a number is at most half of the last decimal away.
LEMMA PrintedType ==
    ASSUME NEW v \in Nat
    PROVE  /\ Printed(v) \in Nat
           /\ 2 * (v - Printed(v) * Nano) <= Nano
           /\ 2 * (Printed(v) * Nano - v) <= Nano
<1> DEFINE n == v \div Nano  rest == v % Nano
<1>1. Nano \in Nat \ {0}
  BY NanoAssumption
<1>2. n \in Int /\ n * Nano <= v /\ v < n * Nano + Nano /\ rest = v - n * Nano
  BY <1>1, Division
<1>3. n >= 0
  BY <1>1, <1>2
<1>4. Printed(v) = IF 2 * rest > Nano \/ (2 * rest = Nano /\ n % 2 = 1) THEN n + 1 ELSE n
  BY DEF Printed
<1> HIDE DEF n, rest
<1>5. (n + 1) * Nano = n * Nano + Nano /\ n * Nano \in Int
  BY <1>1, <1>2
<1>6. CASE Printed(v) = n /\ 2 * rest <= Nano
  BY <1>1, <1>2, <1>3, <1>5, <1>6
<1>7. CASE Printed(v) = n + 1 /\ 2 * rest >= Nano
  BY <1>1, <1>2, <1>3, <1>5, <1>7
<1>8. rest \in Int
  BY <1>1, <1>2, <1>5
<1> QED  BY <1>1, <1>4, <1>6, <1>7, <1>8

\* The step against the last decimal that the floats are kept to: more than half of
\* it when it is 10^-9 or more, less than half when it is printed as 0.
LEMMA StepAndDecimals ==
    ASSUME NEW cfg \in Configs
    PROVE  /\ Step(cfg) \in Nat /\ Step(cfg) > 0
           /\ Places(cfg) \in 0 .. 9
           /\ Grid(Places(cfg)) \in Nat \ {0}
           /\ Step(cfg) >= Nano => 2 * Step(cfg) > Grid(Places(cfg))
           /\ 2 * Step(cfg) < Nano => 2 * Step(cfg) < Grid(Places(cfg))
<1>0. Nano \in Nat \ {0} /\ One \in Nat \ {0}
  BY NanoAssumption, GridType DEF One
<1>1. Step(cfg) \in Nat /\ Step(cfg) > 0
  BY <1>0 DEF Step, Configs
<1> DEFINE s == Step(cfg)  n == Printed(s)  p == PlacesOf(n)  g == Unit(Places(cfg))
<1>2. /\ n \in Nat
      /\ 2 * (s - n * Nano) <= Nano /\ 2 * (n * Nano - s) <= Nano
  BY <1>1, PrintedType
<1>3. p \in 0 .. 9 /\ n % Unit(p) = 0
  BY <1>2, PlacesOfType
<1>4. Places(cfg) \in 0 .. 9 /\ Places(cfg) >= p
  BY <1>3 DEF Places, Configs
<1>5. Unit(p) \in Units /\ g \in Units /\ Grid(Places(cfg)) \in Nat \ {0}
  BY <1>3, <1>4, GridType
<1>6. n > 0 => n >= Unit(p)
  <2> HIDE DEF n, p
  <2> QED  BY <1>2, <1>3, <1>5 DEF Units
<1>7. g <= Unit(p)
  BY <1>3, <1>4 DEF Unit
<1>8. Grid(Places(cfg)) = g * Nano /\ g \in Nat \ {0} /\ Unit(p) \in Nat
  BY <1>5 DEF Grid, Units
<1> HIDE DEF s, n, p, g
<1>9. s \in Nat /\ s > 0
  BY <1>1 DEF s
<1>10. ASSUME s >= Nano
       PROVE  2 * s > g * Nano
  <2>1. n # 0
    BY <1>0, <1>2, <1>9, <1>10
  <2>2. n >= g
    BY <1>2, <1>6, <1>7, <1>8, <2>1
  <2>3. CASE n = 1
    <3>1. g = 1
      BY <1>8, <2>2, <2>3
    <3> QED  BY <1>0, <1>9, <1>10, <3>1
  <2>4. CASE n >= 2
    <3>1. n * Nano >= g * Nano /\ n * Nano >= 2 * Nano
      BY <1>0, <1>2, <1>8, <2>2, <2>4
    <3>2. n * Nano \in Nat /\ g * Nano \in Nat
      BY <1>0, <1>2, <1>8
    <3> QED  BY <1>0, <1>2, <1>9, <3>1, <3>2
  <2> QED  BY <1>2, <2>1, <2>3, <2>4
<1>11. ASSUME 2 * s < Nano
       PROVE  2 * s < g * Nano
  <2>1. g * Nano >= Nano
    BY <1>0, <1>8
  <2>2. g * Nano \in Nat
    BY <1>0, <1>8
  <2> QED  BY <1>0, <1>9, <1>11, <2>1, <2>2
<1> QED  BY <1>1, <1>4, <1>5, <1>8, <1>10, <1>11 DEF s

LEMMA CurrentType ==
    ASSUME NEW program \in {"mqtt", "http"}, NEW cfg \in Configs, NEW state \in ValueStates
    PROVE  Exact(cfg, state) \in Int /\ Current(program, cfg, state) \in Int
<1>1. Exact(cfg, state) \in Int
  BY DEF Exact, Configs, ValueStates
<1> QED  BY <1>1, StepAndDecimals, NearestType DEF Current, Kept

\* Keeping a number to its decimals again changes nothing.
LEMMA KeptTwice ==
    ASSUME NEW program \in {"mqtt", "http"}, NEW cfg \in Configs, NEW v \in Int
    PROVE  /\ Kept(program, cfg, v) \in Int
           /\ Kept(program, cfg, Kept(program, cfg, v)) = Kept(program, cfg, v)
<1> DEFINE g == Grid(Places(cfg))
<1>1. g \in Nat \ {0}
  BY StepAndDecimals
<1> HIDE DEF g
<1>2. PICK k \in Int : Nearest(v, g) = k * g
  BY <1>1, NearestType
<1> DEFINE n == Nearest(v, g)
<1>3. n \in Int
  BY <1>1, NearestType
<1> HIDE DEF n
<1>4. n = k * g /\ 2 * (n - n) < g /\ -g < 2 * (n - n)
  BY <1>1, <1>2, <1>3 DEF n
<1>5. Nearest(n, g) = n
  BY <1>1, <1>3, <1>4, NearestStays
<1> QED  BY <1>3, <1>5 DEF Kept, g, n

\* What the state goes on from next.
LEMMA NextCurrent ==
    ASSUME NEW program \in {"mqtt", "http"}, NEW cfg \in Configs, NEW state \in ValueStates,
           cfg.type \in {"int", "float"}, cfg.pattern \in {"inc", "dec"}
    PROVE  LET c == Current(program, cfg, state)
               n == Kept(program, cfg, IF cfg.pattern = "inc" THEN c + Step(cfg)
                                                               ELSE c - Step(cfg))
               after == After(program, cfg, state) IN
           /\ after \in ValueStates /\ Exact(cfg, after) = n
           /\ Current(program, cfg, after) = n
<1> DEFINE c == Current(program, cfg, state)
           m == IF cfg.pattern = "inc" THEN c + Step(cfg) ELSE c - Step(cfg)
           n == Kept(program, cfg, m)
           after == After(program, cfg, state)
<1>1. m \in Int
  BY CurrentType, StepAndDecimals
<1>2. n \in Int /\ Kept(program, cfg, n) = n
  BY <1>1, KeptTwice
<1>3. after = [ready |-> TRUE, value |-> n]
  BY DEF After
<1> QED  BY <1>2, <1>3 DEF ValueStates, Exact, Current

\* What a step makes of a number: never one on the other side, one that is further
\* on when the step is 10^-9 or more or the number is not rounded, and for a float
\* of the gateway the same when the step is less than half of that.
LEMMA KeptMoves ==
    ASSUME NEW program \in {"mqtt", "http"}, NEW cfg \in Configs, NEW state \in ValueStates
    PROVE  LET c == Current(program, cfg, state)
               more == Kept(program, cfg, c + Step(cfg))
               less == Kept(program, cfg, c - Step(cfg)) IN
           /\ more >= c /\ less <= c
           /\ program = "http" \/ Step(cfg) >= Nano => more > c /\ less < c
           /\ program = "mqtt" /\ cfg.type = "float" /\ 2 * Step(cfg) < Nano =>
                  more = c /\ less = c
<1> DEFINE c == Current(program, cfg, state)
           s == Step(cfg)
           g == Grid(Places(cfg))
<1>1. /\ c \in Int /\ s \in Nat /\ s > 0 /\ g \in Nat \ {0}
      /\ s >= Nano => 2 * s > g
      /\ 2 * s < Nano => 2 * s < g
  BY CurrentType, StepAndDecimals
<1>2. CASE program = "mqtt" /\ cfg.type = "float"
  <2>1. c = Nearest(Exact(cfg, state), g)
    BY <1>2 DEF Current, Kept
  <2> HIDE DEF g
  <2>2. PICK k \in Int : c = k * g
    BY <1>1, <2>1, CurrentType, NearestType
  <2>3. \A v : Kept(program, cfg, v) = Nearest(v, g)
    BY <1>2 DEF Kept, g
  <2> HIDE DEF c, s
  <2>4. Nearest(c, g) = c
    <3>1. 2 * (c - c) < g /\ -g < 2 * (c - c)
      BY <1>1
    <3> QED  BY <1>1, <2>2, <3>1, NearestStays
  <2>5. 2 * s > g => Nearest(c + s, g) > c /\ Nearest(c - s, g) < c
    BY <1>1, NearestGoesOn
  <2>6. ASSUME 2 * s < g  PROVE Nearest(c + s, g) = c /\ Nearest(c - s, g) = c
    <3>1. /\ c + s \in Int /\ 2 * ((c + s) - c) < g /\ -g < 2 * ((c + s) - c)
          /\ c - s \in Int /\ 2 * ((c - s) - c) < g /\ -g < 2 * ((c - s) - c)
      BY <1>1, <2>6
    <3>2. Nearest(c + s, g) = c
      BY <1>1, <2>2, <3>1, NearestStays
    <3>3. Nearest(c - s, g) = c
      BY <1>1, <2>2, <3>1, NearestStays
    <3> QED  BY <3>2, <3>3
  <2>7. c + s \in Int /\ c - s \in Int /\ c <= c + s /\ c - s <= c
    BY <1>1
  <2>8. Nearest(c + s, g) >= c /\ Nearest(c - s, g) <= c
    <3>1. Nearest(c, g) <= Nearest(c + s, g) /\ Nearest(c - s, g) <= Nearest(c, g)
      BY <1>1, <2>7, NearestIsMonotone
    <3>2. Nearest(c + s, g) \in Int /\ Nearest(c - s, g) \in Int
      BY <1>1, <2>7, NearestType
    <3> QED  BY <1>1, <2>4, <3>1, <3>2
  <2> QED  BY <1>1, <1>2, <2>3, <2>8, <2>5, <2>6 DEF c, s
<1>3. CASE ~(program = "mqtt" /\ cfg.type = "float")
  <2>1. \A v : Kept(program, cfg, v) = v
    BY <1>3 DEF Kept
  <2> QED  BY <1>1, <1>3, <2>1
<1> QED  BY <1>2, <1>3

\* One number and the next.
LEMMA NumbersMove ==
    ASSUME NEW program \in {"mqtt", "http"}, NEW cfg \in Configs, NEW state \in ValueStates,
           cfg.type \in {"int", "float"}, NEW old, NEW new,
           old = Data(program, cfg, state)[2],
           new = Data(program, cfg, After(program, cfg, state))[2]
    PROVE  /\ cfg.pattern = "inc" => old <= new
           /\ cfg.pattern = "dec" => old >= new
           /\ cfg.pattern = "fixed" => old = new
<1> DEFINE c == Current(program, cfg, state)
           e == Exact(cfg, state)
           s == Step(cfg)
           after == After(program, cfg, state)
<1>1. e \in Int /\ c \in Int /\ s \in Int /\ s > 0
  BY CurrentType, StepAndDecimals
<1>2. CASE cfg.type = "int"
  <2>1. old = Nearest(e, One) /\ new = Nearest(Exact(cfg, after), One)
    BY <1>2 DEF Data
  <2>2. c = e
    BY <1>2 DEF Current, Kept
  <2>3. One \in Nat \ {0}
    BY GridType DEF One
  <2>4. CASE cfg.pattern = "inc"
    <3>1. Exact(cfg, after) = e + s
      BY <1>2, <2>2, <2>4 DEF Exact, After, Kept
    <3> QED  BY <1>1, <2>1, <2>3, <2>4, <3>1, NearestIsMonotone
  <2>5. CASE cfg.pattern = "dec"
    <3>1. Exact(cfg, after) = e - s
      BY <1>2, <2>2, <2>5 DEF Exact, After, Kept
    <3>2. e - s \in Int /\ e - s <= e
      BY <1>1
    <3>3. Nearest(e - s, One) <= Nearest(e, One)
      BY <1>1, <2>3, <3>2, NearestIsMonotone
    <3>4. Nearest(e - s, One) \in Int /\ Nearest(e, One) \in Int
      BY <1>1, <2>3, <3>2, NearestType
    <3> QED  BY <2>1, <2>5, <3>1, <3>3, <3>4
  <2>6. CASE cfg.pattern = "fixed"
    <3>1. Exact(cfg, after) = e
      BY <1>2, <2>6 DEF Exact, After
    <3> QED  BY <2>1, <2>6, <3>1
  <2> QED  BY <2>4, <2>5, <2>6 DEF Configs
<1>3. CASE cfg.type = "float"
  <2>1. old = c /\ new = Current(program, cfg, after)
    BY <1>3 DEF Data
  <2>2. CASE cfg.pattern \in {"inc", "dec"}
    <3>1. after \in ValueStates
      BY <1>3, <2>2, NextCurrent
    <3>2. Current(program, cfg, after) \in Int
      BY <3>1, CurrentType
    <3>3. new = Kept(program, cfg, IF cfg.pattern = "inc" THEN c + s ELSE c - s)
      BY <1>3, <2>1, <2>2, NextCurrent
    <3>4. Kept(program, cfg, c + s) >= c /\ Kept(program, cfg, c - s) <= c
      BY KeptMoves
    <3> QED  BY <1>1, <2>1, <2>2, <3>2, <3>3, <3>4
  <2>4. CASE cfg.pattern = "fixed"
    <3>1. Exact(cfg, after) = e
      BY <1>3, <2>4 DEF Exact, After
    <3> QED  BY <2>1, <2>4, <3>1 DEF Current
  <2> QED  BY <2>2, <2>4 DEF Configs
<1> QED  BY <1>2, <1>3

\* With "inc" no number that is sent is less than the one before it, with "dec"
\* none is more, whichever program sends it and whatever is lost in between.
THEOREM NumbersGoOneWay ==
    ASSUME NEW program \in {"mqtt", "http"}, NEW cfg \in Configs, NEW state \in ValueStates,
           cfg.type \in {"int", "float"}, NEW taken \in BOOLEAN,
           NEW round \in Rounds(program, cfg, state, taken), NEW old, NEW new,
           old = Data(program, cfg, state)[2],
           new = Data(program, cfg, round.state)[2]
    PROVE  /\ cfg.pattern = "inc" => old <= new
           /\ cfg.pattern = "dec" => old >= new
           /\ cfg.pattern = "fixed" => old = new
<1>1. round.state = After(program, cfg, state) \/ round.state = state
  BY DEF Rounds, TestPublisher, SendTestPayload, Try
<1>2. CASE round.state = After(program, cfg, state)
  BY <1>2, NumbersMove
<1>3. CASE round.state = state
  <2>1. Exact(cfg, state) \in Int /\ Current(program, cfg, state) \in Int
    BY CurrentType
  <2>2. One \in Nat \ {0}
    BY GridType DEF One
  <2>3. old \in Int
    BY <2>1, <2>2, NearestType DEF Data
  <2> QED  BY <1>3, <2>3
<1> QED  BY <1>1, <1>2, <1>3

\* Two floats that are sent one after the other differ: keeping the gateway's to the
\* decimals of value and step takes no step of 10^-9 or more back, and the uploader's
\* are not rounded.
THEOREM FloatsDiffer ==
    ASSUME NEW program \in {"mqtt", "http"}, NEW cfg \in Configs, NEW state \in ValueStates,
           cfg.type = "float", program = "mqtt" => Step(cfg) >= Nano, NEW old, NEW new,
           old = Data(program, cfg, state)[2],
           new = Data(program, cfg, After(program, cfg, state))[2]
    PROVE  /\ cfg.pattern = "inc" => old < new
           /\ cfg.pattern = "dec" => old > new
<1> DEFINE c == Current(program, cfg, state)
           s == Step(cfg)
<1>1. old = c /\ new = Current(program, cfg, After(program, cfg, state))
  BY DEF Data
<1>2. cfg.pattern \in {"inc", "dec"} =>
          new = Kept(program, cfg, IF cfg.pattern = "inc" THEN c + s ELSE c - s)
  BY <1>1, NextCurrent
<1>3. Kept(program, cfg, c + s) > c /\ Kept(program, cfg, c - s) < c
  BY KeptMoves
<1> QED  BY <1>1, <1>2, <1>3

\* The other side of it: with a step of less than 0.5 * 10^-9 the gateway, which
\* takes the decimals from what "%.9f" prints of the step, sends one float for ever.
THEOREM FinerStepIsLost ==
    ASSUME NEW cfg \in Configs, NEW state \in ValueStates,
           cfg.type = "float", 2 * Step(cfg) < Nano
    PROVE  Data("mqtt", cfg, After("mqtt", cfg, state)) = Data("mqtt", cfg, state)
<1> DEFINE c == Current("mqtt", cfg, state)
           s == Step(cfg)
           after == After("mqtt", cfg, state)
<1>1. Current("mqtt", cfg, after) = c
  <2>1. CASE cfg.pattern \in {"inc", "dec"}
    <3>1. Current("mqtt", cfg, after) =
              Kept("mqtt", cfg, IF cfg.pattern = "inc" THEN c + s ELSE c - s)
      BY <2>1, NextCurrent
    <3>2. Kept("mqtt", cfg, c + s) = c /\ Kept("mqtt", cfg, c - s) = c
      BY KeptMoves
    <3> QED  BY <2>1, <3>1, <3>2
  <2>2. CASE cfg.pattern = "fixed"
    <3>1. Exact(cfg, after) = Exact(cfg, state)
      BY <2>2 DEF After, Exact
    <3> QED  BY <3>1 DEF Current
  <2> QED  BY <2>1, <2>2 DEF Configs
<1>2. /\ Data("mqtt", cfg, after) = <<"num", Current("mqtt", cfg, after)>>
      /\ Data("mqtt", cfg, state) = <<"num", c>>
  BY DEF Data
<1> QED  BY <1>1, <1>2
=============================================================================
