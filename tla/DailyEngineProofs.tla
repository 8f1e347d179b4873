--------------------------- MODULE DailyEngineProofs ---------------------------
(***************************************************************************)
(* The daily engine on every tape: for every company, scenario and policy  *)
(* the models accept, every length of the three phases and every shock,    *)
(* the five invariants of DailyEngine hold in every state of a trace.      *)
(*                                                                         *)
(* The inductive invariant says of every phase of a day what the next one  *)
(* relies on: the flows of a day balance while they are being written      *)
(* (FlowsInv), what later phases write is still blank (BlankInv), the      *)
(* counts and units of every order group agree (OrdersInv), supplier and   *)
(* work orders are told apart by their day (SuppliesInv, WorkInv), and     *)
(* cash and schedules are as the properties say.  Each action is a lemma.  *)
(***************************************************************************)
EXTENDS DailyEngine, FiniteSetLemmas
-----------------------------------------------------------------------------
(* The invariant of the daily engine *)

OrderRecord ==
  [product : Products, segment : Segments, day : Nat, due : Nat, phase : Phases,
   count : Nat \ {0}, units : Nat, shipped : Nat, fulfilled : Nat, cancelled : Nat,
   onTime : BOOLEAN, inTime : Nat, punctual : Nat]

WorkRecord == [product : Products, due : Int, units : Nat \ {0}]

SupplyRecord == [material : Materials, day : Nat, due : Nat, units : Nat, phase : Phases]

PeriodRecord ==
  [goods : [Products -> Nat], stock : [Materials -> Nat],
   backlog : [Products -> Nat], wip : [Products -> Nat], cash : Nat, debt : Nat,
   received : [Materials -> Nat], consumed : [Materials -> Nat],
   completed : [Products -> Nat], good : [Products -> Nat], started : [Products -> Nat],
   ordered : [Products -> Nat], shipped : [Products -> Nat], cancelled : [Products -> Nat],
   available : [Resources -> Nat], used : [Resources -> Nat], overtime : [Resources -> Nat],
   collections : Nat, payments : Nat, draw : Nat, repay : Nat, rescue : Nat, spent : Int]

TotalsRecord ==
  [created : Nat, resolved : Nat, sold : [Phases -> Nat], collected : [Phases -> Nat],
   bought : [Phases -> Nat], paid : [Phases -> Nat]]

IsSchedule(s) ==
  /\ IsFiniteSet(DOMAIN s) /\ DOMAIN s \subseteq Nat
  /\ s \in [DOMAIN s -> [Phases -> Nat]]

\* Every variable has its type, what is open is finitely much, and no day follows the last.
TypeInv ==
  /\ day \in 0 .. Horizon - 1 /\ step \in Steps \ {"invalid"} /\ allowRescue \in BOOLEAN
  /\ step = "next" => day + 1 < Horizon
  /\ shock \in Shocks
  /\ goods \in [Products -> Nat] /\ stock \in [Materials -> Nat]
  /\ IsFiniteSet(orders) /\ orders \subseteq OrderRecord
  /\ IsFiniteSet(work) /\ work \subseteq WorkRecord
  /\ IsFiniteSet(supplies) /\ supplies \subseteq SupplyRecord
  /\ IsSchedule(receivables) /\ IsSchedule(payables)
  /\ cash \in Nat /\ debt \in Nat
  /\ today \in PeriodRecord /\ totals \in TotalsRecord

\* The counts and units of one order on a day.
OrderSound(o, d) ==
  LET size == Segment[o.segment].size
  IN /\ o.units + o.shipped = (o.count - o.cancelled) * size
     /\ o.fulfilled = o.shipped \div size
     /\ o.onTime => o.inTime = o.shipped /\ o.punctual = o.fulfilled
     /\ ~o.onTime => d > o.due /\ o.punctual = o.inTime \div size
     /\ o.day <= d

SameGroup(o, q) == o.product = q.product /\ o.segment = q.segment /\ o.day = q.day

\* Groups are told apart by their product, segment and day; those of the day come with
\* the demand; and whoever has no unit left leaves with the cancellations.
OrdersInv ==
  /\ \A o \in orders : OrderSound(o, day) /\ o.due = o.day + Segment[o.segment].promise
  /\ \A o, q \in orders : SameGroup(o, q) => o = q
  /\ step \in {"receive", "complete", "settle", "demand"} => \A o \in orders : o.day < day
  /\ \A o \in orders : o.units = 0 => step = "cancel"
  /\ totals.created = totals.resolved + OpenOrders(Evaluated(orders))

\* Supplier orders are told apart by their material and day.
SuppliesInv ==
  /\ \A o, q \in supplies : o.material = q.material /\ o.day = q.day => o = q
  /\ \A o \in supplies :
       o.day <= day /\ (o.day = day => step \in {"close", "next", "done", "breach"})
  /\ SupplyStaysInPolicy

\* Work orders of a product were started on different operating days.
WorkInv ==
  \A w \in work : \E d \in 0 .. day :
    /\ OperatingDay(d) /\ w.due = NextOperatingDay(d, Product[w.product].lead)
    /\ d = day => step \in {"procure", "close", "next", "done", "breach"}

FlowsInv ==
  /\ \A p \in Products :
       /\ today.goods[p] + today.good[p] = today.shipped[p] + goods[p]
       /\ today.wip[p] + today.started[p] = today.completed[p] + WorkInProgress[p]
       /\ today.good[p] <= today.completed[p]
       /\ today.backlog[p] + today.ordered[p]
            = today.shipped[p] + today.cancelled[p] + BacklogByProduct[p]
  /\ \A m \in Materials : today.stock[m] + today.received[m] = today.consumed[m] + stock[m]
  /\ \A r \in Resources :
       today.used[r] <= today.available[r] /\ today.overtime[r] <= today.used[r]
  /\ step \notin {"next", "done"} =>
       /\ today.cash + today.collections + today.rescue + today.draw - today.payments = cash
       /\ today.debt + today.draw = debt
       /\ today.repay = 0

\* What the phases still to come have not written yet.
BlankInv ==
  /\ step = "receive" => \A m \in Materials : today.received[m] = 0
  /\ step \in {"receive", "complete"} =>
       \A p \in Products : today.completed[p] = 0 /\ today.good[p] = 0
  /\ step \in {"receive", "complete", "settle"} =>
       today.collections = 0 /\ today.payments = 0 /\ today.draw = 0 /\ today.rescue = 0
  /\ step \in {"receive", "complete", "settle", "demand"} =>
       \A p \in Products : today.ordered[p] = 0
  /\ step \in {"receive", "complete", "settle", "demand", "ship"} =>
       \A p \in Products : today.shipped[p] = 0
  /\ step \in {"receive", "complete", "settle", "demand", "ship", "cancel"} =>
       \A p \in Products : today.cancelled[p] = 0
  /\ step \in {"receive", "complete", "settle", "demand", "ship", "cancel", "produce"} =>
       /\ \A p \in Products : today.started[p] = 0
       /\ \A m \in Materials : today.consumed[m] = 0

EngineInv ==
  /\ TypeInv /\ OrdersInv /\ SuppliesInv /\ WorkInv /\ EveryCentIsSettledOnce
  /\ FlowsInv /\ BlankInv /\ LiquidityHeld
-----------------------------------------------------------------------------
(* Rationing: what is on hand goes to a queue in its order *)

\* Whoever comes first is served first: together they get all there is, or all they want.
LEMMA RationsAddUp ==
  ASSUME NEW S, IsFiniteSet(S), NEW R, Orders(R, S),
         NEW u, \A x \in S : u[x] \in Nat, NEW g \in Nat,
         NEW a, \A x \in S :
           a[x] = Least(u[x], AtLeastZero(g - SumFunctionOnSet(u, Below(R, S, x))))
  PROVE  SumFunctionOnSet(a, S) = Least(SumFunctionOnSet(u, S), g)
<1> DEFINE Closed(T) == \A x \in T : Below(R, S, x) \subseteq T
           Enough(T) == SumFunctionOnSet(a, T) = Least(SumFunctionOnSet(u, T), g)
           P == {T \in SUBSET S : Closed(T) => Enough(T)}
<1>a. \A x \in S : u[x] \in Int OBVIOUS
<1>b. ASSUME NEW x \in S PROVE a[x] \in Nat /\ a[x] \in Int
  <2>1. Below(R, S, x) \in SUBSET S BY DEF Below
  <2>2. IsFiniteSet(Below(R, S, x)) BY <2>1, FS_Subset
  <2>3. \A y \in Below(R, S, x) : u[y] \in Nat BY <2>1
  <2>4. SumFunctionOnSet(u, Below(R, S, x)) \in Nat BY <2>2, <2>3, SumNatural
  <2> QED BY <2>4 DEF Least, AtLeastZero
<1>1. ASSUME NEW T \in SUBSET S, \A U \in SUBSET T : U # T => U \in P PROVE T \in P
  <2> SUFFICES ASSUME Closed(T) PROVE Enough(T) OBVIOUS
  <2>1. CASE T = {}
    <3>1. SumFunctionOnSet(a, T) = 0 /\ SumFunctionOnSet(u, T) = 0 BY <2>1, SumEmpty
    <3> QED BY <3>1 DEF Least
  <2>2. CASE T # {}
    <3>1. PICK m \in T : \A y \in T \ {m} : <<y, m>> \in R BY <2>2, LastExists
    <3> DEFINE U == T \ {m}
    <3>2. Below(R, S, m) = U
      <4>1. <<m, m>> \notin R BY DEF Orders
      <4>2. Below(R, S, m) \subseteq T OBVIOUS
      <4> QED BY <3>1, <4>1, <4>2 DEF Below
    <3>3. Closed(U)
      <4> SUFFICES ASSUME NEW x \in U, NEW y \in Below(R, S, x) PROVE y \in T /\ y # m
        BY DEF Closed
      <4>1. y \in T OBVIOUS
      <4>2. <<y, x>> \in R /\ <<x, m>> \in R /\ y \in S BY <3>1 DEF Below
      <4>3. <<m, x>> \notin R
        <5>1. m \in S /\ x \in S OBVIOUS
        <5> QED BY <4>2, <5>1 DEF Orders
      <4> QED BY <4>1, <4>2, <4>3
    <3>4. U \in P BY <1>1
    <3>5. Enough(U) BY <3>3, <3>4
    <3>6. IsFiniteSet(T) /\ IsFiniteSet(U) /\ U \in SUBSET S BY FS_Subset
    <3>7. SumFunctionOnSet(u, U) \in Nat
      <4>1. \A x \in U : u[x] \in Nat OBVIOUS
      <4> HIDE DEF U
      <4> QED BY <3>6, <4>1, SumNatural
    <3>8. /\ SumFunctionOnSet(a, T) = a[m] + SumFunctionOnSet(a, U)
          /\ SumFunctionOnSet(u, T) = u[m] + SumFunctionOnSet(u, U)
      <4>1. \A x \in T : a[x] \in Int /\ u[x] \in Int BY <1>a, <1>b
      <4> QED BY <3>6, <4>1, SumRemove
    <3>9. a[m] = Least(u[m], AtLeastZero(g - SumFunctionOnSet(u, U))) BY <3>2
    <3>10. u[m] \in Nat OBVIOUS
    <3> HIDE DEF U, Closed, P
    <3> QED BY <3>5, <3>7, <3>8, <3>9, <3>10 DEF Least, AtLeastZero
  <2> QED BY <2>1, <2>2
<1>2. S \in P
  <2> HIDE DEF P
  <2> QED BY <1>1, FiniteInduction
<1>3. Closed(S) BY DEF Below
<1> QED BY <1>2, <1>3
-----------------------------------------------------------------------------
(* Operating days *)

\* The operating days after d until e.
Opens(d, e) == {x \in (d + 1) .. e : OperatingDay(x)}

\* Counting the operating days after a day.
LEMMA OpensFacts ==
  ASSUME NEW d \in Nat, NEW e \in Nat
  PROVE  IsFiniteSet(Opens(d, e)) /\ Cardinality(Opens(d, e)) \in Nat
<1>1. d + 1 \in Int /\ e \in Int OBVIOUS
<1>2. IsFiniteSet((d + 1) .. e) BY <1>1, FS_Interval
<1>3. Opens(d, e) \in SUBSET ((d + 1) .. e) BY DEF Opens
<1> QED BY <1>2, <1>3, FS_Subset, FS_CardinalityType

\* A weekend is two days long.
LEMMA ThreeDays ==
  \A x \in Nat : \E y \in x .. (x + 2) : OperatingDay(y)
<1> SUFFICES ASSUME NEW x \in Nat
             PROVE  OperatingDay(x) \/ OperatingDay(x + 1) \/ OperatingDay(x + 2)
  OBVIOUS
<1> QED BY DEF OperatingDay

\* Somewhere within three days for each day of the lead time.
LEMMA NextOperatingDayIs ==
  ASSUME NEW d \in Nat, NEW lead \in Nat \ {0}
  PROVE  /\ NextOperatingDay(d, lead) \in (d + 1) .. (d + 3 * lead)
         /\ Cardinality(Opens(d, NextOperatingDay(d, lead))) = lead
<1> DEFINE last == d + 3 * lead
           f == [k \in 1 .. lead |-> CHOOSE y \in (d + 3 * k - 2) .. (d + 3 * k) : OperatingDay(y)]
           Reached == {e \in (d + 1) .. last : Cardinality(Opens(d, e)) >= lead}
           e0 == Min(Reached)
<1>1. ASSUME NEW k \in 1 .. lead
      PROVE  f[k] \in (d + 3 * k - 2) .. (d + 3 * k) /\ OperatingDay(f[k])
  <2>1. d + 3 * k - 2 \in Nat /\ (d + 3 * k - 2) + 2 = d + 3 * k OBVIOUS
  <2>2. \E y \in (d + 3 * k - 2) .. (d + 3 * k) : OperatingDay(y) BY <2>1, ThreeDays
  <2>3. f[k] = CHOOSE y \in (d + 3 * k - 2) .. (d + 3 * k) : OperatingDay(y) OBVIOUS
  <2> HIDE DEF f
  <2> QED BY <2>2, <2>3
<1>2. f \in Injection(1 .. lead, Opens(d, last))
  <2> SUFFICES /\ f \in [1 .. lead -> Opens(d, last)]
               /\ \A j, k \in 1 .. lead : f[j] = f[k] => j = k
    BY DEF Injection, IsInjective
  <2>0. f = [k \in 1 .. lead |-> f[k]] OBVIOUS
  <2> HIDE DEF f
  <2>1. \A k \in 1 .. lead : f[k] \in Opens(d, last) BY <1>1 DEF Opens
  <2>2. \A j, k \in 1 .. lead : f[j] = f[k] => j = k
    <3> SUFFICES ASSUME NEW j \in 1 .. lead, NEW k \in 1 .. lead, f[j] = f[k] PROVE j = k
      OBVIOUS
    <3>1. f[j] \in (d + 3 * j - 2) .. (d + 3 * j) /\ f[k] \in (d + 3 * k - 2) .. (d + 3 * k)
      BY <1>1
    <3> QED BY <3>1
  <2> QED BY <2>0, <2>1, <2>2
<1>3. last \in Nat /\ IsFiniteSet(Opens(d, last)) BY OpensFacts
<1>4. Cardinality(Opens(d, last)) >= lead
  <2>1. Cardinality(1 .. lead) = lead
    <3>1. 1 \in Int /\ lead \in Int OBVIOUS
    <3> QED BY <3>1, FS_Interval
  <2> HIDE DEF f, last
  <2>2. Cardinality(1 .. lead) <= Cardinality(Opens(d, last)) BY <1>2, <1>3, FS_Injection
  <2> QED BY <2>1, <2>2, <1>3, OpensFacts
<1>5. e0 \in Reached /\ \A e \in Reached : e0 <= e
  <2>1. Reached # {} BY <1>4
  <2>2. Reached \in SUBSET ((d + 1) .. last) /\ d + 1 \in Int /\ last \in Int BY <1>3
  <2>3. IsFiniteSet(Reached) BY <2>2, FS_Interval, FS_Subset
  <2>4. Reached \subseteq Int BY <2>2
  <2> HIDE DEF Reached
  <2> QED BY <2>1, <2>3, <2>4, MinIsLeast
<1>6. e0 \in (d + 1) .. last /\ Cardinality(Opens(d, e0)) >= lead BY <1>5
<1>7. Cardinality(Opens(d, e0 - 1)) < lead
  <2>1. CASE e0 - 1 \in (d + 1) .. last
    <3>1. e0 - 1 \notin Reached BY <1>5, <1>6
    <3>2. e0 - 1 \in Nat BY <1>6, <1>3
    <3>3. Cardinality(Opens(d, e0 - 1)) \in Nat BY <3>2, OpensFacts
    <3> QED BY <2>1, <3>1, <3>3
  <2>2. CASE e0 - 1 \notin (d + 1) .. last
    <3>1. e0 - 1 = d BY <1>6, <2>2, <1>3
    <3>2. Opens(d, d) = {} BY DEF Opens
    <3> HIDE DEF e0
    <3> QED BY <3>1, <3>2, FS_EmptySet
  <2> QED BY <2>1, <2>2
<1> HIDE DEF Reached, e0
<1>8. OperatingDay(e0) /\ Cardinality(Opens(d, e0)) = lead
  <2>1. e0 \in Nat /\ e0 - 1 \in Nat BY <1>6, <1>3
  <2>2. /\ IsFiniteSet(Opens(d, e0 - 1)) /\ Cardinality(Opens(d, e0 - 1)) \in Nat
        /\ Cardinality(Opens(d, e0)) \in Nat
    BY <2>1, OpensFacts
  <2>3. CASE ~OperatingDay(e0)
    <3>1. Opens(d, e0) = Opens(d, e0 - 1) BY <2>1, <2>3 DEF Opens
    <3> QED BY <1>6, <1>7, <2>2, <3>1
  <2>4. CASE OperatingDay(e0)
    <3>1. Opens(d, e0) = Opens(d, e0 - 1) \cup {e0} BY <1>6, <2>1, <2>4 DEF Opens
    <3>2. Cardinality(Opens(d, e0)) <= Cardinality(Opens(d, e0 - 1)) + 1
      <4>1. Cardinality(Opens(d, e0 - 1) \cup {e0})
              = IF e0 \in Opens(d, e0 - 1) THEN Cardinality(Opens(d, e0 - 1))
                ELSE Cardinality(Opens(d, e0 - 1)) + 1
        BY <2>2, FS_AddElement
      <4>2. \A n \in Nat : n <= n + 1 OBVIOUS
      <4> QED BY <2>2, <3>1, <4>1, <4>2
    <3>3. Cardinality(Opens(d, e0)) = lead BY <1>6, <1>7, <2>2, <3>2
    <3> QED BY <2>4, <3>3
  <2> QED BY <2>3, <2>4
<1>9. /\ NextOperatingDay(d, lead) \in (d + 1) .. (d + 3 * lead)
      /\ Cardinality({x \in (d + 1) .. NextOperatingDay(d, lead) : OperatingDay(x)}) = lead
  <2>1. /\ e0 \in (d + 1) .. (d + 3 * lead)
        /\ OperatingDay(e0) /\ Cardinality({x \in (d + 1) .. e0 : OperatingDay(x)}) = lead
    BY <1>6, <1>8 DEF Opens
  <2> QED BY <2>1, Zenon DEF NextOperatingDay
<1> QED BY <1>9 DEF Opens

\* Work started on another operating day is done on another day.
LEMMA NextOperatingDayGrows ==
  ASSUME NEW d \in Nat, NEW e \in Nat, d < e, OperatingDay(e), NEW lead \in Nat \ {0}
  PROVE  NextOperatingDay(d, lead) < NextOperatingDay(e, lead)
<1> DEFINE x == NextOperatingDay(d, lead)
           y == NextOperatingDay(e, lead)
<1>1. /\ x \in (d + 1) .. (d + 3 * lead) /\ Cardinality(Opens(d, x)) = lead
      /\ y \in (e + 1) .. (e + 3 * lead) /\ Cardinality(Opens(e, y)) = lead
  BY NextOperatingDayIs
<1> HIDE DEF x, y
<1>2. x \in Nat /\ y \in Nat BY <1>1
<1>3. ASSUME y <= x PROVE FALSE
  <2>1. e \in Opens(d, x) BY <1>1, <1>2, <1>3 DEF Opens
  <2>2. Opens(e, y) \in SUBSET (Opens(d, x) \ {e}) BY <1>1, <1>2, <1>3 DEF Opens
  <2>3. IsFiniteSet(Opens(d, x)) BY <1>2, OpensFacts
  <2>4. IsFiniteSet(Opens(d, x) \ {e}) /\ Cardinality(Opens(d, x) \ {e}) = lead - 1
    BY <1>1, <2>1, <2>3, FS_RemoveElement
  <2>5. Cardinality(Opens(e, y)) <= Cardinality(Opens(d, x) \ {e}) BY <2>2, <2>4, FS_Subset
  <2> QED BY <1>1, <2>4, <2>5
<1>4. x < y BY <1>2, <1>3
<1> QED BY <1>4 DEF x, y
-----------------------------------------------------------------------------
(* Quantities *)

\* Whole numbers and their quotients.
LEMMA QuotientBound ==
  ASSUME NEW a \in Nat, NEW b \in Nat \ {0}, NEW n \in Nat, n <= a \div b
  PROVE  n * b \in 0 .. a
<1>1. PICK q \in Nat : q = a \div b /\ b * q <= a OBVIOUS
<1>2. n <= q BY <1>1
<1>3. n * b <= q * b /\ n * b \in Nat BY <1>2
<1>4. b * q = q * b OBVIOUS
<1>5. \A x, y \in Nat : x <= y /\ y <= a => x \in 0 .. a OBVIOUS
<1>6. q * b \in Nat OBVIOUS
<1> QED BY <1>1, <1>3, <1>4, <1>5, <1>6

LEMMA QuotientIsNatural ==
  ASSUME NEW a \in Nat, NEW b \in Nat \ {0}
  PROVE  a \div b \in Nat
OBVIOUS

\* What the company and scenario models say of the constants, in the form the proofs use.
LEMMA FiniteConstants ==
  /\ IsFiniteSet(Products) /\ IsFiniteSet(Segments)
  /\ IsFiniteSet(Materials) /\ IsFiniteSet(Resources)
BY EngineAssumption

LEMMA ProductFacts ==
  ASSUME NEW p \in Products
  PROVE  /\ Product[p].opening \in Nat /\ Product[p].cost \in Nat
         /\ Product[p].lead \in Nat \ {0}
         /\ Product[p].minutes \in [Resources -> Nat] /\ Product[p].usage \in [Materials -> Nat]
         /\ Product[p].price \in [Segments -> Nat] /\ Product[p].baseline \in [Segments -> Nat]
         /\ \E s \in Segments : Product[p].baseline[s] > 0
BY EngineAssumption DEF ValidProduct

LEMMA SegmentFacts ==
  ASSUME NEW s \in Segments
  PROVE  /\ Segment[s].size \in Nat \ {0} /\ Segment[s].promise \in Nat
         /\ Segment[s].grace \in Nat /\ Segment[s].terms \in Nat
BY EngineAssumption DEF ValidSegment

LEMMA MaterialFacts ==
  ASSUME NEW m \in Materials
  PROVE  /\ {Material[m].lead, Material[m].opening, Material[m].standard, Material[m].cost}
              \subseteq Nat \ {0}
         /\ Material[m].reorder \in Nat /\ Material[m].safety \in Nat
         /\ Material[m].terms \in Nat /\ Material[m].reorder <= Material[m].opening
BY EngineAssumption DEF ValidMaterial

LEMMA ShockFacts ==
  ASSUME TypeInv
  PROVE  /\ shock.arrivals \in [Pairs -> Nat] /\ shock.yield \in [Products -> 0 .. 100]
         /\ shock.capacity \in [Resources -> Nat] /\ shock.late \in [Materials -> Nat]
         /\ shock.delay \in [Segments -> Int]
BY EngineAssumption DEF TypeInv, ShockSet

\* Overtime comes on top of the regular minutes.
LEMMA CapacityFacts ==
  ASSUME TypeInv, NEW r \in Resources
  PROVE  /\ RegularCapacity(r) \in Nat /\ AvailableCapacity(r) \in Nat
         /\ RegularCapacity(r) <= AvailableCapacity(r)
<1>1. shock.capacity[r] \in Nat BY ShockFacts
<1>2. Resource[r].overtime \in Nat BY EngineAssumption
<1> QED BY <1>1, <1>2 DEF RegularCapacity, AvailableCapacity

\* Units are counted by any function that gives each its own.
LEMMA UnitsAre ==
  ASSUME NEW S, IsFiniteSet(S), NEW u, \A x \in S : u[x] = x.units
  PROVE  Units(S) = SumFunctionOnSet(u, S)
<1> DEFINE f == [x \in S |-> x.units]
<1>1. Units(S) = SumFunctionOnSet(f, S) BY DEF Units, SumFunction
<1>2. \A x \in S : f[x] = u[x] OBVIOUS
<1> HIDE DEF f
<1> QED BY <1>1, <1>2, SumOfSame

LEMMA UnitsNatural ==
  ASSUME NEW S, IsFiniteSet(S), \A x \in S : x.units \in Nat
  PROVE  Units(S) \in Nat
<1> DEFINE f == [x \in S |-> x.units]
<1>1. \A x \in S : f[x] = x.units /\ f[x] \in Nat OBVIOUS
<1> HIDE DEF f
<1> QED BY <1>1, UnitsAre, SumNatural

\* What customers wait for and what is in work are quantities.
LEMMA PositionFacts ==
  ASSUME TypeInv, NEW p \in Products
  PROVE  BacklogByProduct[p] \in Nat /\ WorkInProgress[p] \in Nat
<1>1. /\ BacklogByProduct[p] = Units({o \in orders : o.product = p})
      /\ WorkInProgress[p] = Units({w \in work : w.product = p})
  BY DEF BacklogByProduct, WorkInProgress
<1>2. Units({o \in orders : o.product = p}) \in Nat
  <2> DEFINE S == {o \in orders : o.product = p}
  <2>1. S \in SUBSET orders OBVIOUS
  <2>2. IsFiniteSet(S) BY <2>1, FS_Subset DEF TypeInv
  <2>3. \A x \in S : x.units \in Nat BY DEF TypeInv, OrderRecord
  <2> HIDE DEF S
  <2>4. Units(S) \in Nat BY <2>2, <2>3, UnitsNatural
  <2> QED BY <2>4 DEF S
<1>3. Units({w \in work : w.product = p}) \in Nat
  <2> DEFINE S == {w \in work : w.product = p}
  <2>1. S \in SUBSET work OBVIOUS
  <2>2. IsFiniteSet(S) BY <2>1, FS_Subset DEF TypeInv
  <2>3. \A x \in S : x.units \in Nat BY DEF TypeInv, WorkRecord
  <2> HIDE DEF S
  <2>4. Units(S) \in Nat BY <2>2, <2>3, UnitsNatural
  <2> QED BY <2>4 DEF S
<1> QED BY <1>1, <1>2, <1>3

\* The quantity a product would like to start.
LEMMA NeedIsNatural ==
  ASSUME TypeInv, NEW p \in Products
  PROVE  Need(p) \in Nat
<1> DEFINE wanted == {x \in Segments : Product[p].baseline[x] > 0}
           promised == {Segment[s].promise : s \in wanted}
           promise == [s \in wanted |-> Segment[s].promise]
<1>1. IsFiniteSet(promised) /\ promised \subseteq Nat /\ promised # {}
  <2>1. wanted \in SUBSET Segments OBVIOUS
  <2>2. IsFiniteSet(wanted) BY <2>1, FS_Subset, FiniteConstants
  <2>3. promised = {promise[s] : s \in wanted} OBVIOUS
  <2>4. IsFiniteSet({promise[s] : s \in wanted})
    <3> HIDE DEF promise, wanted
    <3> QED BY <2>2, ImageIsFinite
  <2>5. promised \subseteq Nat
    <3>1. \A s \in Segments : Segment[s].promise \in Nat BY SegmentFacts
    <3> QED BY <3>1
  <2>6. promised # {}
    <3>1. PICK s \in Segments : Product[p].baseline[s] > 0 BY ProductFacts
    <3>2. Segment[s].promise \in promised BY <3>1
    <3> QED BY <3>2
  <2> QED BY <2>3, <2>4, <2>5, <2>6
<1>2. Max(promised) \in Nat
  <2> HIDE DEF promised
  <2>1. promised \subseteq Int BY <1>1
  <2> QED BY <1>1, <2>1, MaxIsGreatest
<1>3. SumFunctionOnSet(Product[p].baseline, Segments) \in Nat
  <2>1. \A s \in Segments : Product[p].baseline[s] \in Nat BY ProductFacts
  <2> QED BY <2>1, SumNatural, FiniteConstants
<1>4. TargetUnits(p) = (Product[p].lead + Max(promised))
                         * SumFunctionOnSet(Product[p].baseline, Segments)
  BY DEF TargetUnits
<1>5. TargetUnits(p) \in Nat
  <2> HIDE DEF promised
  <2>1. Product[p].lead \in Nat BY ProductFacts
  <2>2. \A x, y, z \in Nat : (x + y) * z \in Nat OBVIOUS
  <2> QED BY <1>2, <1>3, <1>4, <2>1, <2>2
<1>6. goods[p] \in Nat BY DEF TypeInv
<1> QED BY <1>5, <1>6, PositionFacts DEF Need, AtLeastZero

\* What remains of a plan while it is being made.
PlanSet == [minutes : [Resources -> Nat], stock : [Materials -> Nat], starts : [Products -> Nat]]

\* A feasible quantity needs no more minutes and material than are left.
LEMMA FeasibleFits ==
  ASSUME TypeInv, NEW p \in Products, NEW plan \in PlanSet
  PROVE  /\ Feasible(p, plan) \in Nat
         /\ \A r \in Resources : Feasible(p, plan) * Product[p].minutes[r] \in 0 .. plan.minutes[r]
         /\ \A m \in Materials : Feasible(p, plan) * Product[p].usage[m] \in 0 .. plan.stock[m]
<1> DEFINE rs == {x \in Resources : Product[p].minutes[x] > 0}
           ms == {x \in Materials : Product[p].usage[x] > 0}
           byMinutes == [r \in rs |-> plan.minutes[r] \div Product[p].minutes[r]]
           byStock == [m \in ms |-> plan.stock[m] \div Product[p].usage[m]]
           A == {byMinutes[r] : r \in rs}
           B == {byStock[m] : m \in ms}
           all == {Need(p)} \cup A \cup B
           n == Feasible(p, plan)
<1>0. plan.minutes \in [Resources -> Nat] /\ plan.stock \in [Materials -> Nat] BY DEF PlanSet
<1>1. n = Min(all)
  <2>1. all = {Need(p)}
      \cup {plan.minutes[r] \div Product[p].minutes[r] :
              r \in {x \in Resources : Product[p].minutes[x] > 0}}
      \cup {plan.stock[m] \div Product[p].usage[m] :
              m \in {x \in Materials : Product[p].usage[x] > 0}}
    OBVIOUS
  <2> HIDE DEF all
  <2> QED BY <2>1, Zenon DEF Feasible
<1>2. /\ \A r \in rs : plan.minutes[r] \in Nat /\ Product[p].minutes[r] \in Nat \ {0}
      /\ \A m \in ms : plan.stock[m] \in Nat /\ Product[p].usage[m] \in Nat \ {0}
  BY <1>0, ProductFacts
<1>3. (\A r \in rs : byMinutes[r] \in Nat) /\ (\A m \in ms : byStock[m] \in Nat)
  <2>1. ASSUME NEW r \in rs PROVE byMinutes[r] \in Nat
    <3>1. plan.minutes[r] \div Product[p].minutes[r] \in Nat
      <4> HIDE DEF rs
      <4> QED BY <1>2, QuotientIsNatural
    <3> QED BY <3>1
  <2>2. ASSUME NEW m \in ms PROVE byStock[m] \in Nat
    <3>1. plan.stock[m] \div Product[p].usage[m] \in Nat
      <4> HIDE DEF ms
      <4> QED BY <1>2, QuotientIsNatural
    <3> QED BY <3>1
  <2> QED BY <2>1, <2>2
<1>4. IsFiniteSet(A) /\ IsFiniteSet(B)
  <2>1. rs \in SUBSET Resources /\ ms \in SUBSET Materials OBVIOUS
  <2>2. IsFiniteSet(rs) /\ IsFiniteSet(ms) BY <2>1, FS_Subset, FiniteConstants
  <2> HIDE DEF rs, ms, byMinutes, byStock
  <2> QED BY <2>2, ImageIsFinite
<1>5. IsFiniteSet(all) /\ all \subseteq Nat /\ all # {}
  <2>1. all \subseteq Nat BY <1>3, NeedIsNatural
  <2>2. IsFiniteSet({Need(p)}) BY FS_Singleton
  <2> HIDE DEF A, B
  <2>3. IsFiniteSet({Need(p)} \cup A) BY <1>4, <2>2, FS_Union
  <2> QED BY <1>4, <2>1, <2>3, FS_Union
<1>6. n \in all /\ \A y \in all : n <= y
  <2> HIDE DEF all
  <2>1. all \subseteq Int BY <1>5
  <2> HIDE DEF n
  <2> QED BY <1>1, <1>5, <2>1, MinIsLeast
<1>7. n \in Nat BY <1>5, <1>6
<1> HIDE DEF n
<1>8. ASSUME NEW r \in Resources PROVE n * Product[p].minutes[r] \in 0 .. plan.minutes[r]
  <2>1. plan.minutes[r] \in Nat /\ Product[p].minutes[r] \in Nat BY <1>0, ProductFacts
  <2>2. CASE r \in rs
    <3>1. byMinutes[r] \in all BY <2>2
    <3>2. n <= plan.minutes[r] \div Product[p].minutes[r] BY <1>6, <2>2, <3>1
    <3> HIDE DEF rs
    <3> QED BY <1>2, <1>7, <2>2, <3>2, QuotientBound
  <2>3. CASE r \notin rs
    <3>1. Product[p].minutes[r] = 0 BY <2>1, <2>3
    <3> QED BY <1>7, <2>1, <3>1
  <2> QED BY <2>2, <2>3
<1>9. ASSUME NEW m \in Materials PROVE n * Product[p].usage[m] \in 0 .. plan.stock[m]
  <2>1. plan.stock[m] \in Nat /\ Product[p].usage[m] \in Nat BY <1>0, ProductFacts
  <2>2. CASE m \in ms
    <3>1. byStock[m] \in all BY <2>2
    <3>2. n <= plan.stock[m] \div Product[p].usage[m] BY <1>6, <2>2, <3>1
    <3> HIDE DEF ms
    <3> QED BY <1>2, <1>7, <2>2, <3>2, QuotientBound
  <2>3. CASE m \notin ms
    <3>1. Product[p].usage[m] = 0 BY <2>1, <2>3
    <3> QED BY <1>7, <2>1, <3>1
  <2> QED BY <2>2, <2>3
<1> QED BY <1>7, <1>8, <1>9 DEF n
-----------------------------------------------------------------------------
(* The production plan *)

\* The plan that starts nothing, and the recursion along the products.
Idle == [minutes |-> [r \in Resources |-> AvailableCapacity(r)], stock |-> stock,
         starts |-> Zero(Products)]

FollowsPlan(h, S) ==
  h = [s \in SUBSET S |-> IF s = {} THEN Idle
                          ELSE Planned(h[s \ {LastPlanned(s)}], LastPlanned(s))]

PlanAlong(s) == (CHOOSE h : FollowsPlan(h, s))[s]

\* The fold of the model is that recursion.
LEMMA PlanUnfolds ==
  ProductionPlan = IF OperatingDay(day) THEN PlanAlong(Products) ELSE Idle
BY DEF ProductionPlan, MapThenFoldSet, FollowsPlan, PlanAlong, Idle

\* Backlog and id put the products in a strict order: one is planned last.
LEMMA LastPlannedIsIn ==
  ASSUME TypeInv, NEW S \in SUBSET Products, S # {}
  PROVE  LastPlanned(S) \in S
<1> DEFINE R == {e \in Products \X Products : PlannedBefore(e[1], e[2])}
<1>1. ASSUME NEW p \in Products, NEW q \in Products
      PROVE  <<p, q>> \in R <=> PlannedBefore(p, q)
  <2>1. <<p, q>>[1] = p /\ <<p, q>>[2] = q /\ <<p, q>> \in Products \X Products OBVIOUS
  <2> QED BY <2>1
<1>2. Products \subseteq Nat /\ \A p \in Products : BacklogByProduct[p] \in Nat
  BY EngineAssumption, PositionFacts
<1>3. Orders(R, Products)
  <2>1. \A p \in Products : ~PlannedBefore(p, p) BY <1>2 DEF PlannedBefore
  <2>2. \A p, q \in Products : p # q => PlannedBefore(p, q) \/ PlannedBefore(q, p)
    BY <1>2 DEF PlannedBefore
  <2>3. \A p, q, r \in Products :
          PlannedBefore(p, q) /\ PlannedBefore(q, r) => PlannedBefore(p, r)
    BY <1>2 DEF PlannedBefore
  <2> HIDE DEF R
  <2> QED BY <1>1, <2>1, <2>2, <2>3 DEF Orders
<1>4. \E m \in S : \A y \in S \ {m} : <<y, m>> \in R
  <2> HIDE DEF R
  <2> QED BY <1>3, LastExists, FiniteConstants
<1>5. \E m \in S : \A y \in S \ {m} : PlannedBefore(y, m)
  <2> HIDE DEF R
  <2> QED BY <1>1, <1>4
<1> QED BY <1>5 DEF LastPlanned

\* The recursion has one solution on every set of products.
LEMMA FollowingPlanAt ==
  ASSUME NEW S, NEW h, FollowsPlan(h, S)
  PROVE  \A s \in SUBSET S :
           h[s] = IF s = {} THEN Idle ELSE Planned(h[s \ {LastPlanned(s)}], LastPlanned(s))
<1> TAKE s \in SUBSET S
<1> DEFINE E(t) == IF t = {} THEN Idle ELSE Planned(h[t \ {LastPlanned(t)}], LastPlanned(t))
<1>1. h = [t \in SUBSET S |-> E(t)] BY DEF FollowsPlan
<1> HIDE DEF E
<1>2. h[s] = E(s) BY <1>1
<1> QED BY <1>2 DEF E

LEMMA PlanFollowersAgree ==
  ASSUME TypeInv, NEW S \in SUBSET Products, NEW g, NEW h, FollowsPlan(g, S), FollowsPlan(h, S)
  PROVE  g[S] = h[S]
<1> DEFINE P == {T \in SUBSET S : g[T] = h[T]}
<1>0. IsFiniteSet(S) BY FS_Subset, FiniteConstants
<1>a. \A s \in SUBSET S :
        g[s] = IF s = {} THEN Idle ELSE Planned(g[s \ {LastPlanned(s)}], LastPlanned(s))
  <2> HIDE DEF P
  <2> QED BY FollowingPlanAt
<1>b. \A s \in SUBSET S :
        h[s] = IF s = {} THEN Idle ELSE Planned(h[s \ {LastPlanned(s)}], LastPlanned(s))
  <2> HIDE DEF P
  <2> QED BY FollowingPlanAt
<1>1. ASSUME NEW T \in SUBSET S, \A U \in SUBSET T : U # T => U \in P PROVE T \in P
  <2> HIDE DEF P
  <2>1. g[T] = IF T = {} THEN Idle ELSE Planned(g[T \ {LastPlanned(T)}], LastPlanned(T))
    BY <1>a
  <2>2. h[T] = IF T = {} THEN Idle ELSE Planned(h[T \ {LastPlanned(T)}], LastPlanned(T))
    BY <1>b
  <2>3. CASE T = {} BY <2>1, <2>2, <2>3 DEF P
  <2>4. CASE T # {}
    <3>1. LastPlanned(T) \in T BY <2>4, LastPlannedIsIn
    <3>2. T \ {LastPlanned(T)} \in P BY <1>1, <3>1
    <3>3. g[T \ {LastPlanned(T)}] = h[T \ {LastPlanned(T)}] BY <3>2 DEF P
    <3> QED BY <2>1, <2>2, <2>4, <3>3 DEF P
  <2> QED BY <2>3, <2>4
<1>2. S \in P
  <2> HIDE DEF P
  <2> QED BY <1>0, <1>1, FiniteInduction
<1> QED BY <1>2

LEMMA PlanFollowersExist ==
  ASSUME TypeInv
  PROVE  FollowsPlan([s \in SUBSET Products |-> PlanAlong(s)], Products)
<1> DEFINE V(T) == [s \in SUBSET T |-> PlanAlong(s)]
           P == {T \in SUBSET Products : FollowsPlan(V(T), T)}
<1>1. ASSUME NEW T \in SUBSET Products, \A U \in SUBSET T : U # T => U \in P PROVE T \in P
  <2> DEFINE E(t) == IF t = {} THEN Idle
                     ELSE Planned(PlanAlong(t \ {LastPlanned(t)}), LastPlanned(t))
             h == [t \in SUBSET T |-> E(t)]
  <2>1. ASSUME NEW U \in SUBSET T, U # T PROVE PlanAlong(U) = E(U)
    <3>1. FollowsPlan(V(U), U) BY <1>1, <2>1
    <3>2. V(U)[U] = IF U = {} THEN Idle
                    ELSE Planned(V(U)[U \ {LastPlanned(U)}], LastPlanned(U))
      <4> HIDE DEF V
      <4> QED BY <3>1, FollowingPlanAt
    <3> QED BY <3>2
  <2>2. ASSUME NEW t \in SUBSET T
        PROVE  h[t] = IF t = {} THEN Idle ELSE Planned(h[t \ {LastPlanned(t)}], LastPlanned(t))
    <3>1. CASE t = {} BY <3>1
    <3>2. CASE t # {}
      <4>1. LastPlanned(t) \in t BY <3>2, LastPlannedIsIn
      <4>2. t \ {LastPlanned(t)} \in SUBSET T /\ t \ {LastPlanned(t)} # T BY <4>1
      <4>3. h[t \ {LastPlanned(t)}] = PlanAlong(t \ {LastPlanned(t)})
        <5> HIDE DEF E
        <5>1. h[t \ {LastPlanned(t)}] = E(t \ {LastPlanned(t)}) BY <4>2
        <5> QED BY <4>2, <5>1, <2>1
      <4>4. h[t] = E(t) OBVIOUS
      <4> QED BY <3>2, <4>3, <4>4
    <3> QED BY <3>1, <3>2
  <2>3. FollowsPlan(h, T)
    <3> HIDE DEF E
    <3>1. h = [t \in SUBSET T |-> h[t]] OBVIOUS
    <3> HIDE DEF h
    <3> QED BY <2>2, <3>1 DEF FollowsPlan
  <2>4. PlanAlong(T) = h[T]
    <3> DEFINE g == CHOOSE g : FollowsPlan(g, T)
    <3> HIDE DEF h
    <3>1. FollowsPlan(g, T) BY <2>3, Zenon
    <3> HIDE DEF g
    <3>2. g[T] = h[T] BY <2>3, <3>1, PlanFollowersAgree
    <3> QED BY <3>2 DEF PlanAlong, g
  <2>5. \A t \in SUBSET T : h[t] = PlanAlong(t)
    <3> HIDE DEF E
    <3>1. \A t \in SUBSET T : h[t] = E(t) OBVIOUS
    <3> QED BY <2>1, <2>4, <3>1
  <2>6. V(T) = h BY <2>5
  <2> QED BY <2>3, <2>6
<1>2. Products \in P
  <2> HIDE DEF P
  <2> QED BY <1>1, FiniteInduction, FiniteConstants
<1> QED BY <1>2

\* What the plan of some products is: that of all but the last, and then the last.
LEMMA PlanRecursion ==
  ASSUME TypeInv, NEW T \in SUBSET Products
  PROVE  PlanAlong(T) = IF T = {} THEN Idle
                        ELSE Planned(PlanAlong(T \ {LastPlanned(T)}), LastPlanned(T))
<1> DEFINE V == [s \in SUBSET Products |-> PlanAlong(s)]
<1>1. FollowsPlan(V, Products) BY PlanFollowersExist
<1>2. V[T] = IF T = {} THEN Idle ELSE Planned(V[T \ {LastPlanned(T)}], LastPlanned(T))
  <2> HIDE DEF V
  <2> QED BY <1>1, FollowingPlanAt
<1>3. V[T] = PlanAlong(T) /\ V[T \ {LastPlanned(T)}] = PlanAlong(T \ {LastPlanned(T)}) OBVIOUS
<1> QED BY <1>2, <1>3

\* What a plan uses of a resource and of a material.
MinutesUsed(plan, r) == SumFunction([p \in Products |-> plan.starts[p] * Product[p].minutes[r]])
StockUsed(plan, m) == SumFunction([p \in Products |-> plan.starts[p] * Product[p].usage[m]])

\* What a plan uses and what it leaves is what there is.
PlanBalances(plan) ==
  /\ plan \in PlanSet
  /\ \A r \in Resources : AvailableCapacity(r) = plan.minutes[r] + MinutesUsed(plan, r)
  /\ \A m \in Materials : stock[m] = plan.stock[m] + StockUsed(plan, m)

LEMMA IdleBalances ==
  ASSUME TypeInv
  PROVE  PlanBalances(Idle) /\ \A p \in Products : Idle.starts[p] = 0
<1>1. Idle \in PlanSet
  <2>1. stock \in [Materials -> Nat] BY DEF TypeInv
  <2> QED BY <2>1, CapacityFacts DEF Idle, PlanSet, Zero
<1>2. ASSUME NEW r \in Resources PROVE MinutesUsed(Idle, r) = 0
  <2> DEFINE f == [p \in Products |-> Idle.starts[p] * Product[p].minutes[r]]
  <2>1. \A p \in Products : f[p] = 0
    <3> SUFFICES ASSUME NEW p \in Products PROVE Idle.starts[p] * Product[p].minutes[r] = 0
      OBVIOUS
    <3>1. Idle.starts[p] = 0 /\ Product[p].minutes[r] \in Nat
      BY ProductFacts DEF Idle, Zero
    <3> QED BY <3>1
  <2>2. MinutesUsed(Idle, r) = SumFunctionOnSet(f, Products) BY DEF MinutesUsed, SumFunction
  <2> HIDE DEF f
  <2> QED BY <2>1, <2>2, SumOfZeros, FiniteConstants
<1>3. ASSUME NEW m \in Materials PROVE StockUsed(Idle, m) = 0
  <2> DEFINE f == [p \in Products |-> Idle.starts[p] * Product[p].usage[m]]
  <2>1. \A p \in Products : f[p] = 0
    <3> SUFFICES ASSUME NEW p \in Products PROVE Idle.starts[p] * Product[p].usage[m] = 0
      OBVIOUS
    <3>1. Idle.starts[p] = 0 /\ Product[p].usage[m] \in Nat
      BY ProductFacts DEF Idle, Zero
    <3> QED BY <3>1
  <2>2. StockUsed(Idle, m) = SumFunctionOnSet(f, Products) BY DEF StockUsed, SumFunction
  <2> HIDE DEF f
  <2> QED BY <2>1, <2>2, SumOfZeros, FiniteConstants
<1>4. /\ \A r \in Resources : Idle.minutes[r] = AvailableCapacity(r)
      /\ \A m \in Materials : Idle.stock[m] = stock[m]
      /\ \A p \in Products : Idle.starts[p] = 0
  BY DEF Idle, Zero
<1>5. \A m \in Materials : stock[m] \in Nat BY DEF TypeInv
<1>6. \A r \in Resources : AvailableCapacity(r) \in Nat BY CapacityFacts
<1> QED BY <1>1, <1>2, <1>3, <1>4, <1>5, <1>6 DEF PlanBalances

\* Planning one product more keeps the balance.
LEMMA PlannedBalances ==
  ASSUME TypeInv, NEW plan, PlanBalances(plan), NEW p \in Products, plan.starts[p] = 0
  PROVE  PlanBalances(Planned(plan, p))
<1> DEFINE n == Feasible(p, plan)
           next == Planned(plan, p)
<1>1. plan \in PlanSet BY DEF PlanBalances
<1>2. /\ n \in Nat
      /\ \A r \in Resources : n * Product[p].minutes[r] \in 0 .. plan.minutes[r]
      /\ \A m \in Materials : n * Product[p].usage[m] \in 0 .. plan.stock[m]
  BY <1>1, FeasibleFits
<1>3. next = [minutes |-> [r \in Resources |-> plan.minutes[r] - n * Product[p].minutes[r]],
              stock |-> [m \in Materials |-> plan.stock[m] - n * Product[p].usage[m]],
              starts |-> [plan.starts EXCEPT ![p] = n]]
  BY DEF Planned
<1> HIDE DEF n, next
<1>4. /\ plan.minutes \in [Resources -> Nat] /\ plan.stock \in [Materials -> Nat]
      /\ plan.starts \in [Products -> Nat]
  BY <1>1 DEF PlanSet
<1>5. next \in PlanSet
  <2>1. \A r \in Resources : plan.minutes[r] - n * Product[p].minutes[r] \in Nat
    <3> SUFFICES ASSUME NEW r \in Resources
                 PROVE  plan.minutes[r] - n * Product[p].minutes[r] \in Nat
      OBVIOUS
    <3>1. PICK k \in Int : k = n * Product[p].minutes[r] /\ k \in 0 .. plan.minutes[r] BY <1>2
    <3>2. plan.minutes[r] \in Nat BY <1>4
    <3> QED BY <3>1, <3>2
  <2>2. \A m \in Materials : plan.stock[m] - n * Product[p].usage[m] \in Nat
    <3> SUFFICES ASSUME NEW m \in Materials
                 PROVE  plan.stock[m] - n * Product[p].usage[m] \in Nat
      OBVIOUS
    <3>1. PICK k \in Int : k = n * Product[p].usage[m] /\ k \in 0 .. plan.stock[m] BY <1>2
    <3>2. plan.stock[m] \in Nat BY <1>4
    <3> QED BY <3>1, <3>2
  <2>3. [plan.starts EXCEPT ![p] = n] \in [Products -> Nat] BY <1>2, <1>4
  <2> QED BY <1>3, <2>1, <2>2, <2>3 DEF PlanSet
<1>6. next.starts[p] = n /\ \A q \in Products \ {p} : next.starts[q] = plan.starts[q]
  BY <1>3, <1>4
<1>7. ASSUME NEW use, \A q \in Products : use[q] \in Nat,
             NEW f, NEW g, \A q \in Products : f[q] = plan.starts[q] * use[q]
                                            /\ g[q] = next.starts[q] * use[q]
      PROVE  /\ SumFunctionOnSet(g, Products) = SumFunctionOnSet(f, Products) + n * use[p]
             /\ SumFunctionOnSet(f, Products) \in Int
  <2>1. \A x, y \in Nat : x * y \in Int OBVIOUS
  <2>2. \A q \in Products : next.starts[q] \in Nat /\ plan.starts[q] \in Nat
    BY <1>4, <1>5 DEF PlanSet
  <2>3. \A q \in Products : f[q] \in Int /\ g[q] \in Int BY <1>7, <2>1, <2>2
  <2>4. \A q \in Products : q # p => g[q] = f[q] BY <1>6, <1>7
  <2>5. SumFunctionOnSet(g, Products) = SumFunctionOnSet(f, Products) - f[p] + g[p]
    <3>1. IsFiniteSet(Products) BY FiniteConstants
    <3>2. \A q \in Products : f[q] \in Int BY <2>3
    <3>3. \A q \in Products : g[q] \in Int BY <2>3
    <3>4. SumFunctionOnSet(f, Products) = f[p] + SumFunctionOnSet(f, Products \ {p})
      BY <3>1, <3>2, SumRemove
    <3>5. SumFunctionOnSet(g, Products) = g[p] + SumFunctionOnSet(g, Products \ {p})
      BY <3>1, <3>3, SumRemove
    <3>6. IsFiniteSet(Products \ {p}) /\ \A q \in Products \ {p} : g[q] = f[q]
      BY <2>4, <3>1, FS_Subset
    <3>7. SumFunctionOnSet(g, Products \ {p}) = SumFunctionOnSet(f, Products \ {p})
      BY <3>6, SumOfSame
    <3>8. \A q \in Products \ {p} : f[q] \in Int BY <3>2
    <3>9. SumFunctionOnSet(f, Products \ {p}) \in Int BY <3>6, <3>8, SumType
    <3>10. f[p] \in Int /\ g[p] \in Int BY <3>2, <3>3
    <3> QED BY <3>4, <3>5, <3>7, <3>9, <3>10
  <2>6. f[p] = 0 BY <1>7
  <2>7. SumFunctionOnSet(f, Products) \in Int BY <2>3, SumType, FiniteConstants
  <2>8. g[p] = n * use[p] /\ g[p] \in Int BY <1>6, <1>7, <2>3
  <2> QED BY <2>5, <2>6, <2>7, <2>8
<1>8. ASSUME NEW r \in Resources
      PROVE  AvailableCapacity(r) = next.minutes[r] + MinutesUsed(next, r)
  <2> DEFINE use == [q \in Products |-> Product[q].minutes[r]]
             f == [q \in Products |-> plan.starts[q] * Product[q].minutes[r]]
             g == [q \in Products |-> next.starts[q] * Product[q].minutes[r]]
  <2>1. \A q \in Products : /\ use[q] \in Nat /\ f[q] = plan.starts[q] * use[q]
                            /\ g[q] = next.starts[q] * use[q]
    BY ProductFacts
  <2>2. use[p] = Product[p].minutes[r] OBVIOUS
  <2>3. /\ MinutesUsed(plan, r) = SumFunctionOnSet(f, Products)
        /\ MinutesUsed(next, r) = SumFunctionOnSet(g, Products)
    BY DEF MinutesUsed, SumFunction
  <2> HIDE DEF use, f, g
  <2>4. /\ SumFunctionOnSet(g, Products) = SumFunctionOnSet(f, Products) + n * use[p]
        /\ SumFunctionOnSet(f, Products) \in Int
    BY <1>7, <2>1
  <2>5. next.minutes[r] = plan.minutes[r] - n * Product[p].minutes[r] BY <1>3
  <2>6. n * Product[p].minutes[r] \in Int /\ plan.minutes[r] \in Int BY <1>2, <1>4
  <2>7. AvailableCapacity(r) = plan.minutes[r] + MinutesUsed(plan, r) BY DEF PlanBalances
  <2> QED BY <2>2, <2>3, <2>4, <2>5, <2>6, <2>7
<1>9. ASSUME NEW m \in Materials
      PROVE  stock[m] = next.stock[m] + StockUsed(next, m)
  <2> DEFINE use == [q \in Products |-> Product[q].usage[m]]
             f == [q \in Products |-> plan.starts[q] * Product[q].usage[m]]
             g == [q \in Products |-> next.starts[q] * Product[q].usage[m]]
  <2>1. \A q \in Products : /\ use[q] \in Nat /\ f[q] = plan.starts[q] * use[q]
                            /\ g[q] = next.starts[q] * use[q]
    BY ProductFacts
  <2>2. use[p] = Product[p].usage[m] OBVIOUS
  <2>3. /\ StockUsed(plan, m) = SumFunctionOnSet(f, Products)
        /\ StockUsed(next, m) = SumFunctionOnSet(g, Products)
    BY DEF StockUsed, SumFunction
  <2> HIDE DEF use, f, g
  <2>4. /\ SumFunctionOnSet(g, Products) = SumFunctionOnSet(f, Products) + n * use[p]
        /\ SumFunctionOnSet(f, Products) \in Int
    BY <1>7, <2>1
  <2>5. next.stock[m] = plan.stock[m] - n * Product[p].usage[m] BY <1>3
  <2>6. n * Product[p].usage[m] \in Int /\ plan.stock[m] \in Int BY <1>2, <1>4
  <2>7. stock[m] = plan.stock[m] + StockUsed(plan, m) BY DEF PlanBalances
  <2> QED BY <2>2, <2>3, <2>4, <2>5, <2>6, <2>7
<1>10. PlanBalances(next) BY <1>5, <1>8, <1>9 DEF PlanBalances
<1> QED BY <1>10 DEF next

\* A plan never uses more than there is, and only plans on operating days.
LEMMA ProductionPlanBalances ==
  ASSUME TypeInv
  PROVE  /\ PlanBalances(ProductionPlan)
         /\ ~OperatingDay(day) => \A p \in Products : ProductionPlan.starts[p] = 0
<1> DEFINE Sound(T) == PlanBalances(PlanAlong(T))
                         /\ \A p \in Products \ T : PlanAlong(T).starts[p] = 0
           P == {T \in SUBSET Products : Sound(T)}
<1>1. ASSUME NEW T \in SUBSET Products, \A U \in SUBSET T : U # T => U \in P PROVE T \in P
  <2>1. CASE T = {}
    <3>1. PlanAlong(T) = Idle BY <2>1, PlanRecursion
    <3> QED BY <3>1, IdleBalances
  <2>2. CASE T # {}
    <3> DEFINE c == LastPlanned(T)
               before == PlanAlong(T \ {c})
    <3>1. c \in T BY <2>2, LastPlannedIsIn
    <3>2. PlanAlong(T) = Planned(before, c) BY <2>2, PlanRecursion
    <3>3. T \ {c} \in P BY <1>1, <3>1
    <3>4. PlanBalances(before) /\ \A p \in Products \ (T \ {c}) : before.starts[p] = 0
      BY <3>3
    <3> HIDE DEF c, before
    <3>5. before.starts[c] = 0 /\ c \in Products BY <3>1, <3>4
    <3>6. PlanBalances(PlanAlong(T)) BY <3>2, <3>4, <3>5, PlannedBalances
    <3>7. before.starts \in [Products -> Nat] BY <3>4 DEF PlanBalances, PlanSet
    <3>8. PlanAlong(T).starts = [before.starts EXCEPT ![c] = Feasible(c, before)]
      BY <3>2 DEF Planned
    <3>9. \A p \in Products \ T : PlanAlong(T).starts[p] = 0 BY <3>1, <3>4, <3>7, <3>8
    <3> QED BY <3>6, <3>9
  <2> QED BY <2>1, <2>2
<1>2. Products \in P
  <2> HIDE DEF P
  <2> QED BY <1>1, FiniteInduction, FiniteConstants
<1>3. PlanBalances(PlanAlong(Products)) BY <1>2
<1> QED BY <1>3, PlanUnfolds, IdleBalances
-----------------------------------------------------------------------------
(* One order *)

\* Division with remainder.
LEMMA RemainderIs ==
  ASSUME NEW a \in Nat, NEW b \in Nat \ {0}
  PROVE  a % b = a - b * (a \div b)
OBVIOUS

LEMMA DivisionIs ==
  ASSUME NEW a \in Nat, NEW b \in Nat \ {0}
  PROVE  /\ a \div b \in Nat /\ a % b \in 0 .. b - 1
         /\ a = (a \div b) * b + (a % b)
<1>1. a \div b \in Nat OBVIOUS
<1>2. a % b \in 0 .. b - 1
  <2>1. a % b \in Nat OBVIOUS
  <2>2. a % b < b OBVIOUS
  <2> QED BY <2>1, <2>2
<1>3. a % b = a - b * (a \div b) BY RemainderIs
<1>4. b * (a \div b) = (a \div b) * b /\ (a \div b) * b \in Int BY <1>1
<1> QED BY <1>1, <1>2, <1>3, <1>4

\* The quotient is unique, and it grows with the dividend.
LEMMA QuotientIs ==
  ASSUME NEW a \in Nat, NEW b \in Nat \ {0}, NEW q \in Nat, NEW r \in 0 .. b - 1, a = q * b + r
  PROVE  a \div b = q
<1>1. PICK x \in Nat, y \in 0 .. b - 1 : x = a \div b /\ a = x * b + y
  BY DivisionIs
<1>2. ASSUME x < q PROVE FALSE
  <2>1. x + 1 <= q BY <1>2
  <2>2. (x + 1) * b <= q * b BY <2>1
  <2>3. (x + 1) * b = x * b + b BY <2>1
  <2>4. x * b \in Int /\ q * b \in Int OBVIOUS
  <2> QED BY <1>1, <2>2, <2>3, <2>4
<1>3. ASSUME q < x PROVE FALSE
  <2>1. q + 1 <= x BY <1>3
  <2>2. (q + 1) * b <= x * b BY <2>1
  <2>3. (q + 1) * b = q * b + b BY <2>1
  <2>4. x * b \in Int /\ q * b \in Int OBVIOUS
  <2> QED BY <1>1, <2>2, <2>3, <2>4
<1> QED BY <1>1, <1>2, <1>3

LEMMA QuotientGrows ==
  ASSUME NEW a \in Nat, NEW c \in Nat, a <= c, NEW b \in Nat \ {0}
  PROVE  a \div b <= c \div b
<1>1. PICK x \in Nat, y \in 0 .. b - 1 : x = a \div b /\ a = x * b + y
  BY DivisionIs
<1>2. PICK z \in Nat, w \in 0 .. b - 1 : z = c \div b /\ c = z * b + w
  BY DivisionIs
<1>3. ASSUME z < x PROVE FALSE
  <2>1. z + 1 <= x BY <1>3
  <2>2. (z + 1) * b <= x * b BY <2>1
  <2>3. (z + 1) * b = z * b + b BY <2>1
  <2>4. x * b \in Int /\ z * b \in Int OBVIOUS
  <2> QED BY <1>1, <1>2, <2>2, <2>3, <2>4
<1> QED BY <1>1, <1>2, <1>3

\* A share of at most the whole, rounded half up.
LEMMA RoundedShare ==
  ASSUME NEW u \in Nat, NEW y \in 0 .. 100
  PROVE  RoundHalfUp(u * y, 100) \in 0 .. u
<1>1. PICK k \in Nat : k = u * y /\ k <= u * 100
  <2>1. u * y \in Nat /\ u * y <= u * 100 OBVIOUS
  <2> QED BY <2>1
<1>2. RoundHalfUp(k, 100) = (2 * k + 100) \div 200 BY DEF RoundHalfUp
<1>3. (2 * k + 100) \div 200 \in 0 .. u BY <1>1
<1> QED BY <1>1, <1>2, <1>3

\* The open orders of a group, and its open units.
LEMMA OpenOrdersAre ==
  ASSUME NEW o \in OrderRecord, NEW d \in Int, OrderSound(o, d)
  PROVE  LET size == Segment[o.segment].size
             partial == o.shipped % size
         IN /\ OpenOrderCount(o) = o.count - o.cancelled - o.fulfilled
            /\ OpenOrderCount(o) \in Nat
            /\ partial \in 0 .. size - 1
            /\ o.units = OpenOrderCount(o) * size - partial
            /\ o.shipped = o.fulfilled * size + partial
            /\ partial > 0 => OpenOrderCount(o) >= 1
<1> DEFINE size == Segment[o.segment].size
           partial == o.shipped % size
           kept == o.count - o.cancelled
           open == kept - o.fulfilled
<1>1. /\ o.units \in Nat /\ o.shipped \in Nat /\ o.fulfilled \in Nat
      /\ o.count \in Nat /\ o.cancelled \in Nat /\ o.segment \in Segments
  BY DEF OrderRecord
<1>2. size \in Nat \ {0} BY <1>1, SegmentFacts
<1>3. o.units + o.shipped = kept * size /\ o.fulfilled = o.shipped \div size
  BY DEF OrderSound
<1>4. partial \in 0 .. size - 1 /\ o.shipped = o.fulfilled * size + partial
  BY <1>1, <1>2, <1>3, DivisionIs
<1>5. kept \in Int BY <1>1
<1> HIDE DEF size, partial, kept
<1>6. o.units + o.fulfilled * size + partial = kept * size
  <2>1. o.fulfilled * size \in Int /\ kept * size \in Int BY <1>1, <1>2, <1>5
  <2> QED BY <1>1, <1>2, <1>3, <1>4, <2>1
<1>7. open * size = kept * size - o.fulfilled * size /\ open \in Int
  <2>1. \A x \in Int, y \in Nat, z \in Nat \ {0} : (x - y) * z = x * z - y * z OBVIOUS
  <2>2. (kept - o.fulfilled) * size = kept * size - o.fulfilled * size
    BY <1>1, <1>2, <1>5, <2>1
  <2> QED BY <1>1, <1>5, <2>2
<1> HIDE DEF open
<1>8. o.units = open * size - partial
  <2>1. o.fulfilled * size \in Int /\ kept * size \in Int /\ open * size \in Int
    BY <1>1, <1>2, <1>5, <1>7
  <2>2. \A u, f, r, k, x \in Int : u + f + r = k /\ x = k - f => u = x - r OBVIOUS
  <2>3. partial \in Int /\ o.units \in Int BY <1>1, <1>2, <1>4
  <2> QED BY <1>6, <1>7, <2>1, <2>2, <2>3
<1>9. open * size >= partial BY <1>1, <1>2, <1>4, <1>7, <1>8
<1>10. open \in Nat /\ (partial > 0 => open >= 1)
  <2>1. open < 0 => open * size < 0 BY <1>2, <1>7
  <2>2. open = 0 => open * size = 0 BY <1>2
  <2> QED BY <1>2, <1>4, <1>7, <1>9, <2>1, <2>2
<1>11. OpenOrderCount(o) = open
  <2>1. OpenOrderCount(o) = AtLeastZero(o.count - o.fulfilled - o.cancelled)
    BY DEF OpenOrderCount
  <2>2. o.count - o.fulfilled - o.cancelled = open BY <1>1 DEF open, kept
  <2> QED BY <1>10, <2>1, <2>2 DEF AtLeastZero
<1> QED BY <1>4, <1>8, <1>10, <1>11 DEF size, partial, open, kept

\* A shipment of some of the open units keeps the counts of an order.
LEMMA ShippedOrderIsSound ==
  ASSUME NEW o \in OrderRecord, day \in Nat, OrderSound(o, day), NEW n \in 0 .. o.units,
         NEW after, after = AfterShipment(o, n)
  PROVE  /\ after \in OrderRecord /\ OrderSound(after, day)
         /\ SameGroup(after, o) /\ after.due = o.due /\ after.phase = o.phase
         /\ after.units = o.units - n
         /\ after.fulfilled - o.fulfilled \in Nat
         /\ OpenOrderCount(after) = OpenOrderCount(o) - (after.fulfilled - o.fulfilled)
<1> DEFINE size == Segment[o.segment].size
           onTime == o.onTime /\ day <= o.due
           shipped == o.shipped + n
           kept == o.count - o.cancelled
           fulfilled == Least(kept, shipped \div size)
<1>1. /\ o.units \in Nat /\ o.shipped \in Nat /\ o.fulfilled \in Nat
      /\ o.count \in Nat /\ o.cancelled \in Nat /\ o.segment \in Segments
      /\ o.inTime \in Nat /\ o.punctual \in Nat /\ o.onTime \in BOOLEAN
      /\ o.due \in Nat /\ o.day \in Nat
  BY DEF OrderRecord
<1>2. size \in Nat \ {0} BY <1>1, SegmentFacts
<1>3. after = [o EXCEPT !.units = @ - n, !.shipped = @ + n, !.fulfilled = fulfilled,
        !.onTime = onTime,
        !.inTime = IF day > o.due THEN @ ELSE @ + n,
        !.punctual = IF onTime THEN @ + fulfilled - o.fulfilled ELSE @]
  BY DEF AfterShipment
<1>4. /\ o.units + o.shipped = kept * size /\ o.fulfilled = o.shipped \div size
      /\ o.onTime => o.inTime = o.shipped /\ o.punctual = o.fulfilled
      /\ ~o.onTime => day > o.due /\ o.punctual = o.inTime \div size
      /\ o.day <= day
  BY DEF OrderSound
<1>5. kept \in Int /\ shipped \in Nat BY <1>1
<1> HIDE DEF size, shipped, kept
<1>6. kept \in Nat /\ shipped \div size <= kept
  <2>1. kept * size >= shipped /\ kept * size \in Nat
    <3>1. kept * size = o.units + o.shipped BY <1>4
    <3> QED BY <1>1, <3>1 DEF shipped
  <2>2. kept < 0 => kept * size < 0 BY <1>2, <1>5
  <2>3. kept \in Nat BY <1>5, <2>1, <2>2
  <2>4. shipped \div size <= (kept * size) \div size
    BY <1>2, <1>5, <2>1, QuotientGrows
  <2>5. (kept * size) \div size = kept
    <3>1. 0 \in 0 .. size - 1 /\ kept * size = kept * size + 0 BY <1>2, <2>1
    <3> QED BY <1>2, <2>1, <2>3, <3>1, QuotientIs
  <2> QED BY <2>3, <2>4, <2>5
<1>7. fulfilled = shipped \div size /\ fulfilled \in Nat
  <2>1. shipped \div size \in Nat BY <1>2, <1>5, DivisionIs
  <2> QED BY <1>6, <2>1 DEF Least
<1> HIDE DEF fulfilled
<1>8. fulfilled >= o.fulfilled
  <2>1. o.shipped <= shipped BY <1>1 DEF shipped
  <2> QED BY <1>1, <1>2, <1>4, <1>5, <1>7, <2>1, QuotientGrows
<1> HIDE DEF onTime
<1>a. onTime \in BOOLEAN /\ (onTime <=> o.onTime /\ day <= o.due) BY <1>1 DEF onTime
<1>9. /\ after.product = o.product /\ after.segment = o.segment /\ after.day = o.day
      /\ after.due = o.due /\ after.phase = o.phase /\ after.count = o.count
      /\ after.cancelled = o.cancelled /\ after.units = o.units - n
      /\ after.shipped = shipped /\ after.fulfilled = fulfilled /\ after.onTime = onTime
      /\ after.inTime = (IF day > o.due THEN o.inTime ELSE o.inTime + n)
      /\ after.punctual = (IF onTime THEN o.punctual + fulfilled - o.fulfilled ELSE o.punctual)
  BY <1>3 DEF OrderRecord, shipped
<1>10. o.units - n \in Nat /\ after.inTime \in Nat /\ after.punctual \in Nat
  <2>1. o.units - n \in Nat BY <1>1
  <2>2. after.inTime \in Nat BY <1>1, <1>9
  <2>3. onTime => o.punctual + fulfilled - o.fulfilled \in Nat BY <1>1, <1>7, <1>8
  <2> QED BY <1>1, <1>9, <2>1, <2>2, <2>3
<1>11. after \in OrderRecord
  BY <1>1, <1>3, <1>5, <1>7, <1>9, <1>10, <1>a DEF OrderRecord, shipped
<1>12. OrderSound(after, day)
  <2>1. after.units + after.shipped = (after.count - after.cancelled) * size
    <3>1. (o.units - n) + shipped = o.units + o.shipped BY <1>1 DEF shipped
    <3> QED BY <1>4, <1>9, <3>1 DEF kept
  <2>2. after.onTime => after.inTime = after.shipped /\ after.punctual = after.fulfilled
    BY <1>1, <1>4, <1>7, <1>9, <1>a DEF shipped
  <2>3. ~after.onTime => day > after.due /\ after.punctual = after.inTime \div size
    BY <1>1, <1>4, <1>7, <1>9, <1>a
  <2>4. Segment[after.segment].size = size BY <1>9 DEF size
  <2> QED BY <1>4, <1>7, <1>9, <2>1, <2>2, <2>3, <2>4 DEF OrderSound
<1>13. OpenOrderCount(after) = OpenOrderCount(o) - (after.fulfilled - o.fulfilled)
  <2>0. day \in Int OBVIOUS
  <2>1. OpenOrderCount(after) = after.count - after.cancelled - after.fulfilled
    BY <1>11, <1>12, <2>0, OpenOrdersAre
  <2>2. OpenOrderCount(o) = o.count - o.cancelled - o.fulfilled
    BY <2>0, OpenOrdersAre
  <2> QED BY <1>1, <1>7, <1>9, <2>1, <2>2
<1> QED BY <1>1, <1>7, <1>8, <1>9, <1>11, <1>12, <1>13 DEF SameGroup

\* An order that loses n of its orders.
UnitsLost(o, n) == IF n = 0 THEN 0 ELSE CancelledUnits(o, n)

AfterCancellation(o, n) ==
  [o EXCEPT !.units = @ - UnitsLost(o, n), !.cancelled = @ + n]

\* A cancellation of some of the open orders keeps the counts of a group.
LEMMA CancelledOrderIsSound ==
  ASSUME NEW o \in OrderRecord, day \in Nat, OrderSound(o, day),
         NEW n \in 0 .. OpenOrderCount(o)
  PROVE  LET gone == UnitsLost(o, n)
             after == AfterCancellation(o, n)
         IN
         /\ gone \in 0 .. o.units
         /\ after \in OrderRecord /\ after.units = o.units - gone
         /\ SameGroup(after, o) /\ after.due = o.due /\ after.phase = o.phase
         /\ after.units > 0 => OrderSound(after, day)
         /\ OpenOrderCount(after) = OpenOrderCount(o) - n
         /\ after.units = 0 => OpenOrderCount(after) = 0
<1> DEFINE size == Segment[o.segment].size
           partial == o.shipped % size
           open == OpenOrderCount(o)
           untouched == Least(n, open - (IF partial > 0 THEN 1 ELSE 0))
           gone == UnitsLost(o, n)
           after == AfterCancellation(o, n)
<1>a. gone = IF n = 0 THEN 0 ELSE CancelledUnits(o, n) BY DEF UnitsLost
<1>b. after = [o EXCEPT !.units = @ - gone, !.cancelled = @ + n] BY DEF AfterCancellation
<1> HIDE DEF gone, after
<1>1. /\ o.units \in Nat /\ o.shipped \in Nat /\ o.fulfilled \in Nat
      /\ o.count \in Nat /\ o.cancelled \in Nat /\ o.segment \in Segments
  BY DEF OrderRecord
<1>2. size \in Nat \ {0} BY <1>1, SegmentFacts
<1>3. /\ open = o.count - o.cancelled - o.fulfilled /\ open \in Nat
      /\ partial \in 0 .. size - 1
      /\ o.units = open * size - partial
      /\ o.shipped = o.fulfilled * size + partial
      /\ partial > 0 => open >= 1
  BY OpenOrdersAre
<1>4. n > 0 => gone = Least(untouched * size + (IF n > untouched THEN size - partial ELSE 0), o.units)
  BY <1>a DEF CancelledUnits
<1> HIDE DEF size, partial, open
<1>5. /\ partial = 0 => untouched = n
      /\ partial > 0 => untouched = (IF n = open THEN n - 1 ELSE n)
  <2>1. n \in Nat /\ n <= open BY <1>3 DEF open
  <2>2. partial > 0 => open - 1 \in Int /\ (n = open \/ n <= open - 1) BY <1>3, <2>1
  <2> QED BY <1>2, <1>3, <2>1, <2>2 DEF Least
<1>6. n \in Nat /\ n <= open BY <1>3 DEF open
<1> HIDE DEF untouched
<1>7. gone = (IF n = open THEN o.units ELSE n * size) /\ (n # open => n * size \in 0 .. o.units - 1)
  <2>1. CASE n = open
    <3>1. CASE n = 0
      <4>1. open * size = 0 BY <1>2, <2>1, <3>1
      <4> QED BY <1>a, <1>1, <1>2, <1>3, <2>1, <3>1, <4>1
    <3>2. CASE n > 0 /\ partial = 0
      <4>1. gone = Least(open * size, o.units)
        <5>1. untouched = n /\ ~(n > untouched) BY <1>5, <1>6, <3>2
        <5>2. open * size + 0 = open * size BY <1>2, <1>3
        <5> QED BY <1>4, <2>1, <3>2, <5>1, <5>2
      <4>2. o.units = open * size BY <1>1, <1>2, <1>3, <3>2
      <4> QED BY <1>1, <2>1, <4>1, <4>2 DEF Least
    <3>3. CASE n > 0 /\ partial > 0
      <4>1. untouched = n - 1 /\ n > untouched BY <1>5, <1>6, <2>1, <3>3
      <4>2. (n - 1) * size + (size - partial) = open * size - partial
        <5>1. (n - 1) * size = n * size - size BY <1>2, <1>6
        <5>2. n * size \in Int BY <1>2, <1>6
        <5> QED BY <1>2, <1>3, <2>1, <5>1, <5>2
      <4>3. gone = Least((n - 1) * size + (size - partial), o.units) BY <1>4, <3>3, <4>1
      <4> QED BY <1>1, <1>3, <2>1, <4>2, <4>3 DEF Least
    <3> QED BY <1>3, <1>6, <3>1, <3>2, <3>3
  <2>2. CASE n # open
    <3>1. n * size <= open * size - size
      <4>1. n <= open - 1 /\ open - 1 \in Nat BY <1>3, <1>6, <2>2
      <4>2. n * size <= (open - 1) * size BY <1>2, <1>6, <4>1
      <4>3. (open - 1) * size = open * size - size BY <1>2, <1>3
      <4> QED BY <4>2, <4>3
    <3>2. n * size \in Nat /\ open * size \in Nat BY <1>2, <1>3, <1>6
    <3>3. n * size \in 0 .. o.units - 1
      <4>1. PICK k \in Nat : k = n * size BY <3>2
      <4>2. PICK l \in Nat : l = open * size BY <3>2
      <4> QED BY <1>1, <1>2, <1>3, <3>1, <4>1, <4>2
    <3>4. CASE n = 0
      <4>1. n * size = 0 BY <1>2, <3>4
      <4> QED BY <1>a, <2>2, <3>3, <3>4, <4>1
    <3>5. CASE n > 0
      <4>1. untouched = n /\ ~(n > untouched) BY <1>3, <1>5, <1>6, <2>2
      <4>2. gone = Least(n * size, o.units)
        <5>1. n * size + 0 = n * size BY <3>2
        <5> QED BY <1>4, <3>5, <4>1, <5>1
      <4> QED BY <1>1, <2>2, <3>3, <4>2 DEF Least
    <3> QED BY <1>6, <3>4, <3>5
  <2> QED BY <2>1, <2>2
<1>8. gone \in 0 .. o.units
  <2>1. PICK k \in Int : k = n * size BY <1>2, <1>6
  <2> QED BY <1>1, <1>7, <2>1
<1>9. /\ after.product = o.product /\ after.segment = o.segment /\ after.day = o.day
      /\ after.due = o.due /\ after.phase = o.phase /\ after.count = o.count
      /\ after.cancelled = o.cancelled + n /\ after.units = o.units - gone
      /\ after.shipped = o.shipped /\ after.fulfilled = o.fulfilled
      /\ after.onTime = o.onTime /\ after.inTime = o.inTime /\ after.punctual = o.punctual
  BY <1>b DEF OrderRecord
<1>10. after \in OrderRecord
  <2>1. o.units - gone \in Nat /\ o.cancelled + n \in Nat BY <1>1, <1>6, <1>8
  <2> QED BY <1>b, <2>1 DEF OrderRecord
<1>11. OpenOrderCount(after) = open - n
  <2>1. OpenOrderCount(after) = AtLeastZero(o.count - o.fulfilled - (o.cancelled + n))
    BY <1>9 DEF OpenOrderCount
  <2>2. o.count - o.fulfilled - (o.cancelled + n) = open - n BY <1>1, <1>3, <1>6
  <2> QED BY <1>3, <1>6, <2>1, <2>2 DEF AtLeastZero
<1>12. after.units > 0 => OrderSound(after, day)
  <2> SUFFICES ASSUME o.units - gone > 0 PROVE OrderSound(after, day) BY <1>9
  <2>1. n # open /\ gone = n * size BY <1>1, <1>7
  <2>2. (o.count - (o.cancelled + n)) * size = (o.count - o.cancelled) * size - n * size
    BY <1>1, <1>2, <1>6
  <2>3. o.units + o.shipped = (o.count - o.cancelled) * size BY DEF OrderSound, size
  <2>4. after.units + after.shipped = (after.count - after.cancelled) * size
    <3>1. n * size \in Int BY <1>2, <1>6
    <3>2. (o.count - o.cancelled) * size \in Int BY <1>1, <1>2
    <3> QED BY <1>1, <1>9, <2>1, <2>2, <2>3, <3>1, <3>2
  <2> QED BY <1>9, <2>4 DEF OrderSound, size
<1>13. after.units = 0 => open - n = 0
  <2>1. n # open => o.units - gone > 0
    <3>1. PICK k \in Int : k = n * size BY <1>2, <1>6
    <3> QED BY <1>1, <1>7, <3>1
  <2> QED BY <1>3, <1>6, <1>9, <2>1
<1> QED BY <1>8, <1>9, <1>10, <1>11, <1>12, <1>13 DEF SameGroup, open, gone, after
-----------------------------------------------------------------------------
(* Scheduled cash *)

\* Schedules hold cents, by day and phase.
LEMMA PhasesAreFinite == IsFiniteSet(Phases)
<1>1. Phases = {"warmup"} \cup {"evaluation"} \cup {"runoff"} BY DEF Phases
<1>2. IsFiniteSet({"warmup"}) /\ IsFiniteSet({"evaluation"}) /\ IsFiniteSet({"runoff"})
  BY FS_Singleton
<1>3. IsFiniteSet({"warmup"} \cup {"evaluation"}) BY <1>2, FS_Union
<1>4. IsFiniteSet({"warmup"} \cup {"evaluation"} \cup {"runoff"}) BY <1>2, <1>3, FS_Union
<1> QED BY <1>1, <1>4

LEMMA AmountsNatural ==
  ASSUME NEW S, IsFiniteSet(S), \A x \in S : x.amount \in Nat
  PROVE  Amounts(S) \in Nat
<1> DEFINE f == [x \in S |-> x.amount]
<1>1. \A x \in S : f[x] \in Nat OBVIOUS
<1>2. Amounts(S) = SumFunctionOnSet(f, S) BY DEF Amounts, SumFunction
<1> HIDE DEF f
<1> QED BY <1>1, <1>2, SumNatural

LEMMA BalanceNatural ==
  ASSUME NEW s, IsSchedule(s), NEW ph \in Phases
  PROVE  Balance(s, ph) \in Nat
<1> DEFINE f == [d \in DOMAIN s |-> s[d][ph]]
<1>1. \A d \in DOMAIN s : f[d] \in Nat BY DEF IsSchedule
<1>2. Balance(s, ph) = SumFunctionOnSet(f, DOMAIN s) BY DEF Balance, SumFunction
<1> HIDE DEF f
<1> QED BY <1>1, <1>2, SumNatural DEF IsSchedule

\* The flows of one call: finitely many, each with its day, phase and amount.
IsFlows(flows) ==
  /\ IsFiniteSet(flows)
  /\ \A f \in flows : f.due \in Nat /\ f.phase \in Phases /\ f.amount \in Nat

\* A schedule with flows added to it is a schedule.
LEMMA ScheduledIsSchedule ==
  ASSUME NEW s, IsSchedule(s), NEW flows, IsFlows(flows)
  PROVE  /\ IsSchedule(Scheduled(s, flows))
         /\ DOMAIN Scheduled(s, flows) = DOMAIN s \cup {f.due : f \in flows}
         /\ Billed(flows) \in [Phases -> Nat]
<1> DEFINE due == [f \in flows |-> f.due]
           dues == {f.due : f \in flows}
           new == Scheduled(s, flows)
           Entry(d, ph) == (IF d \in DOMAIN s THEN s[d][ph] ELSE 0)
                             + Amounts({f \in flows : f.due = d /\ f.phase = ph})
<1>0. new = [d \in DOMAIN s \cup dues |-> [ph \in Phases |-> Entry(d, ph)]]
  BY DEF Scheduled
<1>1. IsFiniteSet(dues) /\ dues \subseteq Nat
  <2>1. dues = {due[f] : f \in flows} OBVIOUS
  <2>2. IsFiniteSet({due[f] : f \in flows})
    <3> HIDE DEF due
    <3> QED BY ImageIsFinite DEF IsFlows
  <2> QED BY <2>1, <2>2 DEF IsFlows
<1>2. IsFiniteSet(DOMAIN s \cup dues) /\ DOMAIN s \cup dues \subseteq Nat
  <2> HIDE DEF dues
  <2> QED BY <1>1, FS_Union DEF IsSchedule
<1>3. ASSUME NEW T \in SUBSET flows PROVE Amounts(T) \in Nat
  <2>1. IsFiniteSet(T) BY FS_Subset DEF IsFlows
  <2>2. \A x \in T : x.amount \in Nat BY DEF IsFlows
  <2> QED BY <2>1, <2>2, AmountsNatural
<1>4. ASSUME NEW d \in DOMAIN s \cup dues, NEW ph \in Phases PROVE Entry(d, ph) \in Nat
  <2>1. {f \in flows : f.due = d /\ f.phase = ph} \in SUBSET flows OBVIOUS
  <2>2. Amounts({f \in flows : f.due = d /\ f.phase = ph}) \in Nat BY <1>3, <2>1
  <2>3. d \in DOMAIN s => s[d][ph] \in Nat BY DEF IsSchedule
  <2> QED BY <2>2, <2>3
<1>5. DOMAIN new = DOMAIN s \cup dues BY <1>0
<1>6. new \in [DOMAIN s \cup dues -> [Phases -> Nat]]
  <2> HIDE DEF Entry, new, dues
  <2> QED BY <1>0, <1>4
<1>7. IsSchedule(new)
  <2> HIDE DEF new, dues
  <2> QED BY <1>2, <1>5, <1>6 DEF IsSchedule
<1>8. Billed(flows) \in [Phases -> Nat]
  <2>1. \A ph \in Phases : {f \in flows : f.phase = ph} \in SUBSET flows OBVIOUS
  <2>2. \A ph \in Phases : Amounts({f \in flows : f.phase = ph}) \in Nat BY <1>3, <2>1
  <2> QED BY <2>2 DEF Billed
<1> QED BY <1>5, <1>7, <1>8

\* What is scheduled is what was and what was billed.
LEMMA ScheduledBalances ==
  ASSUME NEW s, IsSchedule(s), NEW flows, IsFlows(flows), NEW ph \in Phases
  PROVE  Balance(Scheduled(s, flows), ph) = Balance(s, ph) + Billed(flows)[ph]
<1> DEFINE dues == {f.due : f \in flows}
           D == DOMAIN s \cup dues
           new == Scheduled(s, flows)
           G == {f \in flows : f.phase = ph}
           amount == [f \in flows |-> f.amount]
           due == [f \in flows |-> f.due]
           old == [d \in D |-> IF d \in DOMAIN s THEN s[d][ph] ELSE 0]
           billed == [d \in D |-> Amounts({f \in flows : f.due = d /\ f.phase = ph})]
           both == [d \in D |-> new[d][ph]]
           was == [d \in DOMAIN s |-> s[d][ph]]
<1>1. IsSchedule(new) /\ DOMAIN new = D BY ScheduledIsSchedule
<1>2. IsFiniteSet(D) BY <1>1 DEF IsSchedule
<1>3. IsFiniteSet(G) /\ G \in SUBSET flows /\ \A f \in G : amount[f] \in Nat /\ amount[f] \in Int
  <2>1. G \in SUBSET flows OBVIOUS
  <2>2. IsFiniteSet(G) BY <2>1, FS_Subset DEF IsFlows
  <2> QED BY <2>1, <2>2 DEF IsFlows
<1>4. ASSUME NEW T \in SUBSET flows PROVE Amounts(T) = SumFunctionOnSet(amount, T)
  <2> DEFINE f == [x \in T |-> x.amount]
  <2>1. \A x \in T : f[x] = amount[x] OBVIOUS
  <2>2. Amounts(T) = SumFunctionOnSet(f, T) BY DEF Amounts, SumFunction
  <2>3. IsFiniteSet(T) BY FS_Subset DEF IsFlows
  <2> HIDE DEF f, amount
  <2> QED BY <2>1, <2>2, <2>3, SumOfSame
<1>5. Billed(flows)[ph] = SumFunctionOnSet(amount, G)
  <2>1. Billed(flows)[ph] = Amounts(G) BY DEF Billed
  <2> HIDE DEF G, amount
  <2> QED BY <1>3, <1>4, <2>1
<1>6. SumFunctionOnSet(billed, D) = SumFunctionOnSet(amount, G)
  <2>1. \A f \in G : due[f] \in D OBVIOUS
  <2>2. ASSUME NEW d \in D
        PROVE  billed[d] = SumFunctionOnSet(amount, Fibre(G, due, d))
    <3>1. {f \in flows : f.due = d /\ f.phase = ph} = Fibre(G, due, d) BY DEF Fibre
    <3>2. Fibre(G, due, d) \in SUBSET flows BY DEF Fibre
    <3>3. billed[d] = Amounts(Fibre(G, due, d)) BY <3>1
    <3> HIDE DEF amount, G, due, billed
    <3>4. Amounts(Fibre(G, due, d)) = SumFunctionOnSet(amount, Fibre(G, due, d)) BY <1>4, <3>2
    <3> QED BY <3>3, <3>4
  <2> HIDE DEF due, G, billed, amount, D
  <2>3. \A f \in G : amount[f] \in Int BY <1>3
  <2>4. \A d \in D : billed[d] = SumFunctionOnSet(amount, Fibre(G, due, d)) BY <2>2
  <2>5. IsFiniteSet(G) BY <1>3
  <2> QED BY <1>2, <2>1, <2>3, <2>4, <2>5, SumOfFibres
<1>7. \A d \in D : /\ old[d] \in Int /\ billed[d] \in Int /\ both[d] = old[d] + billed[d]
  <2> SUFFICES ASSUME NEW d \in D
               PROVE  old[d] \in Int /\ billed[d] \in Int /\ both[d] = old[d] + billed[d]
    OBVIOUS
  <2>1. old[d] \in Int BY DEF IsSchedule
  <2>2. billed[d] \in Int
    <3> DEFINE T == {f \in flows : f.due = d /\ f.phase = ph}
    <3>1. T \in SUBSET flows OBVIOUS
    <3>2. IsFiniteSet(T) BY <3>1, FS_Subset DEF IsFlows
    <3>3. \A x \in T : x.amount \in Nat BY DEF IsFlows
    <3>4. billed[d] = Amounts(T) OBVIOUS
    <3> HIDE DEF T, billed
    <3> QED BY <3>2, <3>3, <3>4, AmountsNatural
  <2>3. both[d] = old[d] + billed[d] BY DEF Scheduled
  <2> QED BY <2>1, <2>2, <2>3
<1>8. Balance(new, ph) = SumFunctionOnSet(both, D)
  <2>1. Balance(new, ph) = SumFunction([d \in DOMAIN new |-> new[d][ph]]) BY DEF Balance
  <2>2. [d \in DOMAIN new |-> new[d][ph]] = both BY <1>1
  <2>3. DOMAIN both = D OBVIOUS
  <2> HIDE DEF both, new
  <2> QED BY <2>1, <2>2, <2>3 DEF SumFunction
<1>9. Balance(s, ph) = SumFunctionOnSet(old, D)
  <2>1. Balance(s, ph) = SumFunctionOnSet(was, DOMAIN s) BY DEF Balance, SumFunction
  <2>2. \A d \in DOMAIN s : was[d] = old[d] OBVIOUS
  <2>3. \A d \in D \ DOMAIN s : old[d] = 0 OBVIOUS
  <2>4. DOMAIN s \in SUBSET D OBVIOUS
  <2>5. \A d \in D : old[d] \in Int BY <1>7
  <2> HIDE DEF was, old, D
  <2>6. SumFunctionOnSet(old, DOMAIN s) = SumFunctionOnSet(old, D)
    BY <1>2, <2>3, <2>4, <2>5, SumOfPart
  <2>7. SumFunctionOnSet(was, DOMAIN s) = SumFunctionOnSet(old, DOMAIN s)
    BY <2>2, SumOfSame DEF IsSchedule
  <2> QED BY <2>1, <2>6, <2>7
<1> HIDE DEF old, billed, both, D, new, G, amount
<1>10. SumFunctionOnSet(both, D) = SumFunctionOnSet(old, D) + SumFunctionOnSet(billed, D)
  BY <1>2, <1>7, SumOfPlus
<1>11. Balance(new, ph) = Balance(s, ph) + Billed(flows)[ph]
  BY <1>5, <1>6, <1>8, <1>9, <1>10
<1> QED BY <1>11 DEF new

\* What falls due is paid and leaves the schedule.
LEMMA PoppedBalances ==
  ASSUME NEW s, IsSchedule(s)
  PROVE  /\ IsSchedule(Popped(s)) /\ DOMAIN Popped(s) = DOMAIN s \ {day}
         /\ DueToday(s) \in [Phases -> Nat]
         /\ SumFunction(DueToday(s)) \in Nat
         /\ \A ph \in Phases : Balance(s, ph) = Balance(Popped(s), ph) + DueToday(s)[ph]
<1> DEFINE E == DOMAIN s \ {day}
<1>1. Popped(s) = [d \in E |-> s[d]] BY DEF Popped
<1>2. IsFiniteSet(E) BY FS_Subset DEF IsSchedule
<1>3. DOMAIN Popped(s) = E /\ \A d \in E : Popped(s)[d] = s[d] BY <1>1
<1>4. IsSchedule(Popped(s))
  <2>1. Popped(s) \in [E -> [Phases -> Nat]] BY <1>1 DEF IsSchedule
  <2>2. E \subseteq Nat BY DEF IsSchedule
  <2> QED BY <1>2, <1>3, <2>1, <2>2 DEF IsSchedule
<1>5. DueToday(s) \in [Phases -> Nat] BY DEF DueToday, Zero, IsSchedule
<1>6. SumFunction(DueToday(s)) \in Nat
  <2>1. DOMAIN DueToday(s) = Phases /\ \A ph \in Phases : DueToday(s)[ph] \in Nat BY <1>5
  <2>2. SumFunction(DueToday(s)) = SumFunctionOnSet(DueToday(s), Phases)
    BY <2>1 DEF SumFunction
  <2> QED BY <2>1, <2>2, PhasesAreFinite, SumNatural
<1>7. ASSUME NEW ph \in Phases PROVE Balance(s, ph) = Balance(Popped(s), ph) + DueToday(s)[ph]
  <2> DEFINE f == [d \in DOMAIN s |-> s[d][ph]]
             g == [d \in E |-> s[d][ph]]
  <2>1. Balance(s, ph) = SumFunctionOnSet(f, DOMAIN s) BY DEF Balance, SumFunction
  <2>2. Balance(Popped(s), ph) = SumFunctionOnSet(g, E)
    <3>1. Balance(Popped(s), ph) = SumFunction([d \in DOMAIN Popped(s) |-> Popped(s)[d][ph]])
      BY DEF Balance
    <3>2. [d \in DOMAIN Popped(s) |-> Popped(s)[d][ph]] = g BY <1>3
    <3>3. DOMAIN g = E OBVIOUS
    <3> HIDE DEF g
    <3> QED BY <3>1, <3>2, <3>3 DEF SumFunction
  <2>3. SumFunctionOnSet(g, E) = SumFunctionOnSet(f, E)
    <3>1. \A d \in E : g[d] = f[d] OBVIOUS
    <3> HIDE DEF f, g, E
    <3> QED BY <1>2, <3>1, SumOfSame
  <2>4. \A d \in DOMAIN s : f[d] \in Int BY DEF IsSchedule
  <2>5. CASE day \in DOMAIN s
    <3>1. DueToday(s)[ph] = f[day] BY <2>5 DEF DueToday
    <3>2. f[day] \in Int BY <2>4, <2>5
    <3>3. SumFunctionOnSet(f, E) \in Int
      <4>1. \A d \in E : f[d] \in Int BY <2>4
      <4> HIDE DEF f, E
      <4> QED BY <1>2, <4>1, SumType
    <3> HIDE DEF f
    <3>4. SumFunctionOnSet(f, DOMAIN s) = f[day] + SumFunctionOnSet(f, E)
      BY <2>4, <2>5, SumRemove DEF IsSchedule
    <3> QED BY <2>1, <2>2, <2>3, <3>1, <3>2, <3>3, <3>4
  <2>6. CASE day \notin DOMAIN s
    <3>1. E = DOMAIN s /\ DueToday(s)[ph] = 0 BY <2>6 DEF DueToday, Zero
    <3>2. Balance(s, ph) \in Nat BY BalanceNatural
    <3> HIDE DEF f, E
    <3> QED BY <2>1, <2>2, <2>3, <3>1, <3>2
  <2> QED BY <2>5, <2>6
<1> QED BY <1>3, <1>4, <1>5, <1>6, <1>7
-----------------------------------------------------------------------------
(* Units and days *)

\* What is counted is what is counted of a part and of the rest.
LEMMA UnitsSplit ==
  ASSUME NEW S, IsFiniteSet(S), \A x \in S : x.units \in Nat, NEW A \in SUBSET S
  PROVE  /\ Units(S) = Units(A) + Units(S \ A)
         /\ Units(A) \in Nat /\ Units(S \ A) \in Nat
<1> DEFINE u == [x \in S |-> x.units]
<1>1. \A x \in S : u[x] = x.units /\ u[x] \in Int OBVIOUS
<1>2. IsFiniteSet(A) /\ IsFiniteSet(S \ A) BY FS_Subset
<1>3. \A x \in A : u[x] = x.units BY <1>1
<1>4. \A x \in S \ A : u[x] = x.units BY <1>1
<1>5. \A x \in A : x.units \in Nat OBVIOUS
<1>6. \A x \in S \ A : x.units \in Nat OBVIOUS
<1>7. \A x \in S : u[x] = x.units BY <1>1
<1>8. \A x \in S : u[x] \in Int BY <1>1
<1> HIDE DEF u
<1>9. Units(S) = SumFunctionOnSet(u, S) BY <1>7, UnitsAre
<1>10. Units(A) = SumFunctionOnSet(u, A) BY <1>2, <1>3, UnitsAre
<1>11. Units(S \ A) = SumFunctionOnSet(u, S \ A) BY <1>2, <1>4, UnitsAre
<1>12. SumFunctionOnSet(u, S) = SumFunctionOnSet(u, A) + SumFunctionOnSet(u, S \ A)
  BY <1>8, SumSplit
<1>13. Units(A) \in Nat BY <1>2, <1>5, UnitsNatural
<1>14. Units(S \ A) \in Nat BY <1>2, <1>6, UnitsNatural
<1> QED BY <1>9, <1>10, <1>11, <1>12, <1>13, <1>14

LEMMA UnitsOfDisjoint ==
  ASSUME NEW S, IsFiniteSet(S), NEW T, IsFiniteSet(T), S \cap T = {},
         \A x \in S : x.units \in Nat, \A x \in T : x.units \in Nat
  PROVE  /\ Units(S \cup T) = Units(S) + Units(T)
         /\ Units(S) \in Nat /\ Units(T) \in Nat
<1> DEFINE U == S \cup T
<1>1. IsFiniteSet(U) BY FS_Union
<1>2. \A x \in U : x.units \in Nat OBVIOUS
<1>3. S \in SUBSET U /\ U \ S = T OBVIOUS
<1> HIDE DEF U
<1>4. Units(U) = Units(S) + Units(U \ S) /\ Units(S) \in Nat /\ Units(U \ S) \in Nat
  BY <1>1, <1>2, <1>3, UnitsSplit
<1> QED BY <1>3, <1>4 DEF U

\* A part chosen by a property is counted apart from the rest within every class.
LEMMA UnitsOfClass ==
  ASSUME NEW S, IsFiniteSet(S), \A x \in S : x.units \in Nat, NEW A \in SUBSET S,
         NEW C \in SUBSET S
  PROVE  /\ Units(C) = Units(C \cap A) + Units(C \ A)
         /\ Units(C) \in Nat /\ Units(C \cap A) \in Nat /\ Units(C \ A) \in Nat
<1>1. IsFiniteSet(C) BY FS_Subset
<1>2. \A x \in C : x.units \in Nat OBVIOUS
<1>3. C \cap A \in SUBSET C /\ C \ (C \cap A) = C \ A OBVIOUS
<1>4. /\ Units(C) = Units(C \cap A) + Units(C \ (C \cap A))
      /\ Units(C \cap A) \in Nat /\ Units(C \ (C \cap A)) \in Nat
  BY <1>1, <1>2, <1>3, UnitsSplit
<1>5. Units(C) \in Nat BY <1>1, <1>2, UnitsNatural
<1> QED BY <1>3, <1>4, <1>5

LEMMA HorizonIsNatural ==
  Horizon \in Nat \ {0}
BY EngineAssumption DEF ValidLifecycle, Horizon

LEMMA DayIsNatural ==
  ASSUME TypeInv
  PROVE  day \in Nat /\ day < Horizon
BY HorizonIsNatural DEF TypeInv
-----------------------------------------------------------------------------
(* Financing *)

\* AtLeastZero and Least are what their names say.
LEMMA ZeroBound ==
  ASSUME NEW n \in Int
  PROVE  AtLeastZero(n) \in Nat /\ AtLeastZero(n) >= n /\ AtLeastZero(n) \in {0, n}
BY DEF AtLeastZero

LEMMA LeastBound ==
  ASSUME NEW a \in Int, NEW b \in Int
  PROVE  Least(a, b) <= a /\ Least(a, b) <= b /\ Least(a, b) \in {a, b}
BY DEF Least

\* Whatever a day's obligations or costs leave on the account: afterwards cash is at the
\* floor or above, the debt within the facility, the cash and debt identities of
\* validate_period hold, rescue money is paid only once the facility is used up and then
\* nothing is repaid, and a financing that may repay leaves excess cash only without
\* debt.  apply_financing, for every policy the company model accepts.
THEOREM FinancingHoldsLiquidity ==
  ASSUME NEW before \in Int, NEW owed \in 0 .. Policy.limit, NEW mayRepay \in BOOLEAN,
         NEW fin, fin = ApplyFinancing(before, owed, mayRepay)
  PROVE  /\ fin.cash \in Nat /\ fin.cash >= Policy.floor
         /\ fin.debt \in 0 .. Policy.limit
         /\ {fin.draw, fin.repay, fin.rescue} \subseteq Nat
         /\ fin.cash = before + fin.draw + fin.rescue - fin.repay
         /\ fin.debt = owed + fin.draw - fin.repay
         /\ fin.rescue > 0 => fin.debt = Policy.limit /\ fin.repay = 0
         /\ fin.draw > 0 => fin.repay = 0
         /\ mayRepay => fin.cash <= Policy.target \/ fin.debt = 0
<1> DEFINE draw == Least(AtLeastZero(Policy.floor - before), Policy.limit - owed)
           rescue == AtLeastZero(Policy.floor - before - draw)
           funded == before + draw + rescue
           excess == AtLeastZero(funded - Policy.target)
           repay == IF mayRepay THEN Least(excess, owed + draw) ELSE 0
<1>1. fin = [cash |-> funded - repay, debt |-> owed + draw - repay,
             draw |-> draw, repay |-> repay, rescue |-> rescue]
  BY DEF ApplyFinancing
<1>2. /\ Policy.floor \in Nat /\ Policy.limit \in Nat /\ Policy.target \in Nat
      /\ Policy.floor <= Policy.target
  BY EngineAssumption DEF ValidPolicy
<1>3. /\ draw \in Nat /\ rescue \in Nat /\ owed + draw <= Policy.limit
      /\ funded >= Policy.floor
      /\ rescue > 0 => owed + draw = Policy.limit /\ funded = Policy.floor
      /\ draw > 0 => funded = Policy.floor
  <2>1. /\ AtLeastZero(Policy.floor - before) \in Nat
        /\ AtLeastZero(Policy.floor - before) \in {0, Policy.floor - before}
        /\ AtLeastZero(Policy.floor - before) >= Policy.floor - before
    BY <1>2, ZeroBound
  <2>2. /\ draw <= AtLeastZero(Policy.floor - before) /\ draw <= Policy.limit - owed
        /\ draw \in {AtLeastZero(Policy.floor - before), Policy.limit - owed}
    BY <1>2, <2>1, LeastBound
  <2>3. draw \in Nat
    BY <1>2, <2>1, <2>2
  <2> HIDE DEF draw
  <2>4. /\ rescue \in Nat /\ rescue >= Policy.floor - before - draw
        /\ rescue \in {0, Policy.floor - before - draw}
    BY <1>2, <2>3, ZeroBound
  <2> HIDE DEF rescue
  <2> QED BY <1>2, <2>1, <2>2, <2>3, <2>4
<1> HIDE DEF draw, rescue
<1>4. funded \in Int /\ owed + draw \in Nat
  BY <1>2, <1>3
<1>5. excess \in Nat /\ excess >= funded - Policy.target /\ excess \in {0, funded - Policy.target}
  BY <1>2, <1>4, ZeroBound
<1> HIDE DEF excess
<1>6. /\ repay \in Nat /\ repay <= excess /\ repay <= owed + draw
      /\ mayRepay => repay = excess \/ repay = owed + draw
  BY <1>4, <1>5, LeastBound
<1> HIDE DEF repay
<1>7. repay > 0 => funded > Policy.target /\ funded - repay >= Policy.target
  BY <1>2, <1>4, <1>5, <1>6
<1>8. funded - repay >= Policy.floor /\ funded - repay \in Nat
  BY <1>2, <1>3, <1>4, <1>6, <1>7
<1>9. owed + draw - repay \in 0 .. Policy.limit
  BY <1>2, <1>3, <1>4, <1>6
<1>10. (rescue > 0 => repay = 0) /\ (draw > 0 => repay = 0)
  BY <1>2, <1>3, <1>4, <1>6, <1>7
<1>11. mayRepay => funded - repay <= Policy.target \/ owed + draw - repay = 0
  <2>1. repay = excess => funded - repay <= Policy.target
    BY <1>2, <1>4, <1>5, <1>6
  <2>2. repay = owed + draw => owed + draw - repay = 0
    BY <1>2, <1>3, <1>4, <1>6
  <2> QED BY <1>6, <2>1, <2>2, Zenon
<1> QED BY <1>1, <1>3, <1>6, <1>8, <1>9, <1>10, <1>11
-----------------------------------------------------------------------------
(* Open orders *)

\* Open orders are counted by any function that gives each group its own.
LEMMA OpenOrdersSum ==
  ASSUME NEW S, IsFiniteSet(S), NEW f, \A o \in S : f[o] = OpenOrderCount(o)
  PROVE  OpenOrders(S) = SumFunctionOnSet(f, S)
<1> DEFINE h == [o \in S |-> OpenOrderCount(o)]
<1>1. OpenOrders(S) = SumFunctionOnSet(h, S) BY DEF OpenOrders, SumFunction
<1>2. \A o \in S : h[o] = f[o] OBVIOUS
<1> HIDE DEF h
<1> QED BY <1>1, <1>2, SumOfSame

LEMMA OpenCountNatural ==
  ASSUME NEW o \in OrderRecord
  PROVE  OpenOrderCount(o) \in Nat
<1>1. o.count - o.fulfilled - o.cancelled \in Int BY DEF OrderRecord
<1> QED BY <1>1, ZeroBound DEF OpenOrderCount

LEMMA OpenOrdersNatural ==
  ASSUME NEW S, IsFiniteSet(S), S \subseteq OrderRecord
  PROVE  OpenOrders(S) \in Nat
<1> DEFINE f == [o \in S |-> OpenOrderCount(o)]
<1>1. \A o \in S : f[o] = OpenOrderCount(o) OBVIOUS
<1>2. \A o \in S : f[o] \in Nat BY OpenCountNatural
<1> HIDE DEF f
<1> QED BY <1>1, <1>2, OpenOrdersSum, SumNatural

LEMMA OpenOrdersOfDisjoint ==
  ASSUME NEW S, IsFiniteSet(S), S \subseteq OrderRecord,
         NEW T, IsFiniteSet(T), T \subseteq OrderRecord, S \cap T = {}
  PROVE  OpenOrders(S \cup T) = OpenOrders(S) + OpenOrders(T)
<1> DEFINE f == [o \in S \cup T |-> OpenOrderCount(o)]
<1>1. \A o \in S \cup T : f[o] = OpenOrderCount(o) OBVIOUS
<1>2. \A o \in S \cup T : f[o] \in Int BY OpenCountNatural
<1>3. IsFiniteSet(S \cup T) BY FS_Union
<1> HIDE DEF f
<1>4. SumFunctionOnSet(f, S \cup T) = SumFunctionOnSet(f, S) + SumFunctionOnSet(f, T)
  BY <1>2, SumOfDisjoint
<1>5. OpenOrders(S \cup T) = SumFunctionOnSet(f, S \cup T) BY <1>1, <1>3, OpenOrdersSum
<1>6. OpenOrders(S) = SumFunctionOnSet(f, S)
  <2>1. \A o \in S : f[o] = OpenOrderCount(o) BY <1>1
  <2> QED BY <2>1, OpenOrdersSum
<1>7. OpenOrders(T) = SumFunctionOnSet(f, T)
  <2>1. \A o \in T : f[o] = OpenOrderCount(o) BY <1>1
  <2> QED BY <2>1, OpenOrdersSum
<1> QED BY <1>4, <1>5, <1>6, <1>7

\* What the orders of one day are.
LEMMA NewOrderFacts ==
  ASSUME TypeInv, NEW p \in Products, NEW s \in Segments, shock.arrivals[<<p, s>>] > 0
  PROVE  LET o == NewOrder(p, s)
         IN /\ o \in OrderRecord /\ OrderSound(o, day)
            /\ o.product = p /\ o.segment = s /\ o.day = day
            /\ o.due = o.day + Segment[o.segment].promise
            /\ o.units > 0 /\ OpenOrderCount(o) = o.count
<1> DEFINE n == shock.arrivals[<<p, s>>]
           size == Segment[s].size
           o == NewOrder(p, s)
<1>1. n \in Nat \ {0} BY ShockFacts DEF Pairs
<1>2. size \in Nat \ {0} /\ Segment[s].promise \in Nat BY SegmentFacts
<1>3. day \in Nat BY DayIsNatural
<1>4. n * size \in Nat \ {0}
  <2>1. \A x, y \in Nat \ {0} : x * y \in Nat \ {0} OBVIOUS
  <2> QED BY <1>1, <1>2, <2>1
<1>5. PhaseForDay(day) \in Phases BY DEF PhaseForDay, Phases
<1>6. o = [product |-> p, segment |-> s, day |-> day, due |-> day + Segment[s].promise,
           phase |-> PhaseForDay(day), count |-> n, units |-> n * size,
           shipped |-> 0, fulfilled |-> 0, cancelled |-> 0, onTime |-> TRUE,
           inTime |-> 0, punctual |-> 0]
  BY DEF NewOrder
<1> HIDE DEF n, size, o
<1>7. /\ o.product = p /\ o.segment = s /\ o.day = day /\ o.due = day + Segment[s].promise
      /\ o.count = n /\ o.units = n * size /\ o.shipped = 0 /\ o.fulfilled = 0
      /\ o.cancelled = 0 /\ o.onTime = TRUE /\ o.inTime = 0 /\ o.punctual = 0
  BY <1>6
<1>8. o \in OrderRecord
  <2>1. day + Segment[s].promise \in Nat BY <1>2, <1>3
  <2> QED BY <1>1, <1>3, <1>4, <1>5, <1>6, <2>1 DEF OrderRecord
<1>9. OpenOrderCount(o) = o.count
  BY <1>1, <1>7 DEF OpenOrderCount, AtLeastZero
<1>10. OrderSound(o, day)
  <2>1. Segment[o.segment].size = size BY <1>7 DEF size
  <2>2. 0 \div size = 0 BY <1>2
  <2>3. n * size + 0 = (n - 0) * size
    <3>1. n - 0 = n /\ n * size + 0 = n * size BY <1>1, <1>4
    <3> QED BY <3>1
  <2>4. o.units + o.shipped = (o.count - o.cancelled) * size BY <1>7, <2>3
  <2> QED BY <1>3, <1>7, <2>1, <2>2, <2>4 DEF OrderSound
<1>11. o.due = o.day + Segment[o.segment].promise BY <1>7
<1>12. o.units > 0 BY <1>4, <1>7
<1> QED BY <1>7, <1>8, <1>9, <1>10, <1>11, <1>12 DEF o
-----------------------------------------------------------------------------
(* A change of the order groups *)

\* What happens to a set of groups when each of them changes but stays what it is.
Changes(O, aft, a, n) ==
  /\ IsFiniteSet(O) /\ O \subseteq OrderRecord
  /\ \A o, q \in O : SameGroup(o, q) => o = q
  /\ \A o \in O :
       /\ aft[o] \in OrderRecord /\ SameGroup(aft[o], o) /\ aft[o].phase = o.phase
       /\ a[o] \in Nat /\ aft[o].units = o.units - a[o]
       /\ n[o] \in Nat /\ OpenOrderCount(aft[o]) = OpenOrderCount(o) - n[o]

\* Groups keep their identity under such a change.
LEMMA ChangedGroups ==
  ASSUME NEW O, NEW aft, NEW a, NEW n, Changes(O, aft, a, n)
  PROVE  /\ IsFiniteSet({aft[o] : o \in O}) /\ {aft[o] : o \in O} \subseteq OrderRecord
         /\ \A o, q \in {aft[x] : x \in O} : SameGroup(o, q) => o = q
         /\ \A o, q \in O : aft[o] = aft[q] => o = q
<1>1. IsFiniteSet({aft[o] : o \in O}) BY ImageIsFinite DEF Changes
<1>2. ASSUME NEW o \in O, NEW q \in O, SameGroup(aft[o], aft[q]) PROVE o = q
  <2>1. SameGroup(aft[o], o) /\ SameGroup(aft[q], q) BY DEF Changes
  <2>2. SameGroup(o, q) BY <1>2, <2>1 DEF SameGroup
  <2> QED BY <2>2 DEF Changes
<1>3. \A o, q \in O : aft[o] = aft[q] => SameGroup(aft[o], aft[q]) BY DEF SameGroup
<1>4. {aft[o] : o \in O} \subseteq OrderRecord BY DEF Changes
<1> QED BY <1>1, <1>2, <1>3, <1>4

\* What leaves the groups of a product is what the product loses.
OfProduct(S, p) == {o \in S : o.product = p}

LEMMA ChangedUnits ==
  ASSUME NEW O, NEW aft, NEW a, NEW n, Changes(O, aft, a, n), NEW p
  PROVE  LET old == OfProduct(O, p)
             new == OfProduct({aft[x] : x \in O}, p)
         IN /\ Units(old) = Units(new) + SumFunctionOnSet(a, old)
            /\ Units(old) \in Nat /\ Units(new) \in Nat /\ SumFunctionOnSet(a, old) \in Nat
<1> USE DEF OfProduct
<1> DEFINE old == OfProduct(O, p)
           new == OfProduct({aft[x] : x \in O}, p)
           u == [o \in old |-> o.units]
           f == [o \in old |-> aft[o].units]
           g == [o \in new |-> o.units]
<1>1. old \in SUBSET O OBVIOUS
<1>2. IsFiniteSet(old) BY <1>1, FS_Subset DEF Changes
<1>3. new = {aft[o] : o \in old} BY DEF Changes, SameGroup
<1>4. \A o, q \in old : aft[o] = aft[q] => o = q BY ChangedGroups
<1>5. \A o \in old : /\ aft[o] \in OrderRecord /\ o \in OrderRecord /\ a[o] \in Nat
                     /\ aft[o].units = o.units - a[o]
  BY DEF Changes
<1>6. \A o \in old : aft[o].units \in Nat /\ o.units \in Nat BY <1>5 DEF OrderRecord
<1>7. \A o \in old : g[aft[o]] = aft[o].units
  <2>1. \A o \in old : aft[o] \in new BY <1>3
  <2> HIDE DEF old, new
  <2> QED BY <2>1
<1>8. \A o \in old : g[aft[o]] \in Int BY <1>6, <1>7
<1>9. \A o \in old : f[o] = g[aft[o]] BY <1>7
<1>10. \A o \in old : u[o] \in Int /\ a[o] \in Int /\ f[o] = u[o] - a[o]
  BY <1>5, <1>6
<1>11. \A o \in old : u[o] = o.units OBVIOUS
<1>12. \A x \in new : g[x] = x.units OBVIOUS
<1>13. IsFiniteSet(new)
  <2> HIDE DEF old, new
  <2> QED BY <1>2, <1>3, ImageIsFinite
<1>14. \A o \in old : a[o] \in Nat BY <1>5
<1>15. \A o \in old : o.units \in Nat BY <1>6
<1>16. \A x \in new : x.units \in Nat BY <1>3, <1>6
<1> HIDE DEF old, new, u, f, g
<1>17. Units(new) = SumFunctionOnSet(g, new) BY <1>12, <1>13, UnitsAre
<1>18. SumFunctionOnSet(g, {aft[o] : o \in old}) = SumFunctionOnSet(f, old)
  BY <1>2, <1>4, <1>8, <1>9, SumOfImage
<1>19. SumFunctionOnSet(f, old) = SumFunctionOnSet(u, old) - SumFunctionOnSet(a, old)
  BY <1>2, <1>10, SumOfDifference
<1>20. Units(old) = SumFunctionOnSet(u, old) BY <1>2, <1>11, UnitsAre
<1>21. SumFunctionOnSet(a, old) \in Nat BY <1>2, <1>14, SumNatural
<1>22. Units(old) \in Nat BY <1>2, <1>15, UnitsNatural
<1>23. Units(new) \in Nat BY <1>13, <1>16, UnitsNatural
<1>24. Units(new) = Units(old) - SumFunctionOnSet(a, old) BY <1>3, <1>17, <1>18, <1>19, <1>20
<1> QED BY <1>21, <1>22, <1>23, <1>24 DEF old, new

\* What the groups of the evaluation resolve is what is no longer open.
LEMMA ChangedOpenOrders ==
  ASSUME NEW O, NEW aft, NEW a, NEW n, Changes(O, aft, a, n)
  PROVE  LET old == Evaluated(O)
             new == Evaluated({aft[x] : x \in O})
         IN /\ OpenOrders(old) = OpenOrders(new) + SumFunctionOnSet(n, old)
            /\ OpenOrders(old) \in Nat /\ OpenOrders(new) \in Nat
            /\ SumFunctionOnSet(n, old) \in Nat
<1> DEFINE old == Evaluated(O)
           new == Evaluated({aft[x] : x \in O})
           u == [o \in old |-> OpenOrderCount(o)]
           f == [o \in old |-> OpenOrderCount(aft[o])]
           g == [o \in new |-> OpenOrderCount(o)]
<1>1. old \in SUBSET O BY DEF Evaluated
<1>2. IsFiniteSet(old) BY <1>1, FS_Subset DEF Changes
<1>3. new = {aft[o] : o \in old}
  <2>1. \A o \in O : aft[o].phase = o.phase BY DEF Changes
  <2> QED BY <2>1 DEF Evaluated
<1>a. \A o \in old : o \in O BY <1>1
<1>4. \A o, q \in old : aft[o] = aft[q] => o = q BY <1>a, ChangedGroups
<1>5. \A o \in old : /\ aft[o] \in OrderRecord /\ o \in OrderRecord /\ n[o] \in Nat
                     /\ OpenOrderCount(aft[o]) = OpenOrderCount(o) - n[o]
  BY <1>a DEF Changes
<1>6. \A o \in old : OpenOrderCount(aft[o]) \in Nat /\ OpenOrderCount(o) \in Nat
  BY <1>5, OpenCountNatural
<1>7. \A o \in old : g[aft[o]] = OpenOrderCount(aft[o])
  <2>1. \A o \in old : aft[o] \in new BY <1>3
  <2> HIDE DEF old, new
  <2> QED BY <2>1
<1>8. \A o \in old : g[aft[o]] \in Int
  <2> HIDE DEF g, old, new
  <2> QED BY <1>6, <1>7
<1>9. \A o \in old : f[o] = g[aft[o]] BY <1>7
<1>10. \A o \in old : u[o] \in Int /\ n[o] \in Int /\ f[o] = u[o] - n[o]
  BY <1>5, <1>6
<1>11. \A o \in old : u[o] = OpenOrderCount(o) OBVIOUS
<1>12. \A x \in new : g[x] = OpenOrderCount(x) OBVIOUS
<1>13. IsFiniteSet(new)
  <2> HIDE DEF old, new
  <2> QED BY <1>2, <1>3, ImageIsFinite
<1>14. \A o \in old : n[o] \in Nat BY <1>5
<1>15. old \subseteq OrderRecord BY <1>5
<1>16. new \subseteq OrderRecord BY <1>3, <1>5
<1> HIDE DEF old, new, u, f, g
<1>17. OpenOrders(new) = SumFunctionOnSet(g, new) BY <1>12, <1>13, OpenOrdersSum
<1>18. SumFunctionOnSet(g, {aft[o] : o \in old}) = SumFunctionOnSet(f, old)
  BY <1>2, <1>4, <1>8, <1>9, SumOfImage
<1>19. SumFunctionOnSet(f, old) = SumFunctionOnSet(u, old) - SumFunctionOnSet(n, old)
  BY <1>2, <1>10, SumOfDifference
<1>20. OpenOrders(old) = SumFunctionOnSet(u, old) BY <1>2, <1>11, OpenOrdersSum
<1>21. SumFunctionOnSet(n, old) \in Nat BY <1>2, <1>14, SumNatural
<1>22. OpenOrders(old) \in Nat BY <1>2, <1>15, OpenOrdersNatural
<1>23. OpenOrders(new) \in Nat BY <1>13, <1>16, OpenOrdersNatural
<1>24. OpenOrders(new) = OpenOrders(old) - SumFunctionOnSet(n, old)
  BY <1>3, <1>17, <1>18, <1>19, <1>20
<1> QED BY <1>21, <1>22, <1>23, <1>24 DEF old, new
-----------------------------------------------------------------------------
(* The allocation of finished goods *)

LEMMA SegmentsAreNumbers == Segments \subseteq Nat BY EngineAssumption

\* Whatever the orders of a product want, they are given what there is of it at most.
LEMMA AllocationFits ==
  ASSUME TypeInv, \A o, q \in orders : SameGroup(o, q) => o = q
  PROVE  /\ \A o \in orders : Allocated(o) \in 0 .. o.units
         /\ \A p \in Products : \A a : (\A o \in orders : a[o] = Allocated(o)) =>
              SumFunctionOnSet(a, {o \in orders : o.product = p}) \in 0 .. goods[p]
<1>1. /\ IsFiniteSet(orders) /\ orders \subseteq OrderRecord /\ goods \in [Products -> Nat]
  BY DEF TypeInv
<1>2. \A o \in orders : /\ o.units \in Nat /\ o.due \in Nat /\ o.day \in Nat
                        /\ o.product \in Products /\ o.segment \in Nat
  BY <1>1, SegmentsAreNumbers DEF OrderRecord
<1>3. ASSUME NEW o \in orders PROVE Allocated(o) \in 0 .. o.units
  <2> DEFINE B == {q \in orders : ServedBefore(q, o)}
  <2>1. B \in SUBSET orders OBVIOUS
  <2>2. IsFiniteSet(B) BY <1>1, <2>1, FS_Subset
  <2>3. \A x \in B : x.units \in Nat BY <1>2
  <2>4. Allocated(o) = Least(o.units, AtLeastZero(goods[o.product] - Units(B))) BY DEF Allocated
  <2> HIDE DEF B
  <2>5. Units(B) \in Nat BY <2>2, <2>3, UnitsNatural
  <2>6. goods[o.product] \in Nat /\ o.units \in Nat BY <1>1, <1>2
  <2> QED BY <2>4, <2>5, <2>6 DEF Least, AtLeastZero
<1>4. ASSUME NEW p \in Products, NEW a, \A o \in orders : a[o] = Allocated(o)
      PROVE  SumFunctionOnSet(a, {o \in orders : o.product = p}) \in 0 .. goods[p]
  <2> DEFINE S == {o \in orders : o.product = p}
             R == {e \in S \X S : ServedBefore(e[1], e[2])}
             u == [o \in S |-> o.units]
  <2>1. IsFiniteSet(S)
    <3>1. S \in SUBSET orders OBVIOUS
    <3> QED BY <1>1, <3>1, FS_Subset
  <2>2. ASSUME NEW x \in S, NEW y \in S PROVE <<x, y>> \in R <=> ServedBefore(x, y)
    OBVIOUS
  <2>3. \A x \in S : x \in orders /\ x.product = p OBVIOUS
  <2>4. \A x \in S : u[x] = x.units /\ u[x] \in Nat BY <1>2
  <2> HIDE DEF R, S, u
  <2>5. Orders(R, S)
    <3>1. \A x \in S : <<x, x>> \notin R
      <4> SUFFICES ASSUME NEW x \in S PROVE ~ServedBefore(x, x) BY <2>2
      <4> QED BY <1>2, <2>3 DEF ServedBefore
    <3>2. ASSUME NEW x \in S, NEW y \in S, x # y PROVE <<x, y>> \in R \/ <<y, x>> \in R
      <4>1. ~SameGroup(x, y) BY <2>3, <3>2
      <4>2. x.day # y.day \/ x.segment # y.segment BY <2>3, <4>1 DEF SameGroup
      <4>3. x.product = y.product BY <2>3
      <4>4. /\ x.day \in Nat /\ y.day \in Nat /\ x.due \in Nat /\ y.due \in Nat
            /\ x.segment \in Nat /\ y.segment \in Nat
        BY <1>2, <2>3
      <4>5. ServedBefore(x, y) \/ ServedBefore(y, x) BY <4>2, <4>3, <4>4 DEF ServedBefore
      <4> QED BY <2>2, <4>5
    <3>3. ASSUME NEW x \in S, NEW y \in S, NEW z \in S, <<x, y>> \in R, <<y, z>> \in R
          PROVE  <<x, z>> \in R
      <4>1. ServedBefore(x, y) /\ ServedBefore(y, z) BY <2>2, <3>3
      <4>2. /\ x.day \in Nat /\ y.day \in Nat /\ x.due \in Nat /\ y.due \in Nat
            /\ x.segment \in Nat /\ y.segment \in Nat
            /\ z.day \in Nat /\ z.due \in Nat /\ z.segment \in Nat
        BY <1>2, <2>3
      <4>3. ServedBefore(x, z) BY <4>1, <4>2 DEF ServedBefore
      <4> QED BY <2>2, <4>3
    <3> QED BY <3>1, <3>2, <3>3 DEF Orders
  <2>6. ASSUME NEW x \in S
        PROVE  a[x] = Least(u[x], AtLeastZero(goods[p] - SumFunctionOnSet(u, Below(R, S, x))))
    <3>1. Below(R, S, x) = {q \in orders : ServedBefore(q, x)}
      <4>1. \A q \in orders : ServedBefore(q, x) => q \in S BY <2>3 DEF ServedBefore, S
      <4>2. Below(R, S, x) = {q \in S : <<q, x>> \in R} BY DEF Below
      <4>3. \A q \in S : <<q, x>> \in R <=> ServedBefore(q, x) BY <2>2
      <4> QED BY <2>3, <4>1, <4>2, <4>3
    <3>2. Below(R, S, x) \in SUBSET S BY DEF Below
    <3>3. IsFiniteSet(Below(R, S, x)) BY <2>1, <3>2, FS_Subset
    <3>4. \A y \in Below(R, S, x) : u[y] = y.units BY <2>4, <3>2
    <3>5. Units(Below(R, S, x)) = SumFunctionOnSet(u, Below(R, S, x)) BY <3>3, <3>4, UnitsAre
    <3>6. a[x] = Least(x.units, AtLeastZero(goods[x.product] - Units({q \in orders : ServedBefore(q, x)})))
      BY <1>4, <2>3 DEF Allocated
    <3> QED BY <2>3, <2>4, <3>1, <3>5, <3>6
  <2>7. goods[p] \in Nat BY <1>1
  <2>8. \A x \in S : u[x] \in Nat BY <2>4
  <2>9. SumFunctionOnSet(a, S) = Least(SumFunctionOnSet(u, S), goods[p])
    BY <2>1, <2>5, <2>6, <2>7, <2>8, RationsAddUp
  <2>10. SumFunctionOnSet(u, S) \in Nat BY <2>1, <2>8, SumNatural
  <2>11. SumFunctionOnSet(a, S) \in 0 .. goods[p] BY <2>7, <2>9, <2>10 DEF Least
  <2> QED BY <2>11 DEF S
<1> QED BY <1>3, <1>4
-----------------------------------------------------------------------------
(* The actions, one lemma each *)

\* Supplier receipts.
LEMMA ReceiveKeepsInvariant ==
  ASSUME EngineInv, ReceivePurchaseOrders
  PROVE  EngineInv'
<1> DEFINE received == {o \in supplies : o.due <= day}
           Arrived(m) == {o \in received : o.material = m}
           arrived == [m \in Materials |-> Units(Arrived(m))]
           Invoice(o) == [due |-> day + Material[o.material].terms, phase |-> o.phase,
                          amount |-> (o.units * Material[o.material].cost) \div 1000,
                          order |-> o]
           invoice == [o \in received |-> Invoice(o)]
           invoices == {Invoice(o) : o \in received}
<1>1. /\ step = "receive" /\ step' = "complete" /\ UNCHANGED <<day, allowRescue, shock>>
      /\ supplies' = supplies \ received
      /\ stock' = Plus(stock, arrived)
      /\ payables' = Scheduled(payables, invoices)
      /\ today' = [today EXCEPT !.received = arrived]
      /\ totals' = [totals EXCEPT !.bought = Plus(@, Billed(invoices))]
      /\ UNCHANGED <<goods, orders, work, receivables, cash, debt>>
  BY DEF ReceivePurchaseOrders, Advance
<1>2. TypeInv /\ OrdersInv /\ SuppliesInv /\ WorkInv /\ EveryCentIsSettledOnce
      /\ FlowsInv /\ BlankInv /\ LiquidityHeld
  BY DEF EngineInv
<1>3. /\ day \in Nat /\ IsFiniteSet(supplies) /\ supplies \subseteq SupplyRecord
      /\ IsSchedule(payables) /\ stock \in [Materials -> Nat] /\ totals \in TotalsRecord
  BY <1>2, DayIsNatural DEF TypeInv
<1>4. \A o \in supplies : /\ o.units \in Nat /\ o.material \in Materials /\ o.phase \in Phases
                          /\ o.due \in Nat
  BY <1>3 DEF SupplyRecord
<1>5. received \in SUBSET supplies /\ IsFiniteSet(received)
  <2>1. received \in SUBSET supplies OBVIOUS
  <2> QED BY <1>3, <2>1, FS_Subset
<1>6. IsFlows(invoices) /\ \A f \in invoices : f.due >= day
  <2>0. invoices = {invoice[o] : o \in received}
    <3>1. \A o \in received : invoice[o] = Invoice(o) OBVIOUS
    <3> HIDE DEF received, invoice, Invoice
    <3> QED BY <3>1
  <2>1. IsFiniteSet(invoices)
    <3> HIDE DEF received, invoice, invoices
    <3> QED BY <1>5, <2>0, ImageIsFinite
  <2>2. ASSUME NEW o \in received
        PROVE  /\ invoice[o].due \in Nat /\ invoice[o].phase \in Phases
               /\ invoice[o].amount \in Nat /\ invoice[o].due >= day
    <3>1. Material[o.material].terms \in Nat /\ Material[o.material].cost \in Nat
      BY <1>4, MaterialFacts
    <3>2. o.units \in Nat /\ o.phase \in Phases BY <1>4
    <3>3. \A u, c \in Nat : u * c \in Nat OBVIOUS
    <3>4. o.units * Material[o.material].cost \in Nat BY <3>1, <3>2, <3>3
    <3>5. (o.units * Material[o.material].cost) \div 1000 \in Nat BY <3>4, QuotientIsNatural
    <3> QED BY <1>3, <3>1, <3>2, <3>5
  <2> HIDE DEF invoice, received, invoices
  <2> QED BY <2>0, <2>1, <2>2 DEF IsFlows
<1>8. /\ IsSchedule(payables') /\ DOMAIN payables' = DOMAIN payables \cup {f.due : f \in invoices}
      /\ Billed(invoices) \in [Phases -> Nat]
  <2> HIDE DEF invoices
  <2> QED BY <1>1, <1>3, <1>6, ScheduledIsSchedule
<1>9. ASSUME NEW m \in Materials
      PROVE  LET C == {o \in supplies : o.material = m}
                 D == {o \in supplies' : o.material = m}
             IN /\ Units(C) = arrived[m] + Units(D)
                /\ arrived[m] \in Nat /\ Units(D) \in Nat
  <2> DEFINE C == {o \in supplies : o.material = m}
             D == {o \in supplies' : o.material = m}
  <2>1. C \in SUBSET supplies /\ C \cap received = Arrived(m) /\ C \ received = D
    BY <1>1
  <2>2. \A x \in supplies : x.units \in Nat BY <1>4
  <2>3. arrived[m] = Units(C \cap received)
    <3> HIDE DEF C, received
    <3> QED BY <2>1
  <2> HIDE DEF C, D, received, arrived
  <2>4. /\ Units(C) = Units(C \cap received) + Units(C \ received)
        /\ Units(C \cap received) \in Nat /\ Units(C \ received) \in Nat
    BY <1>3, <1>5, <2>1, <2>2, UnitsOfClass
  <2> QED BY <2>1, <2>3, <2>4 DEF C, D
<1>10. arrived \in [Materials -> Nat]
  <2> HIDE DEF arrived
  <2>1. \A m \in Materials : arrived[m] \in Nat BY <1>9
  <2> QED BY <2>1 DEF arrived
<1>11. stock' \in [Materials -> Nat] /\ \A m \in Materials : stock'[m] = stock[m] + arrived[m]
  <2> HIDE DEF arrived
  <2>1. DOMAIN stock = Materials /\ \A m \in Materials : stock[m] \in Nat /\ arrived[m] \in Nat
    BY <1>3, <1>10
  <2> QED BY <1>1, <2>1 DEF Plus
<1> HIDE DEF received, arrived, invoice, invoices, Invoice, Arrived
<1>12. /\ totals' \in TotalsRecord /\ totals'.created = totals.created
       /\ totals'.resolved = totals.resolved /\ totals'.sold = totals.sold
       /\ totals'.collected = totals.collected /\ totals'.paid = totals.paid
       /\ totals'.bought \in [Phases -> Nat]
       /\ \A ph \in Phases : totals'.bought[ph] = totals.bought[ph] + Billed(invoices)[ph]
  <2>1. Plus(totals.bought, Billed(invoices)) \in [Phases -> Nat]
    BY <1>3, <1>8 DEF Plus, TotalsRecord
  <2>2. \A ph \in Phases :
          Plus(totals.bought, Billed(invoices))[ph] = totals.bought[ph] + Billed(invoices)[ph]
    BY <1>3 DEF Plus, TotalsRecord
  <2> QED BY <1>1, <1>3, <2>1, <2>2 DEF TotalsRecord
<1>13. /\ today' \in PeriodRecord /\ today'.received = arrived
       /\ today'.goods = today.goods /\ today'.stock = today.stock
       /\ today'.backlog = today.backlog /\ today'.wip = today.wip /\ today'.cash = today.cash
       /\ today'.debt = today.debt /\ today'.consumed = today.consumed
       /\ today'.completed = today.completed /\ today'.good = today.good
       /\ today'.started = today.started /\ today'.ordered = today.ordered
       /\ today'.shipped = today.shipped /\ today'.cancelled = today.cancelled
       /\ today'.available = today.available /\ today'.used = today.used
       /\ today'.overtime = today.overtime /\ today'.collections = today.collections
       /\ today'.payments = today.payments /\ today'.draw = today.draw
       /\ today'.repay = today.repay /\ today'.rescue = today.rescue
  <2>1. today \in PeriodRecord BY <1>2 DEF TypeInv
  <2> QED BY <1>1, <1>10, <2>1 DEF PeriodRecord
<1>14. IsFiniteSet(supplies') /\ supplies' \in SUBSET supplies
  <2>1. supplies' \in SUBSET supplies BY <1>1
  <2> QED BY <1>3, <2>1, FS_Subset
<1>15. TypeInv'
  <2>1. "complete" \in Steps \ {"invalid"} BY DEF Steps
  <2>2. IsSchedule(receivables') BY <1>1, <1>2 DEF TypeInv
  <2>3. supplies' \subseteq SupplyRecord BY <1>3, <1>14
  <2> QED BY <1>1, <1>2, <1>8, <1>11, <1>12, <1>13, <1>14, <2>1, <2>2, <2>3 DEF TypeInv
<1>16. OrdersInv'
  BY <1>1, <1>2, <1>12 DEF OrdersInv
<1>17. SuppliesInv'
  <2>1. /\ \A o, q \in supplies' : o.material = q.material /\ o.day = q.day => o = q
        /\ \A o \in supplies' :
             o.day <= day' /\ (o.day = day' => step' \in {"close", "next", "done", "breach"})
    BY <1>1, <1>2, <1>14 DEF SuppliesInv
  <2>2. ASSUME NEW m \in Materials
        PROVE  stock'[m] + Units({o \in supplies' : o.material = m}) <= OrderUpTo(m)
    <3>1. stock[m] + Units({o \in supplies : o.material = m}) <= OrderUpTo(m)
      BY <1>2 DEF SuppliesInv, SupplyStaysInPolicy
    <3>2. /\ Units({o \in supplies : o.material = m})
               = arrived[m] + Units({o \in supplies' : o.material = m})
          /\ arrived[m] \in Nat /\ Units({o \in supplies' : o.material = m}) \in Nat
      BY <1>9
    <3>3. stock'[m] = stock[m] + arrived[m] /\ stock[m] \in Nat BY <1>3, <1>11
    <3> QED BY <3>1, <3>2, <3>3
  <2>3. SupplyStaysInPolicy'
    BY <1>1, <2>2 DEF SupplyStaysInPolicy, OrderUpTo, ReorderPoint
  <2> QED BY <2>1, <2>3 DEF SuppliesInv
<1>18. WorkInv'
  BY <1>1, <1>2 DEF WorkInv
<1>19. EveryCentIsSettledOnce'
  <2>1. \A d \in DOMAIN payables' : d > day \/ d = day
    <3>1. \A d \in DOMAIN payables : d > day \/ d = day BY <1>2 DEF EveryCentIsSettledOnce
    <3>2. \A f \in invoices : f.due > day \/ f.due = day BY <1>3, <1>6 DEF IsFlows
    <3> QED BY <1>8, <3>1, <3>2
  <2>2. \A d \in DOMAIN receivables' : d > day \/ d = day
    BY <1>1, <1>2 DEF EveryCentIsSettledOnce
  <2>3. ASSUME NEW ph \in Phases
        PROVE  totals'.bought[ph] = totals'.paid[ph] + Balance(payables', ph)
    <3>1. totals.bought[ph] = totals.paid[ph] + Balance(payables, ph)
      BY <1>2 DEF EveryCentIsSettledOnce
    <3>2. Balance(payables', ph) = Balance(payables, ph) + Billed(invoices)[ph]
      BY <1>1, <1>3, <1>6, ScheduledBalances
    <3>3. Balance(payables, ph) \in Nat /\ Billed(invoices)[ph] \in Nat /\ totals.paid[ph] \in Nat
      BY <1>3, <1>8, BalanceNatural DEF TotalsRecord
    <3> QED BY <1>12, <3>1, <3>2, <3>3
  <2>4. \A ph \in Phases : totals'.sold[ph] = totals'.collected[ph] + Balance(receivables', ph)
    BY <1>1, <1>2, <1>12 DEF EveryCentIsSettledOnce
  <2> QED BY <1>1, <2>1, <2>2, <2>3, <2>4 DEF EveryCentIsSettledOnce
<1>20. FlowsInv'
  <2>1. BacklogByProduct' = BacklogByProduct /\ WorkInProgress' = WorkInProgress
    BY <1>1 DEF BacklogByProduct, WorkInProgress
  <2>2. \A m \in Materials :
          today'.stock[m] + today'.received[m] = today'.consumed[m] + stock'[m]
    <3> SUFFICES ASSUME NEW m \in Materials
                 PROVE  today.stock[m] + arrived[m] = today.consumed[m] + stock'[m]
      BY <1>13
    <3>1. today.stock[m] + today.received[m] = today.consumed[m] + stock[m] /\ today.received[m] = 0
      BY <1>1, <1>2 DEF FlowsInv, BlankInv
    <3>2. today.stock[m] \in Nat /\ today.consumed[m] \in Nat /\ stock[m] \in Nat
          /\ arrived[m] \in Nat
      BY <1>2, <1>10 DEF TypeInv, PeriodRecord
    <3> QED BY <1>11, <3>1, <3>2
  <2> QED BY <1>1, <1>2, <1>13, <2>1, <2>2 DEF FlowsInv
<1>21. BlankInv'
  BY <1>1, <1>2, <1>13 DEF BlankInv
<1>22. LiquidityHeld'
  BY <1>1, <1>2, <1>13 DEF LiquidityHeld
<1> QED BY <1>15, <1>16, <1>17, <1>18, <1>19, <1>20, <1>21, <1>22 DEF EngineInv

\* Completed work orders.
LEMMA CompleteKeepsInvariant ==
  ASSUME EngineInv, CompleteWorkOrders
  PROVE  EngineInv'
<1> DEFINE Done(p) == {w \in work : w.due <= day /\ w.product = p}
           completed == [p \in Products |-> Units(Done(p))]
           GoodOf(w, p) == RoundHalfUp(w.units * shock.yield[p], 100)
           good == [p \in Products |-> SumFunction([w \in Done(p) |-> GoodOf(w, p)])]
           finished == {w \in work : w.due <= day}
<1>1. /\ step = "complete" /\ step' = "settle" /\ UNCHANGED <<day, allowRescue, shock>>
      /\ work' = {w \in work : w.due > day}
      /\ goods' = Plus(goods, good)
      /\ today' = [today EXCEPT !.completed = completed, !.good = good]
      /\ UNCHANGED <<stock, orders, supplies, receivables, payables, cash, debt, totals>>
  BY DEF CompleteWorkOrders, Advance, financial
<1>2. TypeInv /\ OrdersInv /\ SuppliesInv /\ WorkInv /\ EveryCentIsSettledOnce
      /\ FlowsInv /\ BlankInv /\ LiquidityHeld
  BY DEF EngineInv
<1>3. /\ day \in Nat /\ IsFiniteSet(work) /\ work \subseteq WorkRecord
      /\ goods \in [Products -> Nat] /\ today \in PeriodRecord
  BY <1>2, DayIsNatural DEF TypeInv
<1>4. \A w \in work : w.units \in Nat /\ w.product \in Products /\ w.due \in Int
  BY <1>3 DEF WorkRecord
<1>5. work' = work \ finished /\ finished \in SUBSET work
  BY <1>1, <1>3, <1>4
<1>6. ASSUME NEW p \in Products
      PROVE  LET C == {w \in work : w.product = p}
                 D == {w \in work' : w.product = p}
             IN /\ Units(C) = completed[p] + Units(D)
                /\ completed[p] \in Nat /\ Units(D) \in Nat
  <2> DEFINE C == {w \in work : w.product = p}
             D == {w \in work' : w.product = p}
  <2>1. C \in SUBSET work /\ C \cap finished = Done(p) /\ C \ finished = D
    BY <1>5
  <2>2. \A x \in work : x.units \in Nat BY <1>4
  <2>3. completed[p] = Units(C \cap finished)
    <3> HIDE DEF C, finished
    <3> QED BY <2>1
  <2> HIDE DEF C, D, finished, completed
  <2>4. /\ Units(C) = Units(C \cap finished) + Units(C \ finished)
        /\ Units(C \cap finished) \in Nat /\ Units(C \ finished) \in Nat
    BY <1>3, <1>5, <2>1, <2>2, UnitsOfClass
  <2> QED BY <2>1, <2>3, <2>4 DEF C, D
<1>7. ASSUME NEW p \in Products
      PROVE  good[p] \in 0 .. completed[p]
  <2> DEFINE f == [w \in Done(p) |-> GoodOf(w, p)]
             u == [w \in Done(p) |-> w.units]
             z == [w \in Done(p) |-> 0]
  <2>1. IsFiniteSet(Done(p))
    <3>1. Done(p) \in SUBSET work OBVIOUS
    <3> QED BY <1>3, <3>1, FS_Subset
  <2>2. \A w \in Done(p) : f[w] \in Nat /\ f[w] \in Int /\ u[w] \in Int /\ f[w] <= u[w]
    <3> SUFFICES ASSUME NEW w \in Done(p) PROVE GoodOf(w, p) \in 0 .. w.units /\ w.units \in Nat
      OBVIOUS
    <3>1. w.units \in Nat BY <1>4
    <3>2. shock.yield[p] \in 0 .. 100 BY <1>2, ShockFacts
    <3> QED BY <3>1, <3>2, RoundedShare
  <2>3. good[p] = SumFunctionOnSet(f, Done(p)) BY DEF SumFunction
  <2>4. \A w \in Done(p) : u[w] = w.units OBVIOUS
  <2>5. completed[p] = Units(Done(p)) OBVIOUS
  <2>6. \A w \in Done(p) : f[w] \in Nat BY <2>2
  <2>7. \A w \in Done(p) : f[w] \in Int /\ u[w] \in Int /\ f[w] <= u[w] BY <2>2
  <2>8. completed[p] \in Nat BY <1>6
  <2> HIDE DEF f, u, Done, good, completed
  <2>9. completed[p] = SumFunctionOnSet(u, Done(p)) BY <2>1, <2>4, <2>5, UnitsAre
  <2>10. SumFunctionOnSet(f, Done(p)) \in Nat BY <2>1, <2>6, SumNatural
  <2>11. SumFunctionOnSet(f, Done(p)) <= SumFunctionOnSet(u, Done(p)) BY <2>1, <2>7, SumAtMost
  <2> QED BY <2>3, <2>8, <2>9, <2>10, <2>11
<1>8. completed \in [Products -> Nat] /\ good \in [Products -> Nat]
  <2>1. \A p \in Products : completed[p] \in Nat BY <1>6
  <2>2. \A p \in Products : good[p] \in Nat
    <3> HIDE DEF completed, good
    <3> QED BY <1>7, <2>1
  <2>3. DOMAIN completed = Products /\ DOMAIN good = Products OBVIOUS
  <2> HIDE DEF Done, GoodOf
  <2> QED BY <2>1, <2>2, <2>3
<1> HIDE DEF Done, completed, GoodOf, good, finished
<1>9. goods' \in [Products -> Nat] /\ \A p \in Products : goods'[p] = goods[p] + good[p]
  <2>1. DOMAIN goods = Products /\ \A p \in Products : goods[p] \in Nat /\ good[p] \in Nat
    BY <1>3, <1>8
  <2> QED BY <1>1, <2>1 DEF Plus
<1>10. /\ today' \in PeriodRecord /\ today'.completed = completed /\ today'.good = good
       /\ today'.goods = today.goods /\ today'.stock = today.stock
       /\ today'.backlog = today.backlog /\ today'.wip = today.wip /\ today'.cash = today.cash
       /\ today'.debt = today.debt /\ today'.consumed = today.consumed
       /\ today'.received = today.received
       /\ today'.started = today.started /\ today'.ordered = today.ordered
       /\ today'.shipped = today.shipped /\ today'.cancelled = today.cancelled
       /\ today'.available = today.available /\ today'.used = today.used
       /\ today'.overtime = today.overtime /\ today'.collections = today.collections
       /\ today'.payments = today.payments /\ today'.draw = today.draw
       /\ today'.repay = today.repay /\ today'.rescue = today.rescue
  BY <1>1, <1>3, <1>8 DEF PeriodRecord
<1>11. IsFiniteSet(work') /\ work' \in SUBSET work
  <2>1. work' \in SUBSET work BY <1>5
  <2> QED BY <1>3, <2>1, FS_Subset
<1>12. TypeInv'
  <2>1. "settle" \in Steps \ {"invalid"} BY DEF Steps
  <2>2. IsSchedule(receivables') /\ IsSchedule(payables') BY <1>1, <1>2 DEF TypeInv
  <2>3. work' \subseteq WorkRecord BY <1>3, <1>11
  <2> QED BY <1>1, <1>2, <1>9, <1>10, <1>11, <2>1, <2>2, <2>3 DEF TypeInv
<1>13. OrdersInv'
  BY <1>1, <1>2 DEF OrdersInv
<1>14. SuppliesInv'
  <2>1. SupplyStaysInPolicy'
    BY <1>1, <1>2 DEF SuppliesInv, SupplyStaysInPolicy, OrderUpTo, ReorderPoint
  <2> QED BY <1>1, <1>2, <2>1 DEF SuppliesInv
<1>15. WorkInv'
  BY <1>1, <1>2, <1>11 DEF WorkInv
<1>16. EveryCentIsSettledOnce'
  BY <1>1, <1>2 DEF EveryCentIsSettledOnce
<1>17. FlowsInv'
  <2>1. BacklogByProduct' = BacklogByProduct BY <1>1 DEF BacklogByProduct
  <2>2. ASSUME NEW p \in Products
        PROVE  /\ today'.goods[p] + today'.good[p] = today'.shipped[p] + goods'[p]
               /\ today'.wip[p] + today'.started[p] = today'.completed[p] + WorkInProgress'[p]
               /\ today'.good[p] <= today'.completed[p]
    <3>1. today.goods[p] + today.good[p] = today.shipped[p] + goods[p] /\ today.good[p] = 0
          /\ today.wip[p] + today.started[p] = today.completed[p] + WorkInProgress[p]
          /\ today.completed[p] = 0
      BY <1>1, <1>2 DEF FlowsInv, BlankInv
    <3>2. WorkInProgress[p] = completed[p] + WorkInProgress'[p] /\ WorkInProgress'[p] \in Nat
      <4>1. WorkInProgress[p] = Units({w \in work : w.product = p}) BY DEF WorkInProgress
      <4>2. WorkInProgress'[p] = Units({w \in work' : w.product = p}) BY DEF WorkInProgress
      <4> QED BY <1>6, <4>1, <4>2
    <3>3. today.goods[p] \in Nat /\ today.shipped[p] \in Nat /\ today.wip[p] \in Nat
          /\ today.started[p] \in Nat
      BY <1>3 DEF PeriodRecord
    <3>4. goods[p] \in Nat /\ good[p] \in Nat /\ completed[p] \in Nat /\ good[p] <= completed[p]
      BY <1>3, <1>7, <1>8
    <3> QED BY <1>9, <1>10, <3>1, <3>2, <3>3, <3>4
  <2> QED BY <1>1, <1>2, <1>10, <2>1, <2>2 DEF FlowsInv
<1>18. BlankInv'
  BY <1>1, <1>2, <1>10 DEF BlankInv
<1>19. LiquidityHeld'
  BY <1>1, <1>2, <1>10 DEF LiquidityHeld
<1> QED BY <1>12, <1>13, <1>14, <1>15, <1>16, <1>17, <1>18, <1>19 DEF EngineInv

\* A liquidity breach leaves everything else as it was.
LEMMA BreachKeepsInvariant ==
  ASSUME EngineInv, step \in {"settle", "close"}, Breach
  PROVE  EngineInv'
<1>1. /\ step' = "breach"
      /\ UNCHANGED <<day, allowRescue, shock, goods, stock, orders, work, supplies, receivables,
                     payables, cash, debt, today, totals>>
  BY DEF Breach, physical, financial
<1>2. TypeInv /\ OrdersInv /\ SuppliesInv /\ WorkInv /\ EveryCentIsSettledOnce
      /\ FlowsInv /\ BlankInv /\ LiquidityHeld
  BY DEF EngineInv
<1>3. TypeInv'
  <2>1. "breach" \in Steps \ {"invalid"} BY DEF Steps
  <2>2. IsSchedule(receivables') /\ IsSchedule(payables') BY <1>1, <1>2 DEF TypeInv
  <2> QED BY <1>1, <1>2, <2>1, <2>2 DEF TypeInv
<1>4. OrdersInv'
  BY <1>1, <1>2 DEF OrdersInv
<1>5. SuppliesInv'
  <2>1. SupplyStaysInPolicy'
    BY <1>1, <1>2 DEF SuppliesInv, SupplyStaysInPolicy, OrderUpTo, ReorderPoint
  <2> QED BY <1>1, <1>2, <2>1 DEF SuppliesInv
<1>6. WorkInv'
  BY <1>1, <1>2 DEF WorkInv
<1>7. EveryCentIsSettledOnce'
  BY <1>1, <1>2 DEF EveryCentIsSettledOnce
<1>8. FlowsInv'
  <2>1. BacklogByProduct' = BacklogByProduct /\ WorkInProgress' = WorkInProgress
    BY <1>1 DEF BacklogByProduct, WorkInProgress
  <2> QED BY <1>1, <1>2, <2>1 DEF FlowsInv
<1>9. BlankInv'
  BY <1>1 DEF BlankInv
<1>10. LiquidityHeld'
  BY <1>1, <1>2 DEF LiquidityHeld
<1> QED BY <1>3, <1>4, <1>5, <1>6, <1>7, <1>8, <1>9, <1>10 DEF EngineInv

\* Collections, payments, and the financing of the morning.
LEMMA SettleKeepsInvariant ==
  ASSUME EngineInv, SettleObligations
  PROVE  EngineInv'
<1> DEFINE in == DueToday(receivables)
           out == DueToday(payables)
           collections == SumFunction(in)
           payments == SumFunction(out)
           before == cash + collections - payments
           fin == ApplyFinancing(before, debt, FALSE)
<1>0. CASE fin.rescue > 0 /\ ~allowRescue
  BY <1>0, BreachKeepsInvariant DEF SettleObligations
<1>1. CASE ~(fin.rescue > 0 /\ ~allowRescue)
  <2>1. /\ step = "settle" /\ step' = "demand" /\ UNCHANGED <<day, allowRescue, shock>>
        /\ receivables' = Popped(receivables) /\ payables' = Popped(payables)
        /\ cash' = fin.cash /\ debt' = fin.debt
        /\ today' = [today EXCEPT !.collections = collections, !.payments = payments,
                       !.draw = fin.draw, !.rescue = fin.rescue]
        /\ totals' = [totals EXCEPT !.collected = Plus(@, in), !.paid = Plus(@, out)]
        /\ UNCHANGED <<goods, stock, orders, work, supplies>>
    BY <1>1 DEF SettleObligations, Advance, physical
  <2>2. TypeInv /\ OrdersInv /\ SuppliesInv /\ WorkInv /\ EveryCentIsSettledOnce
        /\ FlowsInv /\ BlankInv /\ LiquidityHeld
    BY DEF EngineInv
  <2>3. /\ day \in Nat /\ IsSchedule(receivables) /\ IsSchedule(payables)
        /\ today \in PeriodRecord /\ totals \in TotalsRecord /\ cash \in Nat
        /\ debt \in 0 .. Policy.limit
    BY <2>2, DayIsNatural DEF TypeInv, LiquidityHeld
  <2>4. /\ IsSchedule(receivables') /\ DOMAIN receivables' = DOMAIN receivables \ {day}
        /\ in \in [Phases -> Nat] /\ collections \in Nat
        /\ \A ph \in Phases : Balance(receivables, ph) = Balance(receivables', ph) + in[ph]
    BY <2>1, <2>3, PoppedBalances
  <2>5. /\ IsSchedule(payables') /\ DOMAIN payables' = DOMAIN payables \ {day}
        /\ out \in [Phases -> Nat] /\ payments \in Nat
        /\ \A ph \in Phases : Balance(payables, ph) = Balance(payables', ph) + out[ph]
    BY <2>1, <2>3, PoppedBalances
  <2> HIDE DEF in, out, collections, payments
  <2>6. before \in Int BY <2>3, <2>4, <2>5
  <2> HIDE DEF before
  <2> DEFINE mayRepay == FALSE
  <2>7. fin = ApplyFinancing(before, debt, mayRepay) /\ mayRepay \in BOOLEAN OBVIOUS
  <2> HIDE DEF fin, mayRepay
  <2>8. /\ fin.cash \in Nat /\ fin.cash >= Policy.floor
        /\ fin.debt \in 0 .. Policy.limit
        /\ {fin.draw, fin.repay, fin.rescue} \subseteq Nat
        /\ fin.cash = before + fin.draw + fin.rescue - fin.repay
        /\ fin.debt = debt + fin.draw - fin.repay
        /\ fin.rescue > 0 => fin.debt = Policy.limit /\ fin.repay = 0
    BY <2>3, <2>6, <2>7, FinancingHoldsLiquidity
  <2>9. fin.repay = 0 BY <2>7 DEF ApplyFinancing, mayRepay
  <2>10. /\ today' \in PeriodRecord /\ today'.collections = collections
         /\ today'.payments = payments /\ today'.draw = fin.draw /\ today'.rescue = fin.rescue
         /\ today'.goods = today.goods /\ today'.stock = today.stock
         /\ today'.backlog = today.backlog /\ today'.wip = today.wip /\ today'.cash = today.cash
         /\ today'.debt = today.debt /\ today'.consumed = today.consumed
         /\ today'.received = today.received /\ today'.completed = today.completed
         /\ today'.good = today.good
         /\ today'.started = today.started /\ today'.ordered = today.ordered
         /\ today'.shipped = today.shipped /\ today'.cancelled = today.cancelled
         /\ today'.available = today.available /\ today'.used = today.used
         /\ today'.overtime = today.overtime /\ today'.repay = today.repay
    BY <2>1, <2>3, <2>4, <2>5, <2>8 DEF PeriodRecord
  <2>11. /\ totals' \in TotalsRecord /\ totals'.created = totals.created
         /\ totals'.resolved = totals.resolved /\ totals'.sold = totals.sold
         /\ totals'.bought = totals.bought
         /\ \A ph \in Phases : totals'.collected[ph] = totals.collected[ph] + in[ph]
         /\ \A ph \in Phases : totals'.paid[ph] = totals.paid[ph] + out[ph]
    <3>1. Plus(totals.collected, in) \in [Phases -> Nat] /\ Plus(totals.paid, out) \in [Phases -> Nat]
      BY <2>3, <2>4, <2>5 DEF Plus, TotalsRecord
    <3>2. \A ph \in Phases : /\ Plus(totals.collected, in)[ph] = totals.collected[ph] + in[ph]
                             /\ Plus(totals.paid, out)[ph] = totals.paid[ph] + out[ph]
      BY <2>3 DEF Plus, TotalsRecord
    <3> QED BY <2>1, <2>3, <3>1, <3>2 DEF TotalsRecord
  <2>12. TypeInv'
    <3>1. "demand" \in Steps \ {"invalid"} BY DEF Steps
    <3>2. debt' \in Nat BY <2>1, <2>8 DEF TypeInv
    <3> QED BY <2>1, <2>2, <2>4, <2>5, <2>8, <2>10, <2>11, <3>1, <3>2 DEF TypeInv
  <2>13. OrdersInv'
    BY <2>1, <2>2, <2>11 DEF OrdersInv
  <2>14. SuppliesInv'
    <3>1. SupplyStaysInPolicy'
      BY <2>1, <2>2 DEF SuppliesInv, SupplyStaysInPolicy, OrderUpTo, ReorderPoint
    <3> QED BY <2>1, <2>2, <3>1 DEF SuppliesInv
  <2>15. WorkInv'
    BY <2>1, <2>2 DEF WorkInv
  <2>16. EveryCentIsSettledOnce'
    <3>1. \A d \in DOMAIN receivables' \cup DOMAIN payables' : d > day
      BY <2>1, <2>2, <2>4, <2>5 DEF EveryCentIsSettledOnce
    <3>2. ASSUME NEW ph \in Phases
          PROVE  /\ totals'.sold[ph] = totals'.collected[ph] + Balance(receivables', ph)
                 /\ totals'.bought[ph] = totals'.paid[ph] + Balance(payables', ph)
      <4>1. /\ totals.sold[ph] = totals.collected[ph] + Balance(receivables, ph)
            /\ totals.bought[ph] = totals.paid[ph] + Balance(payables, ph)
        BY <2>2 DEF EveryCentIsSettledOnce
      <4>2. Balance(receivables', ph) \in Nat /\ Balance(payables', ph) \in Nat
        BY <2>4, <2>5, BalanceNatural
      <4>3. totals.collected[ph] \in Nat /\ totals.paid[ph] \in Nat
            /\ in[ph] \in Nat /\ out[ph] \in Nat
        BY <2>3, <2>4, <2>5 DEF TotalsRecord
      <4> QED BY <2>4, <2>5, <2>11, <4>1, <4>2, <4>3
    <3> QED BY <2>1, <3>1, <3>2 DEF EveryCentIsSettledOnce
  <2>17. FlowsInv'
    <3>1. BacklogByProduct' = BacklogByProduct /\ WorkInProgress' = WorkInProgress
      BY <2>1 DEF BacklogByProduct, WorkInProgress
    <3>2. /\ today'.cash + today'.collections + today'.rescue + today'.draw - today'.payments = cash'
          /\ today'.debt + today'.draw = debt' /\ today'.repay = 0
      <4>1. today.cash = cash /\ today.debt = debt /\ today.repay = 0
        <5>1. /\ today.cash + today.collections + today.rescue + today.draw - today.payments = cash
              /\ today.debt + today.draw = debt /\ today.repay = 0
          BY <2>1, <2>2 DEF FlowsInv
        <5>2. /\ today.collections = 0 /\ today.payments = 0 /\ today.draw = 0
              /\ today.rescue = 0
          BY <2>1, <2>2 DEF BlankInv
        <5>3. today.cash \in Nat /\ today.debt \in Nat BY <2>3 DEF PeriodRecord
        <5> QED BY <5>1, <5>2, <5>3
      <4>2. before = cash + collections - payments BY DEF before
      <4> QED BY <2>1, <2>3, <2>4, <2>5, <2>8, <2>9, <2>10, <4>1, <4>2
    <3> QED BY <2>1, <2>2, <2>10, <3>1, <3>2 DEF FlowsInv
  <2>18. BlankInv'
    BY <2>1, <2>2, <2>10 DEF BlankInv
  <2>19. LiquidityHeld'
    BY <2>1, <2>8, <2>9, <2>10 DEF LiquidityHeld
  <2> QED BY <2>12, <2>13, <2>14, <2>15, <2>16, <2>17, <2>18, <2>19 DEF EngineInv
<1> QED BY <1>0, <1>1

\* The demand of the day.
LEMMA CreateKeepsInvariant ==
  ASSUME EngineInv, CreateOrders
  PROVE  EngineInv'
<1> DEFINE demand == {o \in {NewOrder(p, s) : p \in Products, s \in Segments} : o.count > 0}
           created == IF OperatingDay(day) /\ PhaseForDay(day) # "runoff" THEN demand ELSE {}
           ordered == [p \in Products |-> Units({o \in created : o.product = p})]
           counted == SumFunction([o \in Evaluated(created) |-> o.count])
           wanted == {g \in Pairs : shock.arrivals[g] > 0}
           group == [g \in wanted |-> NewOrder(g[1], g[2])]
<1>1. /\ step = "demand" /\ step' = "ship" /\ UNCHANGED <<day, allowRescue, shock>>
      /\ orders' = orders \cup created
      /\ today' = [today EXCEPT !.ordered = ordered]
      /\ totals' = [totals EXCEPT !.created = @ + counted]
      /\ UNCHANGED <<goods, stock, work, supplies, receivables, payables, cash, debt>>
  BY DEF CreateOrders, Advance, financial
<1>2. TypeInv /\ OrdersInv /\ SuppliesInv /\ WorkInv /\ EveryCentIsSettledOnce
      /\ FlowsInv /\ BlankInv /\ LiquidityHeld
  BY DEF EngineInv
<1>3. /\ day \in Nat /\ IsFiniteSet(orders) /\ orders \subseteq OrderRecord
      /\ today \in PeriodRecord /\ totals \in TotalsRecord
  BY <1>2, DayIsNatural DEF TypeInv
<1>4. demand = {group[g] : g \in wanted}
  <2>1. ASSUME NEW p \in Products, NEW s \in Segments
        PROVE  NewOrder(p, s).count = shock.arrivals[<<p, s>>]
    BY DEF NewOrder
  <2>2. ASSUME NEW o \in demand PROVE \E g \in wanted : o = group[g]
    <3>1. PICK p \in Products, s \in Segments : o = NewOrder(p, s) /\ o.count > 0 OBVIOUS
    <3>2. <<p, s>> \in wanted BY <2>1, <3>1 DEF Pairs
    <3>3. group[<<p, s>>] = NewOrder(p, s) BY <3>2
    <3> QED BY <3>1, <3>2, <3>3
  <2>3. ASSUME NEW g \in wanted PROVE group[g] \in demand
    <3>1. PICK p \in Products, s \in Segments : g = <<p, s>> BY DEF Pairs
    <3>2. group[g] = NewOrder(p, s) BY <3>1
    <3> QED BY <2>1, <3>1, <3>2
  <2> HIDE DEF demand, group, wanted
  <2> QED BY <2>2, <2>3
<1>5. IsFiniteSet(demand)
  <2>1. IsFiniteSet(Pairs) BY FiniteConstants, FS_Product DEF Pairs
  <2>2. IsFiniteSet(wanted)
    <3>1. wanted \in SUBSET Pairs OBVIOUS
    <3> QED BY <2>1, <3>1, FS_Subset
  <2> HIDE DEF demand, group, wanted
  <2> QED BY <1>4, <2>2, ImageIsFinite
<1>6. IsFiniteSet(created)
  <2> HIDE DEF demand
  <2> QED BY <1>5, FS_EmptySet
<1>7. ASSUME NEW o \in created
      PROVE  /\ o \in OrderRecord /\ OrderSound(o, day) /\ o.day = day
             /\ o.due = o.day + Segment[o.segment].promise
             /\ o.units > 0 /\ OpenOrderCount(o) = o.count
             /\ o = NewOrder(o.product, o.segment)
  <2>1. PICK p \in Products, s \in Segments : o = NewOrder(p, s) /\ o.count > 0
    <3>1. o \in demand OBVIOUS
    <3> QED BY <3>1
  <2>2. NewOrder(p, s).count = shock.arrivals[<<p, s>>] BY DEF NewOrder
  <2> HIDE DEF created, demand
  <2>3. LET q == NewOrder(p, s)
        IN /\ q \in OrderRecord /\ OrderSound(q, day)
           /\ q.product = p /\ q.segment = s /\ q.day = day
           /\ q.due = q.day + Segment[q.segment].promise
           /\ q.units > 0 /\ OpenOrderCount(q) = q.count
    BY <1>2, <2>1, <2>2, NewOrderFacts
  <2> QED BY <2>1, <2>3
<1> HIDE DEF demand, created, ordered, counted, wanted, group
<1>8. created \subseteq OrderRecord /\ orders \cap created = {}
  <2>1. \A o \in orders : o.day < day BY <1>1, <1>2 DEF OrdersInv
  <2>2. \A o \in created : o.day = day BY <1>7
  <2>3. \A o \in orders : o.day \in Int BY <1>3 DEF OrderRecord
  <2> QED BY <1>3, <1>7, <2>1, <2>2, <2>3
<1>9. IsFiniteSet(orders') /\ orders' \subseteq OrderRecord
  BY <1>1, <1>3, <1>6, <1>8, FS_Union
<1>10. ASSUME NEW p \in Products
       PROVE  /\ BacklogByProduct'[p] = BacklogByProduct[p] + ordered[p]
              /\ BacklogByProduct[p] \in Nat /\ ordered[p] \in Nat
  <2> DEFINE S == {o \in orders : o.product = p}
             T == {o \in created : o.product = p}
  <2>1. S \in SUBSET orders /\ T \in SUBSET created OBVIOUS
  <2>2. IsFiniteSet(S) BY <1>3, <2>1, FS_Subset
  <2>3. IsFiniteSet(T) BY <1>6, <2>1, FS_Subset
  <2>4. \A x \in S : x.units \in Nat BY <1>3 DEF OrderRecord
  <2>5. \A x \in T : x.units \in Nat BY <1>8 DEF OrderRecord
  <2>6. S \cap T = {} BY <1>8
  <2>7. {o \in orders' : o.product = p} = S \cup T BY <1>1
  <2>8. BacklogByProduct'[p] = Units({o \in orders' : o.product = p}) BY DEF BacklogByProduct
  <2>9. BacklogByProduct[p] = Units(S) /\ ordered[p] = Units(T) BY DEF BacklogByProduct, ordered
  <2> HIDE DEF S, T
  <2>10. Units(S \cup T) = Units(S) + Units(T) /\ Units(S) \in Nat /\ Units(T) \in Nat
    BY <2>2, <2>3, <2>4, <2>5, <2>6, UnitsOfDisjoint
  <2> QED BY <2>7, <2>8, <2>9, <2>10
<1>11. counted = OpenOrders(Evaluated(created)) /\ counted \in Nat
  <2> DEFINE E == Evaluated(created)
             f == [o \in E |-> o.count]
  <2>1. E \in SUBSET created BY DEF Evaluated
  <2>2. IsFiniteSet(E) BY <1>6, <2>1, FS_Subset
  <2>3. counted = SumFunctionOnSet(f, E) BY DEF counted, SumFunction
  <2>4. \A o \in E : f[o] = OpenOrderCount(o)
    <3> HIDE DEF E
    <3> QED BY <1>7, <2>1
  <2>5. E \subseteq OrderRecord BY <1>8, <2>1
  <2> HIDE DEF E, f
  <2>6. OpenOrders(E) = SumFunctionOnSet(f, E) BY <2>2, <2>4, OpenOrdersSum
  <2>7. OpenOrders(E) \in Nat BY <2>2, <2>5, OpenOrdersNatural
  <2> QED BY <2>3, <2>6, <2>7 DEF E
<1>12. OpenOrders(Evaluated(orders')) = OpenOrders(Evaluated(orders)) + counted
       /\ OpenOrders(Evaluated(orders)) \in Nat
  <2> DEFINE S == Evaluated(orders)
             T == Evaluated(created)
  <2>1. Evaluated(orders') = S \cup T BY <1>1 DEF Evaluated
  <2>2. S \in SUBSET orders /\ T \in SUBSET created BY DEF Evaluated
  <2>3. IsFiniteSet(S) BY <1>3, <2>2, FS_Subset
  <2>4. IsFiniteSet(T) BY <1>6, <2>2, FS_Subset
  <2>5. S \subseteq OrderRecord /\ T \subseteq OrderRecord /\ S \cap T = {} BY <1>3, <1>8, <2>2
  <2> HIDE DEF S, T
  <2>6. OpenOrders(S \cup T) = OpenOrders(S) + OpenOrders(T)
    BY <2>3, <2>4, <2>5, OpenOrdersOfDisjoint
  <2>7. OpenOrders(S) \in Nat BY <2>3, <2>5, OpenOrdersNatural
  <2> QED BY <1>11, <2>1, <2>6, <2>7 DEF S, T
<1>13. ordered \in [Products -> Nat]
  <2>1. \A p \in Products : ordered[p] \in Nat BY <1>10
  <2>2. DOMAIN ordered = Products BY DEF ordered
  <2>3. ordered = [p \in Products |-> ordered[p]] BY DEF ordered
  <2> QED BY <2>1, <2>2, <2>3
<1>14. /\ today' \in PeriodRecord /\ today'.ordered = ordered
       /\ today'.goods = today.goods /\ today'.stock = today.stock
       /\ today'.backlog = today.backlog /\ today'.wip = today.wip /\ today'.cash = today.cash
       /\ today'.debt = today.debt /\ today'.consumed = today.consumed
       /\ today'.received = today.received /\ today'.completed = today.completed
       /\ today'.good = today.good /\ today'.started = today.started
       /\ today'.shipped = today.shipped /\ today'.cancelled = today.cancelled
       /\ today'.available = today.available /\ today'.used = today.used
       /\ today'.overtime = today.overtime /\ today'.collections = today.collections
       /\ today'.payments = today.payments /\ today'.draw = today.draw
       /\ today'.repay = today.repay /\ today'.rescue = today.rescue
  BY <1>1, <1>3, <1>13 DEF PeriodRecord
<1>15. /\ totals' \in TotalsRecord /\ totals'.created = totals.created + counted
       /\ totals'.resolved = totals.resolved /\ totals'.sold = totals.sold
       /\ totals'.bought = totals.bought /\ totals'.collected = totals.collected
       /\ totals'.paid = totals.paid
  BY <1>1, <1>3, <1>11 DEF TotalsRecord
<1>16. TypeInv'
  <2>1. "ship" \in Steps \ {"invalid"} BY DEF Steps
  <2>2. IsSchedule(receivables') /\ IsSchedule(payables') BY <1>1, <1>2 DEF TypeInv
  <2> QED BY <1>1, <1>2, <1>9, <1>14, <1>15, <2>1, <2>2 DEF TypeInv
<1>17. OrdersInv'
  <2>1. \A o \in orders' : OrderSound(o, day) /\ o.due = o.day + Segment[o.segment].promise
    BY <1>1, <1>2, <1>7 DEF OrdersInv
  <2>2. ASSUME NEW o \in orders', NEW q \in orders', SameGroup(o, q) PROVE o = q
    <3>1. CASE o \in orders /\ q \in orders BY <1>2, <2>2, <3>1 DEF OrdersInv
    <3>2. CASE o \in created /\ q \in created BY <1>7, <2>2, <3>2 DEF SameGroup
    <3>3. CASE o \in created /\ q \in orders
      <4>1. o.day = day /\ q.day < day BY <1>1, <1>2, <1>7, <3>3 DEF OrdersInv
      <4> QED BY <1>3, <2>2, <4>1 DEF SameGroup
    <3>4. CASE o \in orders /\ q \in created
      <4>1. q.day = day /\ o.day < day BY <1>1, <1>2, <1>7, <3>4 DEF OrdersInv
      <4> QED BY <1>3, <2>2, <4>1 DEF SameGroup
    <3> QED BY <1>1, <3>1, <3>2, <3>3, <3>4
  <2>3. \A o \in orders' : o.units # 0
    BY <1>1, <1>2, <1>7 DEF OrdersInv
  <2>4. totals'.created = totals'.resolved + OpenOrders(Evaluated(orders'))
    <3>1. totals.created = totals.resolved + OpenOrders(Evaluated(orders))
      BY <1>2 DEF OrdersInv
    <3>2. totals.resolved \in Nat BY <1>3 DEF TotalsRecord
    <3> QED BY <1>11, <1>12, <1>15, <3>1, <3>2
  <2> QED BY <1>1, <2>1, <2>2, <2>3, <2>4 DEF OrdersInv
<1>18. SuppliesInv'
  <2>1. SupplyStaysInPolicy'
    BY <1>1, <1>2 DEF SuppliesInv, SupplyStaysInPolicy, OrderUpTo, ReorderPoint
  <2> QED BY <1>1, <1>2, <2>1 DEF SuppliesInv
<1>19. WorkInv'
  BY <1>1, <1>2 DEF WorkInv
<1>20. EveryCentIsSettledOnce'
  BY <1>1, <1>2, <1>15 DEF EveryCentIsSettledOnce
<1>21. FlowsInv'
  <2>1. WorkInProgress' = WorkInProgress BY <1>1 DEF WorkInProgress
  <2>2. ASSUME NEW p \in Products
        PROVE  today'.backlog[p] + today'.ordered[p]
                 = today'.shipped[p] + today'.cancelled[p] + BacklogByProduct'[p]
    <3>1. /\ today.backlog[p] + today.ordered[p]
               = today.shipped[p] + today.cancelled[p] + BacklogByProduct[p]
          /\ today.ordered[p] = 0
      BY <1>1, <1>2 DEF FlowsInv, BlankInv
    <3>2. today.backlog[p] \in Nat /\ today.shipped[p] \in Nat /\ today.cancelled[p] \in Nat
      BY <1>3 DEF PeriodRecord
    <3> QED BY <1>10, <1>14, <3>1, <3>2
  <2> QED BY <1>1, <1>2, <1>14, <2>1, <2>2 DEF FlowsInv
<1>22. BlankInv'
  BY <1>1, <1>2, <1>14 DEF BlankInv
<1>23. LiquidityHeld'
  BY <1>1, <1>2, <1>14 DEF LiquidityHeld
<1> QED BY <1>16, <1>17, <1>18, <1>19, <1>20, <1>21, <1>22, <1>23 DEF EngineInv

\* What leaves the warehouse, and its invoices.
LEMMA ShipKeepsInvariant ==
  ASSUME EngineInv, ShipOrders
  PROVE  EngineInv'
<1> DEFINE served == {o \in orders : Allocated(o) > 0}
           Served(p) == {q \in served : q.product = p}
           Shipped(p) == SumFunction([o \in Served(p) |-> Allocated(o)])
           shipped == [p \in Products |-> Shipped(p)]
           Invoice(o) == [due |-> CollectionDay(o.segment), phase |-> o.phase,
                          amount |-> Allocated(o) * Product[o.product].price[o.segment],
                          order |-> o]
           invoices == {Invoice(o) : o \in served}
           After(o) == AfterShipment(o, Allocated(o))
           Newly(o) == After(o).fulfilled - o.fulfilled
           resolved == SumFunction([o \in Evaluated(served) |-> Newly(o)])
           invoice == [o \in served |-> Invoice(o)]
           a == [o \in orders |-> Allocated(o)]
           aft == [o \in orders |-> IF o \in served THEN After(o) ELSE o]
           newly == [o \in orders |-> IF o \in served THEN Newly(o) ELSE 0]
<1>1. /\ step = "ship" /\ step' = "cancel" /\ UNCHANGED <<day, allowRescue, shock>>
      /\ orders' = (orders \ served) \cup {After(o) : o \in served}
      /\ goods' = [p \in Products |-> goods[p] - shipped[p]]
      /\ receivables' = Scheduled(receivables, invoices)
      /\ today' = [today EXCEPT !.shipped = shipped]
      /\ totals' = [totals EXCEPT !.sold = Plus(@, Billed(invoices)), !.resolved = @ + resolved]
      /\ UNCHANGED <<stock, work, supplies, payables, cash, debt>>
  BY DEF ShipOrders, Advance
<1>2. TypeInv /\ OrdersInv /\ SuppliesInv /\ WorkInv /\ EveryCentIsSettledOnce
      /\ FlowsInv /\ BlankInv /\ LiquidityHeld
  BY DEF EngineInv
<1>3. /\ day \in Nat /\ IsFiniteSet(orders) /\ orders \subseteq OrderRecord
      /\ goods \in [Products -> Nat] /\ IsSchedule(receivables)
      /\ today \in PeriodRecord /\ totals \in TotalsRecord
  BY <1>2, DayIsNatural DEF TypeInv
<1>4. /\ \A o \in orders : OrderSound(o, day) /\ o.due = o.day + Segment[o.segment].promise
      /\ \A o, q \in orders : SameGroup(o, q) => o = q
  BY <1>2 DEF OrdersInv
<1>5. \A o \in orders : Allocated(o) \in 0 .. o.units /\ o.units \in Nat /\ o \in OrderRecord
  BY <1>2, <1>3, <1>4, AllocationFits DEF OrderRecord
<1>6. served \in SUBSET orders /\ IsFiniteSet(served)
  <2>1. served \in SUBSET orders OBVIOUS
  <2> QED BY <1>3, <2>1, FS_Subset
<1>7. ASSUME NEW o \in orders
      PROVE  /\ After(o) \in OrderRecord /\ OrderSound(After(o), day)
             /\ SameGroup(After(o), o) /\ After(o).due = o.due /\ After(o).phase = o.phase
             /\ After(o).units = o.units - Allocated(o)
             /\ Newly(o) \in Nat
             /\ OpenOrderCount(After(o)) = OpenOrderCount(o) - Newly(o)
  <2>1. /\ o \in OrderRecord /\ OrderSound(o, day) /\ Allocated(o) \in 0 .. o.units
    BY <1>4, <1>5
  <2> DEFINE after == AfterShipment(o, Allocated(o))
  <2>2. after = AfterShipment(o, Allocated(o)) OBVIOUS
  <2> HIDE DEF after
  <2>3. /\ after \in OrderRecord /\ OrderSound(after, day)
        /\ SameGroup(after, o) /\ after.due = o.due /\ after.phase = o.phase
        /\ after.units = o.units - Allocated(o)
        /\ after.fulfilled - o.fulfilled \in Nat
        /\ OpenOrderCount(after) = OpenOrderCount(o) - (after.fulfilled - o.fulfilled)
    BY <1>3, <2>1, <2>2, ShippedOrderIsSound
  <2> QED BY <2>3 DEF after
<1> HIDE DEF After
<1>8. \A o \in orders :
        /\ aft[o] \in OrderRecord /\ OrderSound(aft[o], day)
        /\ SameGroup(aft[o], o) /\ aft[o].due = o.due /\ aft[o].phase = o.phase
        /\ a[o] = Allocated(o) /\ a[o] \in Nat /\ aft[o].units = o.units - a[o]
        /\ newly[o] \in Nat /\ OpenOrderCount(aft[o]) = OpenOrderCount(o) - newly[o]
  <2> SUFFICES ASSUME NEW o \in orders
               PROVE  /\ aft[o] \in OrderRecord /\ OrderSound(aft[o], day)
                      /\ SameGroup(aft[o], o) /\ aft[o].due = o.due /\ aft[o].phase = o.phase
                      /\ a[o] = Allocated(o) /\ a[o] \in Nat /\ aft[o].units = o.units - a[o]
                      /\ newly[o] \in Nat
                      /\ OpenOrderCount(aft[o]) = OpenOrderCount(o) - newly[o]
    OBVIOUS
  <2>1. CASE o \in served BY <1>5, <1>7, <2>1
  <2>2. CASE o \notin served
    <3>1. aft[o] = o /\ newly[o] = 0 /\ a[o] = 0 BY <1>5, <2>2
    <3>2. SameGroup(o, o) BY DEF SameGroup
    <3>3. OpenOrderCount(o) \in Nat BY <1>5, OpenCountNatural
    <3>4. a[o] = Allocated(o) OBVIOUS
    <3> HIDE DEF aft, newly, a
    <3> QED BY <1>4, <1>5, <3>1, <3>2, <3>3, <3>4
  <2> QED BY <2>1, <2>2
<1>9. Changes(orders, aft, a, newly)
  <2> HIDE DEF aft, a, newly
  <2> QED BY <1>3, <1>4, <1>8 DEF Changes
<1>10. orders' = {aft[o] : o \in orders}
  <2>1. \A o \in served : aft[o] = After(o) OBVIOUS
  <2>2. \A o \in orders \ served : aft[o] = o OBVIOUS
  <2> HIDE DEF aft, served
  <2> QED BY <1>1, <1>6, <2>1, <2>2
<1>11. ASSUME NEW p \in Products
       PROVE  /\ shipped[p] = SumFunctionOnSet(a, {o \in orders : o.product = p})
              /\ shipped[p] \in 0 .. goods[p]
  <2> DEFINE S == {o \in orders : o.product = p}
             f == [o \in Served(p) |-> Allocated(o)]
  <2>1. IsFiniteSet(S) /\ IsFiniteSet(Served(p))
    <3>1. S \in SUBSET orders /\ Served(p) \in SUBSET orders OBVIOUS
    <3> QED BY <1>3, <3>1, FS_Subset
  <2>2. Served(p) \in SUBSET S OBVIOUS
  <2>3. \A o \in S : a[o] \in Int BY <1>8
  <2>4. \A o \in S \ Served(p) : a[o] = 0
    <3> SUFFICES ASSUME NEW o \in S \ Served(p) PROVE Allocated(o) = 0 OBVIOUS
    <3> QED BY <1>5
  <2>5. shipped[p] = SumFunctionOnSet(f, Served(p)) BY DEF SumFunction
  <2>6. \A o \in Served(p) : f[o] = a[o] OBVIOUS
  <2>7. \A o \in orders : a[o] = Allocated(o) OBVIOUS
  <2> HIDE DEF f, a, S, Served, Shipped, shipped
  <2>8. SumFunctionOnSet(f, Served(p)) = SumFunctionOnSet(a, Served(p)) BY <2>1, <2>6, SumOfSame
  <2>9. SumFunctionOnSet(a, Served(p)) = SumFunctionOnSet(a, S)
    BY <2>1, <2>2, <2>3, <2>4, SumOfPart
  <2>10. SumFunctionOnSet(a, {o \in orders : o.product = p}) \in 0 .. goods[p]
    BY <1>2, <1>4, <2>7, AllocationFits
  <2> QED BY <2>5, <2>8, <2>9, <2>10 DEF S
<1>12. resolved = SumFunctionOnSet(newly, Evaluated(orders))
  <2> DEFINE S == Evaluated(orders)
             T == Evaluated(served)
             f == [o \in T |-> Newly(o)]
  <2>1. IsFiniteSet(S) /\ IsFiniteSet(T)
    <3>1. S \in SUBSET orders /\ T \in SUBSET orders BY DEF Evaluated
    <3> QED BY <1>3, <3>1, FS_Subset
  <2>2. T \in SUBSET S BY DEF Evaluated
  <2>3. \A o \in S : newly[o] \in Int BY <1>8 DEF Evaluated
  <2>4. \A o \in S \ T : newly[o] = 0 BY DEF Evaluated
  <2>5. resolved = SumFunctionOnSet(f, T) BY DEF SumFunction
  <2>6. \A o \in T : f[o] = newly[o] BY DEF Evaluated
  <2> HIDE DEF f, newly, S, T, resolved
  <2>7. SumFunctionOnSet(f, T) = SumFunctionOnSet(newly, T) BY <2>1, <2>6, SumOfSame
  <2>8. SumFunctionOnSet(newly, T) = SumFunctionOnSet(newly, S)
    BY <2>1, <2>2, <2>3, <2>4, SumOfPart
  <2> QED BY <2>5, <2>7, <2>8 DEF S
<1>13. IsFlows(invoices) /\ \A f \in invoices : f.due > day
  <2>0. invoices = {invoice[o] : o \in served}
    <3>1. \A o \in served : invoice[o] = Invoice(o) OBVIOUS
    <3> HIDE DEF served, invoice, Invoice
    <3> QED BY <3>1
  <2>1. IsFiniteSet(invoices)
    <3> HIDE DEF served, invoice, invoices
    <3> QED BY <1>6, <2>0, ImageIsFinite
  <2>2. ASSUME NEW o \in served
        PROVE  /\ invoice[o].due \in Nat /\ invoice[o].phase \in Phases
               /\ invoice[o].amount \in Nat /\ invoice[o].due > day
    <3>1. /\ o.product \in Products /\ o.segment \in Segments /\ o.phase \in Phases
          /\ Allocated(o) \in Nat
      BY <1>5 DEF OrderRecord
    <3>2. Product[o.product].price[o.segment] \in Nat BY <3>1, ProductFacts
    <3>3. Allocated(o) * Product[o.product].price[o.segment] \in Nat
      <4>1. \A x, y \in Nat : x * y \in Nat OBVIOUS
      <4> QED BY <3>1, <3>2, <4>1
    <3>4. CollectionDay(o.segment) \in Nat /\ CollectionDay(o.segment) > day
      <4>1. shock.delay[o.segment] \in Int BY <1>2, <3>1, ShockFacts
      <4>2. Segment[o.segment].terms \in Nat BY <3>1, SegmentFacts
      <4> QED BY <1>3, <4>1, <4>2 DEF CollectionDay
    <3> QED BY <3>1, <3>3, <3>4
  <2> HIDE DEF invoice, served, invoices
  <2> QED BY <2>0, <2>1, <2>2 DEF IsFlows
<1> HIDE DEF served, Served, Shipped, shipped, Invoice, invoices, Newly, resolved, invoice, a, aft, newly
<1>14. /\ IsSchedule(receivables')
       /\ DOMAIN receivables' = DOMAIN receivables \cup {f.due : f \in invoices}
       /\ Billed(invoices) \in [Phases -> Nat]
  BY <1>1, <1>3, <1>13, ScheduledIsSchedule
<1>15. /\ IsFiniteSet(orders') /\ orders' \subseteq OrderRecord
       /\ \A o, q \in orders' : SameGroup(o, q) => o = q
  BY <1>9, <1>10, ChangedGroups
<1>16. /\ OpenOrders(Evaluated(orders)) = OpenOrders(Evaluated(orders')) + resolved
       /\ OpenOrders(Evaluated(orders')) \in Nat /\ resolved \in Nat
  BY <1>9, <1>10, <1>12, ChangedOpenOrders
<1>17. ASSUME NEW p \in Products
       PROVE  /\ BacklogByProduct[p] = BacklogByProduct'[p] + shipped[p]
              /\ BacklogByProduct'[p] \in Nat /\ shipped[p] \in Nat
  <2>1. BacklogByProduct[p] = Units(OfProduct(orders, p)) BY DEF BacklogByProduct, OfProduct
  <2>2. BacklogByProduct'[p] = Units(OfProduct(orders', p)) BY DEF BacklogByProduct, OfProduct
  <2>3. /\ Units(OfProduct(orders, p))
             = Units(OfProduct(orders', p)) + SumFunctionOnSet(a, OfProduct(orders, p))
        /\ Units(OfProduct(orders', p)) \in Nat
        /\ SumFunctionOnSet(a, OfProduct(orders, p)) \in Nat
    BY <1>9, <1>10, ChangedUnits
  <2>4. shipped[p] = SumFunctionOnSet(a, OfProduct(orders, p)) BY <1>11 DEF OfProduct
  <2> QED BY <2>1, <2>2, <2>3, <2>4
<1>18. shipped \in [Products -> Nat]
  <2>1. shipped = [p \in Products |-> shipped[p]] BY DEF shipped
  <2>2. \A p \in Products : shipped[p] \in Nat BY <1>17
  <2> QED BY <2>1, <2>2
<1>19. goods' \in [Products -> Nat] /\ \A p \in Products : goods'[p] = goods[p] - shipped[p]
  <2>1. ASSUME NEW p \in Products PROVE goods[p] - shipped[p] \in Nat
    <3>1. goods[p] \in Nat /\ shipped[p] \in 0 .. goods[p] BY <1>3, <1>11
    <3> QED BY <3>1
  <2> QED BY <1>1, <2>1
<1>20. /\ today' \in PeriodRecord /\ today'.shipped = shipped
       /\ today'.goods = today.goods /\ today'.stock = today.stock
       /\ today'.backlog = today.backlog /\ today'.wip = today.wip /\ today'.cash = today.cash
       /\ today'.debt = today.debt /\ today'.consumed = today.consumed
       /\ today'.received = today.received /\ today'.completed = today.completed
       /\ today'.good = today.good /\ today'.started = today.started
       /\ today'.ordered = today.ordered /\ today'.cancelled = today.cancelled
       /\ today'.available = today.available /\ today'.used = today.used
       /\ today'.overtime = today.overtime /\ today'.collections = today.collections
       /\ today'.payments = today.payments /\ today'.draw = today.draw
       /\ today'.repay = today.repay /\ today'.rescue = today.rescue
  BY <1>1, <1>3, <1>18 DEF PeriodRecord
<1>21. /\ totals' \in TotalsRecord /\ totals'.created = totals.created
       /\ totals'.resolved = totals.resolved + resolved
       /\ totals'.bought = totals.bought /\ totals'.collected = totals.collected
       /\ totals'.paid = totals.paid
       /\ \A ph \in Phases : totals'.sold[ph] = totals.sold[ph] + Billed(invoices)[ph]
  <2>1. Plus(totals.sold, Billed(invoices)) \in [Phases -> Nat]
    BY <1>3, <1>14 DEF Plus, TotalsRecord
  <2>2. \A ph \in Phases :
          Plus(totals.sold, Billed(invoices))[ph] = totals.sold[ph] + Billed(invoices)[ph]
    BY <1>3 DEF Plus, TotalsRecord
  <2> DEFINE sold == Plus(totals.sold, Billed(invoices))
             now == totals.resolved + resolved
  <2>3. now \in Nat BY <1>3, <1>16 DEF TotalsRecord
  <2>4. totals' = [totals EXCEPT !.sold = sold, !.resolved = now] BY <1>1
  <2>5. sold \in [Phases -> Nat] BY <2>1
  <2>6. \A ph \in Phases : sold[ph] = totals.sold[ph] + Billed(invoices)[ph] BY <2>2
  <2> HIDE DEF sold, now
  <2>7. /\ totals' \in TotalsRecord /\ totals'.created = totals.created
        /\ totals'.resolved = now /\ totals'.sold = sold
        /\ totals'.bought = totals.bought /\ totals'.collected = totals.collected
        /\ totals'.paid = totals.paid
    BY <1>3, <2>3, <2>4, <2>5 DEF TotalsRecord
  <2> QED BY <2>6, <2>7 DEF now
<1>22. TypeInv'
  <2>1. "cancel" \in Steps \ {"invalid"} BY DEF Steps
  <2>2. IsSchedule(payables') BY <1>1, <1>2 DEF TypeInv
  <2> QED BY <1>1, <1>2, <1>14, <1>15, <1>19, <1>20, <1>21, <2>1, <2>2 DEF TypeInv
<1>23. OrdersInv'
  <2>1. \A o \in orders' : OrderSound(o, day) /\ o.due = o.day + Segment[o.segment].promise
    <3> SUFFICES ASSUME NEW o \in orders
                 PROVE  /\ OrderSound(aft[o], day)
                        /\ aft[o].due = aft[o].day + Segment[aft[o].segment].promise
      BY <1>10
    <3>1. aft[o].day = o.day /\ aft[o].segment = o.segment BY <1>8 DEF SameGroup
    <3> QED BY <1>4, <1>8, <3>1
  <2>2. totals'.created = totals'.resolved + OpenOrders(Evaluated(orders'))
    <3>1. totals.created = totals.resolved + OpenOrders(Evaluated(orders))
      BY <1>2 DEF OrdersInv
    <3>2. totals.resolved \in Nat BY <1>3 DEF TotalsRecord
    <3> QED BY <1>16, <1>21, <3>1, <3>2
  <2> QED BY <1>1, <1>15, <2>1, <2>2 DEF OrdersInv
<1>24. SuppliesInv'
  <2>1. SupplyStaysInPolicy'
    BY <1>1, <1>2 DEF SuppliesInv, SupplyStaysInPolicy, OrderUpTo, ReorderPoint
  <2> QED BY <1>1, <1>2, <2>1 DEF SuppliesInv
<1>25. WorkInv'
  BY <1>1, <1>2 DEF WorkInv
<1>26. EveryCentIsSettledOnce'
  <2>1. \A d \in DOMAIN receivables' : d > day
    <3>1. \A d \in DOMAIN receivables : d > day BY <1>1, <1>2 DEF EveryCentIsSettledOnce
    <3> QED BY <1>13, <1>14, <3>1
  <2>2. \A d \in DOMAIN payables' : d > day
    BY <1>1, <1>2 DEF EveryCentIsSettledOnce
  <2>3. ASSUME NEW ph \in Phases
        PROVE  totals'.sold[ph] = totals'.collected[ph] + Balance(receivables', ph)
    <3>1. totals.sold[ph] = totals.collected[ph] + Balance(receivables, ph)
      BY <1>2 DEF EveryCentIsSettledOnce
    <3>2. Balance(receivables', ph) = Balance(receivables, ph) + Billed(invoices)[ph]
      BY <1>1, <1>3, <1>13, ScheduledBalances
    <3>3. /\ Balance(receivables, ph) \in Nat /\ Billed(invoices)[ph] \in Nat
          /\ totals.collected[ph] \in Nat
      BY <1>3, <1>14, BalanceNatural DEF TotalsRecord
    <3> QED BY <1>21, <3>1, <3>2, <3>3
  <2>4. \A ph \in Phases : totals'.bought[ph] = totals'.paid[ph] + Balance(payables', ph)
    BY <1>1, <1>2, <1>21 DEF EveryCentIsSettledOnce
  <2> QED BY <1>1, <2>1, <2>2, <2>3, <2>4 DEF EveryCentIsSettledOnce
<1>27. FlowsInv'
  <2>1. WorkInProgress' = WorkInProgress BY <1>1 DEF WorkInProgress
  <2>2. ASSUME NEW p \in Products
        PROVE  /\ today'.goods[p] + today'.good[p] = today'.shipped[p] + goods'[p]
               /\ today'.backlog[p] + today'.ordered[p]
                    = today'.shipped[p] + today'.cancelled[p] + BacklogByProduct'[p]
    <3>1. /\ today.goods[p] + today.good[p] = today.shipped[p] + goods[p]
          /\ today.backlog[p] + today.ordered[p]
               = today.shipped[p] + today.cancelled[p] + BacklogByProduct[p]
          /\ today.shipped[p] = 0
      BY <1>1, <1>2 DEF FlowsInv, BlankInv
    <3>2. /\ today.goods[p] \in Nat /\ today.good[p] \in Nat
          /\ today.backlog[p] \in Nat /\ today.ordered[p] \in Nat /\ today.cancelled[p] \in Nat
      BY <1>3 DEF PeriodRecord
    <3>3. goods[p] \in Nat BY <1>3
    <3> QED BY <1>17, <1>19, <1>20, <3>1, <3>2, <3>3
  <2> QED BY <1>1, <1>2, <1>20, <2>1, <2>2 DEF FlowsInv
<1>28. BlankInv'
  BY <1>1, <1>2, <1>20 DEF BlankInv
<1>29. LiquidityHeld'
  BY <1>1, <1>2, <1>20 DEF LiquidityHeld
<1> QED BY <1>22, <1>23, <1>24, <1>25, <1>26, <1>27, <1>28, <1>29 DEF EngineInv

\* Groups that still have a unit.
Standing(S) == {o \in S : o.units > 0}

\* Orders without a unit and without an open order count nothing.
LEMMA StandingCount ==
  ASSUME NEW S, IsFiniteSet(S), S \subseteq OrderRecord,
         \A o \in S : o.units = 0 => OpenOrderCount(o) = 0
  PROVE  /\ \A p : Units(OfProduct(Standing(S), p)) = Units(OfProduct(S, p))
         /\ OpenOrders(Evaluated(Standing(S))) = OpenOrders(Evaluated(S))
<1>1. \A o \in S : o.units \in Nat /\ OpenOrderCount(o) \in Int
  BY OpenCountNatural DEF OrderRecord
<1>2. ASSUME NEW p PROVE Units(OfProduct(Standing(S), p)) = Units(OfProduct(S, p))
  <2> DEFINE A == OfProduct(Standing(S), p)
             B == OfProduct(S, p)
             u == [o \in S |-> o.units]
  <2>1. A \in SUBSET B /\ B \in SUBSET S BY DEF OfProduct, Standing
  <2>2. IsFiniteSet(A) /\ IsFiniteSet(B) BY <2>1, FS_Subset
  <2>3. \A o \in B : u[o] \in Int /\ u[o] = o.units BY <1>1, <2>1
  <2>4. \A o \in B \ A : u[o] = 0 BY <1>1 DEF OfProduct, Standing
  <2> HIDE DEF A, B, u
  <2>5. \A o \in A : u[o] = o.units BY <2>1, <2>3
  <2>6. \A o \in B : u[o] = o.units BY <2>3
  <2>7. \A o \in B : u[o] \in Int BY <2>3
  <2>8. Units(A) = SumFunctionOnSet(u, A) BY <2>2, <2>5, UnitsAre
  <2>9. Units(B) = SumFunctionOnSet(u, B) BY <2>2, <2>6, UnitsAre
  <2>10. SumFunctionOnSet(u, A) = SumFunctionOnSet(u, B) BY <2>1, <2>2, <2>4, <2>7, SumOfPart
  <2> QED BY <2>8, <2>9, <2>10 DEF A, B
<1>3. OpenOrders(Evaluated(Standing(S))) = OpenOrders(Evaluated(S))
  <2> DEFINE A == Evaluated(Standing(S))
             B == Evaluated(S)
             u == [o \in S |-> OpenOrderCount(o)]
  <2>1. A \in SUBSET B /\ B \in SUBSET S BY DEF Evaluated, Standing
  <2>2. IsFiniteSet(A) /\ IsFiniteSet(B) BY <2>1, FS_Subset
  <2>3. \A o \in B : u[o] \in Int /\ u[o] = OpenOrderCount(o) BY <1>1, <2>1
  <2>4. \A o \in B \ A : u[o] = 0
    <3>1. \A o \in B \ A : o \in S /\ o.units = 0 BY <1>1 DEF Evaluated, Standing
    <3> HIDE DEF A, B
    <3> QED BY <3>1
  <2> HIDE DEF A, B, u
  <2>5. \A o \in A : u[o] = OpenOrderCount(o) BY <2>1, <2>3
  <2>6. \A o \in B : u[o] = OpenOrderCount(o) BY <2>3
  <2>7. \A o \in B : u[o] \in Int BY <2>3
  <2>8. OpenOrders(A) = SumFunctionOnSet(u, A) BY <2>2, <2>5, OpenOrdersSum
  <2>9. OpenOrders(B) = SumFunctionOnSet(u, B) BY <2>2, <2>6, OpenOrdersSum
  <2>10. SumFunctionOnSet(u, A) = SumFunctionOnSet(u, B) BY <2>1, <2>2, <2>4, <2>7, SumOfPart
  <2> QED BY <2>8, <2>9, <2>10 DEF A, B
<1> QED BY <1>2, <1>3

\* What overdue orders are cancelled.
LEMMA CancelKeepsInvariant ==
  ASSUME EngineInv, CancelOverdueOrders
  PROVE  EngineInv'
<1> DEFINE trials(g) == OpenOrders(Overdue(g[1], g[2]))
           bound == Max({trials(g) : g \in Pairs} \cup {0})
<1>1. /\ step = "cancel" /\ step' = "produce" /\ UNCHANGED <<day, allowRescue, shock>>
      /\ UNCHANGED <<goods, stock, work, supplies, receivables, payables, cash, debt>>
  BY DEF CancelOverdueOrders, Advance, financial
<1>2. TypeInv /\ OrdersInv /\ SuppliesInv /\ WorkInv /\ EveryCentIsSettledOnce
      /\ FlowsInv /\ BlankInv /\ LiquidityHeld
  BY DEF EngineInv
<1>3. /\ day \in Nat /\ IsFiniteSet(orders) /\ orders \subseteq OrderRecord
      /\ today \in PeriodRecord /\ totals \in TotalsRecord
  BY <1>2, DayIsNatural DEF TypeInv
<1>4. /\ \A o \in orders : OrderSound(o, day) /\ o.due = o.day + Segment[o.segment].promise
      /\ \A o, q \in orders : SameGroup(o, q) => o = q
  BY <1>2 DEF OrdersInv
<1>5. PICK draw \in [Pairs -> 0 .. bound] :
        LET lost(o) == IF o \in Overdue(o.product, o.segment)
                       THEN CancelledCount(o, draw[<<o.product, o.segment>>]) ELSE 0
            gone(o) == IF lost(o) = 0 THEN 0 ELSE CancelledUnits(o, lost(o))
            after(o) == [o EXCEPT !.units = @ - gone(o), !.cancelled = @ + lost(o)]
        IN /\ orders' = {o \in {after(q) : q \in orders} : o.units > 0}
           /\ today' = [today EXCEPT !.cancelled =
                [p \in Products |->
                   SumFunction([o \in {q \in orders : q.product = p} |-> gone(o)])]]
           /\ totals' = [totals EXCEPT !.resolved =
                @ + SumFunction([o \in Evaluated(orders) |-> lost(o)])]
  BY DEF CancelOverdueOrders
<1> DEFINE Lost(o) == IF o \in Overdue(o.product, o.segment)
                      THEN CancelledCount(o, draw[<<o.product, o.segment>>]) ELSE 0
           Gone(o) == IF Lost(o) = 0 THEN 0 ELSE CancelledUnits(o, Lost(o))
           After(o) == [o EXCEPT !.units = @ - Gone(o), !.cancelled = @ + Lost(o)]
           lost == [o \in orders |-> Lost(o)]
           gone == [o \in orders |-> Gone(o)]
           aft == [o \in orders |-> After(o)]
           mid == {aft[o] : o \in orders}
           Cancelled(p) == SumFunction([o \in {q \in orders : q.product = p} |-> Gone(o)])
           cancelled == [p \in Products |-> Cancelled(p)]
           resolved == SumFunction([o \in Evaluated(orders) |-> Lost(o)])
<1>6. /\ orders' = Standing({After(q) : q \in orders})
      /\ today' = [today EXCEPT !.cancelled = cancelled]
      /\ totals' = [totals EXCEPT !.resolved = @ + resolved]
  BY <1>5 DEF Standing
<1>7. bound \in Nat
  <2> DEFINE t == [g \in Pairs |-> trials(g)]
             T == {t[g] : g \in Pairs}
  <2>1. \A g \in Pairs : t[g] \in Nat
    <3> SUFFICES ASSUME NEW g \in Pairs PROVE OpenOrders(Overdue(g[1], g[2])) \in Nat OBVIOUS
    <3> DEFINE V == Overdue(g[1], g[2])
    <3>1. V \in SUBSET orders BY DEF Overdue
    <3>2. IsFiniteSet(V) /\ V \subseteq OrderRecord BY <1>3, <3>1, FS_Subset
    <3> HIDE DEF V
    <3>3. OpenOrders(V) \in Nat BY <3>2, OpenOrdersNatural
    <3> QED BY <3>3 DEF V
  <2>2. T = {trials(g) : g \in Pairs} OBVIOUS
  <2>3. IsFiniteSet(Pairs) BY FiniteConstants, FS_Product DEF Pairs
  <2> HIDE DEF t
  <2>4. IsFiniteSet(T) /\ T \subseteq Nat BY <2>1, <2>3, ImageIsFinite
  <2> HIDE DEF T, trials
  <2>5. IsFiniteSet(T \cup {0}) BY <2>4, FS_Singleton, FS_Union
  <2>6. T \cup {0} \subseteq Int /\ T \cup {0} # {} BY <2>4
  <2>7. Max(T \cup {0}) \in T \cup {0} BY <2>5, <2>6, MaxIsGreatest
  <2> QED BY <2>2, <2>4, <2>7
<1>8. \A g \in Pairs : draw[g] \in Nat
  <2> HIDE DEF bound
  <2> QED BY <1>7
<1> HIDE DEF bound, trials
<1>9. ASSUME NEW o \in orders PROVE Lost(o) \in 0 .. OpenOrderCount(o)
  <2>1. OpenOrderCount(o) \in Nat BY <1>3, OpenCountNatural
  <2>2. CASE o \in Overdue(o.product, o.segment)
    <3> DEFINE older == {q \in Overdue(o.product, o.segment) : q.day < o.day}
               n == draw[<<o.product, o.segment>>]
    <3>1. o.product \in Products /\ o.segment \in Segments BY <1>3 DEF OrderRecord
    <3>2. n \in Nat BY <1>8, <3>1 DEF Pairs
    <3>3. older \in SUBSET orders BY DEF Overdue
    <3>4. IsFiniteSet(older) /\ older \subseteq OrderRecord BY <1>3, <3>3, FS_Subset
    <3>5. CancelledCount(o, n) = Least(OpenOrderCount(o), AtLeastZero(n - OpenOrders(older)))
      BY DEF CancelledCount
    <3>6. Lost(o) = CancelledCount(o, n) BY <2>2
    <3> HIDE DEF older, n, Lost
    <3>7. OpenOrders(older) \in Nat BY <3>4, OpenOrdersNatural
    <3> QED BY <2>1, <3>2, <3>5, <3>6, <3>7 DEF Least, AtLeastZero
  <2>3. CASE o \notin Overdue(o.product, o.segment)
    <3>1. Lost(o) = 0 BY <2>3
    <3> HIDE DEF Lost
    <3> QED BY <2>1, <3>1
  <2> QED BY <2>2, <2>3
<1> HIDE DEF Lost
<1>10. ASSUME NEW o \in orders
       PROVE  /\ Gone(o) \in Nat
              /\ After(o) \in OrderRecord /\ After(o).units = o.units - Gone(o)
              /\ SameGroup(After(o), o) /\ After(o).due = o.due /\ After(o).phase = o.phase
              /\ After(o).units > 0 => OrderSound(After(o), day)
              /\ OpenOrderCount(After(o)) = OpenOrderCount(o) - Lost(o)
              /\ After(o).units = 0 => OpenOrderCount(After(o)) = 0
  <2> DEFINE n == Lost(o)
             g == UnitsLost(o, n)
             q == AfterCancellation(o, n)
  <2>1. /\ o \in OrderRecord /\ OrderSound(o, day) /\ n \in 0 .. OpenOrderCount(o)
    BY <1>3, <1>4, <1>9
  <2>2. g = Gone(o) BY DEF UnitsLost
  <2>3. q = After(o) BY <2>2 DEF AfterCancellation
  <2> HIDE DEF n, g, q
  <2>4. /\ g \in 0 .. o.units
        /\ q \in OrderRecord /\ q.units = o.units - g
        /\ SameGroup(q, o) /\ q.due = o.due /\ q.phase = o.phase
        /\ q.units > 0 => OrderSound(q, day)
        /\ OpenOrderCount(q) = OpenOrderCount(o) - n
        /\ q.units = 0 => OpenOrderCount(q) = 0
    BY <1>3, <2>1, CancelledOrderIsSound DEF g, q
  <2>5. g \in Nat
    <3>1. o.units \in Nat BY <2>1 DEF OrderRecord
    <3> QED BY <2>4, <3>1
  <2> HIDE DEF Gone, After
  <2> QED BY <2>2, <2>3, <2>4, <2>5 DEF n
<1> HIDE DEF Gone, After
<1>11. \A o \in orders :
         /\ aft[o] = After(o) /\ gone[o] = Gone(o) /\ lost[o] = Lost(o)
         /\ aft[o] \in OrderRecord /\ SameGroup(aft[o], o) /\ aft[o].phase = o.phase
         /\ gone[o] \in Nat /\ aft[o].units = o.units - gone[o]
         /\ lost[o] \in Nat /\ OpenOrderCount(aft[o]) = OpenOrderCount(o) - lost[o]
  <2> SUFFICES ASSUME NEW o \in orders
               PROVE  Lost(o) \in Nat
    BY <1>10
  <2>1. OpenOrderCount(o) \in Nat BY <1>3, OpenCountNatural
  <2> QED BY <1>9, <2>1
<1>12. Changes(orders, aft, gone, lost)
  <2> HIDE DEF aft, gone, lost
  <2> QED BY <1>3, <1>4, <1>11 DEF Changes
<1>13. orders' = Standing(mid)
  <2>1. {After(q) : q \in orders} = mid
    <3>1. \A o \in orders : aft[o] = After(o) BY <1>11
    <3> HIDE DEF aft
    <3> QED BY <3>1
  <2> HIDE DEF mid
  <2> QED BY <1>6, <2>1
<1>14. /\ IsFiniteSet(mid) /\ mid \subseteq OrderRecord
       /\ \A o, q \in mid : SameGroup(o, q) => o = q
  <2>1. mid = {aft[o] : o \in orders} OBVIOUS
  <2> HIDE DEF aft, gone, lost, mid
  <2> QED BY <1>12, <2>1, ChangedGroups
<1>15. \A o \in mid : o.units = 0 => OpenOrderCount(o) = 0
  <2> HIDE DEF aft
  <2> QED BY <1>10, <1>11
<1>16. /\ \A p : Units(OfProduct(orders', p)) = Units(OfProduct(mid, p))
       /\ OpenOrders(Evaluated(orders')) = OpenOrders(Evaluated(mid))
  <2> HIDE DEF mid
  <2> QED BY <1>13, <1>14, <1>15, StandingCount
<1>17. /\ IsFiniteSet(orders') /\ orders' \subseteq OrderRecord
       /\ \A o, q \in orders' : SameGroup(o, q) => o = q
  <2> HIDE DEF mid
  <2>1. orders' \in SUBSET mid BY <1>13 DEF Standing
  <2> QED BY <1>14, <2>1, FS_Subset
<1>18. resolved = SumFunctionOnSet(lost, Evaluated(orders))
  <2> DEFINE S == Evaluated(orders)
             f == [o \in S |-> Lost(o)]
  <2>1. IsFiniteSet(S)
    <3>1. S \in SUBSET orders BY DEF Evaluated
    <3> QED BY <1>3, <3>1, FS_Subset
  <2>2. resolved = SumFunctionOnSet(f, S) BY DEF SumFunction
  <2>3. \A o \in S : f[o] = lost[o] BY DEF Evaluated
  <2> HIDE DEF f, lost, S, resolved
  <2>4. SumFunctionOnSet(f, S) = SumFunctionOnSet(lost, S) BY <2>1, <2>3, SumOfSame
  <2> QED BY <2>2, <2>4 DEF S
<1>19. ASSUME NEW p \in Products
       PROVE  cancelled[p] = SumFunctionOnSet(gone, OfProduct(orders, p))
  <2> DEFINE S == {o \in orders : o.product = p}
             f == [o \in S |-> Gone(o)]
  <2>1. IsFiniteSet(S)
    <3>1. S \in SUBSET orders OBVIOUS
    <3> QED BY <1>3, <3>1, FS_Subset
  <2>2. cancelled[p] = SumFunctionOnSet(f, S) BY DEF SumFunction
  <2>3. \A o \in S : f[o] = gone[o] OBVIOUS
  <2> HIDE DEF f, gone, S, cancelled
  <2>4. SumFunctionOnSet(f, S) = SumFunctionOnSet(gone, S) BY <2>1, <2>3, SumOfSame
  <2> QED BY <2>2, <2>4 DEF S, OfProduct
<1>20. cancelled = [p \in Products |-> cancelled[p]] OBVIOUS
<1> HIDE DEF lost, gone, aft, Cancelled, cancelled, resolved
<1>21. /\ OpenOrders(Evaluated(orders)) = OpenOrders(Evaluated(mid)) + resolved
       /\ OpenOrders(Evaluated(mid)) \in Nat /\ resolved \in Nat
  BY <1>12, <1>18, ChangedOpenOrders
<1>22. ASSUME NEW p \in Products
       PROVE  /\ BacklogByProduct[p] = BacklogByProduct'[p] + cancelled[p]
              /\ BacklogByProduct'[p] \in Nat /\ cancelled[p] \in Nat
  <2>1. BacklogByProduct[p] = Units(OfProduct(orders, p)) BY DEF BacklogByProduct, OfProduct
  <2>2. BacklogByProduct'[p] = Units(OfProduct(orders', p)) BY DEF BacklogByProduct, OfProduct
  <2>3. /\ Units(OfProduct(orders, p))
             = Units(OfProduct(mid, p)) + SumFunctionOnSet(gone, OfProduct(orders, p))
        /\ Units(OfProduct(mid, p)) \in Nat
        /\ SumFunctionOnSet(gone, OfProduct(orders, p)) \in Nat
    BY <1>12, ChangedUnits
  <2>4. cancelled[p] = SumFunctionOnSet(gone, OfProduct(orders, p)) BY <1>19
  <2>5. Units(OfProduct(orders', p)) = Units(OfProduct(mid, p)) BY <1>16
  <2> HIDE DEF mid
  <2> QED BY <2>1, <2>2, <2>3, <2>4, <2>5
<1> HIDE DEF mid
<1>23. cancelled \in [Products -> Nat]
  <2>1. \A p \in Products : cancelled[p] \in Nat BY <1>22
  <2> QED BY <1>20, <2>1
<1>24. /\ today' \in PeriodRecord /\ today'.cancelled = cancelled
       /\ today'.goods = today.goods /\ today'.stock = today.stock
       /\ today'.backlog = today.backlog /\ today'.wip = today.wip /\ today'.cash = today.cash
       /\ today'.debt = today.debt /\ today'.consumed = today.consumed
       /\ today'.received = today.received /\ today'.completed = today.completed
       /\ today'.good = today.good /\ today'.started = today.started
       /\ today'.ordered = today.ordered /\ today'.shipped = today.shipped
       /\ today'.available = today.available /\ today'.used = today.used
       /\ today'.overtime = today.overtime /\ today'.collections = today.collections
       /\ today'.payments = today.payments /\ today'.draw = today.draw
       /\ today'.repay = today.repay /\ today'.rescue = today.rescue
  BY <1>3, <1>6, <1>23 DEF PeriodRecord
<1>25. /\ totals' \in TotalsRecord /\ totals'.created = totals.created
       /\ totals'.resolved = totals.resolved + resolved /\ totals'.sold = totals.sold
       /\ totals'.bought = totals.bought /\ totals'.collected = totals.collected
       /\ totals'.paid = totals.paid
  BY <1>3, <1>6, <1>21 DEF TotalsRecord
<1>26. TypeInv'
  <2>1. "produce" \in Steps \ {"invalid"} BY DEF Steps
  <2>2. IsSchedule(receivables') /\ IsSchedule(payables') BY <1>1, <1>2 DEF TypeInv
  <2> QED BY <1>1, <1>2, <1>17, <1>24, <1>25, <2>1, <2>2 DEF TypeInv
<1>27. OrdersInv'
  <2>1. ASSUME NEW x \in orders'
        PROVE  OrderSound(x, day) /\ x.due = x.day + Segment[x.segment].promise /\ x.units # 0
    <3>1. PICK o \in orders : x = aft[o] /\ aft[o].units > 0 BY <1>13 DEF Standing, mid
    <3>2. aft[o] = After(o) BY <1>11
    <3>3. OrderSound(x, day) /\ x.due = o.due /\ SameGroup(x, o) BY <1>10, <3>1, <3>2
    <3>4. x.day = o.day /\ x.segment = o.segment BY <3>3 DEF SameGroup
    <3> QED BY <1>4, <3>1, <3>3, <3>4
  <2>2. totals'.created = totals'.resolved + OpenOrders(Evaluated(orders'))
    <3>1. totals.created = totals.resolved + OpenOrders(Evaluated(orders))
      BY <1>2 DEF OrdersInv
    <3>2. totals.resolved \in Nat BY <1>3 DEF TotalsRecord
    <3> QED BY <1>16, <1>21, <1>25, <3>1, <3>2
  <2> QED BY <1>1, <1>17, <2>1, <2>2 DEF OrdersInv
<1>28. SuppliesInv'
  <2>1. SupplyStaysInPolicy'
    BY <1>1, <1>2 DEF SuppliesInv, SupplyStaysInPolicy, OrderUpTo, ReorderPoint
  <2> QED BY <1>1, <1>2, <2>1 DEF SuppliesInv
<1>29. WorkInv'
  BY <1>1, <1>2 DEF WorkInv
<1>30. EveryCentIsSettledOnce'
  BY <1>1, <1>2, <1>25 DEF EveryCentIsSettledOnce
<1>31. FlowsInv'
  <2>1. WorkInProgress' = WorkInProgress BY <1>1 DEF WorkInProgress
  <2>2. ASSUME NEW p \in Products
        PROVE  today'.backlog[p] + today'.ordered[p]
                 = today'.shipped[p] + today'.cancelled[p] + BacklogByProduct'[p]
    <3>1. /\ today.backlog[p] + today.ordered[p]
               = today.shipped[p] + today.cancelled[p] + BacklogByProduct[p]
          /\ today.cancelled[p] = 0
      BY <1>1, <1>2 DEF FlowsInv, BlankInv
    <3>2. today.backlog[p] \in Nat /\ today.shipped[p] \in Nat /\ today.ordered[p] \in Nat
      BY <1>3 DEF PeriodRecord
    <3> QED BY <1>22, <1>24, <3>1, <3>2
  <2> QED BY <1>1, <1>2, <1>24, <2>1, <2>2 DEF FlowsInv
<1>32. BlankInv'
  BY <1>1, <1>2, <1>24 DEF BlankInv
<1>33. LiquidityHeld'
  BY <1>1, <1>2, <1>24 DEF LiquidityHeld
<1> QED BY <1>26, <1>27, <1>28, <1>29, <1>30, <1>31, <1>32, <1>33 DEF EngineInv

\* Cash per unit started is a number of cents.
LEMMA ConversionCostNatural ==
  ASSUME NEW p \in Products
  PROVE  ConversionCost(p) \in Nat
<1> DEFINE f == [m \in Materials |-> (Product[p].usage[m] * Material[m].standard) \div 1000]
<1>1. \A m \in Materials : f[m] \in Int
  <2> SUFFICES ASSUME NEW m \in Materials
               PROVE  (Product[p].usage[m] * Material[m].standard) \div 1000 \in Nat
    OBVIOUS
  <2>1. Product[p].usage[m] \in Nat /\ Material[m].standard \in Nat
    BY ProductFacts, MaterialFacts
  <2>2. \A x, y \in Nat : x * y \in Nat OBVIOUS
  <2>3. Product[p].usage[m] * Material[m].standard \in Nat BY <2>1, <2>2
  <2> QED BY <2>3, QuotientIsNatural
<1>2. SumFunction(f) = SumFunctionOnSet(f, Materials) BY DEF SumFunction
<1>3. ConversionCost(p) = AtLeastZero(Product[p].cost - SumFunction(f)) BY DEF ConversionCost
<1> HIDE DEF f
<1>4. IsFiniteSet(Materials) BY FiniteConstants
<1>5. SumFunctionOnSet(f, Materials) \in Int BY <1>1, <1>4, SumType
<1>6. Product[p].cost \in Nat BY ProductFacts
<1> QED BY <1>2, <1>3, <1>5, <1>6, ZeroBound

\* The plan of the day passes the validation of the production plan.
LEMMA PlanAlwaysReconciles ==
  ASSUME TypeInv, NEW plan, PlanBalances(plan),
         NEW used, used = [r \in Resources |-> AvailableCapacity(r) - plan.minutes[r]],
         NEW consumed, consumed = [m \in Materials |-> stock[m] - plan.stock[m]]
  PROVE  /\ PlanReconciles(plan.starts, used, consumed)
         /\ used \in [Resources -> Nat] /\ consumed \in [Materials -> Nat]
         /\ \A r \in Resources : used[r] <= AvailableCapacity(r)
<1>1. /\ plan.minutes \in [Resources -> Nat] /\ plan.stock \in [Materials -> Nat]
      /\ plan.starts \in [Products -> Nat]
  BY DEF PlanBalances, PlanSet
<1>2. ASSUME NEW r \in Resources
      PROVE  /\ used[r] = MinutesUsed(plan, r) /\ used[r] \in Nat
             /\ used[r] <= AvailableCapacity(r)
  <2> DEFINE f == [p \in Products |-> plan.starts[p] * Product[p].minutes[r]]
  <2>1. AvailableCapacity(r) = plan.minutes[r] + MinutesUsed(plan, r) BY DEF PlanBalances
  <2>2. MinutesUsed(plan, r) = SumFunctionOnSet(f, Products) BY DEF MinutesUsed, SumFunction
  <2>3. \A p \in Products : f[p] \in Nat
    <3> SUFFICES ASSUME NEW p \in Products PROVE plan.starts[p] * Product[p].minutes[r] \in Nat
      OBVIOUS
    <3>1. plan.starts[p] \in Nat /\ Product[p].minutes[r] \in Nat BY <1>1, ProductFacts
    <3>2. \A x, y \in Nat : x * y \in Nat OBVIOUS
    <3> QED BY <3>1, <3>2
  <2>4. IsFiniteSet(Products) BY FiniteConstants
  <2> HIDE DEF f
  <2>5. MinutesUsed(plan, r) \in Nat BY <2>2, <2>3, <2>4, SumNatural
  <2>6. AvailableCapacity(r) \in Nat BY CapacityFacts
  <2>7. plan.minutes[r] \in Nat BY <1>1
  <2> QED BY <2>1, <2>5, <2>6, <2>7
<1>3. ASSUME NEW m \in Materials
      PROVE  /\ consumed[m] = StockUsed(plan, m) /\ consumed[m] \in Nat
             /\ consumed[m] <= stock[m]
  <2> DEFINE f == [p \in Products |-> plan.starts[p] * Product[p].usage[m]]
  <2>1. stock[m] = plan.stock[m] + StockUsed(plan, m) BY DEF PlanBalances
  <2>2. StockUsed(plan, m) = SumFunctionOnSet(f, Products) BY DEF StockUsed, SumFunction
  <2>3. \A p \in Products : f[p] \in Nat
    <3> SUFFICES ASSUME NEW p \in Products PROVE plan.starts[p] * Product[p].usage[m] \in Nat
      OBVIOUS
    <3>1. plan.starts[p] \in Nat /\ Product[p].usage[m] \in Nat BY <1>1, ProductFacts
    <3>2. \A x, y \in Nat : x * y \in Nat OBVIOUS
    <3> QED BY <3>1, <3>2
  <2>4. IsFiniteSet(Products) BY FiniteConstants
  <2> HIDE DEF f
  <2>5. StockUsed(plan, m) \in Nat BY <2>2, <2>3, <2>4, SumNatural
  <2>6. stock[m] \in Nat BY DEF TypeInv
  <2>7. plan.stock[m] \in Nat BY <1>1
  <2> QED BY <2>1, <2>5, <2>6, <2>7
<1>4. PlanReconciles(plan.starts, used, consumed)
  BY <1>2, <1>3 DEF PlanReconciles, MinutesUsed, StockUsed
<1> QED BY <1>2, <1>3, <1>4

\* The work orders of what is started on a day.
WorkOf(starts) ==
  {[product |-> p, due |-> NextOperatingDay(day, Product[p].lead), units |-> starts[p]] :
     p \in {x \in Products : starts[x] > 0}}

\* The work orders of a day are told apart from all that were started before.
LEMMA StartedWork ==
  ASSUME EngineInv, step = "produce", NEW starts \in [Products -> Nat],
         ~OperatingDay(day) => \A p \in Products : starts[p] = 0,
         NEW new, new = WorkOf(starts)
  PROVE  /\ IsFiniteSet(new) /\ new \subseteq WorkRecord /\ work \cap new = {}
         /\ \A w \in new : OperatingDay(day)
                           /\ w.due = NextOperatingDay(day, Product[w.product].lead)
         /\ \A p \in Products : Units(OfProduct(new, p)) = starts[p]
<1> DEFINE started == {x \in Products : starts[x] > 0}
           Work(p) == [product |-> p, due |-> NextOperatingDay(day, Product[p].lead),
                       units |-> starts[p]]
           f == [p \in started |-> Work(p)]
<1>1. TypeInv /\ WorkInv BY DEF EngineInv
<1>2. day \in Nat BY <1>1, DayIsNatural
<1>3. new = {f[p] : p \in started}
  <2>1. \A p \in started : f[p] = Work(p) OBVIOUS
  <2>2. new = {Work(p) : p \in started} BY DEF WorkOf
  <2> HIDE DEF f, started, Work
  <2> QED BY <2>1, <2>2
<1>4. IsFiniteSet(new)
  <2>1. started \in SUBSET Products OBVIOUS
  <2>2. IsFiniteSet(started) BY <2>1, FiniteConstants, FS_Subset
  <2> HIDE DEF f, started
  <2> QED BY <1>3, <2>2, ImageIsFinite
<1>5. ASSUME NEW p \in Products, starts[p] > 0
      PROVE  /\ OperatingDay(day) /\ Product[p].lead \in Nat \ {0}
             /\ NextOperatingDay(day, Product[p].lead) \in Int
             /\ Work(p) \in WorkRecord
  <2>1. OperatingDay(day) BY <1>5
  <2>2. Product[p].lead \in Nat \ {0} BY ProductFacts
  <2>3. NextOperatingDay(day, Product[p].lead) \in (day + 1) .. (day + 3 * Product[p].lead)
    BY <1>2, <2>2, NextOperatingDayIs
  <2>4. NextOperatingDay(day, Product[p].lead) \in Int
    <3>1. \A lead \in Nat \ {0} : day + 1 \in Int /\ day + 3 * lead \in Int BY <1>2
    <3> QED BY <2>2, <2>3, <3>1
  <2>5. starts[p] \in Nat \ {0} BY <1>5
  <2> QED BY <2>1, <2>2, <2>4, <2>5 DEF WorkRecord
<1>6. \A w \in new : /\ w.product \in Products /\ starts[w.product] > 0
                     /\ w = Work(w.product)
  <2> SUFFICES ASSUME NEW w \in new
               PROVE  w.product \in Products /\ starts[w.product] > 0 /\ w = Work(w.product)
    OBVIOUS
  <2>1. PICK p \in started : w = f[p] BY <1>3
  <2>2. f[p] = Work(p) /\ Work(p).product = p OBVIOUS
  <2> QED BY <2>1, <2>2
<1>7. new \subseteq WorkRecord
  <2> HIDE DEF Work
  <2> QED BY <1>5, <1>6
<1>8. \A w \in new : /\ OperatingDay(day)
                     /\ w.due = NextOperatingDay(day, Product[w.product].lead)
  BY <1>5, <1>6
<1>9. work \cap new = {}
  <2> SUFFICES ASSUME NEW w \in work, w \in new PROVE FALSE OBVIOUS
  <2>1. PICK d \in 0 .. day : /\ w.due = NextOperatingDay(d, Product[w.product].lead)
                              /\ d = day => step \in {"procure", "close", "next", "done", "breach"}
    BY <1>1 DEF WorkInv
  <2>2. d \in Nat /\ d < day BY <1>2, <2>1
  <2>3. w.product \in Products /\ starts[w.product] > 0 BY <1>6
  <2>4. OperatingDay(day) /\ w.due = NextOperatingDay(day, Product[w.product].lead) BY <1>8
  <2>5. Product[w.product].lead \in Nat \ {0} BY <1>5, <2>3
  <2> DEFINE lead == Product[w.product].lead
  <2>6. NextOperatingDay(d, lead) < NextOperatingDay(day, lead)
    BY <1>2, <2>2, <2>4, <2>5, NextOperatingDayGrows
  <2>7. NextOperatingDay(day, lead) \in Int BY <1>5, <2>3
  <2> QED BY <2>1, <2>4, <2>6, <2>7
<1>10. ASSUME NEW p \in Products PROVE Units(OfProduct(new, p)) = starts[p]
  <2> DEFINE N == {w \in new : w.product = p}
  <2> SUFFICES Units(N) = starts[p] BY DEF OfProduct
  <2>1. CASE starts[p] = 0
    <3>1. N = {} BY <1>6, <2>1
    <3>2. IsFiniteSet({}) BY FS_EmptySet
    <3> DEFINE u == [x \in {} |-> 0]
    <3>3. Units({}) = SumFunctionOnSet(u, {}) BY <3>2, UnitsAre
    <3> QED BY <2>1, <3>1, <3>3, SumEmpty
  <2>2. CASE starts[p] > 0
    <3>1. Work(p) \in new BY <1>3, <2>2
    <3>2. N = {Work(p)} BY <1>6, <3>1
    <3> DEFINE w == Work(p)
               u == [x \in {w} |-> x.units]
    <3>3. u[w] = starts[p] /\ \A x \in {w} : u[x] = x.units OBVIOUS
    <3>4. u[w] \in Int BY <3>3
    <3> HIDE DEF w, u
    <3>5. IsFiniteSet({w}) BY FS_Singleton
    <3>6. Units({w}) = SumFunctionOnSet(u, {w}) BY <3>3, <3>5, UnitsAre
    <3>7. SumFunctionOnSet(u, {w}) = u[w] BY <3>4, SumOfOne
    <3> QED BY <3>2, <3>3, <3>6, <3>7 DEF w
  <2>3. starts[p] \in Nat OBVIOUS
  <2> QED BY <2>1, <2>2, <2>3
<1> QED BY <1>4, <1>7, <1>8, <1>9, <1>10

\* Production: the plan passes its validation, and what it starts is booked.
LEMMA PlanKeepsInvariant ==
  ASSUME EngineInv, PlanProduction
  PROVE  EngineInv'
<1> DEFINE plan == ProductionPlan
           used == [r \in Resources |-> AvailableCapacity(r) - plan.minutes[r]]
           overtime == [r \in Resources |-> AtLeastZero(used[r] - RegularCapacity(r))]
           available == [r \in Resources |-> AvailableCapacity(r)]
           consumed == [m \in Materials |-> stock[m] - plan.stock[m]]
           started == {p \in Products : plan.starts[p] > 0}
           new == {[product |-> p, due |-> NextOperatingDay(day, Product[p].lead),
                    units |-> plan.starts[p]] : p \in started}
           conversion == [p \in Products |-> plan.starts[p] * ConversionCost(p)]
           premium == [r \in Resources |-> overtime[r] * Resource[r].rate]
           spent == SumFunction(conversion) + SumFunction(premium)
<1>1. TypeInv /\ OrdersInv /\ SuppliesInv /\ WorkInv /\ EveryCentIsSettledOnce
      /\ FlowsInv /\ BlankInv /\ LiquidityHeld
  BY DEF EngineInv
<1>2. step = "produce" BY DEF PlanProduction
<1>3. PlanBalances(plan) /\ (~OperatingDay(day) => \A p \in Products : plan.starts[p] = 0)
  BY <1>1, ProductionPlanBalances
<1>4. /\ PlanReconciles(plan.starts, used, consumed)
      /\ used \in [Resources -> Nat] /\ consumed \in [Materials -> Nat]
      /\ \A r \in Resources : used[r] <= AvailableCapacity(r)
  <2> HIDE DEF plan
  <2> QED BY <1>1, <1>3, PlanAlwaysReconciles
<1>5. /\ step' = "procure" /\ UNCHANGED <<day, allowRescue, shock>>
      /\ work' = work \cup new
      /\ stock' = plan.stock
      /\ today' = [today EXCEPT !.started = plan.starts, !.consumed = consumed,
           !.available = available, !.used = used, !.overtime = overtime, !.spent = spent]
      /\ UNCHANGED <<goods, orders, supplies, receivables, payables, cash, debt, totals>>
  BY <1>4 DEF PlanProduction, Advance, financial
<1>6. /\ day \in Nat /\ IsFiniteSet(work) /\ work \subseteq WorkRecord
      /\ IsFiniteSet(supplies) /\ supplies \subseteq SupplyRecord
      /\ stock \in [Materials -> Nat] /\ today \in PeriodRecord
  BY <1>1, DayIsNatural DEF TypeInv
<1>7. /\ plan.minutes \in [Resources -> Nat] /\ plan.stock \in [Materials -> Nat]
      /\ plan.starts \in [Products -> Nat]
  <2> HIDE DEF plan
  <2> QED BY <1>3 DEF PlanBalances, PlanSet
<1> HIDE DEF plan
<1>8. /\ IsFiniteSet(new) /\ new \subseteq WorkRecord /\ work \cap new = {}
      /\ \A w \in new : OperatingDay(day)
                        /\ w.due = NextOperatingDay(day, Product[w.product].lead)
      /\ \A p \in Products : Units(OfProduct(new, p)) = plan.starts[p]
  <2> DEFINE starts == plan.starts
  <2>1. starts \in [Products -> Nat] BY <1>7
  <2>a. ~OperatingDay(day) => \A p \in Products : starts[p] = 0 BY <1>3
  <2>2. new = WorkOf(starts) BY DEF WorkOf
  <2> HIDE DEF starts, new
  <2>3. IsFiniteSet(new) BY <1>2, <2>1, <2>a, <2>2, StartedWork
  <2>4. new \subseteq WorkRecord /\ work \cap new = {} BY <1>2, <2>1, <2>a, <2>2, StartedWork
  <2>5. \A w \in new : OperatingDay(day)
                       /\ w.due = NextOperatingDay(day, Product[w.product].lead)
    BY <1>2, <2>1, <2>a, <2>2, StartedWork
  <2>6. \A p \in Products : Units(OfProduct(new, p)) = starts[p]
    BY <1>2, <2>1, <2>a, <2>2, StartedWork
  <2> QED BY <2>3, <2>4, <2>5, <2>6 DEF starts
<1> HIDE DEF started, new
<1>9. \A m \in Materials : stock[m] = stock'[m] + consumed[m]
  BY <1>5, <1>6, <1>7
<1>10. available \in [Resources -> Nat] /\ overtime \in [Resources -> Nat]
       /\ \A r \in Resources : used[r] <= available[r] /\ overtime[r] <= used[r]
  <2> SUFFICES ASSUME NEW r \in Resources
               PROVE  /\ AvailableCapacity(r) \in Nat /\ overtime[r] \in Nat
                      /\ used[r] <= AvailableCapacity(r) /\ overtime[r] <= used[r]
    OBVIOUS
  <2>1. AvailableCapacity(r) \in Nat /\ RegularCapacity(r) \in Nat BY <1>1, CapacityFacts
  <2>2. used[r] \in Nat /\ used[r] <= AvailableCapacity(r) BY <1>4
  <2>3. overtime[r] = AtLeastZero(used[r] - RegularCapacity(r)) OBVIOUS
  <2> HIDE DEF used, overtime
  <2> QED BY <2>1, <2>2, <2>3 DEF AtLeastZero
<1> HIDE DEF used, overtime, available, consumed
<1>11. spent \in Int
  <2>1. \A p \in Products : conversion[p] \in Int
    <3> SUFFICES ASSUME NEW p \in Products PROVE plan.starts[p] * ConversionCost(p) \in Int
      OBVIOUS
    <3>1. plan.starts[p] \in Nat /\ ConversionCost(p) \in Nat BY <1>7, ConversionCostNatural
    <3>2. \A x, y \in Nat : x * y \in Int OBVIOUS
    <3> QED BY <3>1, <3>2
  <2>2. \A r \in Resources : premium[r] \in Int
    <3> SUFFICES ASSUME NEW r \in Resources PROVE overtime[r] * Resource[r].rate \in Int
      OBVIOUS
    <3>1. overtime[r] \in Nat BY <1>10
    <3>2. Resource[r].rate \in Nat BY EngineAssumption
    <3>3. \A x, y \in Nat : x * y \in Int OBVIOUS
    <3> QED BY <3>1, <3>2, <3>3
  <2>3. SumFunction(conversion) = SumFunctionOnSet(conversion, Products) BY DEF SumFunction
  <2>4. SumFunction(premium) = SumFunctionOnSet(premium, Resources) BY DEF SumFunction
  <2>5. IsFiniteSet(Products) /\ IsFiniteSet(Resources) BY FiniteConstants
  <2>6. spent = SumFunction(conversion) + SumFunction(premium) OBVIOUS
  <2> HIDE DEF conversion, premium, spent
  <2>7. SumFunctionOnSet(conversion, Products) \in Int BY <2>1, <2>5, SumType
  <2>8. SumFunctionOnSet(premium, Resources) \in Int BY <2>2, <2>5, SumType
  <2> QED BY <2>3, <2>4, <2>6, <2>7, <2>8
<1> HIDE DEF conversion, premium, spent
<1>12. /\ today' \in PeriodRecord /\ today'.started = plan.starts
       /\ today'.consumed = consumed /\ today'.available = available
       /\ today'.used = used /\ today'.overtime = overtime
       /\ today'.goods = today.goods /\ today'.stock = today.stock
       /\ today'.backlog = today.backlog /\ today'.wip = today.wip /\ today'.cash = today.cash
       /\ today'.debt = today.debt /\ today'.received = today.received
       /\ today'.completed = today.completed /\ today'.good = today.good
       /\ today'.ordered = today.ordered /\ today'.shipped = today.shipped
       /\ today'.cancelled = today.cancelled /\ today'.collections = today.collections
       /\ today'.payments = today.payments /\ today'.draw = today.draw
       /\ today'.repay = today.repay /\ today'.rescue = today.rescue
  BY <1>4, <1>5, <1>6, <1>7, <1>10, <1>11 DEF PeriodRecord
<1>13. TypeInv'
  <2>1. "procure" \in Steps \ {"invalid"} BY DEF Steps
  <2>2. IsSchedule(receivables') /\ IsSchedule(payables') BY <1>1, <1>5 DEF TypeInv
  <2>3. IsFiniteSet(work') BY <1>5, <1>6, <1>8, FS_Union
  <2>4. work' \subseteq WorkRecord BY <1>5, <1>6, <1>8
  <2> QED BY <1>1, <1>5, <1>7, <1>12, <2>1, <2>2, <2>3, <2>4 DEF TypeInv
<1>14. OrdersInv'
  BY <1>1, <1>2, <1>5 DEF OrdersInv
<1>15. SuppliesInv'
  <2>1. ASSUME NEW m \in Materials
        PROVE  stock'[m] + Units({o \in supplies : o.material = m}) <= OrderUpTo(m)
    <3> DEFINE S == {o \in supplies : o.material = m}
    <3>1. stock[m] + Units(S) <= OrderUpTo(m)
      BY <1>1 DEF SuppliesInv, SupplyStaysInPolicy
    <3>2. Units(S) \in Nat
      <4>1. S \in SUBSET supplies OBVIOUS
      <4>2. IsFiniteSet(S) BY <1>6, <4>1, FS_Subset
      <4>3. \A x \in S : x.units \in Nat BY <1>6 DEF SupplyRecord
      <4> HIDE DEF S
      <4> QED BY <4>2, <4>3, UnitsNatural
    <3>3. stock[m] = stock'[m] + consumed[m] /\ consumed[m] \in Nat /\ stock'[m] \in Nat
      BY <1>4, <1>5, <1>7, <1>9
    <3>4. OrderUpTo(m) \in Int BY MaterialFacts DEF OrderUpTo
    <3> HIDE DEF S
    <3>5. stock'[m] + Units(S) <= OrderUpTo(m) BY <3>1, <3>2, <3>3, <3>4
    <3> QED BY <3>5 DEF S
  <2>2. SupplyStaysInPolicy'
    BY <1>5, <2>1 DEF SupplyStaysInPolicy, OrderUpTo, ReorderPoint
  <2> QED BY <1>1, <1>2, <1>5, <2>2 DEF SuppliesInv
<1>16. WorkInv'
  <2> SUFFICES ASSUME NEW w \in work'
               PROVE  \E d \in 0 .. day :
                        OperatingDay(d) /\ w.due = NextOperatingDay(d, Product[w.product].lead)
    BY <1>5 DEF WorkInv
  <2>1. CASE w \in work
    BY <1>1, <2>1 DEF WorkInv
  <2>2. CASE w \in new
    <3>1. OperatingDay(day) /\ w.due = NextOperatingDay(day, Product[w.product].lead)
      BY <1>8, <2>2
    <3>2. day \in 0 .. day BY <1>6
    <3> QED BY <3>1, <3>2
  <2> QED BY <1>5, <2>1, <2>2
<1>17. EveryCentIsSettledOnce'
  BY <1>1, <1>2, <1>5 DEF EveryCentIsSettledOnce
<1>18. FlowsInv'
  <2>1. BacklogByProduct' = BacklogByProduct BY <1>5 DEF BacklogByProduct
  <2>2. ASSUME NEW p \in Products
        PROVE  today'.wip[p] + today'.started[p] = today'.completed[p] + WorkInProgress'[p]
    <3> DEFINE A == {w \in work : w.product = p}
               B == {w \in new : w.product = p}
    <3>1. WorkInProgress[p] = Units(A) BY DEF WorkInProgress
    <3>2. WorkInProgress'[p] = Units(A \cup B)
      <4>1. {w \in work' : w.product = p} = A \cup B BY <1>5
      <4>2. WorkInProgress'[p] = Units({w \in work' : w.product = p}) BY DEF WorkInProgress
      <4> HIDE DEF A, B
      <4> QED BY <4>1, <4>2
    <3>3. A \in SUBSET work /\ B \in SUBSET new /\ A \cap B = {} BY <1>8
    <3>4. IsFiniteSet(A) /\ IsFiniteSet(B) BY <1>6, <1>8, <3>3, FS_Subset
    <3>5. \A x \in A : x.units \in Nat BY <1>6 DEF WorkRecord
    <3>6. \A x \in B : x.units \in Nat BY <1>8 DEF WorkRecord
    <3>7. Units(B) = plan.starts[p] BY <1>8 DEF OfProduct
    <3> HIDE DEF A, B
    <3>8. Units(A \cup B) = Units(A) + Units(B) /\ Units(A) \in Nat /\ Units(B) \in Nat
      BY <3>3, <3>4, <3>5, <3>6, UnitsOfDisjoint
    <3>9. today.wip[p] + today.started[p] = today.completed[p] + WorkInProgress[p]
          /\ today.started[p] = 0
      BY <1>1, <1>2 DEF FlowsInv, BlankInv
    <3>10. today.wip[p] \in Nat /\ today.completed[p] \in Nat BY <1>6 DEF PeriodRecord
    <3> QED BY <1>12, <3>1, <3>2, <3>7, <3>8, <3>9, <3>10
  <2>3. ASSUME NEW m \in Materials
        PROVE  today'.stock[m] + today'.received[m] = today'.consumed[m] + stock'[m]
    <3>1. today.stock[m] + today.received[m] = today.consumed[m] + stock[m]
          /\ today.consumed[m] = 0
      BY <1>1, <1>2 DEF FlowsInv, BlankInv
    <3>2. today.stock[m] \in Nat /\ today.received[m] \in Nat BY <1>6 DEF PeriodRecord
    <3>3. stock[m] = stock'[m] + consumed[m] /\ consumed[m] \in Nat /\ stock'[m] \in Nat
      BY <1>4, <1>5, <1>7, <1>9
    <3> QED BY <1>12, <3>1, <3>2, <3>3
  <2>4. \A r \in Resources :
          today'.used[r] <= today'.available[r] /\ today'.overtime[r] <= today'.used[r]
    BY <1>10, <1>12
  <2> QED BY <1>1, <1>2, <1>5, <1>12, <2>1, <2>2, <2>3, <2>4 DEF FlowsInv
<1>19. BlankInv'
  BY <1>5 DEF BlankInv
<1>20. LiquidityHeld'
  BY <1>1, <1>2, <1>5, <1>12 DEF LiquidityHeld
<1> QED BY <1>13, <1>14, <1>15, <1>16, <1>17, <1>18, <1>19, <1>20 DEF EngineInv

\* Procurement: whatever is short is ordered up to its level.
LEMMA PlaceKeepsInvariant ==
  ASSUME EngineInv, PlacePurchaseOrders
  PROVE  EngineInv'
<1> DEFINE short == {m \in Materials : InventoryPosition(m) <= ReorderPoint(m)}
           Order(m) == [material |-> m, day |-> day,
                        due |-> day + Material[m].lead + shock.late[m],
                        units |-> OrderUpTo(m) - InventoryPosition(m),
                        phase |-> PhaseForDay(day)]
           order == [m \in short |-> Order(m)]
           placed == {Order(m) : m \in short}
           Of(S, m) == {o \in S : o.material = m}
<1>1. /\ step = "procure" /\ step' = "close" /\ UNCHANGED <<day, allowRescue, shock>>
      /\ supplies' = supplies \cup placed
      /\ UNCHANGED <<goods, stock, orders, work, receivables, payables, cash, debt, today, totals>>
  BY DEF PlacePurchaseOrders, Advance, financial
<1>2. TypeInv /\ OrdersInv /\ SuppliesInv /\ WorkInv /\ EveryCentIsSettledOnce
      /\ FlowsInv /\ BlankInv /\ LiquidityHeld
  BY DEF EngineInv
<1>3. /\ day \in Nat /\ IsFiniteSet(supplies) /\ supplies \subseteq SupplyRecord
      /\ stock \in [Materials -> Nat]
  BY <1>2, DayIsNatural DEF TypeInv
<1>4. \A o \in supplies : o.units \in Nat /\ o.day \in Nat /\ o.day < day
  <2> SUFFICES ASSUME NEW o \in supplies PROVE o.units \in Nat /\ o.day \in Nat /\ o.day < day
    OBVIOUS
  <2>1. o.units \in Nat /\ o.day \in Nat BY <1>3 DEF SupplyRecord
  <2>2. o.day <= day /\ o.day # day BY <1>1, <1>2 DEF SuppliesInv
  <2> QED BY <1>3, <2>1, <2>2
<1>5. ASSUME NEW m \in Materials
      PROVE  /\ InventoryPosition(m) = stock[m] + Units(Of(supplies, m))
             /\ Units(Of(supplies, m)) \in Nat /\ InventoryPosition(m) \in Nat
             /\ InventoryPosition(m) <= OrderUpTo(m)
             /\ OrderUpTo(m) \in Nat /\ ReorderPoint(m) \in Nat
  <2> DEFINE S == Of(supplies, m)
  <2>1. InventoryPosition(m) = stock[m] + Units(S) BY DEF InventoryPosition
  <2>2. S \in SUBSET supplies OBVIOUS
  <2>3. IsFiniteSet(S) BY <1>3, <2>2, FS_Subset
  <2>4. \A x \in S : x.units \in Nat BY <1>4, <2>2
  <2>5. stock[m] + Units(S) <= OrderUpTo(m)
    BY <1>2 DEF SuppliesInv, SupplyStaysInPolicy
  <2>6. OrderUpTo(m) \in Nat /\ ReorderPoint(m) \in Nat
    BY MaterialFacts DEF OrderUpTo, ReorderPoint
  <2>7. stock[m] \in Nat BY <1>3
  <2> HIDE DEF S
  <2>8. Units(S) \in Nat BY <2>3, <2>4, UnitsNatural
  <2>9. stock[m] + Units(S) \in Nat BY <2>7, <2>8
  <2> QED BY <2>1, <2>5, <2>6, <2>8, <2>9 DEF S
<1>6. ASSUME NEW m \in short
      PROVE  /\ Order(m).material = m /\ Order(m).day = day
             /\ Order(m).units = OrderUpTo(m) - InventoryPosition(m)
             /\ Order(m).units \in Nat
             /\ Order(m) \in SupplyRecord
  <2>1. m \in Materials OBVIOUS
  <2>2. OrderUpTo(m) - InventoryPosition(m) \in Nat
    <3>1. /\ InventoryPosition(m) \in Nat /\ OrderUpTo(m) \in Nat
          /\ InventoryPosition(m) <= OrderUpTo(m)
      BY <1>5, <2>1
    <3> QED BY <3>1
  <2>3. Material[m].lead \in Nat /\ shock.late[m] \in Nat
    BY <1>2, <2>1, MaterialFacts, ShockFacts
  <2>4. day + Material[m].lead + shock.late[m] \in Nat
    <3>1. \A x, y, z \in Nat : x + y + z \in Nat OBVIOUS
    <3> QED BY <1>3, <2>3, <3>1
  <2>5. PhaseForDay(day) \in Phases BY DEF PhaseForDay, Phases
  <2> HIDE DEF short
  <2> QED BY <1>3, <2>1, <2>2, <2>4, <2>5 DEF SupplyRecord
<1>7. placed = {order[m] : m \in short}
  <2>1. \A m \in short : order[m] = Order(m) OBVIOUS
  <2> HIDE DEF short, order, Order
  <2> QED BY <2>1
<1>8. IsFiniteSet(placed)
  <2>1. short \in SUBSET Materials OBVIOUS
  <2>2. IsFiniteSet(short) BY <2>1, FiniteConstants, FS_Subset
  <2> HIDE DEF short, order, placed
  <2> QED BY <1>7, <2>2, ImageIsFinite
<1>9. \A o \in placed : /\ o.material \in short /\ o = Order(o.material)
  OBVIOUS
<1>10. /\ placed \subseteq SupplyRecord
       /\ \A o \in placed : o.day = day /\ o.units \in Nat
  <2> HIDE DEF short, Order, placed
  <2> QED BY <1>6, <1>9
<1>11. ASSUME NEW m \in Materials
       PROVE  /\ Units(Of(supplies', m)) \in Nat
              /\ stock[m] + Units(Of(supplies', m))
                   = IF m \in short THEN OrderUpTo(m) ELSE InventoryPosition(m)
  <2> DEFINE A == Of(supplies, m)
             B == Of(placed, m)
             w == Order(m)
  <2>1. /\ InventoryPosition(m) = stock[m] + Units(A) /\ Units(A) \in Nat
        /\ OrderUpTo(m) \in Nat /\ InventoryPosition(m) \in Nat
    BY <1>5
  <2>2. CASE m \notin short
    <3>1. B = {}
      <4> HIDE DEF short, Order, placed
      <4> QED BY <1>9, <2>2
    <3>2. Of(supplies', m) = A BY <1>1, <3>1
    <3> HIDE DEF A, Of, short
    <3> QED BY <2>1, <2>2, <3>2
  <2>3. CASE m \in short
    <3>0. w \in placed BY <2>3
    <3>1. w.material = m /\ w.units = OrderUpTo(m) - InventoryPosition(m) /\ w.units \in Nat
      BY <1>6, <2>3
    <3>2. B = {w}
      <4> HIDE DEF short, placed, Order
      <4> QED BY <1>9, <3>0, <3>1
    <3>3. Of(supplies', m) = A \cup {w}
      <4>1. Of(supplies', m) = A \cup B BY <1>1
      <4> HIDE DEF A, B, Of, w
      <4> QED BY <3>2, <4>1
    <3>4. A \in SUBSET supplies OBVIOUS
    <3>5. IsFiniteSet(A) /\ IsFiniteSet({w}) BY <1>3, <3>4, FS_Subset, FS_Singleton
    <3>6. \A x \in A : x.units \in Nat BY <1>4, <3>4
    <3>7. w.day = day BY <1>6, <2>3
    <3> DEFINE u == [x \in {w} |-> x.units]
    <3>8. u[w] = w.units /\ \A x \in {w} : u[x] = x.units OBVIOUS
    <3> HIDE DEF A, B, Of, w, u, short
    <3>9. A \cap {w} = {}
      <4>1. w \notin A
        <5>1. w \in A => w.day < day BY <1>4, <3>4
        <5> QED BY <1>3, <3>7, <5>1
      <4> QED BY <4>1
    <3>10. \A x \in {w} : x.units \in Nat BY <3>1
    <3>11. Units(A \cup {w}) = Units(A) + Units({w}) BY <3>5, <3>6, <3>9, <3>10, UnitsOfDisjoint
    <3>12. Units({w}) = SumFunctionOnSet(u, {w}) BY <3>5, <3>8, UnitsAre
    <3>13. u[w] \in Int BY <3>1, <3>8
    <3>14. SumFunctionOnSet(u, {w}) = u[w] BY <3>13, SumOfOne
    <3>15. Units(A \cup {w}) = Units(A) + w.units BY <3>8, <3>11, <3>12, <3>14
    <3>16. stock[m] \in Nat BY <1>3
    <3>17. Units(Of(supplies', m)) = Units(A) + w.units BY <3>3, <3>15
    <3> QED BY <2>1, <2>3, <3>1, <3>16, <3>17
  <2> QED BY <2>2, <2>3
<1>12. ASSUME NEW m \in Materials
       PROVE  LET position == stock'[m] + Units({o \in supplies' : o.material = m})
              IN /\ position <= OrderUpTo(m)
                 /\ position > ReorderPoint(m) \/ position = OrderUpTo(m)
  <2> DEFINE position == stock[m] + Units(Of(supplies', m))
  <2>1. position = IF m \in short THEN OrderUpTo(m) ELSE InventoryPosition(m) BY <1>11
  <2>2. /\ InventoryPosition(m) \in Nat /\ InventoryPosition(m) <= OrderUpTo(m)
        /\ OrderUpTo(m) \in Nat /\ ReorderPoint(m) \in Nat
    BY <1>5
  <2>3. m \in short <=> InventoryPosition(m) <= ReorderPoint(m) OBVIOUS
  <2> HIDE DEF position, short
  <2>4. position <= OrderUpTo(m) /\ (position > ReorderPoint(m) \/ position = OrderUpTo(m))
    BY <2>1, <2>2, <2>3
  <2> QED BY <1>1, <2>4 DEF position
<1> HIDE DEF short, Order, order, placed, Of
<1>13. IsFiniteSet(supplies') /\ supplies' \subseteq SupplyRecord
  BY <1>1, <1>3, <1>8, <1>10, FS_Union
<1>14. TypeInv'
  <2>1. "close" \in Steps \ {"invalid"} BY DEF Steps
  <2>2. IsSchedule(receivables') /\ IsSchedule(payables') BY <1>1, <1>2 DEF TypeInv
  <2> QED BY <1>1, <1>2, <1>13, <2>1, <2>2 DEF TypeInv
<1>15. OrdersInv'
  BY <1>1, <1>2 DEF OrdersInv
<1>16. SuppliesInv'
  <2>1. SupplyStaysInPolicy'
    BY <1>1, <1>12 DEF SupplyStaysInPolicy, OrderUpTo, ReorderPoint
  <2>2. ASSUME NEW o \in supplies', NEW q \in supplies', o.material = q.material, o.day = q.day
        PROVE  o = q
    <3>1. CASE o \in supplies /\ q \in supplies BY <1>2, <2>2, <3>1 DEF SuppliesInv
    <3>2. CASE o \in placed /\ q \in placed BY <1>9, <2>2, <3>2
    <3>3. o.day = day \/ o \in supplies BY <1>1, <1>10
    <3>4. q.day = day \/ q \in supplies BY <1>1, <1>10
    <3>5. ~(o \in supplies /\ q \in placed) /\ ~(q \in supplies /\ o \in placed)
      BY <1>3, <1>4, <1>10, <2>2
    <3> QED BY <1>1, <3>1, <3>2, <3>5
  <2>3. \A o \in supplies' : o.day <= day BY <1>1, <1>3, <1>4, <1>10
  <2> QED BY <1>1, <2>1, <2>2, <2>3 DEF SuppliesInv
<1>17. WorkInv'
  BY <1>1, <1>2 DEF WorkInv
<1>18. EveryCentIsSettledOnce'
  BY <1>1, <1>2 DEF EveryCentIsSettledOnce
<1>19. FlowsInv'
  <2>1. BacklogByProduct' = BacklogByProduct /\ WorkInProgress' = WorkInProgress
    BY <1>1 DEF BacklogByProduct, WorkInProgress
  <2> QED BY <1>1, <1>2, <2>1 DEF FlowsInv
<1>20. BlankInv'
  BY <1>1 DEF BlankInv
<1>21. LiquidityHeld'
  BY <1>1, <1>2 DEF LiquidityHeld
<1> QED BY <1>14, <1>15, <1>16, <1>17, <1>18, <1>19, <1>20, <1>21 DEF EngineInv

\* Operating costs are a number of cents.
LEMMA CostsAreCents ==
  ASSUME TypeInv
  PROVE  OperatingCosts \in Int
<1>1. /\ Policy.fixed \in Nat /\ Policy.interest \in Nat /\ Policy.capital \in Nat
      /\ Policy.commercial \in Int /\ Policy.commitment \in Int
  BY EngineAssumption DEF ValidPolicy
<1>2. DailyInterest \in Int
  <2>1. debt \in Nat BY DEF TypeInv
  <2>2. \A x, y \in Nat : x * y \in Nat OBVIOUS
  <2>3. debt * Policy.interest \in Nat BY <1>1, <2>1, <2>2
  <2>4. \A n \in Nat : (2 * n + 100) \div (2 * 100) \in Int OBVIOUS
  <2>5. DailyInterest = (2 * (debt * Policy.interest) + 100) \div (2 * 100)
    BY DEF DailyInterest, RoundHalfUp
  <2> QED BY <2>3, <2>4, <2>5
<1>3. CommitmentChanges \in Int BY <1>1 DEF CommitmentChanges
<1>4. (Policy.fixed * 12) \div 365 \in Int BY <1>1
<1> QED BY <1>1, <1>2, <1>3, <1>4 DEF OperatingCosts

\* The close of the day: its period and, in the end, the trace pass their validation.
LEMMA CloseKeepsInvariant ==
  ASSUME EngineInv, CloseDay
  PROVE  EngineInv'
<1> DEFINE costs == OperatingCosts
           before == cash - today.spent - costs
           fin == ApplyFinancing(before, debt, TRUE)
           period == [today EXCEPT !.spent = @ + costs, !.draw = @ + fin.draw,
                        !.repay = @ + fin.repay, !.rescue = @ + fin.rescue]
<1>0. CASE fin.rescue > 0 /\ ~allowRescue
  BY <1>0, BreachKeepsInvariant DEF CloseDay
<1>1. CASE ~(fin.rescue > 0 /\ ~allowRescue)
  <2>1. /\ step = "close" /\ UNCHANGED <<day, allowRescue, shock>>
        /\ cash' = fin.cash /\ debt' = fin.debt /\ today' = period
        /\ step' = IF ~PeriodReconciles(period) THEN "invalid"
                   ELSE IF day + 1 < Horizon THEN "next"
                   ELSE IF TraceReconciles THEN "done" ELSE "invalid"
        /\ UNCHANGED <<goods, stock, orders, work, supplies, receivables, payables, totals>>
    BY <1>1 DEF CloseDay, physical
  <2>2. TypeInv /\ OrdersInv /\ SuppliesInv /\ WorkInv /\ EveryCentIsSettledOnce
        /\ FlowsInv /\ BlankInv /\ LiquidityHeld
    BY DEF EngineInv
  <2>3. /\ day \in Nat /\ today \in PeriodRecord /\ cash \in Nat
        /\ debt \in 0 .. Policy.limit /\ costs \in Int
    BY <2>2, DayIsNatural, CostsAreCents DEF TypeInv, LiquidityHeld
  <2> HIDE DEF costs
  <2>4. today.spent \in Int BY <2>3 DEF PeriodRecord
  <2>5. before \in Int BY <2>3, <2>4
  <2>6. before = cash - today.spent - costs OBVIOUS
  <2> HIDE DEF before
  <2> DEFINE mayRepay == TRUE
  <2>7. fin = ApplyFinancing(before, debt, mayRepay) /\ mayRepay \in BOOLEAN OBVIOUS
  <2> HIDE DEF fin, mayRepay
  <2>8. /\ fin.cash \in Nat /\ fin.cash >= Policy.floor
        /\ fin.debt \in 0 .. Policy.limit
        /\ {fin.draw, fin.repay, fin.rescue} \subseteq Nat
        /\ fin.cash = before + fin.draw + fin.rescue - fin.repay
        /\ fin.debt = debt + fin.draw - fin.repay
        /\ mayRepay => fin.cash <= Policy.target \/ fin.debt = 0
    BY <2>3, <2>5, <2>7, FinancingHoldsLiquidity
  <2>a. fin.cash <= Policy.target \/ fin.debt = 0 BY <2>8 DEF mayRepay
  <2>b. /\ today.spent + costs \in Int /\ today.draw + fin.draw \in Nat
        /\ today.repay + fin.repay \in Nat /\ today.rescue + fin.rescue \in Nat
    BY <2>3, <2>4, <2>8 DEF PeriodRecord
  <2>9. /\ today' \in PeriodRecord /\ today'.spent = today.spent + costs
        /\ today'.draw = today.draw + fin.draw /\ today'.repay = today.repay + fin.repay
        /\ today'.rescue = today.rescue + fin.rescue
        /\ today'.goods = today.goods /\ today'.stock = today.stock
        /\ today'.backlog = today.backlog /\ today'.wip = today.wip /\ today'.cash = today.cash
        /\ today'.debt = today.debt /\ today'.consumed = today.consumed
        /\ today'.received = today.received /\ today'.completed = today.completed
        /\ today'.good = today.good
        /\ today'.started = today.started /\ today'.ordered = today.ordered
        /\ today'.shipped = today.shipped /\ today'.cancelled = today.cancelled
        /\ today'.available = today.available /\ today'.used = today.used
        /\ today'.overtime = today.overtime /\ today'.collections = today.collections
        /\ today'.payments = today.payments
    BY <2>1, <2>3, <2>b DEF PeriodRecord
  <2>10. today' = period BY <2>1
  <2> HIDE DEF period
  <2>11. PeriodReconciles(period)
    <3>1. /\ period.goods = today.goods /\ period.good = today.good
          /\ period.shipped = today.shipped /\ period.wip = today.wip
          /\ period.started = today.started /\ period.completed = today.completed
          /\ period.backlog = today.backlog /\ period.ordered = today.ordered
          /\ period.cancelled = today.cancelled /\ period.stock = today.stock
          /\ period.received = today.received /\ period.consumed = today.consumed
          /\ period.used = today.used /\ period.available = today.available
          /\ period.overtime = today.overtime
      BY <2>9, <2>10
    <3>2. /\ \A p \in Products :
               /\ period.goods[p] + period.good[p] = period.shipped[p] + goods[p]
               /\ period.wip[p] + period.started[p] = period.completed[p] + WorkInProgress[p]
               /\ period.good[p] <= period.completed[p]
               /\ period.backlog[p] + period.ordered[p]
                    = period.shipped[p] + period.cancelled[p] + BacklogByProduct[p]
          /\ \A m \in Materials : period.stock[m] + period.received[m] = period.consumed[m] + stock[m]
          /\ \A r \in Resources :
               period.used[r] <= period.available[r] /\ period.overtime[r] <= period.used[r]
      BY <2>2, <3>1 DEF FlowsInv
    <3>3. /\ today.cash + today.collections + today.rescue + today.draw - today.payments = cash
          /\ today.debt + today.draw = debt /\ today.repay = 0
      BY <2>1, <2>2 DEF FlowsInv
    <3>4. /\ today.cash \in Nat /\ today.collections \in Nat /\ today.rescue \in Nat
          /\ today.draw \in Nat /\ today.payments \in Nat /\ today.debt \in Nat
      BY <2>3 DEF PeriodRecord
    <3>5. /\ period.cash = today.cash /\ period.collections = today.collections
          /\ period.rescue = today.rescue + fin.rescue /\ period.draw = today.draw + fin.draw
          /\ period.payments = today.payments /\ period.spent = today.spent + costs
          /\ period.repay = fin.repay /\ period.debt = today.debt
      BY <2>8, <2>9, <2>10, <3>3
    <3>6. period.cash + period.collections + period.rescue + period.draw - period.payments
            - period.spent - period.repay = cash'
      BY <2>1, <2>3, <2>4, <2>6, <2>8, <3>3, <3>4, <3>5
    <3>7. period.debt + period.draw - period.repay = debt'
      BY <2>1, <2>3, <2>8, <3>3, <3>4, <3>5
    <3> QED BY <3>2, <3>6, <3>7 DEF PeriodReconciles
  <2>12. TraceReconciles BY <2>2 DEF OrdersInv, TraceReconciles
  <2>13. step' = (IF day + 1 < Horizon THEN "next" ELSE "done")
    BY <2>1, <2>11, <2>12
  <2>14. step' \in {"next", "done"} /\ (step' = "next" => day + 1 < Horizon)
    BY <2>13
  <2>15. TypeInv'
    <3>1. step' \in Steps \ {"invalid"} BY <2>14 DEF Steps
    <3>2. IsSchedule(receivables') /\ IsSchedule(payables') BY <2>1, <2>2 DEF TypeInv
    <3>3. debt' \in Nat BY <2>1, <2>8
    <3> QED BY <2>1, <2>2, <2>8, <2>9, <2>14, <3>1, <3>2, <3>3 DEF TypeInv
  <2>16. OrdersInv'
    BY <2>1, <2>2, <2>14 DEF OrdersInv
  <2>17. SuppliesInv'
    <3>1. SupplyStaysInPolicy'
      BY <2>1, <2>2 DEF SuppliesInv, SupplyStaysInPolicy, OrderUpTo, ReorderPoint
    <3> QED BY <2>1, <2>2, <2>14, <3>1 DEF SuppliesInv
  <2>18. WorkInv'
    BY <2>1, <2>2, <2>14 DEF WorkInv
  <2>19. EveryCentIsSettledOnce'
    BY <2>1, <2>2 DEF EveryCentIsSettledOnce
  <2>20. FlowsInv'
    <3>1. BacklogByProduct' = BacklogByProduct /\ WorkInProgress' = WorkInProgress
      BY <2>1 DEF BacklogByProduct, WorkInProgress
    <3> QED BY <2>1, <2>2, <2>9, <2>14, <3>1 DEF FlowsInv
  <2>21. BlankInv'
    BY <2>14 DEF BlankInv
  <2>22. LiquidityHeld'
    BY <2>1, <2>8, <2>a, <2>14 DEF LiquidityHeld
  <2> QED BY <2>15, <2>16, <2>17, <2>18, <2>19, <2>20, <2>21, <2>22 DEF EngineInv
<1> QED BY <1>0, <1>1

\* The period of a new day is blank, and what is carried over balances.
LEMMA EmptyPeriodFacts ==
  ASSUME TypeInv
  PROVE  /\ EmptyPeriod \in PeriodRecord
         /\ EmptyPeriod.goods = goods /\ EmptyPeriod.stock = stock
         /\ EmptyPeriod.backlog = BacklogByProduct /\ EmptyPeriod.wip = WorkInProgress
         /\ EmptyPeriod.cash = cash /\ EmptyPeriod.debt = debt
         /\ \A m \in Materials : EmptyPeriod.received[m] = 0 /\ EmptyPeriod.consumed[m] = 0
         /\ \A p \in Products :
              /\ EmptyPeriod.completed[p] = 0 /\ EmptyPeriod.good[p] = 0
              /\ EmptyPeriod.started[p] = 0 /\ EmptyPeriod.ordered[p] = 0
              /\ EmptyPeriod.shipped[p] = 0 /\ EmptyPeriod.cancelled[p] = 0
         /\ \A r \in Resources :
              /\ EmptyPeriod.available[r] = 0 /\ EmptyPeriod.used[r] = 0
              /\ EmptyPeriod.overtime[r] = 0
         /\ EmptyPeriod.collections = 0 /\ EmptyPeriod.payments = 0 /\ EmptyPeriod.draw = 0
         /\ EmptyPeriod.repay = 0 /\ EmptyPeriod.rescue = 0
<1>1. BacklogByProduct \in [Products -> Nat]
  <2>1. \A p \in Products : BacklogByProduct[p] \in Nat BY PositionFacts
  <2> QED BY <2>1 DEF BacklogByProduct
<1>2. WorkInProgress \in [Products -> Nat]
  <2>1. \A p \in Products : WorkInProgress[p] \in Nat BY PositionFacts
  <2> QED BY <2>1 DEF WorkInProgress
<1>3. /\ Zero(Products) \in [Products -> Nat] /\ Zero(Materials) \in [Materials -> Nat]
      /\ Zero(Resources) \in [Resources -> Nat]
  BY DEF Zero
<1>4. /\ goods \in [Products -> Nat] /\ stock \in [Materials -> Nat]
      /\ cash \in Nat /\ debt \in Nat
  BY DEF TypeInv
<1>5. EmptyPeriod \in PeriodRecord
  BY <1>1, <1>2, <1>3, <1>4 DEF EmptyPeriod, PeriodRecord
<1> QED BY <1>5 DEF EmptyPeriod, Zero

\* The flows of a blank period are nothing, and it has the stocks of its day.
LEMMA EmptyPeriodBalances ==
  ASSUME TypeInv, NEW t, t = EmptyPeriod
  PROVE  /\ \A p \in Products :
              /\ t.goods[p] + t.good[p] = t.shipped[p] + goods[p]
              /\ t.wip[p] + t.started[p] = t.completed[p] + WorkInProgress[p]
              /\ t.good[p] <= t.completed[p]
              /\ t.backlog[p] + t.ordered[p]
                   = t.shipped[p] + t.cancelled[p] + BacklogByProduct[p]
         /\ \A m \in Materials : t.stock[m] + t.received[m] = t.consumed[m] + stock[m]
         /\ \A r \in Resources : t.used[r] <= t.available[r] /\ t.overtime[r] <= t.used[r]
         /\ t.cash + t.collections + t.rescue + t.draw - t.payments = cash
         /\ t.debt + t.draw = debt /\ t.repay = 0
<1>1. \A p \in Products : /\ BacklogByProduct[p] \in Nat /\ WorkInProgress[p] \in Nat
                          /\ goods[p] \in Nat
  BY PositionFacts DEF TypeInv
<1>2. \A m \in Materials : stock[m] \in Nat BY DEF TypeInv
<1>3. cash \in Nat /\ debt \in Nat BY DEF TypeInv
<1> QED BY <1>1, <1>2, <1>3, EmptyPeriodFacts

\* The next day of the loop.
LEMMA NextDayKeepsInvariant ==
  ASSUME EngineInv, NextDay
  PROVE  EngineInv'
<1>1. /\ step = "next" /\ day' = day + 1 /\ step' = "receive" /\ shock' \in Shocks
      /\ today' = EmptyPeriod
      /\ UNCHANGED <<allowRescue, goods, stock, orders, work, supplies, receivables, payables,
                     cash, debt, totals>>
  BY DEF NextDay, physical, financial
<1>2. TypeInv /\ OrdersInv /\ SuppliesInv /\ WorkInv /\ EveryCentIsSettledOnce
      /\ FlowsInv /\ BlankInv /\ LiquidityHeld
  BY DEF EngineInv
<1>3. day \in Nat /\ day + 1 < Horizon /\ Horizon \in Nat
  BY <1>1, <1>2, DayIsNatural, HorizonIsNatural DEF TypeInv
<1>4. BacklogByProduct' = BacklogByProduct /\ WorkInProgress' = WorkInProgress
  BY <1>1 DEF BacklogByProduct, WorkInProgress
<1>6. TypeInv'
  <2>1. "receive" \in Steps \ {"invalid"} BY DEF Steps
  <2>2. IsSchedule(receivables') /\ IsSchedule(payables') BY <1>1, <1>2 DEF TypeInv
  <2>3. EmptyPeriod \in PeriodRecord BY <1>2, EmptyPeriodFacts
  <2>4. day' \in 0 .. Horizon - 1 BY <1>1, <1>3
  <2> QED BY <1>1, <1>2, <2>1, <2>2, <2>3, <2>4 DEF TypeInv
<1>7. OrdersInv'
  <2>1. ASSUME NEW o \in orders PROVE OrderSound(o, day') /\ o.day < day'
    <3>1. OrderSound(o, day) BY <1>2 DEF OrdersInv
    <3>2. o.day \in Nat /\ o.due \in Nat BY <1>2 DEF TypeInv, OrderRecord
    <3> QED BY <1>1, <1>3, <3>1, <3>2 DEF OrderSound
  <2> QED BY <1>1, <1>2, <2>1 DEF OrdersInv
<1>8. SuppliesInv'
  <2>1. SupplyStaysInPolicy'
    BY <1>1, <1>2 DEF SuppliesInv, SupplyStaysInPolicy, OrderUpTo, ReorderPoint
  <2>2. \A o \in supplies : o.day <= day' /\ o.day # day'
    <3> SUFFICES ASSUME NEW o \in supplies PROVE o.day <= day + 1 /\ o.day # day + 1
      BY <1>1
    <3>1. o.day <= day BY <1>2 DEF SuppliesInv
    <3>2. o.day \in Nat BY <1>2 DEF TypeInv, SupplyRecord
    <3> QED BY <1>3, <3>1, <3>2
  <2> QED BY <1>1, <1>2, <2>1, <2>2 DEF SuppliesInv
<1>9. WorkInv'
  <2> SUFFICES ASSUME NEW w \in work
               PROVE  \E d \in 0 .. day' :
                        /\ OperatingDay(d)
                        /\ w.due = NextOperatingDay(d, Product[w.product].lead)
                        /\ d # day'
    BY <1>1 DEF WorkInv
  <2>1. PICK d \in 0 .. day :
          OperatingDay(d) /\ w.due = NextOperatingDay(d, Product[w.product].lead)
    BY <1>2 DEF WorkInv
  <2>2. d \in 0 .. day' /\ d # day' BY <1>1, <1>3
  <2> QED BY <2>1, <2>2
<1>10. EveryCentIsSettledOnce'
  <2>1. ASSUME NEW s \in {receivables, payables}, NEW d \in DOMAIN s PROVE d > day' \/ d = day'
    <3>1. d > day BY <1>1, <1>2 DEF EveryCentIsSettledOnce
    <3>2. d \in Nat BY <1>2 DEF TypeInv, IsSchedule
    <3> QED BY <1>1, <1>3, <3>1, <3>2
  <2> QED BY <1>1, <1>2, <2>1 DEF EveryCentIsSettledOnce
<1>11. FlowsInv'
  BY <1>1, <1>2, <1>4, EmptyPeriodBalances DEF FlowsInv
<1>12. BlankInv'
  BY <1>1, <1>2, EmptyPeriodFacts DEF BlankInv
<1>13. LiquidityHeld'
  BY <1>1, <1>2, <1>3 DEF LiquidityHeld
<1> QED BY <1>6, <1>7, <1>8, <1>9, <1>10, <1>11, <1>12, <1>13 DEF EngineInv

\* The first day.
LEMMA InitHoldsInvariant ==
  ASSUME EngineInit
  PROVE  EngineInv
<1> DEFINE noFlows == [d \in {} |-> Zero(Phases)]
<1>1. /\ day = 0 /\ step = "receive" /\ allowRescue \in BOOLEAN /\ shock \in Shocks
      /\ goods = [p \in Products |-> Product[p].opening]
      /\ stock = [m \in Materials |-> Material[m].opening]
      /\ orders = {} /\ work = {} /\ supplies = {}
      /\ receivables = noFlows /\ payables = noFlows
      /\ cash = Policy.cash /\ debt = 0 /\ today = EmptyPeriod
      /\ totals = [created |-> 0, resolved |-> 0,
                   sold |-> Zero(Phases), collected |-> Zero(Phases),
                   bought |-> Zero(Phases), paid |-> Zero(Phases)]
  BY DEF EngineInit
<1>2. IsFiniteSet({}) BY FS_EmptySet
<1>3. IsSchedule(noFlows) /\ DOMAIN noFlows = {}
  BY <1>2 DEF IsSchedule
<1>4. \A ph \in Phases : Balance(noFlows, ph) = 0
  <2> TAKE ph \in Phases
  <2> DEFINE f == [d \in DOMAIN noFlows |-> noFlows[d][ph]]
  <2>1. Balance(noFlows, ph) = SumFunctionOnSet(f, {}) BY <1>3 DEF Balance, SumFunction
  <2> HIDE DEF f
  <2> QED BY <2>1, SumEmpty
<1> HIDE DEF noFlows
<1>5. /\ Policy.cash \in Nat /\ Policy.limit \in Nat
  BY EngineAssumption DEF ValidPolicy
<1>6. goods \in [Products -> Nat] /\ stock \in [Materials -> Nat]
  <2>1. \A p \in Products : Product[p].opening \in Nat BY ProductFacts
  <2>2. \A m \in Materials : Material[m].opening \in Nat BY MaterialFacts
  <2> QED BY <1>1, <2>1, <2>2
<1>7. Units({}) = 0 /\ OpenOrders({}) = 0
  <2> DEFINE u == [x \in {} |-> 0]
  <2>1. Units({}) = SumFunctionOnSet(u, {}) BY <1>2, UnitsAre
  <2>2. OpenOrders({}) = SumFunctionOnSet([o \in {} |-> OpenOrderCount(o)], {})
    BY DEF OpenOrders, SumFunction
  <2> QED BY <2>1, <2>2, SumEmpty
<1>8. EmptyPeriod \in PeriodRecord
  <2>1. BacklogByProduct = Zero(Products)
    <3>1. \A p \in Products : {o \in orders : o.product = p} = {} BY <1>1
    <3> QED BY <1>7, <3>1 DEF BacklogByProduct, Zero
  <2>2. WorkInProgress = Zero(Products)
    <3>1. \A p \in Products : {w \in work : w.product = p} = {} BY <1>1
    <3> QED BY <1>7, <3>1 DEF WorkInProgress, Zero
  <2>3. /\ Zero(Products) \in [Products -> Nat] /\ Zero(Materials) \in [Materials -> Nat]
        /\ Zero(Resources) \in [Resources -> Nat]
    BY DEF Zero
  <2> QED BY <1>1, <1>5, <1>6, <2>1, <2>2, <2>3 DEF EmptyPeriod, PeriodRecord
<1>9. totals \in TotalsRecord
  <2>1. Zero(Phases) \in [Phases -> Nat] BY DEF Zero
  <2> QED BY <1>1, <2>1 DEF TotalsRecord
<1>10. TypeInv
  <2>1. "receive" \in Steps \ {"invalid"} BY DEF Steps
  <2>2. 0 \in 0 .. Horizon - 1 BY HorizonIsNatural
  <2>3. IsSchedule(receivables) /\ IsSchedule(payables) BY <1>1, <1>3
  <2> QED BY <1>1, <1>2, <1>5, <1>6, <1>8, <1>9, <2>1, <2>2, <2>3 DEF TypeInv
<1>11. OrdersInv
  <2>1. Evaluated(orders) = {} BY <1>1 DEF Evaluated
  <2>2. OpenOrders(Evaluated(orders)) = 0 BY <1>7, <2>1
  <2>3. totals.created = 0 /\ totals.resolved = 0 BY <1>1
  <2> QED BY <1>1, <2>2, <2>3 DEF OrdersInv
<1>12. SuppliesInv
  <2>1. ASSUME NEW m \in Materials
        PROVE  stock[m] + Units({o \in supplies : o.material = m}) <= OrderUpTo(m)
    <3>1. {o \in supplies : o.material = m} = {} BY <1>1
    <3>2. stock[m] = Material[m].opening BY <1>1
    <3>3. Material[m].opening \in Nat /\ Material[m].safety \in Nat BY MaterialFacts
    <3>4. Units({o \in supplies : o.material = m}) = 0 BY <1>7, <3>1
    <3> QED BY <3>2, <3>3, <3>4 DEF OrderUpTo
  <2>2. SupplyStaysInPolicy BY <1>1, <2>1 DEF SupplyStaysInPolicy
  <2> QED BY <1>1, <2>2 DEF SuppliesInv
<1>13. WorkInv BY <1>1 DEF WorkInv
<1>14. EveryCentIsSettledOnce
  <2>1. DOMAIN receivables = {} /\ DOMAIN payables = {} BY <1>1, <1>3
  <2>2. \A ph \in Phases : /\ totals.sold[ph] = 0 /\ totals.collected[ph] = 0
                           /\ totals.bought[ph] = 0 /\ totals.paid[ph] = 0
    BY <1>1 DEF Zero
  <2>3. \A ph \in Phases : Balance(receivables, ph) = 0 /\ Balance(payables, ph) = 0
    BY <1>1, <1>4
  <2> QED BY <2>1, <2>2, <2>3 DEF EveryCentIsSettledOnce
<1>15. FlowsInv BY <1>1, <1>10, EmptyPeriodBalances DEF FlowsInv
<1>16. BlankInv BY <1>1, <1>10, EmptyPeriodFacts DEF BlankInv
<1>17. LiquidityHeld BY <1>1, <1>5 DEF LiquidityHeld
<1> QED BY <1>10, <1>11, <1>12, <1>13, <1>14, <1>15, <1>16, <1>17 DEF EngineInv

\* A step that changes nothing.
LEMMA StutterKeepsInvariant ==
  ASSUME EngineInv, UNCHANGED engineVars
  PROVE  EngineInv'
<1>1. UNCHANGED <<day, step, allowRescue, shock, goods, stock, orders, work, supplies,
                  receivables, payables, cash, debt, today, totals>>
  BY DEF engineVars
<1>2. TypeInv /\ OrdersInv /\ SuppliesInv /\ WorkInv /\ EveryCentIsSettledOnce
      /\ FlowsInv /\ BlankInv /\ LiquidityHeld
  BY DEF EngineInv
<1>3. TypeInv'
  <2>1. IsSchedule(receivables') /\ IsSchedule(payables') BY <1>1, <1>2 DEF TypeInv
  <2> QED BY <1>1, <1>2, <2>1 DEF TypeInv
<1>4. OrdersInv' BY <1>1, <1>2 DEF OrdersInv
<1>5. SuppliesInv'
  <2>1. SupplyStaysInPolicy'
    BY <1>1, <1>2 DEF SuppliesInv, SupplyStaysInPolicy, OrderUpTo, ReorderPoint
  <2> QED BY <1>1, <1>2, <2>1 DEF SuppliesInv
<1>6. WorkInv' BY <1>1, <1>2 DEF WorkInv
<1>7. EveryCentIsSettledOnce' BY <1>1, <1>2 DEF EveryCentIsSettledOnce
<1>8. FlowsInv'
  <2>1. BacklogByProduct' = BacklogByProduct /\ WorkInProgress' = WorkInProgress
    BY <1>1 DEF BacklogByProduct, WorkInProgress
  <2> QED BY <1>1, <1>2, <2>1 DEF FlowsInv
<1>9. BlankInv' BY <1>1, <1>2 DEF BlankInv
<1>10. LiquidityHeld' BY <1>1, <1>2 DEF LiquidityHeld
<1> QED BY <1>3, <1>4, <1>5, <1>6, <1>7, <1>8, <1>9, <1>10 DEF EngineInv
-----------------------------------------------------------------------------
(* The theorems *)

\* On every tape, whatever the company, the policy and the phases of the horizon: stocks
\* and flows balance in the middle of a day as at its end, every order's units and counts
\* agree, and the phases of the day find what they rely on.  simulate_trace.
THEOREM EngineInvariant == EngineSpec => []EngineInv
<1>1. EngineInit => EngineInv
  BY InitHoldsInvariant
<1>2. EngineInv /\ [EngineNext]_engineVars => EngineInv'
  <2> SUFFICES ASSUME EngineInv, [EngineNext]_engineVars
               PROVE  EngineInv'
    OBVIOUS
  <2>1. CASE ReceivePurchaseOrders BY <2>1, ReceiveKeepsInvariant
  <2>2. CASE CompleteWorkOrders BY <2>2, CompleteKeepsInvariant
  <2>3. CASE SettleObligations BY <2>3, SettleKeepsInvariant
  <2>4. CASE CreateOrders BY <2>4, CreateKeepsInvariant
  <2>5. CASE ShipOrders BY <2>5, ShipKeepsInvariant
  <2>6. CASE CancelOverdueOrders BY <2>6, CancelKeepsInvariant
  <2>7. CASE PlanProduction BY <2>7, PlanKeepsInvariant
  <2>8. CASE PlacePurchaseOrders BY <2>8, PlaceKeepsInvariant
  <2>9. CASE CloseDay BY <2>9, CloseKeepsInvariant
  <2>10. CASE NextDay BY <2>10, NextDayKeepsInvariant
  <2>11. CASE UNCHANGED engineVars BY <2>11, StutterKeepsInvariant
  <2> QED
    BY <2>1, <2>2, <2>3, <2>4, <2>5, <2>6, <2>7, <2>8, <2>9, <2>10, <2>11 DEF EngineNext
<1> QED BY <1>1, <1>2, PTL DEF EngineSpec

\* No trace is ever rejected by the engine's own validation: every production plan, every
\* period and the sums over the trace pass it, and no quantity goes negative.
\* validate_production_plan, validate_period, validate_trace.
THEOREM EngineNeverRejects == EngineSpec => []NeverRejected
<1>1. EngineInv => NeverRejected
  <2> SUFFICES ASSUME EngineInv PROVE NeverRejected OBVIOUS
  <2>1. TypeInv /\ OrdersInv BY DEF EngineInv
  <2>2. \A o \in orders : /\ o.units \in Nat /\ o.count \in Nat \ {0}
                          /\ o.units = 0 => step = "cancel"
    BY <2>1 DEF TypeInv, OrdersInv, OrderRecord
  <2>3. \A w \in work : w.units \in Nat \ {0} BY <2>1 DEF TypeInv, WorkRecord
  <2>4. \A o \in supplies : o.units \in Nat BY <2>1 DEF TypeInv, SupplyRecord
  <2>5. \A s \in {receivables, payables} :
          \A d \in DOMAIN s : d \in Nat /\ s[d] \in [Phases -> Nat]
    BY <2>1 DEF TypeInv, IsSchedule
  <2>6. step \in Steps /\ step # "invalid" BY <2>1 DEF TypeInv
  <2> QED BY <2>1, <2>2, <2>3, <2>4, <2>5, <2>6 DEF TypeInv, NeverRejected, EngineTypeOK
<1> QED BY <1>1, EngineInvariant, PTL

\* However orders are shipped in parts, delivered late and cancelled, their open units are
\* those of their open orders, those reported on time and in full are those that were, and
\* the orders of the evaluation are fulfilled, cancelled or open.  ship_orders,
\* cancel_overdue_orders and the reconciliation of the trace.
THEOREM EngineReconcilesOrders == EngineSpec => []OrdersReconcile
<1>1. EngineInv => OrdersReconcile
  <2> SUFFICES ASSUME EngineInv PROVE OrdersReconcile OBVIOUS
  <2>1. TypeInv /\ OrdersInv BY DEF EngineInv
  <2>2. day \in Int BY <2>1, DayIsNatural
  <2>3. ASSUME NEW o \in orders
        PROVE  LET size == Segment[o.segment].size
               IN /\ o.units = OpenOrderCount(o) * size
                                 - (IF o.units > 0 THEN o.shipped % size ELSE 0)
                  /\ o.punctual = o.inTime \div size
    <3> DEFINE size == Segment[o.segment].size
               partial == o.shipped % size
               open == OpenOrderCount(o)
    <3>1. o \in OrderRecord /\ OrderSound(o, day) BY <2>1 DEF TypeInv, OrdersInv
    <3>2. size \in Nat \ {0} BY <3>1, SegmentFacts DEF OrderRecord
    <3>3. /\ open \in Nat /\ partial \in 0 .. size - 1
          /\ o.units = open * size - partial
      BY <2>2, <3>1, OpenOrdersAre
    <3>4. o.units \in Nat BY <3>1 DEF OrderRecord
    <3>5. o.punctual = o.inTime \div size BY <3>1 DEF OrderSound
    <3>6. o.units = open * size - (IF o.units > 0 THEN partial ELSE 0)
      <4> HIDE DEF size, partial, open
      <4>1. CASE o.units > 0 BY <3>3, <4>1
      <4>2. CASE o.units = 0
        <5>1. PICK product \in Nat : product = open * size
          <6>1. \A x, y \in Nat : x * y \in Nat OBVIOUS
          <6> QED BY <3>2, <3>3, <6>1
        <5>2. product = partial BY <3>2, <3>3, <4>2, <5>1
        <5>3. open >= 1 => product >= size
          <6>1. \A x, y \in Nat \ {0} : x * y >= y OBVIOUS
          <6> QED BY <3>2, <3>3, <5>1, <6>1
        <5>4. open = 0 => product = 0 BY <3>2, <5>1
        <5>5. product = 0 BY <3>2, <3>3, <5>2, <5>3, <5>4
        <5> QED BY <4>2, <5>1, <5>5
      <4> QED BY <3>4, <4>1, <4>2
    <3> QED BY <3>5, <3>6
  <2>4. TraceReconciles BY <2>1 DEF OrdersInv, TraceReconciles
  <2> QED BY <2>3, <2>4 DEF OrdersReconcile, OnTimeInFull
<1> QED BY <1>1, EngineInvariant, PTL

\* Every cent invoiced to a customer or owed to a supplier is settled once: what was billed
\* is paid or is scheduled for a settlement that is still to come.  _schedule_cash_flow,
\* _pop_scheduled_cash_flow.
THEOREM EngineSettlesEveryCent == EngineSpec => []EveryCentIsSettledOnce
<1>1. EngineInv => EveryCentIsSettledOnce
  BY DEF EngineInv
<1> QED BY <1>1, EngineInvariant, PTL

\* Whatever the delays of suppliers, the position of a material never exceeds its
\* order-up-to level and at the end of a day is above the reorder point or full.
\* place_purchase_orders.
THEOREM EngineKeepsSupplyInPolicy == EngineSpec => []SupplyStaysInPolicy
<1>1. EngineInv => SupplyStaysInPolicy
  BY DEF EngineInv, SuppliesInv
<1> QED BY <1>1, EngineInvariant, PTL

\* From the first settlement on cash is at the floor or above and the debt within the
\* facility, rescue money comes last, and no day ends with excess cash and debt.
\* apply_financing.
THEOREM EngineHoldsLiquidity == EngineSpec => []LiquidityHeld
<1>1. EngineInv => LiquidityHeld
  BY DEF EngineInv
<1> QED BY <1>1, EngineInvariant, PTL
=============================================================================
