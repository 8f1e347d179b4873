----------------------------- MODULE DailyEngine -----------------------------
(***************************************************************************)
(* One simulated trace of a company: the loop over days of simulate_trace, *)
(* an action for each phase of a day in the order of the code, with the    *)
(* integer flows of units and cents and the engine's own validation at the *)
(* end of every day and of the trace.                                      *)
(*                                                                         *)
(* The shock tape is chosen day by day from a set.  What only rescales     *)
(* demand (price, season, retention) is in the arrivals a tape may hold;   *)
(* what a scenario changes is in the effective values of the constants.    *)
(* Revenue is the invoices; the accounting cost of goods and of scrap,     *)
(* which no transition reads, is left out.                                 *)
(***************************************************************************)
EXTENDS Integers, FiniteSets, FiniteSetsExt, Functions, Folds

CONSTANTS
  Products, Segments,      \* numbered: ties are broken by id
  Materials, Resources,
  Product,                 \* opening, lead, baseline, minutes, usage, cost, price
  Segment,                 \* size, promise, grace, terms
  Material,                \* opening, reorder, safety, lead, terms, standard, cost
  Resource,                \* overtime, rate
  Policy,                  \* cash, floor, target, limit, fixed, interest, commercial,
                           \* commitment, capital
  WarmupDays, EvaluationDays, RunoffDays,
  Shocks                   \* what a day of the tape may hold

Pairs == Products \X Segments
Phases == {"warmup", "evaluation", "runoff"}
Horizon == WarmupDays + EvaluationDays + RunoffDays

ShockSet ==
  [arrivals : [Pairs -> Nat], yield : [Products -> 0 .. 100], capacity : [Resources -> Nat],
   late : [Materials -> Nat], delay : [Segments -> Int]]

\* What the company and scenario models validate.  A requirement of 0 is none, a baseline
\* of 0 no demand profile; material costs are in thousandths.
ValidProduct(p) ==
  /\ {Product[p].opening, Product[p].cost} \subseteq Nat /\ Product[p].lead \in Nat \ {0}
  /\ Product[p].minutes \in [Resources -> Nat] /\ Product[p].usage \in [Materials -> Nat]
  /\ {Product[p].price, Product[p].baseline} \subseteq [Segments -> Nat]
  /\ \E r \in Resources : Product[p].minutes[r] > 0
  /\ \E m \in Materials : Product[p].usage[m] > 0
  /\ \E s \in Segments : Product[p].baseline[s] > 0

ValidSegment(s) ==
  /\ Segment[s].size \in Nat \ {0}
  /\ {Segment[s].promise, Segment[s].grace, Segment[s].terms} \subseteq Nat

ValidMaterial(m) ==
  /\ {Material[m].lead, Material[m].opening, Material[m].standard, Material[m].cost}
       \subseteq Nat \ {0}
  /\ {Material[m].reorder, Material[m].safety, Material[m].terms} \subseteq Nat
  /\ Material[m].reorder <= Material[m].opening

ValidPolicy ==
  /\ {Policy.cash, Policy.floor, Policy.target, Policy.limit, Policy.fixed, Policy.interest,
      Policy.capital} \subseteq Nat
  /\ {Policy.commercial, Policy.commitment} \subseteq Int
  /\ Policy.floor <= Policy.target

ValidLifecycle ==
  {WarmupDays, RunoffDays} \subseteq Nat /\ EvaluationDays \in Nat \ {0}

ASSUME EngineAssumption ==
  /\ IsFiniteSet(Products) /\ Products \subseteq Nat
  /\ IsFiniteSet(Segments) /\ Segments \subseteq Nat
  /\ IsFiniteSet(Materials) /\ IsFiniteSet(Resources)
  /\ \A p \in Products : ValidProduct(p)
  /\ \A s \in Segments : ValidSegment(s)
  /\ \A m \in Materials : ValidMaterial(m)
  /\ \A r \in Resources : {Resource[r].overtime, Resource[r].rate} \subseteq Nat
  /\ ValidPolicy /\ ValidLifecycle
  /\ Shocks \subseteq ShockSet

VARIABLES
  day, step,               \* the loop index and the phase of the day that is next
  allowRescue,             \* the caller's choice
  shock,                   \* the tape's entry for the day
  goods, stock,            \* finished goods and materials on hand
  orders, work, supplies,  \* open customer, work and purchase orders
  receivables, payables,   \* cents by due day and phase of origin
  cash, debt,
  today,                   \* the period being written
  totals                   \* sums over the periods written and the current one

engineVars ==
  <<day, step, allowRescue, shock, goods, stock, orders, work, supplies, receivables,
    payables, cash, debt, today, totals>>

physical == <<goods, stock, orders, work, supplies>>
financial == <<receivables, payables, cash, debt>>

PhaseForDay(d) ==
  IF d < WarmupDays THEN "warmup"
  ELSE IF d < WarmupDays + EvaluationDays THEN "evaluation" ELSE "runoff"

\* Day 0 is a Wednesday.
OperatingDay(d) == (d + 2) % 7 < 5

NextOperatingDay(d, lead) ==
  CHOOSE e \in (d + 1) .. (d + 3 * lead) :
    /\ OperatingDay(e)
    /\ Cardinality({x \in (d + 1) .. e : OperatingDay(x)}) = lead

AtLeastZero(n) == IF n > 0 THEN n ELSE 0

Least(a, b) == IF a < b THEN a ELSE b

RoundHalfUp(n, d) == (2 * n + d) \div (2 * d)

Zero(S) == [x \in S |-> 0]

Units(S) == SumFunction([x \in S |-> x.units])

Amounts(S) == SumFunction([x \in S |-> x.amount])

BacklogByProduct == [p \in Products |-> Units({o \in orders : o.product = p})]

WorkInProgress == [p \in Products |-> Units({w \in work : w.product = p})]

OpenOrderCount(o) == AtLeastZero(o.count - o.fulfilled - o.cancelled)

OpenOrders(S) == SumFunction([o \in S |-> OpenOrderCount(o)])

Evaluated(S) == {o \in S : o.phase = "evaluation"}
-----------------------------------------------------------------------------
(* Scheduled cash *)

\* _schedule_cash_flow for each of a set of flows.
Scheduled(schedule, flows) ==
  [d \in DOMAIN schedule \cup {f.due : f \in flows} |->
     [ph \in Phases |->
        (IF d \in DOMAIN schedule THEN schedule[d][ph] ELSE 0)
          + Amounts({f \in flows : f.due = d /\ f.phase = ph})]]

\* _pop_scheduled_cash_flow: what is due, and the rest.
DueToday(schedule) == IF day \in DOMAIN schedule THEN schedule[day] ELSE Zero(Phases)

Popped(schedule) == [d \in DOMAIN schedule \ {day} |-> schedule[d]]

Balance(schedule, ph) == SumFunction([d \in DOMAIN schedule |-> schedule[d][ph]])

Plus(f, g) == [x \in DOMAIN f |-> f[x] + g[x]]

Billed(flows) == [ph \in Phases |-> Amounts({f \in flows : f.phase = ph})]

\* Wrong variant for a mutation run: each draw may use the whole facility.
WholeFacility(before, owed, mayRepay) ==
  LET draw == Least(AtLeastZero(Policy.floor - before), Policy.limit)
      rescue == AtLeastZero(Policy.floor - before - draw)
      funded == before + draw + rescue
      repay == IF mayRepay THEN Least(AtLeastZero(funded - Policy.target), owed + draw) ELSE 0
  IN [cash |-> funded - repay, debt |-> owed + draw - repay,
      draw |-> draw, repay |-> repay, rescue |-> rescue]

ApplyFinancing(before, owed, mayRepay) ==
  LET draw == Least(AtLeastZero(Policy.floor - before), Policy.limit - owed)
      rescue == AtLeastZero(Policy.floor - before - draw)
      funded == before + draw + rescue
      repay == IF mayRepay THEN Least(AtLeastZero(funded - Policy.target), owed + draw) ELSE 0
  IN [cash |-> funded - repay, debt |-> owed + draw - repay,
      draw |-> draw, repay |-> repay, rescue |-> rescue]

\* The exception liquidity_floor_breach: there is no trace.
Breach == step' = "breach" /\ UNCHANGED <<day, allowRescue, shock, physical, financial, today, totals>>
-----------------------------------------------------------------------------
EmptyPeriod ==
  [goods |-> goods, stock |-> stock, backlog |-> BacklogByProduct, wip |-> WorkInProgress,
   cash |-> cash, debt |-> debt,
   received |-> Zero(Materials), consumed |-> Zero(Materials),
   completed |-> Zero(Products), good |-> Zero(Products), started |-> Zero(Products),
   ordered |-> Zero(Products), shipped |-> Zero(Products), cancelled |-> Zero(Products),
   available |-> Zero(Resources), used |-> Zero(Resources), overtime |-> Zero(Resources),
   collections |-> 0, payments |-> 0, draw |-> 0, repay |-> 0, rescue |-> 0, spent |-> 0]

EngineInit ==
  /\ day = 0 /\ step = "receive"
  /\ allowRescue \in BOOLEAN
  /\ shock \in Shocks
  /\ goods = [p \in Products |-> Product[p].opening]
  /\ stock = [m \in Materials |-> Material[m].opening]
  /\ orders = {} /\ work = {} /\ supplies = {}
  /\ receivables = [d \in {} |-> Zero(Phases)] /\ payables = [d \in {} |-> Zero(Phases)]
  /\ cash = Policy.cash /\ debt = 0
  /\ today = EmptyPeriod
  /\ totals = [created |-> 0, resolved |-> 0,
               sold |-> Zero(Phases), collected |-> Zero(Phases),
               bought |-> Zero(Phases), paid |-> Zero(Phases)]

Advance(from, to) == step = from /\ step' = to /\ UNCHANGED <<day, allowRescue, shock>>

\* Supplier receipts, and their invoices.
ReceivePurchaseOrders ==
  LET received == {o \in supplies : o.due <= day}
      arrived == [m \in Materials |-> Units({o \in received : o.material = m})]
      invoices == {[due |-> day + Material[o.material].terms, phase |-> o.phase,
                    amount |-> (o.units * Material[o.material].cost) \div 1000,
                    order |-> o] : o \in received}
  IN /\ Advance("receive", "complete")
     /\ supplies' = supplies \ received
     /\ stock' = Plus(stock, arrived)
     /\ payables' = Scheduled(payables, invoices)
     /\ today' = [today EXCEPT !.received = arrived]
     /\ totals' = [totals EXCEPT !.bought = Plus(@, Billed(invoices))]
     /\ UNCHANGED <<goods, orders, work, receivables, cash, debt>>

CompleteWorkOrders ==
  LET done(p) == {w \in work : w.due <= day /\ w.product = p}
      completed == [p \in Products |-> Units(done(p))]
      good == [p \in Products |->
                 SumFunction([w \in done(p) |-> RoundHalfUp(w.units * shock.yield[p], 100)])]
  IN /\ Advance("complete", "settle")
     /\ work' = {w \in work : w.due > day}
     /\ goods' = Plus(goods, good)
     /\ today' = [today EXCEPT !.completed = completed, !.good = good]
     /\ UNCHANGED <<stock, orders, supplies, financial, totals>>

\* Collections, supplier payments, and the financing that may not repay.
SettleObligations ==
  LET in == DueToday(receivables)
      out == DueToday(payables)
      collections == SumFunction(in)
      payments == SumFunction(out)
      fin == ApplyFinancing(cash + collections - payments, debt, FALSE)
  IN /\ step = "settle"
     /\ IF fin.rescue > 0 /\ ~allowRescue THEN Breach
        ELSE /\ Advance("settle", "demand")
             /\ receivables' = Popped(receivables) /\ payables' = Popped(payables)
             /\ cash' = fin.cash /\ debt' = fin.debt
             /\ today' = [today EXCEPT !.collections = collections, !.payments = payments,
                            !.draw = fin.draw, !.rescue = fin.rescue]
             /\ totals' = [totals EXCEPT !.collected = Plus(@, in), !.paid = Plus(@, out)]
             /\ UNCHANGED physical

\* A group of orders of one product, segment and day; units are those still open.
\* inTime and punctual record its units shipped, and orders counted, on time.
NewOrder(p, s) ==
  LET n == shock.arrivals[<<p, s>>]
  IN [product |-> p, segment |-> s, day |-> day, due |-> day + Segment[s].promise,
      phase |-> PhaseForDay(day), count |-> n, units |-> n * Segment[s].size,
      shipped |-> 0, fulfilled |-> 0, cancelled |-> 0, onTime |-> TRUE,
      inTime |-> 0, punctual |-> 0]

CreateOrders ==
  LET created == IF OperatingDay(day) /\ PhaseForDay(day) # "runoff"
                 THEN {o \in {NewOrder(p, s) : p \in Products, s \in Segments} : o.count > 0}
                 ELSE {}
  IN /\ Advance("demand", "ship")
     /\ orders' = orders \cup created
     /\ today' = [today EXCEPT !.ordered =
          [p \in Products |-> Units({o \in created : o.product = p})]]
     /\ totals' = [totals EXCEPT !.created =
          @ + SumFunction([o \in Evaluated(created) |-> o.count])]
     /\ UNCHANGED <<goods, stock, work, supplies, financial>>

\* order_id grows with the day, then the product, then the segment.
ServedBefore(q, o) ==
  /\ q.product = o.product
  /\ \/ q.due < o.due
     \/ /\ q.due = o.due
        /\ q.day < o.day \/ (q.day = o.day /\ q.segment < o.segment)

\* Finished goods go to the orders that are due first.
Allocated(o) ==
  Least(o.units, AtLeastZero(goods[o.product] - Units({q \in orders : ServedBefore(q, o)})))

AfterShipment(o, n) ==
  LET size == Segment[o.segment].size
      onTime == o.onTime /\ day <= o.due
      fulfilled == Least(o.count - o.cancelled, (o.shipped + n) \div size)
  IN [o EXCEPT !.units = @ - n, !.shipped = @ + n, !.fulfilled = fulfilled,
        !.onTime = onTime,
        !.inTime = IF day > o.due THEN @ ELSE @ + n,
        !.punctual = IF onTime THEN @ + fulfilled - o.fulfilled ELSE @]

\* Wrong variant for a mutation run: an early payer pays before the goods leave.
UnboundedDue(s) == day + Segment[s].terms + shock.delay[s]

\* Never before tomorrow: the collections of the day are over.
CollectionDay(s) ==
  LET due == day + Segment[s].terms + shock.delay[s]
  IN IF due > day THEN due ELSE day + 1

ShipOrders ==
  LET served == {o \in orders : Allocated(o) > 0}
      shipped == [p \in Products |->
                    SumFunction([o \in {q \in served : q.product = p} |-> Allocated(o)])]
      invoices == {[due |-> CollectionDay(o.segment), phase |-> o.phase,
                    amount |-> Allocated(o) * Product[o.product].price[o.segment],
                    order |-> o] : o \in served}
      after == {AfterShipment(o, Allocated(o)) : o \in served}
      newly(o) == AfterShipment(o, Allocated(o)).fulfilled - o.fulfilled
  IN /\ Advance("ship", "cancel")
     /\ orders' = (orders \ served) \cup after
     /\ goods' = [p \in Products |-> goods[p] - shipped[p]]
     /\ receivables' = Scheduled(receivables, invoices)
     /\ today' = [today EXCEPT !.shipped = shipped]
     /\ totals' = [totals EXCEPT !.sold = Plus(@, Billed(invoices)),
          !.resolved = @ + SumFunction([o \in Evaluated(served) |-> newly(o)])]
     /\ UNCHANGED <<stock, work, supplies, payables, cash, debt>>

Overdue(p, s) ==
  {o \in orders : /\ o.product = p /\ o.segment = s /\ o.units > 0
                  /\ day > o.due + Segment[s].grace}

\* The share of an order in the n orders its group loses: older orders first.
CancelledCount(o, n) ==
  LET older == {q \in Overdue(o.product, o.segment) : q.day < o.day}
  IN Least(OpenOrderCount(o), AtLeastZero(n - OpenOrders(older)))

\* Wrong variant for a mutation run: the partly shipped order goes first.
PartialFirst(o, n) ==
  LET size == Segment[o.segment].size IN Least(n * size - (o.shipped % size), o.units)

\* Untouched orders go first, then the one that is partly shipped.
CancelledUnits(o, n) ==
  LET size == Segment[o.segment].size
      partial == o.shipped % size
      untouched == Least(n, OpenOrderCount(o) - (IF partial > 0 THEN 1 ELSE 0))
  IN Least(untouched * size + (IF n > untouched THEN size - partial ELSE 0), o.units)

\* The number cancelled is the tape's binomial draw: any up to the open ones.  Orders
\* without open units leave the list.
CancelOverdueOrders ==
  LET trials(g) == OpenOrders(Overdue(g[1], g[2]))
  IN /\ Advance("cancel", "produce")
     /\ \E draw \in [Pairs -> 0 .. Max({trials(g) : g \in Pairs} \cup {0})] :
          /\ \A g \in Pairs : draw[g] <= trials(g)
          /\ LET lost(o) == IF o \in Overdue(o.product, o.segment)
                            THEN CancelledCount(o, draw[<<o.product, o.segment>>]) ELSE 0
                 gone(o) == IF lost(o) = 0 THEN 0 ELSE CancelledUnits(o, lost(o))
                 after(o) == [o EXCEPT !.units = @ - gone(o), !.cancelled = @ + lost(o)]
             IN /\ orders' = {o \in {after(q) : q \in orders} : o.units > 0}
                /\ today' = [today EXCEPT !.cancelled =
                     [p \in Products |->
                        SumFunction([o \in {q \in orders : q.product = p} |-> gone(o)])]]
                /\ totals' = [totals EXCEPT !.resolved =
                     @ + SumFunction([o \in Evaluated(orders) |-> lost(o)])]
     /\ UNCHANGED <<goods, stock, work, supplies, financial>>
-----------------------------------------------------------------------------
(* Production and procurement *)

RegularCapacity(r) == IF OperatingDay(day) THEN shock.capacity[r] ELSE 0

AvailableCapacity(r) ==
  IF OperatingDay(day) THEN RegularCapacity(r) + Resource[r].overtime ELSE 0

\* Largest backlog first, then product id.
PlannedBefore(p, q) ==
  LET b == BacklogByProduct IN b[p] > b[q] \/ (b[p] = b[q] /\ p < q)

LastPlanned(S) == CHOOSE p \in S : \A q \in S \ {p} : PlannedBefore(q, p)

\* The replenishment cycle and the longest promise at baseline demand.
TargetUnits(p) ==
  LET promised == {Segment[s].promise : s \in {x \in Segments : Product[p].baseline[x] > 0}}
  IN (Product[p].lead + Max(promised)) * SumFunctionOnSet(Product[p].baseline, Segments)

Need(p) ==
  AtLeastZero(TargetUnits(p) + BacklogByProduct[p] - goods[p] - WorkInProgress[p])

\* What need, minutes and material allow.
Feasible(p, plan) ==
  Min({Need(p)}
      \cup {plan.minutes[r] \div Product[p].minutes[r] :
              r \in {x \in Resources : Product[p].minutes[x] > 0}}
      \cup {plan.stock[m] \div Product[p].usage[m] :
              m \in {x \in Materials : Product[p].usage[x] > 0}})

\* Wrong variant for a mutation run: every product plans with the whole plant.
PlannedAlone(plan, p) == [plan EXCEPT !.starts[p] = Feasible(p, plan)]

Planned(plan, p) ==
  LET n == Feasible(p, plan)
  IN [minutes |-> [r \in Resources |-> plan.minutes[r] - n * Product[p].minutes[r]],
      stock |-> [m \in Materials |-> plan.stock[m] - n * Product[p].usage[m]],
      starts |-> [plan.starts EXCEPT ![p] = n]]

ProductionPlan ==
  LET idle == [minutes |-> [r \in Resources |-> AvailableCapacity(r)], stock |-> stock,
               starts |-> Zero(Products)]
  IN IF OperatingDay(day)
     THEN MapThenFoldSet(LAMBDA p, plan : Planned(plan, p), idle, LAMBDA p : p,
                         LastPlanned, Products)
     ELSE idle

\* validate_production_plan
PlanReconciles(starts, used, consumed) ==
  /\ \A r \in Resources :
       /\ used[r] = SumFunction([p \in Products |-> starts[p] * Product[p].minutes[r]])
       /\ used[r] <= AvailableCapacity(r)
  /\ \A m \in Materials :
       /\ consumed[m] = SumFunction([p \in Products |-> starts[p] * Product[p].usage[m]])
       /\ consumed[m] <= stock[m]

\* Cash per unit started: the standard cost without its material, which is paid for by
\* invoice.
ConversionCost(p) ==
  AtLeastZero(Product[p].cost
    - SumFunction([m \in Materials |-> (Product[p].usage[m] * Material[m].standard) \div 1000]))

PlanProduction ==
  LET plan == ProductionPlan
      used == [r \in Resources |-> AvailableCapacity(r) - plan.minutes[r]]
      overtime == [r \in Resources |-> AtLeastZero(used[r] - RegularCapacity(r))]
      consumed == [m \in Materials |-> stock[m] - plan.stock[m]]
      started == {p \in Products : plan.starts[p] > 0}
  IN /\ step = "produce"
     /\ IF ~PlanReconciles(plan.starts, used, consumed)
        THEN /\ step' = "invalid"
             /\ UNCHANGED <<day, allowRescue, shock, physical, financial, today, totals>>
        ELSE /\ Advance("produce", "procure")
             /\ work' = work \cup
                  {[product |-> p, due |-> NextOperatingDay(day, Product[p].lead),
                    units |-> plan.starts[p]] : p \in started}
             /\ stock' = plan.stock
             /\ today' = [today EXCEPT !.started = plan.starts, !.consumed = consumed,
                  !.available = [r \in Resources |-> AvailableCapacity(r)],
                  !.used = used, !.overtime = overtime,
                  !.spent =
                    SumFunction([p \in Products |-> plan.starts[p] * ConversionCost(p)])
                    + SumFunction([r \in Resources |-> overtime[r] * Resource[r].rate])]
             /\ UNCHANGED <<goods, orders, supplies, financial, totals>>

\* Wrong variant for a mutation run: what is on its way is not counted.
OnHandOnly(m) == stock[m]

ReorderPoint(m) == Material[m].reorder + Material[m].safety

OrderUpTo(m) == Material[m].opening + Material[m].safety

InventoryPosition(m) == stock[m] + Units({o \in supplies : o.material = m})

\* Orders are numbered by the day they are placed.
PlacePurchaseOrders ==
  LET short == {m \in Materials : InventoryPosition(m) <= ReorderPoint(m)}
      placed == {[material |-> m, day |-> day,
                  due |-> day + Material[m].lead + shock.late[m],
                  units |-> OrderUpTo(m) - InventoryPosition(m),
                  phase |-> PhaseForDay(day)] : m \in short}
  IN /\ Advance("procure", "close")
     /\ supplies' = supplies \cup placed
     /\ UNCHANGED <<goods, stock, orders, work, financial, today, totals>>
-----------------------------------------------------------------------------
(* The end of a day *)

DailyInterest == RoundHalfUp(debt * Policy.interest, 100)

\* Changes of commercial spending and capacity bind in the evaluation only.
CommitmentChanges ==
  IF OperatingDay(day) /\ PhaseForDay(day) = "evaluation"
  THEN Policy.commercial + Policy.commitment ELSE 0

OperatingCosts ==
  CommitmentChanges + (Policy.fixed * 12) \div 365 + DailyInterest + (IF day = 0 THEN Policy.capital ELSE 0)

\* validate_period; the bounds between counts of orders are properties of the orders.
PeriodReconciles(t) ==
  /\ \A p \in Products :
       /\ t.goods[p] + t.good[p] = t.shipped[p] + goods[p]
       /\ t.wip[p] + t.started[p] = t.completed[p] + WorkInProgress[p]
       /\ t.good[p] <= t.completed[p]
       /\ t.backlog[p] + t.ordered[p] = t.shipped[p] + t.cancelled[p] + BacklogByProduct[p]
  /\ \A m \in Materials : t.stock[m] + t.received[m] = t.consumed[m] + stock[m]
  /\ \A r \in Resources : t.used[r] <= t.available[r] /\ t.overtime[r] <= t.used[r]
  /\ t.cash + t.collections + t.rescue + t.draw - t.payments - t.spent - t.repay = cash'
  /\ t.debt + t.draw - t.repay = debt'

\* The part of validate_trace that sums over periods.
TraceReconciles ==
  totals.created = totals.resolved + OpenOrders(Evaluated(orders))

CloseDay ==
  LET costs == OperatingCosts
      fin == ApplyFinancing(cash - today.spent - costs, debt, TRUE)
      period == [today EXCEPT !.spent = @ + costs, !.draw = @ + fin.draw,
                   !.repay = @ + fin.repay, !.rescue = @ + fin.rescue]
  IN /\ step = "close"
     /\ IF fin.rescue > 0 /\ ~allowRescue THEN Breach
        ELSE /\ cash' = fin.cash /\ debt' = fin.debt
             /\ today' = period
             /\ step' = IF ~PeriodReconciles(period) THEN "invalid"
                        ELSE IF day + 1 < Horizon THEN "next"
                        ELSE IF TraceReconciles THEN "done" ELSE "invalid"
             /\ UNCHANGED <<day, allowRescue, shock, physical, receivables, payables, totals>>

\* The loop goes on with the next entry of the tape.
NextDay ==
  /\ step = "next"
  /\ day' = day + 1 /\ step' = "receive"
  /\ shock' \in Shocks
  /\ today' = EmptyPeriod
  /\ UNCHANGED <<allowRescue, physical, financial, totals>>

EngineNext ==
  \/ ReceivePurchaseOrders \/ CompleteWorkOrders \/ SettleObligations
  \/ CreateOrders \/ ShipOrders \/ CancelOverdueOrders
  \/ PlanProduction \/ PlacePurchaseOrders \/ CloseDay \/ NextDay

EngineSpec == EngineInit /\ [][EngineNext]_engineVars
-----------------------------------------------------------------------------
(* Properties *)

Steps ==
  {"receive", "complete", "settle", "demand", "ship", "cancel", "produce", "procure", "close",
   "next", "done", "breach", "invalid"}

\* Quantities of units and cents are never negative, nor is an order kept without a unit
\* once the day's cancellations are over.
EngineTypeOK ==
  /\ day \in 0 .. Horizon - 1 /\ step \in Steps /\ allowRescue \in BOOLEAN /\ shock \in Shocks
  /\ goods \in [Products -> Nat] /\ stock \in [Materials -> Nat]
  /\ \A o \in orders : o.units \in Nat /\ o.count \in Nat \ {0}
  /\ \A o \in orders : o.units = 0 => step = "cancel"
  /\ \A w \in work : w.units \in Nat \ {0}
  /\ \A o \in supplies : o.units \in Nat
  /\ \A s \in {receivables, payables} :
       \A d \in DOMAIN s : d \in Nat /\ s[d] \in [Phases -> Nat]
  /\ cash \in Nat /\ debt \in Nat

\* The engine never trips over its own ledger: whatever the tape holds, every plan, every
\* period and the whole trace pass the validation that would raise InvariantViolation.
NeverRejected == EngineTypeOK /\ step # "invalid"

\* The orders reported on time and in full are exactly those whose units had left by the
\* promised day, whatever happens to the rest of their group.
OnTimeInFull ==
  \A o \in orders : o.punctual = o.inTime \div Segment[o.segment].size

\* After any mixture of partial shipments and cancellations an order's open units are
\* those of its open orders less what one of them has already received, so that no order
\* leaves the list unresolved; and orders of the evaluation are fulfilled, cancelled or
\* open at any moment; and on time and in full are the ones that were.
OrdersReconcile ==
  /\ \A o \in orders :
       LET size == Segment[o.segment].size
       IN o.units = OpenOrderCount(o) * size - (IF o.units > 0 THEN o.shipped % size ELSE 0)
  /\ TraceReconciles
  /\ OnTimeInFull

\* Every cent invoiced or owed is paid once: what was billed is paid or is scheduled for
\* a day whose settlement is still to come.
EveryCentIsSettledOnce ==
  /\ \A s \in {receivables, payables} :
       \A d \in DOMAIN s : d > day \/ (d = day /\ step \in {"receive", "complete", "settle", "breach"})
  /\ \A ph \in Phases :
       /\ totals.sold[ph] = totals.collected[ph] + Balance(receivables, ph)
       /\ totals.bought[ph] = totals.paid[ph] + Balance(payables, ph)

\* However late suppliers are, what is on hand and on its way never exceeds the
\* order-up-to level, and at the end of a day it is above the reorder point or full.
SupplyStaysInPolicy ==
  \A m \in Materials :
    LET position == stock[m] + Units({o \in supplies : o.material = m})
    IN /\ position <= OrderUpTo(m)
       /\ step \in {"close", "next", "done"} =>
            \/ position > ReorderPoint(m)
            \/ position = OrderUpTo(m)

\* From the first settlement on cash is at the liquidity floor or above and the debt
\* within the facility; rescue money comes only when the facility is used up; and the
\* day does not end with excess cash while there is debt.
LiquidityHeld ==
  /\ debt \in 0 .. Policy.limit
  /\ (day > 0 \/ step \notin {"receive", "complete", "settle", "breach"}) => cash >= Policy.floor
  /\ step = "demand" /\ today.rescue > 0 => debt = Policy.limit
  /\ step \in {"next", "done"} => (cash <= Policy.target \/ debt = 0)
=============================================================================
