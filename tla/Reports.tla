------------------------------- MODULE Reports -------------------------------
(***************************************************************************)
(* ReportsService over the rows of Ledger: the periods a request asks for  *)
(* and compares, the overview that books a sale on the day it is made and  *)
(* takes it back on the day it is cancelled (financial-aggregator.ts), and *)
(* the reports that count the sales which are completed now.  Amounts are  *)
(* whole, and the tickets of a run such that the shares of a discount are. *)
(***************************************************************************)
EXTENDS Ledger, FiniteSetsExt

CONSTANTS
    DaysPerMonth,       \* days of a month
    DefaultDays         \* DEFAULT_COMPARISON_DAYS

\* The discount on a whole sale, shared out by its lines, comes to whole amounts.  (The
\* code divides decimals, to more digits than are shown.)
SharesAreWhole ==
    \A t \in {x \in Tickets : Chargeable(x) /\ Subtotal[x] > 0} : \A g \in Goods :
        (t.discount * LineSubtotal(t, g)) % Subtotal[t] = 0

ASSUME ReportsAssumption ==
    /\ {DaysPerMonth, DefaultDays} \subseteq Nat \ {0}
    /\ IsFiniteSet(Sellers) /\ None \notin Sellers
    /\ SharesAreWhole

Days == {t \div TicksPerDay : t \in Moments}

-----------------------------------------------------------------------------
(* Periods.  A bound that is not given is None. *)

StartOfDay(d) == d * TicksPerDay

EndOfDay(d) == (d + 1) * TicksPerDay - 1

BogotaDay(t) == t \div TicksPerDay

\* What validateDateRange lets through.
Ranges ==
    {r \in [from: Days \cup {None}, to: Days \cup {None}] :
        r.from # None /\ r.to # None => r.from <= r.to}

DateFilter(r) ==
    [gte |-> IF r.from = None THEN None ELSE StartOfDay(r.from),
     lte |-> IF r.to = None THEN None ELSE EndOfDay(r.to)]

Within(t, f) ==
    /\ t # None
    /\ f.gte # None => t >= f.gte
    /\ f.lte # None => t <= f.lte

\* The period of equal length right before one.
Before(f) ==
    LET duration == Max({TicksPerDay, f.lte - f.gte + 1}) IN
    [gte |-> f.gte - duration, lte |-> f.gte - 1]

\* buildComparisonPeriod: up to now, and DefaultDays long, where nothing else is asked.
ComparedPeriod(r) ==
    LET end == IF r.to = None THEN tick ELSE EndOfDay(r.to)
        start == IF r.from = None THEN end - DefaultDays * TicksPerDay + 1
                 ELSE StartOfDay(r.from)
    IN  [gte |-> Min({start, end}), lte |-> Max({start, end})]

\* buildFinancialComparisonPeriod: this month where nothing is asked.
FinancialPeriod(r) ==
    LET first == BogotaDay(tick) - (BogotaDay(tick) % DaysPerMonth) IN
    IF r.from = None /\ r.to = None
    THEN [gte |-> StartOfDay(first), lte |-> EndOfDay(first + DaysPerMonth - 1)]
    ELSE ComparedPeriod(r)

-----------------------------------------------------------------------------
(* The financial overview *)

\* What the lines of a ticket come to for some of their units.
ShareOf(t, units) ==
    SumFunction([g \in Lines(t) |-> (LineSubtotal(t, g) * units[g]) \div t.units[g]])

\* signedSale's ratio, applied to an amount of the whole sale.
Prorated(amount, t, units) ==
    IF Subtotal[t] = 0 THEN amount ELSE (amount * ShareOf(t, units)) \div Subtotal[t]

\* Mutant: the movements of a cancelled sale are taken away beside its reversal.
TimesReturnedAlways(s, f) ==
    Cardinality({i \in DOMAIN ledger[s].returns : Within(ledger[s].returns[i], f)})

\* How often a sale that is not cancelled had its merchandise returned in a period.
TimesReturned(s, f) ==
    IF ledger[s].status = "CANCELLED" THEN 0
    ELSE Cardinality({i \in DOMAIN ledger[s].returns : Within(ledger[s].returns[i], f)})

\* Mutant: a cancelled sale is left out of the day it was made on.
BookedWhileStanding(s, f) ==
    ledger[s].status # "CANCELLED" /\ Within(ledger[s].createdAt, f)

\* expandFinancialSale: a sale is booked where it was made ...
Booked(s, f) == Within(ledger[s].createdAt, f)

\* ... taken back where it was cancelled ...
Reversed(s, f) == Within(ledger[s].cancelledAt, f)

\* ... and in part where merchandise came back.
ReturnedUnits(s, f) ==
    [g \in Goods |-> IF Catalog[g].tracked
                     THEN TimesReturned(s, f) * ledger[s].ticket.units[g] ELSE 0]

Expanded(s, f) ==
    LET entry(sign, why, units) == [of |-> s, sign |-> sign, why |-> why, units |-> units]
        whole == ledger[s].ticket.units IN
    {e \in {entry(1, "sale", whole), entry(-1, "cancelled", whole),
            entry(-1, "returned", ReturnedUnits(s, f))} :
        CASE e.why = "sale"      -> Booked(s, f)
          [] e.why = "cancelled" -> Reversed(s, f)
          [] OTHER               -> \E g \in Goods : e.units[g] > 0}

\* findFinancialSales.
FinancialEntries(f) == UNION {Expanded(s, f) : s \in {x \in Rung : ledger[x].status # "none"}}

\* aggregateFinancialSales; the discount of an entry is shared out by its lines.
EntryDiscount(e) == Prorated(ledger[e.of].ticket.discount, ledger[e.of].ticket, e.units)

LineRevenue(e, g) ==
    LET t == ledger[e.of].ticket
        share == ShareOf(t, e.units)
        line == IF t.units[g] = 0 THEN 0 ELSE (LineSubtotal(t, g) * e.units[g]) \div t.units[g]
    IN  IF share = 0 THEN line ELSE line - (EntryDiscount(e) * line) \div share

EntryIncome(e) ==
    e.sign * Prorated(Subtotal[ledger[e.of].ticket], ledger[e.of].ticket, e.units)
        - e.sign * EntryDiscount(e)

EntryTax(e) == e.sign * Prorated(TaxAmount[ledger[e.of].ticket], ledger[e.of].ticket, e.units)

Overview(f) ==
    LET entries == FinancialEntries(f) IN
    [netIncome |-> SumFunction([e \in entries |-> EntryIncome(e)]),
     tax |-> SumFunction([e \in entries |-> EntryTax(e)]),
     quantity |-> [g \in Goods |-> SumFunction([e \in entries |-> e.sign * e.units[g]])],
     netRevenue |-> [g \in Goods |-> SumFunction([e \in entries |-> e.sign * LineRevenue(e, g)])],
     cogs |-> [g \in Goods |->
                  SumFunction([e \in entries |-> e.sign * Catalog[g].cost * e.units[g]])]]

-----------------------------------------------------------------------------
(* The reports of completed sales *)

CompletedSales(f) ==
    {s \in Rung : ledger[s].status = "COMPLETED" /\ Within(ledger[s].createdAt, f)}

Charged(s) == Total[ledger[s].ticket]

\* getDashboardKPIs.
Revenue(f) == SumFunction([s \in CompletedSales(f) |-> Charged(s)])

SalesOn(d, f) == {s \in CompletedSales(f) : BogotaDay(ledger[s].createdAt) = d}

BothGiven(r) == r.from # None /\ r.to # None

\* getDailySales, which answers nothing to a request without both dates.
DailySales(r) ==
    [d \in Days |->
        LET sales == IF BothGiven(r) THEN SalesOn(d, DateFilter(r)) ELSE {} IN
        [total |-> SumFunction([s \in sales |-> Charged(s)]), count |-> Cardinality(sales)]]

\* The user of a sale, which the deletion of the account leaves empty.
UserOf(s) == LET u == ledger[s].ticket.seller IN IF u \in gone THEN None ELSE u

\* getUserPerformance compares, over the period it compares, unless told not to.
UserPeriod(r, compare) == IF compare THEN ComparedPeriod(r) ELSE DateFilter(r)

SoldBy(u, r, compare) == {s \in CompletedSales(UserPeriod(r, compare)) : UserOf(s) = u}

UserRevenue(u, r, compare) == SumFunction([s \in SoldBy(u, r, compare) |-> Charged(s)])

\* What the sales of a set charged for a product, as groupBy sums it.
ProductTotal(g, sales) == SumFunction([s \in sales |-> LineTotal(ledger[s].ticket, g)])

InCategory(k) == {g \in Goods : Catalog[g].category = k}

\* getSalesByCategory.
CategorySales(k, f) == SumFunction([g \in InCategory(k) |-> ProductTotal(g, CompletedSales(f))])

\* getSalesByCategoryDaily.
CategorySalesOn(k, d, f) ==
    SumFunction([g \in InCategory(k) |-> ProductTotal(g, SalesOn(d, f))])

PaidBy(m, sales) == SumFunction([s \in sales |-> ledger[s].ticket.paid[m]])

\* getSalesByPaymentMethod.
PaymentsOfSales(m, f) == PaidBy(m, CompletedSales(f))

-----------------------------------------------------------------------------
(* Properties *)

Categories == {Catalog[g].category : g \in Goods}

\* Every way a report cuts the same sales adds up to the same money: by day, where both
\* dates are given, by category (before the discounts on whole sales), by category and
\* day, by method (with what was paid beyond the total, since change is not taken off a
\* payment); and by user, compared or not, to the revenue of the period looked at, less
\* that of the sales whose user was deleted, which are nobody's.
CutsAddUp(r) ==
    LET f == DateFilter(r)
        sales == CompletedSales(f)
        revenue == Revenue(f)
        daily == DailySales(r) IN
    /\ BothGiven(r) =>
          /\ SumFunction([d \in Days |-> daily[d].total]) = revenue
          /\ SumFunction([d \in Days |-> daily[d].count]) = Cardinality(sales)
    /\ \A compare \in BOOLEAN :
          LET period == UserPeriod(r, compare)
              nobodys == {s \in CompletedSales(period) : UserOf(s) = None} IN
          SumFunction([u \in Sellers |-> UserRevenue(u, r, compare)])
              = Revenue(period) - SumFunction([s \in nobodys |-> Charged(s)])
    /\ SumFunction([k \in Categories |-> CategorySales(k, f)])
          = revenue + SumFunction([s \in sales |-> ledger[s].ticket.discount])
    /\ \A k \in Categories :
          SumFunction([d \in Days |-> CategorySalesOn(k, d, f)]) = CategorySales(k, f)
    /\ SumFunction([m \in Methods |-> PaymentsOfSales(m, f)])
          = revenue + SumFunction([s \in sales |-> AmountPaid[ledger[s].ticket] - Charged(s)])

\* The overview of a period is what was charged in it less what was cancelled in it, and
\* its products' margins are shares of that.
OverviewNetsOut(f) ==
    LET o == Overview(f)
        booked == {s \in Rung : Booked(s, f)}
        reversed == {s \in Rung : Reversed(s, f)} IN
    /\ o.netIncome + o.tax = SumFunction([s \in booked |-> Charged(s)])
                                - SumFunction([s \in reversed |-> Charged(s)])
    /\ SumFunction([g \in Goods |-> o.netRevenue[g]]) = o.netIncome
    /\ \A g \in Goods :
          o.quantity[g] = SumFunction([s \in booked |-> ledger[s].ticket.units[g]])
                             - SumFunction([s \in reversed |-> ledger[s].ticket.units[g]])

\* A period and the one it is compared with are as long as each other and share no
\* moment, and no sale falls between them.
PeriodsMeet(f) ==
    LET both == [gte |-> Before(f).gte, lte |-> f.lte] IN
    /\ Before(f).lte - Before(f).gte = Max({TicksPerDay - 1, f.lte - f.gte})
    /\ Overview(f).netIncome + Overview(Before(f)).netIncome = Overview(both).netIncome

\* The reports of ReportsService tell one story, whatever dates are asked for, those left
\* open included.  For the overview one call at a time: a sale marked as returned while it
\* is being cancelled keeps its RETURN movements and loses its status, and is taken back
\* twice.
ReportsReconcile ==
    (\E s \in Rung : ledger[s].status # "none") =>
    /\ \A r \in Ranges : CutsAddUp(r)
    /\ serving = 1 =>
          \A f \in {FinancialPeriod(r) : r \in Ranges} : OverviewNetsOut(f) /\ PeriodsMeet(f)

\* Whatever interleaves, the overview of a period that is over, and that no request at
\* work began in, never changes: a cancellation is booked on its own day.  Only a sale
\* already cancelled that is cancelled again, or marked as returned, rewrites the past.
ClosedPeriodsKeepTheirOverview ==
    [][(\A s \in Rung : ledger[s].cancelledAt # None => ledger'[s] = ledger[s]) =>
          \A r \in {x \in Ranges : x.from # None /\ x.to # None} :
             /\ EndOfDay(r.to) < tick
             /\ \A c \in InService(ledgerCall) : EndOfDay(r.to) < ledgerCall[c].since
             => Overview(DateFilter(r))' = Overview(DateFilter(r))]_ledger
=============================================================================
