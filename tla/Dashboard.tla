------------------------------ MODULE Dashboard ------------------------------
(***************************************************************************)
(* The two cached reports of ReportsService, the dashboard and the         *)
(* financial overview, over the in-memory CacheService, and the sales that *)
(* make them stale.  A report is a key; its figures come from several      *)
(* queries and are stood for by the completed sales each of two queries    *)
(* found.  A sale clears the dashboards after its commit; a cancellation   *)
(* clears nothing, and nothing clears the financial overviews.             *)
(***************************************************************************)
EXTENDS Desk

CONSTANTS
    Sold,           \* sales
    MaxTime         \* bound: ticks of a behaviour

ASSUME DashboardAssumption == MaxTime \in Nat

VARIABLES
    soldAt,         \* when each sale was completed, -1 if it was not
    voidedAt,       \* when it was cancelled, -1 if it was not
    cached,         \* the cache, by key
    clock,          \* the time, in ticks
    reportCall      \* local state of the calls: sales, cancellations and readers

dashboardVars == <<soldAt, voidedAt, cached, clock, reportCall>>

Keyed == {"dashboard", "financial"}

Time == -1..MaxTime

\* since is when the queries began; the code does not keep it.
Figures == [totals: SUBSET Sold, recent: SUBSET Sold, since: Time, timestamp: Time]

NoFigures == [totals |-> {}, recent |-> {}, since |-> -1, timestamp |-> -1]

ReportCall ==
    [pc: {"idle", "clear", "totals", "recent", "set", "answered", "done", "refused"},
     key: Keyed, figures: Figures]

DashboardTypeOK ==
    /\ soldAt \in [Sold -> Time]
    /\ voidedAt \in [Sold -> Time]
    /\ cached \in [Keyed -> Figures]
    /\ clock \in 0..MaxTime
    /\ reportCall \in [Calls -> ReportCall]

DashboardInit ==
    /\ soldAt = [s \in Sold |-> -1]
    /\ voidedAt = [s \in Sold |-> -1]
    /\ cached = [k \in Keyed |-> NoFigures]
    /\ clock = 0
    /\ reportCall = [c \in Calls |-> [pc |-> "idle", key |-> "dashboard", figures |-> NoFigures]]

Completed == {s \in Sold : soldAt[s] >= 0 /\ voidedAt[s] < 0}

ReportStep(c, pc) == reportCall' = [reportCall EXCEPT ![c].pc = pc]

-----------------------------------------------------------------------------
\* SalesService.create commits ...
Sell(c, s) ==
    /\ Admitted(reportCall, c)
    /\ soldAt[s] < 0
    /\ soldAt' = [soldAt EXCEPT ![s] = clock]
    /\ ReportStep(c, "clear")
    /\ UNCHANGED <<voidedAt, cached, clock>>

\* Mutant: the sale clears nothing.
ClearNot(key) == FALSE

\* The keys a sale clears: clear('dashboard:').
Clears(key) == key = "dashboard"

\* ... and then clears the cache.
ClearDashboards(c) ==
    /\ reportCall[c].pc = "clear"
    /\ cached' = [k \in Keyed |-> IF Clears(k) THEN NoFigures ELSE cached[k]]
    /\ ReportStep(c, "done")
    /\ UNCHANGED <<soldAt, voidedAt, clock>>

\* SalesService.update cancels a sale and leaves the cache alone.
CancelSale(c, s) ==
    /\ Admitted(reportCall, c)
    /\ s \in Completed
    /\ voidedAt' = [voidedAt EXCEPT ![s] = clock]
    /\ ReportStep(c, "done")
    /\ UNCHANGED <<soldAt, cached, clock>>

\* Mutant: an entry is served for as long as the server lives.
FreshAlways(entry) == entry.timestamp >= 0

\* CacheService.get: an entry that is there and not older than its time to live.
Fresh(entry) == entry.timestamp >= 0 /\ clock - entry.timestamp <= TTL

\* A report is asked for, and is in the cache.
ServeCached(c, key) ==
    /\ Admitted(reportCall, c)
    /\ Fresh(cached[key])
    /\ reportCall' = [reportCall EXCEPT
          ![c] = [pc |-> "answered", key |-> key, figures |-> cached[key]]]
    /\ UNCHANGED <<soldAt, voidedAt, cached, clock>>

\* It is not: the first query.
QueryTotals(c, key) ==
    /\ Admitted(reportCall, c)
    /\ ~Fresh(cached[key])
    /\ reportCall' = [reportCall EXCEPT
          ![c] = [pc |-> "recent", key |-> key,
                  figures |-> [NoFigures EXCEPT !.totals = Completed, !.since = clock]]]
    /\ UNCHANGED <<soldAt, voidedAt, cached, clock>>

\* The last query; Promise.all runs them beside each other, on other connections.
QueryRecent(c) ==
    /\ reportCall[c].pc = "recent"
    /\ reportCall' = [reportCall EXCEPT
          ![c] = [reportCall[c] EXCEPT !.pc = "set", !.figures.recent = Completed]]
    /\ UNCHANGED <<soldAt, voidedAt, cached, clock>>

\* CacheService.set stamps the entry with the time it is stored, and the report is served.
StoreReport(c) ==
    LET entry == [reportCall[c].figures EXCEPT !.timestamp = clock] IN
    /\ reportCall[c].pc = "set"
    /\ cached' = [cached EXCEPT ![reportCall[c].key] = entry]
    /\ reportCall' = [reportCall EXCEPT ![c] = [reportCall[c] EXCEPT
          !.pc = "answered", !.figures = entry]]
    /\ UNCHANGED <<soldAt, voidedAt, clock>>

\* The reader has its answer.
FinishReport(c) ==
    /\ reportCall[c].pc = "answered"
    /\ reportCall' = [reportCall EXCEPT ![c] = [@ EXCEPT !.pc = "done", !.figures = NoFigures]]
    /\ UNCHANGED <<soldAt, voidedAt, cached, clock>>

\* The server restarts: its cache and its calls are gone, the sales stay.
RestartReports ==
    /\ InService(reportCall) # {}
    /\ reportCall' = [c \in Calls |->
          IF c \in InService(reportCall)
          THEN [reportCall[c] EXCEPT !.pc = "refused", !.figures = NoFigures] ELSE reportCall[c]]
    /\ cached' = [k \in Keyed |-> NoFigures]
    /\ UNCHANGED <<soldAt, voidedAt, clock>>

TickClock ==
    /\ clock < MaxTime
    /\ clock' = clock + 1
    /\ UNCHANGED <<soldAt, voidedAt, cached, reportCall>>

DashboardNext ==
    \/ \E c \in Calls :
          \/ \E s \in Sold : Sell(c, s) \/ CancelSale(c, s)
          \/ \E key \in Keyed : ServeCached(c, key) \/ QueryTotals(c, key)
          \/ ClearDashboards(c) \/ QueryRecent(c) \/ StoreReport(c) \/ FinishReport(c)
    \/ RestartReports
    \/ TickClock

DashboardSpec ==
    (DeskInit /\ DashboardInit)
        /\ [][DashboardNext /\ UNCHANGED serving]_<<serving, dashboardVars>>

-----------------------------------------------------------------------------
(* Properties *)

\* One call at a time, a cached dashboard shows every sale that is completed, so
\* that who sells sees the sale; only a cancelled one may linger.  (A dashboard
\* whose queries ran before a sale may be stored after the sale cleared the cache.)
DashboardShowsEverySale ==
    serving = 1 /\ InService(reportCall) = {} /\ cached["dashboard"] # NoFigures =>
        Completed \subseteq cached["dashboard"].totals \cap cached["dashboard"].recent

\* Whatever interleaves, a report that is being served was stored at most TTL ago,
\* and shows every sale completed before its queries began and no sale cancelled
\* before: between a change and every report of it lie TTL and one computation.
ReportsAreBoundedlyStale ==
    [][\A c \in Calls :
          reportCall[c].pc # "answered" /\ reportCall'[c].pc = "answered" =>
             LET shown == reportCall'[c].figures IN
             /\ clock - shown.timestamp <= TTL
             /\ \A s \in Sold : \A seen \in {shown.totals, shown.recent} :
                   /\ soldAt[s] \in 0..(shown.since - 1) /\ s \notin seen => voidedAt[s] >= 0
                   /\ voidedAt[s] \in 0..(shown.since - 1) => s \notin seen]_dashboardVars
=============================================================================
