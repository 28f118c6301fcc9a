-------------------------------- MODULE Ledger --------------------------------
(***************************************************************************)
(* The money of SalesService and the days it is booked on: what create     *)
(* charges for a basket and accepts as payment, what update does to a sale *)
(* that is cancelled or partly returned, and the moments each transaction  *)
(* stamps its rows with.  A stamp is taken while the transaction runs, and *)
(* the rows appear at its commit, maybe on a later day.  The module        *)
(* Reports reads these rows.  Stock is in Sales; a price is the catalogue's *)
(* here, since a sale keeps a copy of everything it charged.               *)
(***************************************************************************)
EXTENDS Desk, Functions

CONSTANTS
    Rung,           \* sales
    Catalog,        \* products: price, cost, tax rate, whether stock is tracked, category
    Tickets,        \* what a cashier may send: units and discount of each line, discount
                    \* on the whole, amount paid by each method, the seller
    Leaving,        \* bound: sellers whose account may be deleted
    TicksPerDay,    \* moments of a day
    LastTick        \* bound: moments of a behaviour

Goods == DOMAIN Catalog

Methods == UNION {DOMAIN t.paid : t \in Tickets}

Sellers == {t.seller : t \in Tickets}

ASSUME LedgerAssumption ==
    /\ TicksPerDay \in Nat \ {0}
    /\ LastTick \in Nat
    /\ None \notin Int \cup Tickets \cup Rung
    /\ IsFiniteSet(Rung) /\ IsFiniteSet(Goods) /\ IsFiniteSet(Methods)
    /\ \A g \in Goods : {Catalog[g].price, Catalog[g].cost, Catalog[g].rate} \subseteq Nat
    /\ \A t \in Tickets : t.discount \in Nat /\ t.paid \in [Methods -> Nat]
    /\ \A t \in Tickets : \A g \in Goods :
          {t.units[g], t.off[g]} \subseteq Nat /\ (t.units[g] = 0 => t.off[g] = 0)

VARIABLES
    ledger,         \* the sales
    tick,           \* the moment
    gone,           \* the sellers whose account was deleted
    ledgerCall      \* local state of the calls

ledgerVars == <<ledger, tick, gone, ledgerCall>>

Moments == 0..LastTick

\* returns holds the moment of each cancellation's RETURN movements.
LedgerRow ==
    [status: {"none", "COMPLETED", "CANCELLED", "RETURNED_PARTIAL"}, ticket: Tickets \cup {None},
     createdAt: Moments \cup {None}, cancelledAt: Moments \cup {None}, returns: Seq(Moments)]

NoLedgerRow ==
    [status |-> "none", ticket |-> None, createdAt |-> None, cancelledAt |-> None, returns |-> <<>>]

\* since is when the transaction began.
LedgerCall ==
    [pc: {"idle", "ring", "cancel", "mark", "done", "refused"},
     rung: Rung \cup {None}, ticket: Tickets \cup {None}, since: Moments]

LedgerTypeOK ==
    /\ ledger \in [Rung -> LedgerRow]
    /\ tick \in Moments
    /\ gone \in SUBSET Leaving
    /\ ledgerCall \in [Calls -> LedgerCall]

LedgerInit ==
    /\ ledger = [s \in Rung |-> NoLedgerRow]
    /\ tick = 0
    /\ gone = {}
    /\ ledgerCall = [c \in Calls |->
          [pc |-> "idle", rung |-> None, ticket |-> None, since |-> 0]]

-----------------------------------------------------------------------------
(* What SalesService.create charges *)

Lines(t) == {g \in Goods : t.units[g] > 0}

GrossSubtotal(t, g) == Catalog[g].price * t.units[g]

LineSubtotal(t, g) == GrossSubtotal(t, g) - t.off[g]

LineTotal(t, g) == LineSubtotal(t, g) * (1 + Catalog[g].rate)

Subtotal == [t \in Tickets |-> SumFunction([g \in Lines(t) |-> LineSubtotal(t, g)])]

TaxAmount ==
    [t \in Tickets |-> SumFunction([g \in Lines(t) |-> LineSubtotal(t, g) * Catalog[g].rate])]

Total == [t \in Tickets |-> Subtotal[t] + TaxAmount[t] - t.discount]

AmountPaid == [t \in Tickets |-> SumFunction(t.paid)]

Chargeable(t) ==
    /\ Lines(t) # {}
    /\ \A g \in Lines(t) : t.off[g] <= GrossSubtotal(t, g)
    /\ Total[t] >= 0
    /\ AmountPaid[t] >= Total[t]

-----------------------------------------------------------------------------
LedgerFinish(c, answer) == ledgerCall' = [ledgerCall EXCEPT ![c].pc = answer]

LedgerOpen(c, pc, s, t) ==
    ledgerCall' = [ledgerCall EXCEPT ![c] = [pc |-> pc, rung |-> s, ticket |-> t, since |-> tick]]

\* The basket is priced and accepted, and the transaction begins.
RingUp(c, s, t) ==
    /\ Admitted(ledgerCall, c)
    /\ ledger[s].status = "none"
    /\ \A d \in Calls : ledgerCall[d].rung # s
    /\ Chargeable(t)
    /\ LedgerOpen(c, "ring", s, t)
    /\ UNCHANGED <<ledger, tick, gone>>

\* Its commit; the sale was stamped when it was inserted, which needs the seller's account.
CommitRing(c, created) ==
    LET s == ledgerCall[c].rung IN
    /\ ledgerCall[c].pc = "ring"
    /\ ledgerCall[c].since <= created /\ created <= tick
    /\ ledgerCall[c].ticket.seller \notin gone
    /\ ledger' = [ledger EXCEPT ![s] = [NoLedgerRow EXCEPT
          !.status = "COMPLETED", !.ticket = ledgerCall[c].ticket, !.createdAt = created]]
    /\ LedgerFinish(c, "done")
    /\ UNCHANGED <<tick, gone>>

\* update reads a completed sale, to cancel it or to mark it returned in part.
OpenSaleUpdate(c, s, pc) ==
    /\ Admitted(ledgerCall, c)
    /\ ledger[s].status = "COMPLETED"
    /\ LedgerOpen(c, pc, s, None)
    /\ UNCHANGED <<ledger, tick, gone>>

\* The cancellation commits: the movements, and then the sale, by its id alone.
CommitCancel(c, returned, cancelled) ==
    LET s == ledgerCall[c].rung IN
    /\ ledgerCall[c].pc = "cancel"
    /\ ledgerCall[c].since <= returned /\ returned <= cancelled /\ cancelled <= tick
    /\ ledger' = [ledger EXCEPT ![s] = [ledger[s] EXCEPT
          !.status = "CANCELLED", !.cancelledAt = cancelled,
          !.returns = Append(ledger[s].returns, returned)]]
    /\ LedgerFinish(c, "done")
    /\ UNCHANGED <<tick, gone>>

\* RETURNED_PARTIAL is stored by the sale's id alone; nothing moves.
MarkReturned(c) ==
    /\ ledgerCall[c].pc = "mark"
    /\ ledger' = [ledger EXCEPT ![ledgerCall[c].rung].status = "RETURNED_PARTIAL"]
    /\ LedgerFinish(c, "done")
    /\ UNCHANGED <<tick, gone>>

\* Stock runs out, a serialization fails or the request dies: the transaction is rolled back.
RollBackLedgerCall(c) ==
    /\ c \in InService(ledgerCall)
    /\ ledgerCall' = [ledgerCall EXCEPT ![c] = [@ EXCEPT !.pc = "refused", !.rung = None]]
    /\ UNCHANGED <<ledger, tick, gone>>

\* UsersService.remove deletes an account for good; the sales keep everything but the user.
SellerLeaves(u) ==
    /\ u \notin gone
    /\ gone' = gone \cup {u}
    /\ UNCHANGED <<ledger, tick, ledgerCall>>

TickLedger ==
    /\ tick < LastTick
    /\ tick' = tick + 1
    /\ UNCHANGED <<ledger, gone, ledgerCall>>

LedgerNext ==
    \/ \E c \in Calls :
          \/ \E s \in Rung, t \in Tickets : RingUp(c, s, t)
          \/ \E s \in Rung, pc \in {"cancel", "mark"} : OpenSaleUpdate(c, s, pc)
          \/ \E m \in Moments : CommitRing(c, m) \/ \E n \in Moments : CommitCancel(c, m, n)
          \/ MarkReturned(c) \/ RollBackLedgerCall(c)
    \/ \E u \in Leaving : SellerLeaves(u)
    \/ TickLedger

LedgerSpec == (DeskInit /\ LedgerInit) /\ [][LedgerNext /\ UNCHANGED serving]_<<serving, ledgerVars>>
=============================================================================
