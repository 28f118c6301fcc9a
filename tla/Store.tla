--------------------------------- MODULE Store ---------------------------------
(***************************************************************************)
(* The three services that move stock, together over one inventory.  A     *)
(* step is a step of one of them; they meet in the Product rows, the row   *)
(* locks, the kardex, and the foreign keys that refuse the deletion of a   *)
(* product some sale or purchase order names.                              *)
(***************************************************************************)
EXTENDS Sales, Products, PurchaseOrders

storeVars == <<inventoryVars, salesVars, edit, ordersVars>>

ASSUME StoreAssumption ==
    /\ Cashiers \cap Orders = {}
    /\ (Cashiers \cup Voiders) \cap (Editors \cup Clerks) = {}
    /\ Editors \cap Clerks = {}

StoreTypeOK == SalesTypeOK /\ ProductsTypeOK /\ OrdersTypeOK

StoreInit == InventoryInit /\ SalesInit /\ ProductsInit /\ OrdersInit

\* Products the items of a sale or of a purchase order name.
Referenced ==
    {p \in Products : (\E s \in Cashiers : sale[s].items[p] > 0)
                        \/ (\E i \in ItemId : item[i].order # None /\ ProductOf(i) = p)}

StoreNext ==
    \/ SalesNext /\ UNCHANGED <<edit, ordersVars>>
    \/ ProductsNext(Referenced) /\ UNCHANGED <<salesVars, ordersVars>>
    \/ OrdersNext /\ UNCHANGED <<salesVars, edit>>

-----------------------------------------------------------------------------
(* Waiting across services *)

StoreWaitsFor(r, q) ==
    \/ r \in Voiders /\ VoidWaitsFor(r, q)
    \/ r \in Clerks /\ ClerkWaitsFor(r, q)

InDeadlock(r) == OnCycle(r, Voiders \cup Clerks, StoreWaitsFor)

\* The deadlock detector's victim may belong to either service.
BreakStoreDeadlock ==
    \/ \E v \in Voiders : InDeadlock(v) /\ AbortVoid(v) /\ UNCHANGED <<edit, ordersVars>>
    \/ \E c \in Clerks : InDeadlock(c) /\ AbortClerk(c) /\ UNCHANGED <<salesVars, edit>>

StoreFairness ==
    /\ \A c \in Cashiers :
          WF_storeVars(CheckoutStep(c) /\ UNCHANGED <<edit, ordersVars>>)
    /\ \A v \in Voiders : WF_storeVars(VoidStep(v) /\ UNCHANGED <<edit, ordersVars>>)
    /\ \A e \in Editors : WF_storeVars(EditStep(e) /\ UNCHANGED <<salesVars, ordersVars>>)
    /\ \A c \in Clerks : WF_storeVars(ClerkStep(c) /\ UNCHANGED <<salesVars, edit>>)
    /\ WF_storeVars(BreakStoreDeadlock)

StoreSafetySpec == StoreInit /\ [][StoreNext]_storeVars

StoreSpec == StoreSafetySpec /\ StoreFairness

-----------------------------------------------------------------------------
(* Properties *)

\* 'An update that omits stock rewrites the same value back': an edit whose
\* payload has no stock, and that does not stop the product being tracked, leaves
\* the units on hand alone, also when sales and receipts run beside it.
EditWithoutStockKeepsStock ==
    [][\A e \in Editors :
          /\ edit[e].pc = "read" /\ edit'[e].pc = "written"
          /\ edit[e].dto.stock = Omitted /\ TracksStock(Effective(e))
          => product'[edit[e].product].stock = product[edit[e].product].stock]_storeVars

\* 'Cancelling a service sale neither restores nor creates stock': a sale returns
\* to stock nothing it did not take out, also when the product was converted
\* between the sale and its cancellation.
NothingReturnedThatWasNotSold == \A s \in Cashiers : Returned(s) \subseteq TakenOut(s)

\* Every request the server took up is answered, though voids and receipts lock
\* the same product rows in whatever order their lines come.
EveryStoreRequestIsAnswered ==
    /\ \A c \in Cashiers : checkout[c].pc # "idle" ~> checkout[c].pc \in Answered
    /\ \A v \in Voiders : void[v].pc # "idle" ~> void[v].pc \in Answered
    /\ \A e \in Editors : edit[e].pc # "idle" ~> edit[e].pc \in Answered \cup {"lost"}
    /\ \A c \in Clerks : clerk[c].pc # "idle" ~> clerk[c].pc \in Answered
=============================================================================
