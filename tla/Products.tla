------------------------------- MODULE Products -------------------------------
(***************************************************************************)
(* ProductsService.create, update, deactivate, reactivate and remove over  *)
(* the shared inventory.                                                   *)
(*                                                                         *)
(* A create or an update is a series of statements that each commit on     *)
(* their own: the row is written first, under the version the request      *)
(* read, and its kardex movement afterwards, so that the request may stop  *)
(* between the two.                                                        *)
(***************************************************************************)
EXTENDS Inventory

CONSTANTS
    Editors,        \* create and update requests
    MaxStock,       \* bound: the stock a payload may ask for
    Omitted         \* a field the payload does not carry

ASSUME ProductsAssumption ==
    /\ Editors \subseteq Requests
    /\ MaxStock \in Nat
    /\ Omitted \notin Int \cup ProductType \cup BOOLEAN

VARIABLE edit       \* local state of the create and update requests

Payload ==
    [stock: 0..MaxStock \cup {Omitted}, type: ProductType \cup {Omitted},
     tracksStock: BOOLEAN \cup {Omitted}]

\* A create payload must carry the stock.
CreatePayload == {dto \in Payload : dto.stock # Omitted}

NoPayload == [stock |-> Omitted, type |-> Omitted, tracksStock |-> Omitted]

Edit ==
    [pc: {"idle", "read", "written", "logging", "lost", "done", "refused"},
     product: Products \cup {None}, dto: Payload, seen: ProductRow,
     owed: Seq(Movement)]

ProductsTypeOK ==
    /\ InventoryTypeOK
    /\ edit \in [Editors -> Edit]

AbsentRow == OpeningRow("absent")

ProductsInit ==
    edit = [e \in Editors |-> [pc |-> "idle", product |-> None, dto |-> NoPayload,
                               seen |-> AbsentRow, owed |-> <<>>]]

ValueOr(field, default) == IF field = Omitted THEN default ELSE field

-----------------------------------------------------------------------------
(* ProductsService.create *)

\* The type and flag a payload resolves to: a service is never tracked, and an
\* absent flag means whatever the default is.
Resolved(dto, default) ==
    LET type == ValueOr(dto.type, default.type)
    IN  [type |-> type,
         tracksStock |-> IF type = "SERVICE" THEN FALSE
                         ELSE ValueOr(dto.tracksStock, default.tracksStock)]

\* The row is inserted in a statement of its own; a tracked product with stock
\* then owes the kardex its opening movement.
CreateProduct(e, p) ==
    /\ edit[e].pc = "idle" /\ product[p].state = "absent"
    /\ \E dto \in CreatePayload :
          LET item  == Resolved(dto, [type |-> "PRODUCT", tracksStock |-> TRUE])
              stock == NormalizeStock(item, dto.stock)
              owes  == HasInitialMovement(item, stock)
          IN  /\ product' = [product EXCEPT ![p] =
                    [state |-> "live", active |-> TRUE, type |-> item.type,
                     tracksStock |-> item.tracksStock, stock |-> stock, version |-> 0]]
              /\ edit' = [edit EXCEPT ![e].pc = IF owes THEN "logging" ELSE "done",
                    ![e].product = p, ![e].dto = dto,
                    ![e].owed = IF owes THEN <<MovementRow("PURCHASE", 0, stock, None)>>
                                        ELSE <<>>]
    /\ UNCHANGED <<kardex, lock>>

-----------------------------------------------------------------------------
(* ProductsService.update *)

\* The row is read, active ones only, and the payload validated against it.
OpenEdit(e, p) ==
    /\ edit[e].pc = "idle" /\ Active(p)
    /\ \E dto \in Payload :
          edit' = [edit EXCEPT ![e].pc = "read", ![e].product = p, ![e].dto = dto,
                               ![e].seen = product[p]]
    /\ UNCHANGED inventoryVars

\* Product not found.
RefuseEdit(e, p) ==
    /\ edit[e].pc = "idle" /\ ~Active(p)
    /\ edit' = [edit EXCEPT ![e].pc = "refused"]
    /\ UNCHANGED inventoryVars

\* The type and flag the row will have, and the stock that is always written:
\* the one of the payload, or the one that was read.
Effective(e) == Resolved(edit[e].dto, edit[e].seen)

\* Mutant: a conversion keeps the stock of the row.
NewStockNotNormalized(e) == ValueOr(edit[e].dto.stock, edit[e].seen.stock)

NewStock(e) == NormalizeStock(Effective(e), ValueOr(edit[e].dto.stock, edit[e].seen.stock))

\* Mutant: the update no longer names the version that was read.
StillCurrentByIdOnly(e) == Active(edit[e].product)

\* updateMany where id, version and active.
StillCurrent(e) ==
    /\ Active(edit[e].product)
    /\ product[edit[e].product].version = edit[e].seen.version

\* Mutant: only the resulting side decides whether the edit moved stock.
OwedByResultOnly(e) ==
    LET previous == edit[e].seen.stock
    IN  IF HasDeltaMovement(Effective(e), previous, NewStock(e))
        THEN <<MovementRow(DeltaMovementType(previous, NewStock(e)), previous, NewStock(e),
                           None)>>
        ELSE <<>>

\* The adjustment the edit owes the kardex: the product counts as tracked if it
\* was before or is afterwards.
Owed(e) ==
    LET previous == edit[e].seen.stock
        basis    == IF TracksStock(edit[e].seen) THEN edit[e].seen ELSE Effective(e)
    IN  IF HasDeltaMovement(basis, previous, NewStock(e))
        THEN <<MovementRow(DeltaMovementType(previous, NewStock(e)), previous, NewStock(e),
                           None)>>
        ELSE <<>>

WriteProduct(e) ==
    /\ edit[e].pc = "read" /\ Unlocked(edit[e].product) /\ StillCurrent(e)
    /\ product' = [product EXCEPT ![edit[e].product] =
          [product[edit[e].product] EXCEPT
             !.stock = NewStock(e), !.type = Effective(e).type,
             !.tracksStock = Effective(e).tracksStock, !.version = @ + 1]]
    /\ edit' = [edit EXCEPT ![e].pc = "written", ![e].owed = Owed(e)]
    /\ UNCHANGED <<kardex, lock>>

\* 'Product was modified by another user'.
ConflictEdit(e) ==
    /\ edit[e].pc = "read" /\ Unlocked(edit[e].product) /\ ~StillCurrent(e)
    /\ edit' = [edit EXCEPT ![e].pc = "refused"]
    /\ UNCHANGED inventoryVars

\* The row is read back, active ones only, before the movement is decided: an
\* edit of a product deactivated meanwhile ends here, its movement never written.
ReadBack(e) ==
    /\ edit[e].pc = "written"
    /\ edit' = [edit EXCEPT ![e].pc =
          IF ~Active(edit[e].product) THEN "lost"
          ELSE IF edit[e].owed = <<>> THEN "done" ELSE "logging"]
    /\ UNCHANGED inventoryVars

\* createInventoryMovement, of a create or an update; the foreign key refuses the
\* movement of a product deleted meanwhile.
LogMovement(e) ==
    /\ edit[e].pc = "logging"
    /\ IF Exists(edit[e].product)
       THEN /\ kardex' = [kardex EXCEPT ![edit[e].product] = @ \o edit[e].owed]
            /\ edit' = [edit EXCEPT ![e].pc = "done"]
       ELSE /\ edit' = [edit EXCEPT ![e].pc = "lost"]
            /\ UNCHANGED kardex
    /\ UNCHANGED <<product, lock>>

\* A crash, a lost connection or a failed statement ends the request where it is.
StopEdit(e) ==
    /\ edit[e].pc \in {"read", "written", "logging"}
    /\ edit' = [edit EXCEPT ![e].pc = IF @ = "read" THEN "refused" ELSE "lost"]
    /\ UNCHANGED inventoryVars

-----------------------------------------------------------------------------
(* ProductsService.deactivate, reactivate and remove.  Each reads the row and  *)
(* then writes by id; the write depends on nothing that was read, so that the  *)
(* step is the write.                                                          *)

Deactivate(p) ==
    /\ Active(p) /\ Unlocked(p)
    /\ product' = [product EXCEPT ![p].active = FALSE]
    /\ UNCHANGED <<kardex, lock, edit>>

Reactivate(p) ==
    /\ Exists(p) /\ ~product[p].active /\ Unlocked(p)
    /\ product' = [product EXCEPT ![p].active = TRUE]
    /\ UNCHANGED <<kardex, lock, edit>>

\* The foreign keys of movements, sale items and order items refuse the deletion
\* (P2003); referenced are the products the other services' items name.
Remove(p, referenced) ==
    /\ Exists(p) /\ Unlocked(p)
    /\ kardex[p] = <<>> /\ p \notin referenced
    /\ product' = [product EXCEPT ![p].state = "deleted", ![p].active = FALSE, ![p].stock = 0]
    /\ UNCHANGED <<kardex, lock, edit>>

EditStep(e) == WriteProduct(e) \/ ConflictEdit(e) \/ ReadBack(e) \/ LogMovement(e)

ProductsNext(referenced) ==
    \/ \E e \in Editors :
          \/ \E p \in Products : CreateProduct(e, p) \/ OpenEdit(e, p) \/ RefuseEdit(e, p)
          \/ EditStep(e)
          \/ StopEdit(e)
    \/ \E p \in Products : Deactivate(p) \/ Reactivate(p) \/ Remove(p, referenced)

ProductsVars == <<inventoryVars, edit>>

ProductsAloneInit == InventoryInit /\ ProductsInit

ProductsSpec == ProductsAloneInit /\ [][ProductsNext({})]_ProductsVars

-----------------------------------------------------------------------------
(* Properties *)

\* Requests that wrote the row of p and have not, or will never, log the movement.
Unlogged(p) == {e \in Editors : edit[e].product = p /\ edit[e].pc \in {"written", "logging", "lost"}}

OwedUnits == [e \in Editors |-> IF edit[e].owed = <<>> THEN 0 ELSE edit[e].owed[1].quantity]

\* The kardex lags the stock by the movements of the edits that wrote the row and
\* have not logged it, those that never will included, and by nothing else: the
\* version guard keeps two edits computed from the same row from both counting.
KardexLagsByUnlogged ==
    \A p \in Products : Exists(p) =>
        product[p].stock = KardexSum(p) + SumFunctionOnSet(OwedUnits, Unlogged(p))

\* 'Stored stock is meaningless for anything untracked, so it is normalised to
\* zero', and a service is never tracked: whatever edits and conversions race.
UntrackedHoldsNoStock ==
    \A p \in Products :
        /\ ~TracksStock(product[p]) => product[p].stock = 0
        /\ product[p].type = "SERVICE" => ~product[p].tracksStock

\* 'The second user gets an error': an edit that is stored was computed from the
\* stock, type and flag the row still had.
NoEditIsOverwritten ==
    [][\A e \in Editors : edit[e].pc = "read" /\ edit'[e].pc = "written" =>
          LET row == product[edit[e].product] IN
          /\ row.stock = edit[e].seen.stock
          /\ row.type = edit[e].seen.type
          /\ row.tracksStock = edit[e].seen.tracksStock]_ProductsVars
=============================================================================
