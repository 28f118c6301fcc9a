---------------------------- MODULE ProductsProofs ----------------------------
(* What holds of Products for any number of products, requests and units. *)
EXTENDS Products, InventoryProofs

-----------------------------------------------------------------------------
(* What a payload resolves to *)

\* A payload over a well-typed default resolves to a type and a flag, and never
\* to a tracked service.
LEMMA ResolvedType ==
    ASSUME NEW dto \in Payload, NEW default,
           default.type \in ProductType, default.tracksStock \in BOOLEAN
    PROVE  /\ Resolved(dto, default).type \in ProductType
           /\ Resolved(dto, default).tracksStock \in BOOLEAN
           /\ Resolved(dto, default).type = "SERVICE" => ~Resolved(dto, default).tracksStock
  <1> DEFINE type == ValueOr(dto.type, default.type)
             flag == ValueOr(dto.tracksStock, default.tracksStock)
  <1>1. type \in ProductType
    BY DEF Payload, ValueOr
  <1>2. flag \in BOOLEAN
    BY DEF Payload, ValueOr
  <1>3. Resolved(dto, default) =
          [type |-> type, tracksStock |-> IF type = "SERVICE" THEN FALSE ELSE flag]
    BY DEF Resolved
  <1> HIDE DEF type, flag
  <1>4. CASE type = "SERVICE"
    BY <1>1, <1>3, <1>4
  <1>5. CASE type # "SERVICE"
    BY <1>1, <1>2, <1>3, <1>5
  <1> QED BY <1>4, <1>5

\* The stock a payload asks for is a natural number.
LEMMA PayloadStock ==
    ASSUME NEW dto \in Payload, dto.stock # Omitted
    PROVE  dto.stock \in Nat
  BY ProductsAssumption DEF Payload

\* What is not tracked is stored with no stock.
LEMMA Normalized ==
    ASSUME NEW row, NEW stock \in Int
    PROVE  /\ NormalizeStock(row, stock) \in {0, stock}
           /\ ~TracksStock(row) => NormalizeStock(row, stock) = 0
  BY DEF NormalizeStock

\* The stock an update stores.
LEMMA NewStockType ==
    ASSUME ProductsTypeOK, NEW e \in Editors
    PROVE  /\ NewStock(e) \in Int
           /\ ~TracksStock(Effective(e)) => NewStock(e) = 0
           /\ edit[e].seen.stock >= 0 => NewStock(e) >= 0
  <1> DEFINE asked == ValueOr(edit[e].dto.stock, edit[e].seen.stock)
  <1>1. edit[e].dto \in Payload /\ edit[e].seen.stock \in Int
    BY DEF ProductsTypeOK, Edit, ProductRow
  <1>2. asked \in Int /\ (edit[e].seen.stock >= 0 => asked >= 0)
    BY <1>1, PayloadStock DEF ValueOr
  <1> HIDE DEF asked
  <1>3. NewStock(e) = NormalizeStock(Effective(e), asked)
    BY DEF NewStock, asked
  <1> QED BY <1>2, <1>3, Normalized

\* The type and flag an update stores.
LEMMA EffectiveType ==
    ASSUME ProductsTypeOK, NEW e \in Editors
    PROVE  /\ Effective(e).type \in ProductType
           /\ Effective(e).tracksStock \in BOOLEAN
           /\ Effective(e).type = "SERVICE" => ~Effective(e).tracksStock
  <1>1. /\ edit[e].dto \in Payload
        /\ edit[e].seen.type \in ProductType /\ edit[e].seen.tracksStock \in BOOLEAN
    BY DEF ProductsTypeOK, Edit, ProductRow
  <1> QED BY <1>1, ResolvedType DEF Effective

\* The adjustment an update owes is a list of kardex rows.
LEMMA OwedType ==
    ASSUME ProductsTypeOK, NEW e \in Editors
    PROVE  Owed(e) \in Seq(Movement)
  <1> DEFINE previous == edit[e].seen.stock
             adjustment == MovementRow(DeltaMovementType(previous, NewStock(e)), previous,
                                       NewStock(e), None)
  <1>1. previous \in Int
    BY DEF ProductsTypeOK, Edit, ProductRow
  <1>2. adjustment \in Movement
    BY <1>1, NewStockType, MovementRowType DEF DeltaMovementType, MovementType
  <1>3. Owed(e) = <<adjustment>> \/ Owed(e) = <<>>
    BY DEF Owed
  <1> HIDE DEF adjustment
  <1>4. <<adjustment>> \in Seq(Movement) /\ <<>> \in Seq(Movement)
    BY <1>2
  <1> QED BY <1>3, <1>4

-----------------------------------------------------------------------------
(* What each action does to the two tables *)

\* A row no service writes: whatever is not tracked holds no stock, and a service
\* is never tracked.
SoundRow(row) ==
    /\ ~TracksStock(row) => row.stock = 0
    /\ row.type = "SERVICE" => ~row.tracksStock

\* create inserts a sound row with stock in Nat.
LEMMA CreateEffect ==
    ASSUME ProductsTypeOK, NEW e \in Editors, NEW p \in Products, CreateProduct(e, p)
    PROVE  \E row \in ProductRow, local \in Edit :
              /\ product' = [product EXCEPT ![p] = row] /\ edit' = [edit EXCEPT ![e] = local]
              /\ SoundRow(row) /\ row.stock \in Nat /\ row.state = "live"
              /\ local.pc \in {"logging", "done"} /\ local.seen = edit[e].seen
              /\ local.product = p
              /\ \/ local.pc = "done" /\ local.owed = <<>> /\ row.stock = 0
                 \/ /\ local.pc = "logging"
                    /\ \E m \in Movement : local.owed = <<m>> /\ m.quantity = row.stock
  <1>1. PICK dto \in CreatePayload :
          LET item  == Resolved(dto, [type |-> "PRODUCT", tracksStock |-> TRUE])
              stock == NormalizeStock(item, dto.stock)
              owes  == HasInitialMovement(item, stock)
          IN  /\ product' = [product EXCEPT ![p] =
                    [state |-> "live", active |-> TRUE, type |-> item.type,
                     tracksStock |-> item.tracksStock, stock |-> stock, version |-> 0]]
              /\ edit' = [edit EXCEPT ![e].pc = IF owes THEN "logging" ELSE "done",
                    ![e].product = p, ![e].dto = dto,
                    ![e].owed = IF owes THEN <<MovementRow("PURCHASE", 0, stock, None)>>
                                        ELSE <<>>]
    BY DEF CreateProduct
  <1> DEFINE default == [type |-> "PRODUCT", tracksStock |-> TRUE]
             item == Resolved(dto, default)
             stock == NormalizeStock(item, dto.stock)
             owes == HasInitialMovement(item, stock)
             row == [state |-> "live", active |-> TRUE, type |-> item.type,
                     tracksStock |-> item.tracksStock, stock |-> stock, version |-> 0]
             pc == IF owes THEN "logging" ELSE "done"
             owed == IF owes THEN <<MovementRow("PURCHASE", 0, stock, None)>> ELSE <<>>
             local == [edit[e] EXCEPT !.pc = pc, !.product = p, !.dto = dto, !.owed = owed]
  <1>2. /\ item.type \in ProductType /\ item.tracksStock \in BOOLEAN
        /\ item.type = "SERVICE" => ~item.tracksStock
    <2>1. default.type \in ProductType /\ default.tracksStock \in BOOLEAN /\ dto \in Payload
      BY DEF ProductType, CreatePayload
    <2> HIDE DEF default
    <2> QED BY <2>1, ResolvedType
  <1>3. stock \in Nat /\ (~TracksStock(item) => stock = 0)
    <2>1. dto.stock \in Nat
      BY PayloadStock DEF CreatePayload
    <2> HIDE DEF item
    <2> QED BY <2>1, Normalized, NormalizeStockNat
  <1>4. owed \in Seq(Movement)
    <2> HIDE DEF stock, owes
    <2>1. MovementRow("PURCHASE", 0, stock, None) \in Movement
      BY <1>3, MovementRowType DEF MovementType
    <2> QED BY <2>1
  <1>5. product' = [product EXCEPT ![p] = row] /\ edit' = [edit EXCEPT ![e] = local]
    <2>1. edit \in [Editors -> Edit]
      BY DEF ProductsTypeOK
    <2> QED BY <1>1, <2>1
  <1>9. \/ ~owes /\ stock = 0 /\ pc = "done" /\ owed = <<>>
        \/ owes /\ pc = "logging" /\ \E m \in Movement : owed = <<m>> /\ m.quantity = stock
    <2> DEFINE m == MovementRow("PURCHASE", 0, stock, None)
    <2> HIDE DEF item, stock
    <2>1. m \in Movement /\ m.quantity = stock
      BY <1>3, MovementRowType DEF MovementType, MovementRow
    <2>2. CASE owes
      BY <2>1, <2>2
    <2>3. CASE ~owes
      <3>1. stock = 0
        BY <1>3, <2>3 DEF HasInitialMovement
      <3> QED BY <2>3, <3>1
    <2> QED BY <2>2, <2>3
  <1> HIDE DEF item, stock, owes, owed
  <1>6. row \in ProductRow /\ SoundRow(row) /\ row.stock \in Nat /\ row.state = "live"
           /\ row.stock = stock
    <2>1. row \in ProductRow
      BY <1>2, <1>3 DEF ProductRow
    <2>2. TracksStock(row) = TracksStock(item)
      BY DEF TracksStock
    <2> QED BY <1>2, <1>3, <2>1, <2>2 DEF SoundRow
  <1>7. pc \in {"logging", "done"}
    OBVIOUS
  <1> HIDE DEF row, pc
  <1>8. /\ local \in Edit /\ local.pc = pc /\ local.seen = edit[e].seen
        /\ local.product = p /\ local.owed = owed
    BY <1>4, <1>7 DEF ProductsTypeOK, Edit, CreatePayload
  <1> HIDE DEF local
  <1> QED BY <1>5, <1>6, <1>7, <1>8, <1>9

\* An edit that opens holds the row as it is.
LEMMA OpenEffect ==
    ASSUME ProductsTypeOK, NEW e \in Editors, NEW p \in Products, OpenEdit(e, p)
    PROVE  \E local \in Edit :
              /\ edit' = [edit EXCEPT ![e] = local]
              /\ local.pc = "read" /\ local.product = p /\ local.seen = product[p]
  <1>1. PICK dto \in Payload :
          edit' = [edit EXCEPT ![e].pc = "read", ![e].product = p, ![e].dto = dto,
                               ![e].seen = product[p]]
    BY DEF OpenEdit
  <1> DEFINE local == [edit[e] EXCEPT !.pc = "read", !.product = p, !.dto = dto,
                                      !.seen = product[p]]
  <1>2. edit[e] \in Edit /\ edit \in [Editors -> Edit] /\ product[p] \in ProductRow
    BY DEF ProductsTypeOK, InventoryTypeOK
  <1>3. edit' = [edit EXCEPT ![e] = local]
    BY <1>1, <1>2
  <1>4. local \in Edit /\ local.pc = "read" /\ local.product = p /\ local.seen = product[p]
    BY <1>2 DEF Edit
  <1> HIDE DEF local
  <1> QED BY <1>3, <1>4

\* The guarded update stores a sound row, one version later.
LEMMA WriteEffect ==
    ASSUME ProductsTypeOK, NEW e \in Editors, WriteProduct(e), edit[e].product \in Products
    PROVE  \E row \in ProductRow, local \in Edit :
              /\ product' = [product EXCEPT ![edit[e].product] = row]
              /\ edit' = [edit EXCEPT ![e] = local]
              /\ SoundRow(row) /\ (edit[e].seen.stock >= 0 => row.stock >= 0)
              /\ row.state = product[edit[e].product].state
              /\ row.version = product[edit[e].product].version + 1
              /\ local.pc = "written" /\ local.seen = edit[e].seen
              /\ row.stock = NewStock(e)
              /\ local.product = edit[e].product /\ local.owed = Owed(e)
  <1> DEFINE p == edit[e].product
             row == [product[p] EXCEPT !.stock = NewStock(e), !.type = Effective(e).type,
                        !.tracksStock = Effective(e).tracksStock,
                        !.version = product[p].version + 1]
             local == [edit[e] EXCEPT !.pc = "written", !.owed = Owed(e)]
  <1>1. /\ product[p] \in ProductRow /\ edit[e] \in Edit
        /\ product \in [Products -> ProductRow] /\ edit \in [Editors -> Edit]
    BY DEF ProductsTypeOK, InventoryTypeOK
  <1>2. product' = [product EXCEPT ![p] = row] /\ edit' = [edit EXCEPT ![e] = local]
    <2>1. row = [product[p] EXCEPT !.stock = NewStock(e), !.type = Effective(e).type,
                   !.tracksStock = Effective(e).tracksStock, !.version = @ + 1]
      BY <1>1 DEF ProductRow
    <2> HIDE DEF row
    <2> QED BY <1>1, <2>1 DEF WriteProduct
  <1>3. row \in ProductRow
    <2>1. NewStock(e) \in Int
      BY NewStockType
    <2>2. Effective(e).type \in ProductType /\ Effective(e).tracksStock \in BOOLEAN
      BY EffectiveType
    <2>3. product[p].version + 1 \in Nat
      BY <1>1 DEF ProductRow
    <2> HIDE DEF p
    <2> QED BY <1>1, <2>1, <2>2, <2>3 DEF ProductRow
  <1>4. /\ row.stock = NewStock(e) /\ row.type = Effective(e).type
        /\ row.tracksStock = Effective(e).tracksStock
        /\ row.state = product[p].state /\ row.version = product[p].version + 1
    BY <1>1 DEF ProductRow
  <1>5. /\ local \in Edit /\ local.pc = "written" /\ local.seen = edit[e].seen
        /\ local.product = p /\ local.owed = Owed(e)
    BY <1>1, OwedType DEF Edit
  <1> HIDE DEF row, local
  <1>6. SoundRow(row)
    <2>1. TracksStock(row) = TracksStock(Effective(e))
      BY <1>4 DEF TracksStock
    <2> QED BY <1>4, <2>1, NewStockType, EffectiveType DEF SoundRow
  <1>7. edit[e].seen.stock >= 0 => row.stock >= 0
    BY <1>4, NewStockType
  <1> QED BY <1>2, <1>3, <1>4, <1>5, <1>6, <1>7

\* The steps of a request that write no product row leave it past its read.
LEMMA OtherEffect ==
    ASSUME ProductsTypeOK, NEW e \in Editors,
           \/ \E p \in Products : RefuseEdit(e, p)
           \/ ConflictEdit(e) \/ ReadBack(e) \/ LogMovement(e) \/ StopEdit(e)
    PROVE  /\ product' = product
           /\ \E pc \in {"logging", "lost", "done", "refused"} :
                 edit' = [edit EXCEPT ![e].pc = pc]
  <1>1. CASE \E p \in Products : RefuseEdit(e, p)
    BY <1>1 DEF RefuseEdit, inventoryVars
  <1>2. CASE ConflictEdit(e)
    BY <1>2 DEF ConflictEdit, inventoryVars
  <1>3. CASE ReadBack(e)
    BY <1>3 DEF ReadBack, inventoryVars
  <1>4. CASE LogMovement(e)
    BY <1>4 DEF LogMovement
  <1>5. CASE StopEdit(e)
    BY <1>5 DEF StopEdit, inventoryVars
  <1> QED BY <1>1, <1>2, <1>3, <1>4, <1>5

\* A request that moves its program counter keeps the rest of its local state.
LEMMA PcEffect ==
    ASSUME ProductsTypeOK, NEW e \in Editors, NEW pc \in {"logging", "lost", "done", "refused"},
           edit' = [edit EXCEPT ![e].pc = pc]
    PROVE  \E local \in Edit :
              /\ edit' = [edit EXCEPT ![e] = local] /\ local.pc = pc /\ local.seen = edit[e].seen
              /\ local.product = edit[e].product /\ local.owed = edit[e].owed
  <1> DEFINE local == [edit[e] EXCEPT !.pc = pc]
  <1>1. edit[e] \in Edit /\ edit \in [Editors -> Edit]
    BY DEF ProductsTypeOK
  <1>2. /\ local \in Edit /\ local.pc = pc /\ local.seen = edit[e].seen
        /\ local.product = edit[e].product /\ local.owed = edit[e].owed
    BY <1>1 DEF Edit
  <1>3. edit' = [edit EXCEPT ![e] = local]
    BY <1>1
  <1> HIDE DEF local
  <1> QED BY <1>2, <1>3

\* deactivate, reactivate and remove keep the rows well formed, keep what makes
\* them sound, and touch nothing else.
LEMMA AdminEffect ==
    ASSUME ProductsTypeOK, NEW p \in Products, NEW referenced,
           Deactivate(p) \/ Reactivate(p) \/ Remove(p, referenced)
    PROVE  /\ UNCHANGED <<kardex, lock, edit>>
           /\ \E row \in ProductRow :
                /\ product' = [product EXCEPT ![p] = row]
                /\ row.version = product[p].version /\ row.state # "absent"
                /\ row.type = product[p].type /\ row.tracksStock = product[p].tracksStock
                /\ row.stock \in {product[p].stock, 0}
                /\ row.state = "live" => row.stock = product[p].stock /\ product[p].state = "live"
  <1> DEFINE off  == [product[p] EXCEPT !.active = FALSE]
             on   == [product[p] EXCEPT !.active = TRUE]
             gone == [product[p] EXCEPT !.state = "deleted", !.active = FALSE, !.stock = 0]
  <1>1. product[p] \in ProductRow /\ product \in [Products -> ProductRow]
    BY DEF ProductsTypeOK, InventoryTypeOK
  <1>2. CASE Deactivate(p)
    <2>1. product' = [product EXCEPT ![p] = off] /\ product[p].state = "live"
      BY <1>1, <1>2 DEF Deactivate, Active, Exists
    <2>2. /\ off \in ProductRow /\ off.version = product[p].version
          /\ off.type = product[p].type /\ off.tracksStock = product[p].tracksStock
          /\ off.stock = product[p].stock /\ off.state = product[p].state
      BY <1>1 DEF ProductRow
    <2> HIDE DEF off
    <2> QED BY <1>2, <2>1, <2>2 DEF Deactivate
  <1>3. CASE Reactivate(p)
    <2>1. product' = [product EXCEPT ![p] = on] /\ product[p].state = "live"
      BY <1>1, <1>3 DEF Reactivate, Exists
    <2>2. /\ on \in ProductRow /\ on.version = product[p].version
          /\ on.type = product[p].type /\ on.tracksStock = product[p].tracksStock
          /\ on.stock = product[p].stock /\ on.state = product[p].state
      BY <1>1 DEF ProductRow
    <2> HIDE DEF on
    <2> QED BY <1>3, <2>1, <2>2 DEF Reactivate
  <1>4. CASE Remove(p, referenced)
    <2>1. product' = [product EXCEPT ![p] = gone]
      BY <1>1, <1>4 DEF Remove
    <2>2. /\ gone.version = product[p].version /\ gone.type = product[p].type
          /\ gone.tracksStock = product[p].tracksStock
          /\ gone.stock = 0 /\ gone.state = "deleted"
      BY <1>1 DEF ProductRow
    <2>3. gone \in ProductRow
      <3> DEFINE marked == [product[p] EXCEPT !.state = "deleted", !.active = FALSE]
      <3>1. marked \in ProductRow
        BY <1>1 DEF ProductRow
      <3>2. gone = [marked EXCEPT !.stock = 0]
        OBVIOUS
      <3> HIDE DEF marked, gone
      <3> QED BY <3>1, <3>2, StockSetType
    <2> HIDE DEF gone
    <2> QED BY <1>4, <2>1, <2>2, <2>3 DEF Remove
  <1> QED BY <1>2, <1>3, <1>4

-----------------------------------------------------------------------------
(* Type correctness *)

\* An edit that has read its row names a product.
EditsNameProducts == \A e \in Editors : edit[e].pc = "read" => edit[e].product \in Products

ProductsTypeInv == ProductsTypeOK /\ EditsNameProducts

\* A step whose writes are rows and local states keeps the tables well formed.
LEMMA WritesKeepType ==
    ASSUME ProductsTypeInv, NEW e \in Editors, NEW p \in Products,
           NEW row \in ProductRow, NEW local \in Edit,
           product' = product \/ product' = [product EXCEPT ![p] = row],
           edit' = [edit EXCEPT ![e] = local],
           local.pc = "read" => local.product \in Products,
           UNCHANGED <<kardex, lock>>
    PROVE  ProductsTypeInv'
  <1> USE DEF ProductsTypeInv, ProductsTypeOK, InventoryTypeOK
  <1>1. product' \in [Products -> ProductRow]
    OBVIOUS
  <1>2. edit' \in [Editors -> Edit]
    OBVIOUS
  <1>3. EditsNameProducts'
    BY DEF EditsNameProducts
  <1> QED BY <1>1, <1>2, <1>3

\* The rows and the local states of a behaviour's first state are well formed.
LEMMA ProductsInitType ==
    ASSUME InventoryInit, ProductsInit
    PROVE  ProductsTypeInv
  <1> DEFINE local == [pc |-> "idle", product |-> None, dto |-> NoPayload,
                       seen |-> AbsentRow, owed |-> <<>>]
  <1>1. AbsentRow \in ProductRow
    BY OpeningRowType DEF AbsentRow
  <1>2. NoPayload \in Payload
    BY DEF NoPayload, Payload
  <1>3. local \in Edit /\ local.pc = "idle"
    <2>1. <<>> \in Seq(Movement)
      OBVIOUS
    <2> QED BY <1>1, <1>2, <2>1 DEF Edit
  <1>4. edit = [e \in Editors |-> local]
    BY DEF ProductsInit
  <1> HIDE DEF local
  <1> QED BY <1>3, <1>4, InventoryInitType DEF ProductsTypeInv, ProductsTypeOK, EditsNameProducts

\* Every step keeps the tables well formed, whatever the other tables refer to.
LEMMA ProductsStepType ==
    ASSUME ProductsTypeInv, NEW referenced, ProductsNext(referenced)
    PROVE  ProductsTypeInv'
  <1> USE DEF ProductsTypeInv
  <1>1. ASSUME NEW e \in Editors, NEW p \in Products, CreateProduct(e, p)
        PROVE  ProductsTypeInv'
    <2>1. UNCHANGED <<kardex, lock>>
      BY <1>1 DEF CreateProduct
    <2> QED BY <1>1, <2>1, CreateEffect, WritesKeepType
  <1>2. ASSUME NEW e \in Editors, NEW p \in Products, OpenEdit(e, p)
        PROVE  ProductsTypeInv'
    <2>1. UNCHANGED <<product, kardex, lock>> /\ product[p] \in ProductRow
      BY <1>2 DEF OpenEdit, inventoryVars, ProductsTypeOK, InventoryTypeOK
    <2> QED BY <1>2, <2>1, OpenEffect, WritesKeepType
  <1>3. ASSUME NEW e \in Editors, WriteProduct(e)
        PROVE  ProductsTypeInv'
    <2>1. UNCHANGED <<kardex, lock>> /\ edit[e].product \in Products
      BY <1>3 DEF WriteProduct, EditsNameProducts
    <2> QED BY <1>3, <2>1, WriteEffect, WritesKeepType
  <1>4. ASSUME NEW e \in Editors,
               \/ \E p \in Products : RefuseEdit(e, p)
               \/ ConflictEdit(e) \/ ReadBack(e) \/ LogMovement(e) \/ StopEdit(e)
        PROVE  ProductsTypeInv'
    <2>1. PICK local \in Edit :
             edit' = [edit EXCEPT ![e] = local] /\ local.pc # "read"
      BY <1>4, OtherEffect, PcEffect
    <2>2. product' = product
      BY <1>4, OtherEffect
    <2>3. edit' \in [Editors -> Edit] /\ EditsNameProducts'
      BY <2>1 DEF ProductsTypeOK, EditsNameProducts
    <2>4. kardex' \in [Products -> Seq(Movement)] /\ lock' = lock
      <3>1. edit[e].owed \in Seq(Movement) /\ kardex \in [Products -> Seq(Movement)]
        BY DEF ProductsTypeOK, InventoryTypeOK, Edit
      <3>2. CASE LogMovement(e)
        <4>1. lock' = lock
          BY <3>2 DEF LogMovement
        <4>2. \/ kardex' = [kardex EXCEPT ![edit[e].product] = @ \o edit[e].owed]
              \/ kardex' = kardex
          BY <3>2 DEF LogMovement
        <4>3. \A rows \in Seq(Movement) : rows \o edit[e].owed \in Seq(Movement)
          BY <3>1
        <4> QED BY <3>1, <4>1, <4>2, <4>3
      <3>3. CASE ~LogMovement(e)
        BY <1>4, <3>1, <3>3 DEF RefuseEdit, ConflictEdit, ReadBack, StopEdit, inventoryVars
      <3> QED BY <3>2, <3>3
    <2> QED BY <2>2, <2>3, <2>4 DEF ProductsTypeOK, InventoryTypeOK
  <1>5. ASSUME NEW p \in Products, Deactivate(p) \/ Reactivate(p) \/ Remove(p, referenced)
        PROVE  ProductsTypeInv'
    BY <1>5, AdminEffect DEF ProductsTypeOK, InventoryTypeOK, EditsNameProducts
  <1> QED BY <1>1, <1>2, <1>3, <1>4, <1>5 DEF ProductsNext, EditStep

\* Steps of other services that leave the edits alone keep their local states.
LEMMA ProductsStutterType ==
    ASSUME ProductsTypeInv, InventoryTypeOK', UNCHANGED edit
    PROVE  ProductsTypeInv'
  BY DEF ProductsTypeInv, ProductsTypeOK, EditsNameProducts

\* The product rows, the kardex, the locks and the edits are always well formed.
THEOREM ProductsTypeCorrect == ProductsSpec => []ProductsTypeOK
  <1>1. InventoryInit /\ ProductsInit => ProductsTypeInv
    BY ProductsInitType
  <1>2. ProductsTypeInv /\ [ProductsNext({})]_ProductsVars => ProductsTypeInv'
    <2> SUFFICES ASSUME ProductsTypeInv, [ProductsNext({})]_ProductsVars PROVE ProductsTypeInv'
      OBVIOUS
    <2>1. CASE ProductsNext({})
      BY <2>1, ProductsStepType
    <2>2. CASE UNCHANGED ProductsVars
      BY <2>2 DEF ProductsVars, inventoryVars, ProductsTypeInv, ProductsTypeOK,
                  InventoryTypeOK, EditsNameProducts
    <2> QED BY <2>1, <2>2
  <1>3. ProductsTypeInv => ProductsTypeOK
    BY DEF ProductsTypeInv
  <1> QED BY <1>1, <1>2, <1>3, PTL DEF ProductsSpec, ProductsAloneInit

-----------------------------------------------------------------------------
(* Untracked products hold no stock *)

\* The catalogue a behaviour starts with is sound.
LEMMA OpeningRowSound ==
    ASSUME NEW kind
    PROVE  SoundRow(OpeningRow(kind))
  <1> DEFINE item == [type |-> IF kind = "service" THEN "SERVICE" ELSE "PRODUCT",
                      tracksStock |-> kind = "tracked"]
             stock == NormalizeStock(item, OpeningStock)
             row == OpeningRow(kind)
  <1>1. /\ row.type = item.type /\ row.tracksStock = item.tracksStock
        /\ row.stock = stock
    BY DEF OpeningRow
  <1>2. (~TracksStock(item) => stock = 0) /\ (item.type = "SERVICE" => ~item.tracksStock)
    <2>1. item.type = "SERVICE" => ~item.tracksStock
      <3>1. item.type = "SERVICE" => kind = "service"
        OBVIOUS
      <3>2. kind = "service" => item.tracksStock = FALSE
        OBVIOUS
      <3> QED BY <3>1, <3>2
    <2>2. ~TracksStock(item) => stock = 0
      BY DEF NormalizeStock
    <2> QED BY <2>1, <2>2
  <1> HIDE DEF item, stock, row
  <1>3. TracksStock(row) = TracksStock(item)
    BY <1>1 DEF TracksStock
  <1> QED BY <1>1, <1>2, <1>3 DEF SoundRow, row

\* Every step leaves the rows sound.
LEMMA ProductsStepSound ==
    ASSUME ProductsTypeInv, UntrackedHoldsNoStock, NEW referenced, ProductsNext(referenced)
    PROVE  UntrackedHoldsNoStock'
  <1>0. product \in [Products -> ProductRow] /\ \A p \in Products : SoundRow(product[p])
    BY DEF ProductsTypeInv, ProductsTypeOK, InventoryTypeOK, UntrackedHoldsNoStock, SoundRow
  <1> SUFFICES ASSUME NEW q \in Products
               PROVE  SoundRow(product'[q])
    BY DEF UntrackedHoldsNoStock, SoundRow
  <1> USE DEF ProductsTypeInv
  <1>1. ASSUME NEW e \in Editors, NEW p \in Products, CreateProduct(e, p)
        PROVE  SoundRow(product'[q])
    BY <1>0, <1>1, CreateEffect
  <1>2. ASSUME NEW e \in Editors, NEW p \in Products, OpenEdit(e, p)
        PROVE  SoundRow(product'[q])
    <2>1. product' = product
      BY <1>2 DEF OpenEdit, inventoryVars
    <2> QED BY <1>0, <2>1
  <1>3. ASSUME NEW e \in Editors, WriteProduct(e)
        PROVE  SoundRow(product'[q])
    <2>1. edit[e].product \in Products
      BY <1>3 DEF WriteProduct, EditsNameProducts
    <2> QED BY <1>0, <1>3, <2>1, WriteEffect
  <1>4. ASSUME NEW e \in Editors,
               \/ \E p \in Products : RefuseEdit(e, p)
               \/ ConflictEdit(e) \/ ReadBack(e) \/ LogMovement(e) \/ StopEdit(e)
        PROVE  SoundRow(product'[q])
    <2>1. product' = product
      BY <1>4, OtherEffect
    <2> QED BY <1>0, <2>1
  <1>5. ASSUME NEW p \in Products, Deactivate(p) \/ Reactivate(p) \/ Remove(p, referenced)
        PROVE  SoundRow(product'[q])
    <2>1. PICK row \in ProductRow :
             /\ product' = [product EXCEPT ![p] = row]
             /\ row.type = product[p].type /\ row.tracksStock = product[p].tracksStock
             /\ row.stock \in {product[p].stock, 0}
      BY <1>5, AdminEffect
    <2>2. SoundRow(row)
      BY <1>0, <2>1 DEF SoundRow, TracksStock
    <2> QED BY <1>0, <2>1, <2>2
  <1> QED BY <1>1, <1>2, <1>3, <1>4, <1>5 DEF ProductsNext, EditStep

\* Whatever edits and conversions race, no stock stays behind in a product that
\* is not tracked, and no service is tracked.
THEOREM UntrackedNeverHoldsStock == ProductsSpec => []UntrackedHoldsNoStock
  <1> DEFINE Inv == ProductsTypeInv /\ UntrackedHoldsNoStock
  <1>1. InventoryInit /\ ProductsInit => Inv
    <2> SUFFICES ASSUME InventoryInit, ProductsInit PROVE UntrackedHoldsNoStock
      BY ProductsInitType
    <2>1. \A p \in Products : SoundRow(product[p])
      BY OpeningRowSound DEF InventoryInit
    <2> QED BY <2>1 DEF UntrackedHoldsNoStock, SoundRow
  <1>2. Inv /\ [ProductsNext({})]_ProductsVars => Inv'
    <2> SUFFICES ASSUME Inv, [ProductsNext({})]_ProductsVars PROVE Inv'
      OBVIOUS
    <2>1. CASE ProductsNext({})
      BY <2>1, ProductsStepType, ProductsStepSound
    <2>2. CASE UNCHANGED ProductsVars
      BY <2>2 DEF ProductsVars, inventoryVars, ProductsTypeInv, ProductsTypeOK,
                  InventoryTypeOK, EditsNameProducts, UntrackedHoldsNoStock
    <2> QED BY <2>1, <2>2
  <1> QED BY <1>1, <1>2, PTL DEF ProductsSpec, ProductsAloneInit

-----------------------------------------------------------------------------
(* No edit overwrites another *)

\* An edit read a version the row has had, and as long as the row still has that
\* version it still has the stock, the type and the flag that were read.
ReadIsCurrent(e) ==
    LET row == product[edit[e].product] IN
    /\ row.state # "absent" /\ edit[e].seen.version <= row.version
    /\ row.state = "live" /\ row.version = edit[e].seen.version =>
          /\ row.stock = edit[e].seen.stock
          /\ row.type = edit[e].seen.type
          /\ row.tracksStock = edit[e].seen.tracksStock

ReadsAreCurrent == \A e \in Editors : edit[e].pc = "read" => ReadIsCurrent(e)

\* Every step keeps what the version of a row says about the edits that read it.
LEMMA ProductsStepCurrent ==
    ASSUME ProductsTypeInv, ReadsAreCurrent, NEW referenced, ProductsNext(referenced)
    PROVE  ReadsAreCurrent'
  <1>0. /\ product \in [Products -> ProductRow] /\ edit \in [Editors -> Edit]
        /\ \A d \in Editors : edit[d].pc = "read" => edit[d].product \in Products
        /\ \A d \in Editors : edit[d].seen.version \in Nat
        /\ \A p \in Products : product[p].version \in Nat
    BY DEF ProductsTypeInv, ProductsTypeOK, InventoryTypeOK, EditsNameProducts, Edit, ProductRow
  <1> SUFFICES ASSUME NEW d \in Editors, edit'[d].pc = "read"
               PROVE  ReadIsCurrent(d)'
    BY DEF ReadsAreCurrent
  <1> USE DEF ProductsTypeInv
  <1>1. ASSUME NEW e \in Editors, NEW p \in Products, CreateProduct(e, p)
        PROVE  ReadIsCurrent(d)'
    <2>1. d # e /\ edit'[d] = edit[d]
      BY <1>0, <1>1, CreateEffect
    <2>2. ReadIsCurrent(d) /\ edit[d].product # p
      BY <2>1, <1>1 DEF ReadsAreCurrent, ReadIsCurrent, CreateProduct
    <2>3. product'[edit[d].product] = product[edit[d].product]
      BY <1>0, <1>1, <2>2, CreateEffect
    <2> QED BY <2>1, <2>2, <2>3 DEF ReadIsCurrent
  <1>2. ASSUME NEW e \in Editors, NEW p \in Products, OpenEdit(e, p)
        PROVE  ReadIsCurrent(d)'
    <2>1. product' = product /\ product[p].state = "live"
      BY <1>2 DEF OpenEdit, inventoryVars, Active, Exists
    <2>2. CASE d = e
      <3>1. edit'[d].product = p /\ edit'[d].seen = product[p]
        BY <1>0, <1>2, <2>2, OpenEffect
      <3> QED BY <1>0, <2>1, <3>1 DEF ReadIsCurrent
    <2>3. CASE d # e
      <3>1. edit'[d] = edit[d]
        BY <1>0, <1>2, <2>3, OpenEffect
      <3> QED BY <2>1, <3>1 DEF ReadsAreCurrent, ReadIsCurrent
    <2> QED BY <2>2, <2>3
  <1>3. ASSUME NEW e \in Editors, WriteProduct(e)
        PROVE  ReadIsCurrent(d)'
    <2>1. edit[e].product \in Products
      BY <1>3 DEF WriteProduct, EditsNameProducts
    <2>2. PICK row \in ProductRow :
            /\ product' = [product EXCEPT ![edit[e].product] = row]
            /\ row.version = product[edit[e].product].version + 1
            /\ row.state = product[edit[e].product].state
      BY <1>3, <2>1, WriteEffect
    <2>3. d # e /\ edit'[d] = edit[d]
      BY <1>0, <1>3, <2>1, WriteEffect
    <2>4. ReadIsCurrent(d) /\ edit[d].product \in Products
      BY <1>0, <2>3 DEF ReadsAreCurrent
    <2>5. CASE edit[d].product = edit[e].product
      <3>1. product'[edit[d].product] = row
        BY <1>0, <2>2, <2>4, <2>5
      <3>2. row.version > edit[d].seen.version /\ row.state # "absent"
        BY <1>0, <2>2, <2>4, <2>5 DEF ReadIsCurrent
      <3> QED BY <1>0, <2>3, <3>1, <3>2 DEF ReadIsCurrent, ProductRow
    <2>6. CASE edit[d].product # edit[e].product
      <3>1. product'[edit[d].product] = product[edit[d].product]
        BY <1>0, <2>2, <2>4, <2>6
      <3> QED BY <2>3, <2>4, <3>1 DEF ReadIsCurrent
    <2> QED BY <2>5, <2>6
  <1>4. ASSUME NEW e \in Editors,
               \/ \E p \in Products : RefuseEdit(e, p)
               \/ ConflictEdit(e) \/ ReadBack(e) \/ LogMovement(e) \/ StopEdit(e)
        PROVE  ReadIsCurrent(d)'
    <2>1. product' = product
      BY <1>4, OtherEffect
    <2>2. PICK local \in Edit :
             edit' = [edit EXCEPT ![e] = local] /\ local.pc # "read"
      BY <1>4, OtherEffect, PcEffect
    <2>3. edit'[d] = edit[d]
      BY <1>0, <2>2
    <2> QED BY <2>1, <2>3 DEF ReadsAreCurrent, ReadIsCurrent
  <1>5. ASSUME NEW p \in Products, Deactivate(p) \/ Reactivate(p) \/ Remove(p, referenced)
        PROVE  ReadIsCurrent(d)'
    <2>1. PICK row \in ProductRow :
                /\ product' = [product EXCEPT ![p] = row]
                /\ row.version = product[p].version /\ row.state # "absent"
                /\ row.type = product[p].type /\ row.tracksStock = product[p].tracksStock
                /\ row.state = "live" => row.stock = product[p].stock /\ product[p].state = "live"
      BY <1>5, AdminEffect
    <2>2. edit' = edit
      BY <1>5, AdminEffect
    <2>3. ReadIsCurrent(d) /\ edit[d].product \in Products
      BY <1>0, <2>2 DEF ReadsAreCurrent
    <2>4. CASE edit[d].product = p
      <3>1. product'[edit[d].product] = row
        BY <1>0, <2>1, <2>4
      <3> QED BY <2>1, <2>2, <2>3, <2>4, <3>1 DEF ReadIsCurrent
    <2>5. CASE edit[d].product # p
      <3>1. product'[edit[d].product] = product[edit[d].product]
        BY <1>0, <2>1, <2>3, <2>5
      <3> QED BY <2>2, <2>3, <3>1 DEF ReadIsCurrent
    <2> QED BY <2>4, <2>5
  <1> QED BY <1>1, <1>2, <1>3, <1>4, <1>5 DEF ProductsNext, EditStep

\* A request that reaches "written" does so by the guarded update.
LEMMA OnlyWriteProductWrites ==
    ASSUME ProductsTypeInv, NEW referenced, ProductsNext(referenced),
           NEW d \in Editors, edit[d].pc = "read", edit'[d].pc = "written"
    PROVE  WriteProduct(d)
  <1>0. edit \in [Editors -> Edit]
    BY DEF ProductsTypeInv, ProductsTypeOK
  <1> USE DEF ProductsTypeInv
  <1>1. ASSUME NEW e \in Editors, NEW p \in Products, CreateProduct(e, p) PROVE FALSE
    BY <1>0, <1>1, CreateEffect
  <1>2. ASSUME NEW e \in Editors, NEW p \in Products, OpenEdit(e, p) PROVE FALSE
    BY <1>0, <1>2, OpenEffect
  <1>3. ASSUME NEW e \in Editors, WriteProduct(e) PROVE d = e
    <2>1. edit[e].product \in Products
      BY <1>3 DEF WriteProduct, EditsNameProducts
    <2> QED BY <1>0, <1>3, <2>1, WriteEffect
  <1>4. ASSUME NEW e \in Editors,
               \/ \E p \in Products : RefuseEdit(e, p)
               \/ ConflictEdit(e) \/ ReadBack(e) \/ LogMovement(e) \/ StopEdit(e)
        PROVE  FALSE
    <2>1. PICK local \in Edit :
             edit' = [edit EXCEPT ![e] = local]
                /\ local.pc \in {"logging", "lost", "done", "refused"}
      BY <1>4, OtherEffect, PcEffect
    <2> QED BY <1>0, <2>1
  <1>5. ASSUME NEW p \in Products, Deactivate(p) \/ Reactivate(p) \/ Remove(p, referenced)
        PROVE  FALSE
    BY <1>5, AdminEffect
  <1> QED BY <1>1, <1>2, <1>3, <1>4, <1>5 DEF ProductsNext, EditStep

\* The version guard is enough: an edit is stored only over the row it was
\* computed from, for any number of concurrent edits, conversions and removals.
THEOREM NoEditOverwritesAnother == ProductsSpec => NoEditIsOverwritten
  <1> DEFINE Inv == ProductsTypeInv /\ ReadsAreCurrent
             Kept == \A e \in Editors : edit[e].pc = "read" /\ edit'[e].pc = "written" =>
                LET row == product[edit[e].product] IN
                /\ row.stock = edit[e].seen.stock
                /\ row.type = edit[e].seen.type
                /\ row.tracksStock = edit[e].seen.tracksStock
  <1>1. InventoryInit /\ ProductsInit => Inv
    BY ProductsInitType DEF ReadsAreCurrent, ProductsInit
  <1>2. Inv /\ [ProductsNext({})]_ProductsVars => Inv'
    <2> SUFFICES ASSUME Inv, [ProductsNext({})]_ProductsVars PROVE Inv'
      OBVIOUS
    <2>1. CASE ProductsNext({})
      BY <2>1, ProductsStepType, ProductsStepCurrent
    <2>2. CASE UNCHANGED ProductsVars
      BY <2>2 DEF ProductsVars, inventoryVars, ProductsTypeInv, ProductsTypeOK,
                  InventoryTypeOK, EditsNameProducts, ReadsAreCurrent, ReadIsCurrent
    <2> QED BY <2>1, <2>2
  <1>3. Inv /\ [ProductsNext({})]_ProductsVars => [Kept]_ProductsVars
    <2> SUFFICES ASSUME Inv, ProductsNext({}), NEW e \in Editors,
                        edit[e].pc = "read", edit'[e].pc = "written"
                 PROVE  LET row == product[edit[e].product] IN
                        /\ row.stock = edit[e].seen.stock
                        /\ row.type = edit[e].seen.type
                        /\ row.tracksStock = edit[e].seen.tracksStock
      OBVIOUS
    <2>1. WriteProduct(e)
      BY OnlyWriteProductWrites
    <2> QED BY <2>1 DEF WriteProduct, StillCurrent, Active, Exists, ReadsAreCurrent, ReadIsCurrent
  <1>4. ProductsSpec => [][Kept]_ProductsVars
    BY <1>1, <1>2, <1>3, PTL DEF ProductsSpec, ProductsAloneInit
  <1> QED BY <1>4 DEF NoEditIsOverwritten
-----------------------------------------------------------------------------
(* The kardex and the edits that have not written to it *)

Owing == {"written", "logging", "lost"}

\* The units a request owes the kardex.
Units(owed) == IF owed = <<>> THEN 0 ELSE owed[1].quantity

\* A request owes one movement or none.
OwesAtMostOne(owed) == owed = <<>> \/ \E m \in Movement : owed = <<m>>

\* The units the kardex of p still has to be told of.
Lag(p) == SumFunctionOnSet(OwedUnits, Unlogged(p))

LagInv ==
    /\ UntrackedHoldsNoStock
    /\ ReadsAreCurrent
    /\ \A e \in Editors : OwesAtMostOne(edit[e].owed)
    /\ \A p \in Products :
          /\ IsFiniteSet(Unlogged(p))
          /\ product[p].state = "absent" => kardex[p] = <<>> /\ Unlogged(p) = {}
          /\ Exists(p) => product[p].stock = MovedUnits(kardex[p]) + Lag(p)

\* What is owed is an integer.
LEMMA UnitsInt ==
    ASSUME NEW owed, OwesAtMostOne(owed)
    PROVE  Units(owed) \in Int
  BY DEF OwesAtMostOne, Units, Movement

\* A request whose local state changes takes away what it owed a product and
\* adds what it owes now.
LEMMA LagMoves ==
    ASSUME ProductsTypeOK, \A d \in Editors : OwesAtMostOne(edit[d].owed),
           NEW e \in Editors, NEW local, edit' = [edit EXCEPT ![e] = local], OwesAtMostOne(local.owed),
           NEW q \in Products, IsFiniteSet(Unlogged(q))
    PROVE  /\ IsFiniteSet(Unlogged(q)')
           /\ Unlogged(q)' = (Unlogged(q) \ {e}) \cup
                                {d \in {e} : local.product = q /\ local.pc \in Owing}
           /\ Lag(q) \in Int
           /\ Lag(q)' = Lag(q) - (IF e \in Unlogged(q) THEN Units(edit[e].owed) ELSE 0)
                               + (IF e \in Unlogged(q)' THEN Units(local.owed) ELSE 0)
  <1> DEFINE U == Unlogged(q)
             rest == U \ {e}
             f == OwedUnits
             g == OwedUnits'
             after == Unlogged(q)'
  <1>0. edit \in [Editors -> Edit] /\ edit'[e] = local /\ \A d \in Editors : d # e => edit'[d] = edit[d]
    BY DEF ProductsTypeOK
  <1>1. \A d \in Editors : f[d] = Units(edit[d].owed) /\ g[d] = Units(edit'[d].owed)
    BY DEF OwedUnits, Units
  <1>2. \A d \in Editors : f[d] \in Int /\ g[d] \in Int
    BY <1>0, <1>1, UnitsInt
  <1>3. after = rest \cup {d \in {e} : local.product = q /\ local.pc \in Owing}
    BY <1>0 DEF Unlogged, Owing
  <1>4. U \subseteq Editors /\ IsFiniteSet(U) /\ IsFiniteSet(rest) /\ e \notin rest
    BY FS_RemoveElement DEF Unlogged
  <1>5. \A d \in rest : f[d] = g[d]
    BY <1>0, <1>1, <1>4
  <1>6. Lag(q) = SumFunctionOnSet(f, U) /\ Lag(q)' = SumFunctionOnSet(g, after)
    BY DEF Lag
  <1>7. f[e] = Units(edit[e].owed) /\ g[e] = Units(local.owed)
    BY <1>0, <1>1
  <1> HIDE DEF f, g, U, rest, after
  <1>8. SumFunctionOnSet(f, rest) = SumFunctionOnSet(g, rest)
    BY <1>4, <1>5, SumSame
  <1>9. SumFunctionOnSet(f, U) \in Int /\ SumFunctionOnSet(g, rest) \in Int
    <2>1. rest \subseteq Editors
      BY <1>4 DEF rest
    <2> QED BY <1>2, <1>4, <2>1, SumInt
  <1>10. SumFunctionOnSet(f, rest) = SumFunctionOnSet(f, U) - (IF e \in U THEN f[e] ELSE 0)
    <2>1. CASE e \in U
      <3>1. SumFunctionOnSet(f, U) = SumFunctionOnSet(f, U \ {e}) + f[e]
        BY <1>2, <1>4, <2>1, SumRemove
      <3> QED BY <1>2, <1>8, <1>9, <2>1, <3>1 DEF rest
    <2>2. CASE e \notin U
      <3>1. rest = U
        BY <2>2 DEF rest
      <3> QED BY <1>9, <2>2, <3>1
    <2> QED BY <2>1, <2>2
  <1>11. /\ SumFunctionOnSet(g, after) = SumFunctionOnSet(g, rest) + (IF e \in after THEN g[e] ELSE 0)
         /\ IsFiniteSet(after)
    <2>1. CASE e \in after
      <3>1. after = rest \cup {e}
        BY <1>3, <1>4, <2>1
      <3>2. \A d \in rest \cup {e} : g[d] \in Int
        BY <1>2, <1>4 DEF rest
      <3>3. SumFunctionOnSet(g, rest \cup {e}) = SumFunctionOnSet(g, rest) + g[e]
        BY <1>4, <3>2, SumAdd
      <3> QED BY <1>4, <2>1, <3>1, <3>3, FS_AddElement
    <2>2. CASE e \notin after
      <3>1. after = rest
        BY <1>3, <2>2
      <3> QED BY <1>4, <1>9, <2>2, <3>1
    <2> QED BY <2>1, <2>2
  <1>12. Lag(q)' = Lag(q) - (IF e \in U THEN f[e] ELSE 0) + (IF e \in after THEN g[e] ELSE 0)
    BY <1>6, <1>8, <1>10, <1>11
  <1> QED BY <1>3, <1>6, <1>7, <1>9, <1>11, <1>12 DEF U, rest, after

\* An edit of the row it read owes what it changes of the stock: what it converts
\* away from, or to, something untracked held none.
LEMMA OwedAccounts ==
    ASSUME ProductsTypeOK, NEW e \in Editors, SoundRow(edit[e].seen)
    PROVE  /\ OwesAtMostOne(Owed(e))
           /\ Units(Owed(e)) = NewStock(e) - edit[e].seen.stock
  <1> DEFINE previous == edit[e].seen.stock
             next == NewStock(e)
             basis == IF TracksStock(edit[e].seen) THEN edit[e].seen ELSE Effective(e)
             m == MovementRow(DeltaMovementType(previous, next), previous, next, None)
  <1>1. previous \in Int /\ next \in Int /\ (~TracksStock(Effective(e)) => next = 0)
    BY NewStockType DEF ProductsTypeOK, Edit, ProductRow
  <1>2. m \in Movement /\ m.quantity = next - previous
    BY <1>1, MovementRowType DEF DeltaMovementType, MovementType, MovementRow
  <1>3. Owed(e) = IF HasDeltaMovement(basis, previous, next) THEN <<m>> ELSE <<>>
    BY DEF Owed
  <1> HIDE DEF m
  <1>4. CASE HasDeltaMovement(basis, previous, next)
    BY <1>2, <1>3, <1>4 DEF OwesAtMostOne, Units
  <1>5. CASE ~HasDeltaMovement(basis, previous, next)
    <2>1. next = previous
      <3>1. CASE TracksStock(basis)
        BY <1>5, <3>1 DEF HasDeltaMovement
      <3>2. CASE ~TracksStock(basis)
        <4>1. ~TracksStock(edit[e].seen) /\ ~TracksStock(Effective(e))
          BY <3>2
        <4> QED BY <1>1, <4>1 DEF SoundRow
      <3> QED BY <3>1, <3>2
    <2> QED BY <1>1, <1>3, <1>5, <2>1 DEF OwesAtMostOne, Units
  <1> QED BY <1>4, <1>5

\* What LagInv says of one product.
Lags(p) ==
    /\ IsFiniteSet(Unlogged(p))
    /\ product[p].state = "absent" => kardex[p] = <<>> /\ Unlogged(p) = {}
    /\ Exists(p) => product[p].stock = MovedUnits(kardex[p]) + Lag(p)

\* A request owes one movement or none: its creation's, or its edit's.
LEMMA ProductsStepOwes ==
    ASSUME ProductsTypeInv, LagInv, NEW referenced, ProductsNext(referenced)
    PROVE  \A d \in Editors : OwesAtMostOne(edit'[d].owed)
  <1>0. edit \in [Editors -> Edit] /\ ProductsTypeOK /\ \A d \in Editors : OwesAtMostOne(edit[d].owed)
    BY DEF ProductsTypeInv, ProductsTypeOK, LagInv
  <1>1. ASSUME NEW e \in Editors, NEW local, edit' = [edit EXCEPT ![e] = local],
               OwesAtMostOne(local.owed)
        PROVE  \A d \in Editors : OwesAtMostOne(edit'[d].owed)
    BY <1>0, <1>1
  <1>2. ASSUME NEW e \in Editors, NEW p \in Products, CreateProduct(e, p)
        PROVE  \A d \in Editors : OwesAtMostOne(edit'[d].owed)
    <2>1. PICK local \in Edit :
             /\ edit' = [edit EXCEPT ![e] = local]
             /\ local.owed = <<>> \/ \E m \in Movement : local.owed = <<m>>
      BY <1>0, <1>2, CreateEffect
    <2> QED BY <1>1, <2>1 DEF OwesAtMostOne
  <1>3. ASSUME NEW e \in Editors, NEW p \in Products, OpenEdit(e, p)
        PROVE  \A d \in Editors : OwesAtMostOne(edit'[d].owed)
    <2>1. PICK dto \in Payload :
            edit' = [edit EXCEPT ![e].pc = "read", ![e].product = p, ![e].dto = dto,
                                 ![e].seen = product[p]]
      BY <1>3 DEF OpenEdit
    <2>2. \A d \in Editors : edit'[d].owed = edit[d].owed
      BY <1>0, <2>1 DEF Edit
    <2> QED BY <1>0, <2>2
  <1>4. ASSUME NEW e \in Editors, WriteProduct(e)
        PROVE  \A d \in Editors : OwesAtMostOne(edit'[d].owed)
    <2>1. edit[e].product \in Products
      BY <1>4 DEF WriteProduct, ProductsTypeInv, EditsNameProducts
    <2>2. PICK local \in Edit : edit' = [edit EXCEPT ![e] = local] /\ local.owed = Owed(e)
      BY <1>0, <1>4, <2>1, WriteEffect
    <2>3. OwesAtMostOne(Owed(e))
      <3>1. NewStock(e) \in Int /\ edit[e].seen.stock \in Int
        BY <1>0, NewStockType DEF Edit, ProductRow
      <3>2. MovementRow(DeltaMovementType(edit[e].seen.stock, NewStock(e)), edit[e].seen.stock,
                        NewStock(e), None) \in Movement
        BY <3>1, MovementRowType DEF DeltaMovementType, MovementType
      <3> QED BY <3>2 DEF Owed, OwesAtMostOne
    <2> QED BY <1>1, <2>2, <2>3
  <1>5. ASSUME NEW e \in Editors,
               \/ \E p \in Products : RefuseEdit(e, p)
               \/ ConflictEdit(e) \/ ReadBack(e) \/ LogMovement(e) \/ StopEdit(e)
        PROVE  \A d \in Editors : OwesAtMostOne(edit'[d].owed)
    <2>1. PICK pc \in {"logging", "lost", "done", "refused"} : edit' = [edit EXCEPT ![e].pc = pc]
      BY <1>0, <1>5, OtherEffect
    <2>2. PICK local \in Edit : edit' = [edit EXCEPT ![e] = local] /\ local.owed = edit[e].owed
      <3>1. ProductsTypeOK
        BY <1>0
      <3>2. PICK local \in Edit :
               /\ edit' = [edit EXCEPT ![e] = local] /\ local.pc = pc /\ local.seen = edit[e].seen
               /\ local.product = edit[e].product /\ local.owed = edit[e].owed
        BY ONLY <2>1, <3>1, PcEffect
      <3> QED BY ONLY <3>2
    <2> QED BY <1>0, <1>1, <2>2
  <1>6. ASSUME NEW p \in Products, Deactivate(p) \/ Reactivate(p) \/ Remove(p, referenced)
        PROVE  \A d \in Editors : OwesAtMostOne(edit'[d].owed)
    BY <1>0, <1>6, AdminEffect
  <1> QED BY <1>2, <1>3, <1>4, <1>5, <1>6 DEF ProductsNext, EditStep

\* Every step keeps the kardex behind the stock by what is owed, and no more.
LEMMA ProductsStepLags ==
    ASSUME ProductsTypeInv, LagInv, NEW referenced, ProductsNext(referenced)
    PROVE  \A p \in Products : Lags(p)'
  <1>0. /\ product \in [Products -> ProductRow] /\ kardex \in [Products -> Seq(Movement)]
        /\ edit \in [Editors -> Edit] /\ ProductsTypeOK
        /\ \A p \in Products : SoundRow(product[p]) /\ Lags(p) /\ product[p].stock \in Int
        /\ \A e \in Editors : OwesAtMostOne(edit[e].owed)
    BY DEF ProductsTypeInv, ProductsTypeOK, InventoryTypeOK, LagInv, Lags, UntrackedHoldsNoStock,
           SoundRow, ProductRow
  <1> SUFFICES ASSUME NEW q \in Products
               PROVE  Lags(q)'
    OBVIOUS
  \* A step that neither moves the row nor the kardex of q, nor changes what is owed it.
  <1>a. ASSUME NEW e \in Editors, NEW local, edit' = [edit EXCEPT ![e] = local],
               OwesAtMostOne(local.owed), product'[q] = product[q], kardex'[q] = kardex[q],
               local.product = q /\ local.pc \in Owing => e \in Unlogged(q) /\ local.owed = edit[e].owed,
               e \in Unlogged(q) => (local.product = q /\ local.pc \in Owing) \/ edit[e].owed = <<>>
        PROVE  Lags(q)'
    <2>1. /\ IsFiniteSet(Unlogged(q)')
          /\ Unlogged(q)' = (Unlogged(q) \ {e}) \cup
                                {d \in {e} : local.product = q /\ local.pc \in Owing}
          /\ Lag(q) \in Int
          /\ Lag(q)' = Lag(q) - (IF e \in Unlogged(q) THEN Units(edit[e].owed) ELSE 0)
                              + (IF e \in Unlogged(q)' THEN Units(local.owed) ELSE 0)
      BY <1>0, <1>a, LagMoves DEF Lags
    <2>2. Units(edit[e].owed) \in Int /\ Units(local.owed) \in Int
      BY <1>0, <1>a, UnitsInt
    <2>3. Lag(q)' = Lag(q)
      <3>1. CASE e \in Unlogged(q) /\ e \in Unlogged(q)'
        BY <1>a, <2>1, <2>2, <3>1
      <3>2. CASE e \in Unlogged(q) /\ e \notin Unlogged(q)'
        <4>1. Units(edit[e].owed) = 0
          BY <1>a, <2>1, <3>2 DEF Units
        <4> QED BY <2>1, <3>2, <4>1
      <3>3. CASE e \notin Unlogged(q)
        <4>1. e \notin Unlogged(q)'
          BY <1>a, <2>1, <3>3
        <4> QED BY <2>1, <3>3, <4>1
      <3> QED BY <3>1, <3>2, <3>3
    <2>4. Unlogged(q) = {} => Unlogged(q)' = {}
      BY <1>a, <2>1
    <2>5. MovedUnits(kardex'[q]) = MovedUnits(kardex[q])
      BY <1>a
    <2> QED BY <1>0, <1>a, <2>1, <2>3, <2>4 DEF Lags, Exists, MovedUnits
  <1>1. ASSUME NEW e \in Editors, NEW p \in Products, CreateProduct(e, p)
        PROVE  Lags(q)'
    <2>1. PICK row \in ProductRow, local \in Edit :
              /\ product' = [product EXCEPT ![p] = row] /\ edit' = [edit EXCEPT ![e] = local]
              /\ row.stock \in Nat /\ row.state = "live" /\ local.product = p
              /\ \/ local.pc = "done" /\ local.owed = <<>> /\ row.stock = 0
                 \/ /\ local.pc = "logging"
                    /\ \E m \in Movement : local.owed = <<m>> /\ m.quantity = row.stock
      BY <1>0, <1>1, CreateEffect
    <2>2. OwesAtMostOne(local.owed)
      BY <2>1 DEF OwesAtMostOne
    <2>3. e \notin Unlogged(q) /\ kardex' = kardex /\ product[p].state = "absent"
      BY <1>1 DEF CreateProduct, Unlogged
    <2>4. CASE q # p
      <3>1. product'[q] = product[q]
        BY <1>0, <2>1, <2>4
      <3> QED BY <1>a, <2>1, <2>2, <2>3, <2>4, <3>1
    <2>5. CASE q = p
      <3>1. /\ IsFiniteSet(Unlogged(q)')
            /\ Unlogged(q)' = (Unlogged(q) \ {e}) \cup
                                  {d \in {e} : local.product = q /\ local.pc \in Owing}
            /\ Lag(q)' = Lag(q) - (IF e \in Unlogged(q) THEN Units(edit[e].owed) ELSE 0)
                                + (IF e \in Unlogged(q)' THEN Units(local.owed) ELSE 0)
        <4>1. ProductsTypeOK /\ \A d \in Editors : OwesAtMostOne(edit[d].owed)
          BY <1>0
        <4>2. IsFiniteSet(Unlogged(q)) /\ edit' = [edit EXCEPT ![e] = local]
          BY <1>0, <2>1 DEF Lags
        <4> QED BY ONLY <2>2, <4>1, <4>2, LagMoves
      <3>2. Unlogged(q) = {} /\ kardex[q] = <<>>
        BY <1>0, <2>3, <2>5 DEF Lags
      <3>3. Lag(q) = 0 /\ MovedUnits(kardex[q]) = 0
        BY <3>2, SumEmpty DEF Lag, MovedUnits
      <3>4. product'[q] = row
        BY <1>0, <2>1, <2>5
      <3>5. Lag(q)' = row.stock
        <4>1. CASE local.pc = "done"
          <5>1. e \notin Unlogged(q)' /\ row.stock = 0
            BY <2>1, <3>1, <3>2, <4>1 DEF Owing
          <5> QED BY <2>3, <3>1, <3>3, <5>1
        <4>2. CASE local.pc = "logging"
          <5>1. e \in Unlogged(q)'
            BY <2>1, <2>5, <3>1, <4>2 DEF Owing
          <5>2. PICK m \in Movement : local.owed = <<m>> /\ m.quantity = row.stock
            BY <2>1, <4>2
          <5>3. Units(local.owed) = row.stock
            BY <5>2 DEF Units
          <5> QED BY <2>1, <2>3, <3>1, <3>3, <5>1, <5>3
        <4> QED BY <2>1, <4>1, <4>2
      <3>6. kardex'[q] = kardex[q] /\ MovedUnits(kardex'[q]) = 0
        BY <2>3, <3>3
      <3>7. row.stock = MovedUnits(kardex'[q]) + Lag(q)'
        BY <2>1, <3>5, <3>6
      <3> QED BY <2>1, <3>1, <3>4, <3>7 DEF Lags, Exists, MovedUnits
    <2> QED BY <2>4, <2>5
  <1>2. ASSUME NEW e \in Editors, NEW p \in Products, OpenEdit(e, p)
        PROVE  Lags(q)'
    <2>1. PICK dto \in Payload :
            edit' = [edit EXCEPT ![e] = [edit[e] EXCEPT !.pc = "read", !.product = p, !.dto = dto,
                                                        !.seen = product[p]]]
      BY <1>0, <1>2 DEF OpenEdit
    <2> DEFINE local == [edit[e] EXCEPT !.pc = "read", !.product = p, !.dto = dto,
                                        !.seen = product[p]]
    <2>2. local.pc = "read" /\ local.owed = edit[e].owed
      BY <1>0 DEF Edit
    <2>3. edit' = [edit EXCEPT ![e] = local]
      BY <2>1
    <2> HIDE DEF local
    <2>4. e \notin Unlogged(q) /\ UNCHANGED <<product, kardex>>
      BY <1>2 DEF OpenEdit, Unlogged, inventoryVars
    <2>5. OwesAtMostOne(local.owed) /\ local.pc \notin Owing
      BY <1>0, <2>2 DEF Owing
    <2> QED BY <1>a, <2>3, <2>4, <2>5
  <1>3. ASSUME NEW e \in Editors, WriteProduct(e)
        PROVE  Lags(q)'
    <2> DEFINE p == edit[e].product
    <2>1. p \in Products /\ edit[e].pc = "read" /\ kardex' = kardex /\ product[p].state = "live"
            /\ product[p].version = edit[e].seen.version
      BY <1>3 DEF WriteProduct, ProductsTypeInv, EditsNameProducts, StillCurrent, Active, Exists
    <2>2. PICK row \in ProductRow, local \in Edit :
              /\ product' = [product EXCEPT ![p] = row]
              /\ edit' = [edit EXCEPT ![e] = local]
              /\ row.state = product[p].state /\ row.stock = NewStock(e)
              /\ local.pc = "written" /\ local.product = p /\ local.owed = Owed(e)
      <3>1. ProductsTypeOK /\ WriteProduct(e) /\ p \in Products
        BY <1>0, <1>3, <2>1
      <3> QED BY ONLY <3>1, WriteEffect
    <2>3. /\ edit[e].seen.stock = product[p].stock /\ edit[e].seen.type = product[p].type
          /\ edit[e].seen.tracksStock = product[p].tracksStock
      BY <2>1 DEF LagInv, ReadsAreCurrent, ReadIsCurrent
    <2>4. SoundRow(edit[e].seen)
      BY <1>0, <2>1, <2>3 DEF SoundRow, TracksStock
    <2>5. OwesAtMostOne(local.owed) /\ Units(local.owed) = row.stock - product[p].stock
      BY <1>0, <2>2, <2>3, <2>4, OwedAccounts
    <2>6. e \notin Unlogged(q)
      BY <2>1 DEF Unlogged
    <2> HIDE DEF p
    <2>7. CASE q # p
      <3>1. product'[q] = product[q]
        BY <1>0, <2>2, <2>7
      <3> QED BY <1>a, <2>1, <2>2, <2>5, <2>6, <2>7, <3>1
    <2>8. CASE q = p
      <3>1. /\ IsFiniteSet(Unlogged(q)')
            /\ Unlogged(q)' = (Unlogged(q) \ {e}) \cup
                                  {d \in {e} : local.product = q /\ local.pc \in Owing}
            /\ Lag(q) \in Int
            /\ Lag(q)' = Lag(q) - (IF e \in Unlogged(q) THEN Units(edit[e].owed) ELSE 0)
                                + (IF e \in Unlogged(q)' THEN Units(local.owed) ELSE 0)
        BY <1>0, <2>2, <2>5, LagMoves DEF Lags
      <3>2. e \in Unlogged(q)'
        BY <2>2, <2>8, <3>1 DEF Owing
      <3>3. product[q].stock = MovedUnits(kardex[q]) + Lag(q) /\ product'[q] = row
        BY <1>0, <2>1, <2>2, <2>8 DEF Lags, Exists
      <3>4. MovedUnits(kardex[q]) \in Int /\ product[q].stock \in Int /\ row.stock \in Int
        BY <1>0, MovedUnitsInt DEF ProductRow
      <3>5. row.stock = MovedUnits(kardex[q]) + Lag(q)'
        BY <2>5, <2>6, <2>8, <3>1, <3>2, <3>3, <3>4
      <3> QED BY <2>1, <2>2, <2>8, <3>1, <3>3, <3>5 DEF Lags, Exists, MovedUnits
    <2> QED BY <2>7, <2>8
  <1>4. ASSUME NEW e \in Editors, LogMovement(e), edit[e].product = q, Exists(q)
        PROVE  Lags(q)'
    <2>1. /\ edit[e].pc = "logging" /\ product' = product
          /\ kardex'[q] = kardex[q] \o edit[e].owed
          /\ edit' = [edit EXCEPT ![e].pc = "done"]
      BY <1>0, <1>4 DEF LogMovement
    <2>2. PICK local \in Edit :
             /\ edit' = [edit EXCEPT ![e] = local] /\ local.pc = "done"
             /\ local.owed = edit[e].owed
      <3>1. ProductsTypeOK /\ "done" \in {"logging", "lost", "done", "refused"}
        BY <1>0
      <3>2. edit' = [edit EXCEPT ![e].pc = "done"]
        BY <2>1
      <3> QED BY ONLY <3>1, <3>2, PcEffect
    <2>3. e \in Unlogged(q) /\ OwesAtMostOne(local.owed)
      BY <1>0, <1>4, <2>1, <2>2 DEF Unlogged
    <2>4. /\ IsFiniteSet(Unlogged(q)')
          /\ Unlogged(q)' = (Unlogged(q) \ {e}) \cup
                                {d \in {e} : local.product = q /\ local.pc \in Owing}
          /\ Lag(q) \in Int
          /\ Lag(q)' = Lag(q) - (IF e \in Unlogged(q) THEN Units(edit[e].owed) ELSE 0)
                              + (IF e \in Unlogged(q)' THEN Units(local.owed) ELSE 0)
      BY <1>0, <2>2, <2>3, LagMoves DEF Lags
    <2>5. e \notin Unlogged(q)'
      BY <2>2, <2>4 DEF Owing
    <2>6. MovedUnits(kardex'[q]) = MovedUnits(kardex[q]) + Units(edit[e].owed)
            /\ MovedUnits(kardex[q]) \in Int /\ Units(edit[e].owed) \in Int
      <3>1. kardex[q] \in Seq(Movement) /\ OwesAtMostOne(edit[e].owed)
        BY <1>0
      <3>2. MovedUnits(kardex[q]) \in Int /\ Units(edit[e].owed) \in Int
        BY <3>1, MovedUnitsInt, UnitsInt
      <3>3. CASE edit[e].owed = <<>>
        <4>1. kardex'[q] = kardex[q]
          BY <2>1, <3>1, <3>3
        <4> QED BY <3>2, <3>3, <4>1 DEF Units
      <3>4. CASE \E m \in Movement : edit[e].owed = <<m>>
        <4>1. PICK m \in Movement : edit[e].owed = <<m>>
          BY <3>4
        <4>2. kardex'[q] = Append(kardex[q], m)
          BY <2>1, <3>1, <4>1
        <4>3. Units(edit[e].owed) = m.quantity
          BY <4>1 DEF Units
        <4> QED BY <3>1, <3>2, <4>2, <4>3, MovedUnitsAppend
      <3> QED BY <3>1, <3>3, <3>4, <3>2 DEF OwesAtMostOne
    <2>7. product[q].stock = MovedUnits(kardex[q]) + Lag(q)
      BY <1>0, <1>4 DEF Lags
    <2>8. product[q].stock = MovedUnits(kardex'[q]) + Lag(q)'
      BY <2>3, <2>4, <2>5, <2>6, <2>7
    <2> QED BY <1>4, <2>1, <2>4, <2>8 DEF Lags, Exists, MovedUnits
  <1>5. ASSUME NEW e \in Editors,
               \/ \E p \in Products : RefuseEdit(e, p)
               \/ ConflictEdit(e) \/ ReadBack(e) \/ StopEdit(e)
               \/ LogMovement(e) /\ ~(edit[e].product = q /\ Exists(q))
        PROVE  Lags(q)'
    <2>1. PICK pc \in {"logging", "lost", "done", "refused"} :
             /\ edit' = [edit EXCEPT ![e].pc = pc]
             /\ pc \in Owing => edit[e].pc \in Owing
             /\ e \in Unlogged(q) /\ pc \notin Owing => edit[e].owed = <<>>
      <3>1. CASE \E p \in Products : RefuseEdit(e, p)
        BY <3>1 DEF RefuseEdit, Owing, Unlogged
      <3>2. CASE ConflictEdit(e)
        BY <3>2 DEF ConflictEdit, Owing, Unlogged
      <3>3. CASE ReadBack(e)
        BY <3>3 DEF ReadBack, Owing
      <3>4. CASE StopEdit(e)
        BY <3>4 DEF StopEdit, Owing, Unlogged
      <3>5. CASE LogMovement(e) /\ ~(edit[e].product = q /\ Exists(q))
        <4>1. CASE edit[e].product = q
          <5>1. edit' = [edit EXCEPT ![e].pc = "lost"] /\ edit[e].pc = "logging"
            BY <3>5, <4>1 DEF LogMovement
          <5> QED BY <5>1 DEF Owing
        <4>2. CASE edit[e].product # q
          <5>1. e \notin Unlogged(q) /\ edit[e].pc \in Owing
            BY <3>5, <4>2 DEF Unlogged, LogMovement, Owing
          <5>2. edit' = [edit EXCEPT ![e].pc = "lost"] \/ edit' = [edit EXCEPT ![e].pc = "done"]
            BY <3>5 DEF LogMovement
          <5> QED BY <5>1, <5>2
        <4> QED BY <4>1, <4>2
      <3> QED BY <1>5, <3>1, <3>2, <3>3, <3>4, <3>5
    <2>2. product' = product
      BY <1>0, <1>5, OtherEffect
    <2>3. kardex'[q] = kardex[q]
      <3>1. CASE LogMovement(e) /\ ~(edit[e].product = q /\ Exists(q))
        BY <1>0, <3>1 DEF LogMovement
      <3>2. CASE ~(LogMovement(e) /\ ~(edit[e].product = q /\ Exists(q)))
        BY <1>5, <3>2 DEF RefuseEdit, ConflictEdit, ReadBack, StopEdit, inventoryVars
      <3> QED BY <3>1, <3>2
    <2>4. PICK local \in Edit :
              /\ edit' = [edit EXCEPT ![e] = local] /\ local.pc = pc
              /\ local.product = edit[e].product /\ local.owed = edit[e].owed
      <3>1. edit' = [edit EXCEPT ![e].pc = pc] /\ ProductsTypeOK
        BY <1>0, <2>1
      <3>2. PICK local \in Edit :
               /\ edit' = [edit EXCEPT ![e] = local] /\ local.pc = pc /\ local.seen = edit[e].seen
               /\ local.product = edit[e].product /\ local.owed = edit[e].owed
        BY <3>1, PcEffect
      <3> QED BY <3>2
    <2>5. OwesAtMostOne(local.owed)
      BY <1>0, <2>4
    <2>6. e \in Unlogged(q) <=> edit[e].product = q /\ edit[e].pc \in Owing
      BY DEF Unlogged, Owing
    <2> QED BY <1>a, <2>1, <2>2, <2>3, <2>4, <2>5, <2>6
  <1>6. ASSUME NEW p \in Products, Deactivate(p) \/ Reactivate(p) \/ Remove(p, referenced)
        PROVE  Lags(q)'
    <2>1. PICK row \in ProductRow :
                /\ product' = [product EXCEPT ![p] = row] /\ row.state # "absent"
                /\ row.state = "live" => row.stock = product[p].stock /\ product[p].state = "live"
      BY <1>0, <1>6, AdminEffect
    <2>2. UNCHANGED <<kardex, edit>>
      BY <1>0, <1>6, AdminEffect
    <2>3. Unlogged(q)' = Unlogged(q) /\ Lag(q)' = Lag(q)
      BY <2>2 DEF Unlogged, Lag, OwedUnits
    <2>4. \/ product'[q] = product[q]
          \/ product'[q] = row /\ q = p
      BY <1>0, <2>1
    <2>5. CASE product'[q] = product[q]
      BY <1>0, <2>2, <2>3, <2>5 DEF Lags, Exists, MovedUnits
    <2>6. CASE product'[q] = row /\ q = p
      BY <1>0, <2>1, <2>2, <2>3, <2>6 DEF Lags, Exists, MovedUnits
    <2> QED BY <2>4, <2>5, <2>6
  <1> QED BY <1>1, <1>2, <1>3, <1>4, <1>5, <1>6 DEF ProductsNext, EditStep

\* The kardex lags the stock by the movements owed and by nothing else, for any
\* number of edits of the same product, removals and crashes between the two
\* statements of an edit.
THEOREM KardexLags == ProductsSpec => []KardexLagsByUnlogged
  <1> DEFINE Inv == ProductsTypeInv /\ LagInv
  <1>1. ProductsAloneInit => Inv
    <2> SUFFICES ASSUME InventoryInit, ProductsInit PROVE LagInv
      BY ProductsInitType DEF ProductsAloneInit
    <2>1. \A p \in Products : SoundRow(product[p])
      BY OpeningRowSound DEF InventoryInit
    <2>2. \A e \in Editors : edit[e].pc = "idle" /\ edit[e].owed = <<>>
      BY DEF ProductsInit
    <2>3. \A p \in Products : Unlogged(p) = {} /\ Lag(p) = 0
      <3>1. \A p \in Products : Unlogged(p) = {}
        BY <2>2 DEF Unlogged
      <3> QED BY <3>1, SumEmpty DEF Lag
    <2>4. \A p \in Products : product[p].state = "absent" => kardex[p] = <<>>
      <3> SUFFICES ASSUME NEW p \in Products, product[p].state = "absent" PROVE kardex[p] = <<>>
        OBVIOUS
      <3>1. PICK kind : product[p] = OpeningRow(kind)
        BY DEF InventoryInit
      <3>2. product[p].state = IF kind = "absent" THEN "absent" ELSE "live"
        BY <3>1 DEF OpeningRow
      <3>3. product[p].tracksStock = (kind = "tracked")
        BY <3>1 DEF OpeningRow
      <3>4. ~TracksStock(product[p])
        BY <3>2, <3>3 DEF TracksStock
      <3> QED BY <3>4 DEF InventoryInit, HasInitialMovement
    <2>5. \A p \in Products : product[p].stock \in Nat /\ MovedUnits(kardex[p]) = product[p].stock
      BY InventoryInitType, InventoryInitAccounted DEF Accounted
    <2>6. UntrackedHoldsNoStock /\ ReadsAreCurrent
      BY <2>1, <2>2 DEF UntrackedHoldsNoStock, SoundRow, ReadsAreCurrent
    <2>7. \A p \in Products : product[p].stock = MovedUnits(kardex[p]) + Lag(p)
      BY <2>3, <2>5
    <2> QED BY <2>2, <2>3, <2>4, <2>6, <2>7, FS_EmptySet DEF LagInv, OwesAtMostOne
  <1>2. Inv /\ [ProductsNext({})]_ProductsVars => Inv'
    <2> SUFFICES ASSUME Inv, [ProductsNext({})]_ProductsVars PROVE Inv'
      OBVIOUS
    <2>1. CASE ProductsNext({})
      <3>1. UntrackedHoldsNoStock /\ ReadsAreCurrent
        BY DEF LagInv
      <3>2. ProductsTypeInv' /\ UntrackedHoldsNoStock' /\ ReadsAreCurrent'
        BY <2>1, <3>1, ProductsStepType, ProductsStepSound, ProductsStepCurrent
      <3>3. (\A e \in Editors : OwesAtMostOne(edit'[e].owed)) /\ \A p \in Products : Lags(p)'
        BY <2>1, ProductsStepOwes, ProductsStepLags
      <3> QED BY <3>2, <3>3 DEF LagInv, Lags
    <2>2. CASE UNCHANGED ProductsVars
      BY <2>2 DEF ProductsVars, inventoryVars, ProductsTypeInv, ProductsTypeOK, InventoryTypeOK,
                  EditsNameProducts, LagInv, UntrackedHoldsNoStock, ReadsAreCurrent, ReadIsCurrent,
                  Unlogged, Lag, OwedUnits, Exists, MovedUnits
    <2> QED BY <2>1, <2>2
  <1>3. Inv => KardexLagsByUnlogged
    BY KardexIsItsRows DEF LagInv, Lag, KardexLagsByUnlogged
  <1> QED BY <1>1, <1>2, <1>3, PTL DEF ProductsSpec
=============================================================================
