---------------------------- MODULE InventoryProofs ----------------------------
(* Facts about the rows of Inventory that the proofs of every service use. *)
EXTENDS Inventory, Sums

\* A movement row computed from integers is a well-formed kardex row.
LEMMA MovementRowType ==
    ASSUME NEW type \in MovementType, NEW previous \in Int, NEW next \in Int,
           NEW src \in Documents \cup {None}
    PROVE  MovementRow(type, previous, next, src) \in Movement
  BY DEF MovementRow, Movement

\* Replacing the stock of a row leaves a row.
LEMMA StockSetType ==
    ASSUME NEW row \in ProductRow, NEW n \in Int
    PROVE  [row EXCEPT !.stock = n] \in ProductRow /\ [row EXCEPT !.stock = n].stock = n
  BY DEF ProductRow

\* One more movement leaves a kardex.
LEMMA AppendMovement ==
    ASSUME NEW rows \in Seq(Movement), NEW m \in Movement
    PROVE  Append(rows, m) \in Seq(Movement)
  OBVIOUS

\* Whoever releases its locks leaves the lock table well formed.
LEMMA ReleasedType ==
    ASSUME InventoryTypeOK, NEW r
    PROVE  Released(r) \in [Products -> Requests \cup {None}]
  BY DEF InventoryTypeOK, Released

\* The stock a conversion or an edit stores is an integer if the one asked for is.
LEMMA NormalizeStockNat ==
    ASSUME NEW row, NEW stock \in Nat
    PROVE  NormalizeStock(row, stock) \in Nat
  BY DEF NormalizeStock

\* A catalogue row the behaviour starts with is a product row with stock in Nat.
LEMMA OpeningRowType ==
    ASSUME NEW kind
    PROVE  OpeningRow(kind) \in ProductRow /\ OpeningRow(kind).stock \in Nat
  <1> DEFINE row == [type |-> IF kind = "service" THEN "SERVICE" ELSE "PRODUCT",
                     tracksStock |-> kind = "tracked"]
  <1>1. NormalizeStock(row, OpeningStock) \in Nat
    BY InventoryAssumption, NormalizeStockNat
  <1>2. OpeningRow(kind) =
          [state |-> IF kind = "absent" THEN "absent" ELSE "live", active |-> kind # "absent",
           type |-> row.type, tracksStock |-> row.tracksStock,
           stock |-> NormalizeStock(row, OpeningStock), version |-> 0]
    BY DEF OpeningRow
  <1> QED BY <1>1, <1>2 DEF ProductRow, ProductType

\* The catalogue the behaviour starts with is well formed, and owes nothing.
LEMMA InventoryInitType ==
    ASSUME InventoryInit
    PROVE  InventoryTypeOK /\ \A p \in Products : product[p].stock \in Nat
  <1>1. PICK kind \in [Products -> OpeningKinds] : product = [p \in Products |-> OpeningRow(kind[p])]
    BY DEF InventoryInit
  <1>2. \A p \in Products : product[p] \in ProductRow /\ product[p].stock \in Nat
    BY <1>1, OpeningRowType
  <1>3. product \in [Products -> ProductRow]
    BY <1>1, <1>2
  <1>4. kardex \in [Products -> Seq(Movement)]
    <2> SUFFICES ASSUME NEW p \in Products
                 PROVE  (IF HasInitialMovement(product[p], product[p].stock)
                         THEN <<MovementRow("PURCHASE", 0, product[p].stock, None)>>
                         ELSE <<>>) \in Seq(Movement)
      BY DEF InventoryInit
    <2>1. MovementRow("PURCHASE", 0, product[p].stock, None) \in Movement
      BY <1>2, MovementRowType DEF MovementType
    <2> QED BY <2>1
  <1> QED BY <1>2, <1>3, <1>4 DEF InventoryTypeOK, InventoryInit
-----------------------------------------------------------------------------
(* The kardex *)

\* The units a kardex accounts for.
MovedUnits(rows) == SumFunctionOnSet([i \in DOMAIN rows |-> rows[i].quantity], DOMAIN rows)

\* Every row starts where the previous one ended, the last one at n units.
Chains(rows, n) ==
    /\ \A i \in 2..Len(rows) : rows[i].previousStock = rows[i - 1].newStock
    /\ rows # <<>> => rows[Len(rows)].newStock = n

\* The two properties of the kardex say this of the rows of each product.
LEMMA KardexIsItsRows ==
    /\ \A p \in Products : KardexSum(p) = MovedUnits(kardex[p])
    /\ KardexChained <=> \A p \in Products : Chains(kardex[p], product[p].stock)
  BY DEF KardexSum, Moved, MovedUnits, KardexChained, Chains

\* A kardex accounts for an integer.
LEMMA MovedUnitsInt ==
    ASSUME NEW rows \in Seq(Movement)
    PROVE  MovedUnits(rows) \in Int
  <1> DEFINE f == [i \in DOMAIN rows |-> rows[i].quantity]
  <1>1. IsFiniteSet(1..Len(rows)) /\ DOMAIN rows = 1..Len(rows)
    BY FS_Interval
  <1>2. \A i \in DOMAIN rows : f[i] \in Int
    <2>1. \A i \in DOMAIN rows : rows[i] \in Movement
      OBVIOUS
    <2> QED BY <2>1 DEF Movement
  <1> HIDE DEF f
  <1>3. SumFunctionOnSet(f, DOMAIN rows) \in Int
    BY <1>1, <1>2, SumInt
  <1> QED BY <1>3 DEF MovedUnits, f

\* One more movement accounts for its own units and no others.
LEMMA MovedUnitsAppend ==
    ASSUME NEW rows \in Seq(Movement), NEW m \in Movement
    PROVE  MovedUnits(Append(rows, m)) = MovedUnits(rows) + m.quantity
  <1> DEFINE n == Len(rows)
             more == Append(rows, m)
             f == [i \in DOMAIN rows |-> rows[i].quantity]
             g == [i \in DOMAIN more |-> more[i].quantity]
  <1>1. n \in Nat /\ DOMAIN rows = 1..n /\ DOMAIN more = 1..(n + 1) /\ IsFiniteSet(1..n)
    BY FS_Interval
  <1>2. 1..(n + 1) = (1..n) \cup {n + 1} /\ n + 1 \notin 1..n
    BY <1>1
  <1>3. \A i \in 1..n : more[i] = rows[i] /\ rows[i] \in Movement
    BY <1>1
  <1>4. more[n + 1] = m
    OBVIOUS
  <1>5. (\A i \in 1..n : f[i] = g[i]) /\ g[n + 1] = m.quantity
    BY <1>1, <1>2, <1>3, <1>4
  <1>6. \A i \in (1..n) \cup {n + 1} : g[i] \in Int
    BY <1>1, <1>2, <1>3, <1>4 DEF Movement
  <1> HIDE DEF f, g, more, n
  <1>7. SumFunctionOnSet(g, (1..n) \cup {n + 1}) = SumFunctionOnSet(g, 1..n) + g[n + 1]
    <2>1. PICK S : S = 1..n
      OBVIOUS
    <2>2. PICK a : a = n + 1
      OBVIOUS
    <2>3. IsFiniteSet(S) /\ a \notin S /\ \A x \in S \cup {a} : g[x] \in Int
      BY <1>1, <1>2, <1>6, <2>1, <2>2
    <2>4. SumFunctionOnSet(g, S \cup {a}) = SumFunctionOnSet(g, S) + g[a]
      BY ONLY <2>3, SumAdd
    <2> QED BY ONLY <2>1, <2>2, <2>4
  <1>8. SumFunctionOnSet(f, 1..n) = SumFunctionOnSet(g, 1..n)
    BY <1>1, <1>5, SumSame
  <1> QED BY <1>1, <1>2, <1>5, <1>7, <1>8 DEF MovedUnits, f, g, more

\* A movement that starts where the kardex ends continues it.
LEMMA ChainsAppend ==
    ASSUME NEW rows \in Seq(Movement), NEW m \in Movement, Chains(rows, m.previousStock)
    PROVE  Chains(Append(rows, m), m.newStock)
  <1> DEFINE n == Len(rows)
             more == Append(rows, m)
  <1>1. n \in Nat /\ Len(more) = n + 1 /\ more[n + 1] = m /\ \A i \in 1..n : more[i] = rows[i]
    OBVIOUS
  <1>2. ASSUME NEW i \in 2..(n + 1)
        PROVE  more[i].previousStock = more[i - 1].newStock
    <2>1. i - 1 \in 1..n /\ (i = n + 1 \/ i \in 1..n)
      BY <1>1
    <2>2. CASE i = n + 1
      <3>1. rows # <<>> /\ more[i - 1] = rows[n]
        BY <1>1, <2>1, <2>2
      <3> QED BY <1>1, <2>2, <3>1 DEF Chains
    <2>3. CASE i \in 1..n
      BY <1>1, <2>1, <2>3 DEF Chains
    <2> QED BY <2>1, <2>2, <2>3
  <1> HIDE DEF more, n
  <1>3. \A i \in 2..Len(more) : more[i].previousStock = more[i - 1].newStock
    BY <1>1, <1>2
  <1>4. more[Len(more)].newStock = m.newStock
    BY <1>1
  <1> QED BY <1>3, <1>4 DEF Chains, more

\* The kardex of a product, and what the row stores.
Accounted(p) == MovedUnits(kardex[p]) = product[p].stock /\ Chains(kardex[p], product[p].stock)

\* A movement that starts at the stored stock accounts for the stock it leaves.
LEMMA AccountedAppend ==
    ASSUME InventoryTypeOK, NEW p \in Products, Accounted(p),
           NEW type \in MovementType, NEW next \in Int, NEW src \in Documents \cup {None},
           kardex'[p] = Append(kardex[p], MovementRow(type, product[p].stock, next, src)),
           product'[p].stock = next
    PROVE  Accounted(p)'
  <1> DEFINE m == MovementRow(type, product[p].stock, next, src)
  <1>1. product[p].stock \in Int /\ kardex[p] \in Seq(Movement)
    BY DEF InventoryTypeOK, ProductRow
  <1>2. m \in Movement /\ m.previousStock = product[p].stock /\ m.newStock = next
          /\ m.quantity = next - product[p].stock
    BY <1>1, MovementRowType DEF MovementRow
  <1> HIDE DEF m
  <1>3. MovedUnits(Append(kardex[p], m)) = MovedUnits(kardex[p]) + m.quantity
    BY <1>1, <1>2, MovedUnitsAppend
  <1>4. Chains(Append(kardex[p], m), next)
    BY <1>1, <1>2, ChainsAppend DEF Accounted
  <1>5. MovedUnits(Append(kardex[p], m)) = next
    BY <1>1, <1>2, <1>3 DEF Accounted
  <1>6. kardex'[p] = Append(kardex[p], m)
    BY DEF m
  <1> QED BY <1>4, <1>5, <1>6 DEF Accounted, MovedUnits, Chains

\* The opening movement accounts for the opening stock.
LEMMA InventoryInitAccounted ==
    ASSUME InventoryInit
    PROVE  \A p \in Products : Accounted(p)
  <1> SUFFICES ASSUME NEW p \in Products PROVE Accounted(p)
    OBVIOUS
  <1>1. InventoryTypeOK /\ product[p].stock \in Nat
    BY InventoryInitType
  <1>2. MovedUnits(<<>>) = 0
    BY SumEmpty DEF MovedUnits
  <1>3. CASE HasInitialMovement(product[p], product[p].stock)
    <2> DEFINE m == MovementRow("PURCHASE", 0, product[p].stock, None)
    <2>1. m \in Movement /\ m.quantity = product[p].stock /\ m.newStock = product[p].stock
      BY <1>1, MovementRowType DEF MovementRow, MovementType
    <2>2. kardex[p] = Append(<<>>, m) /\ <<>> \in Seq(Movement)
      BY <1>3 DEF InventoryInit
    <2> HIDE DEF m
    <2>3. MovedUnits(kardex[p]) = MovedUnits(<<>>) + m.quantity
      BY <2>1, <2>2, MovedUnitsAppend
    <2>4. Chains(kardex[p], product[p].stock)
      BY <2>1, <2>2, ChainsAppend DEF Chains
    <2> QED BY <1>1, <1>2, <2>1, <2>3, <2>4 DEF Accounted
  <1>4. CASE ~HasInitialMovement(product[p], product[p].stock)
    <2>1. kardex[p] = <<>>
      BY <1>4 DEF InventoryInit
    <2>2. product[p].stock = 0
      <3>1. PICK kind \in [Products -> OpeningKinds] : product = [q \in Products |-> OpeningRow(kind[q])]
        BY DEF InventoryInit
      <3>2. product[p] = OpeningRow(kind[p])
        BY <3>1
      <3> QED BY <1>4, <3>2 DEF OpeningRow, NormalizeStock, HasInitialMovement, TracksStock
    <2> QED BY <1>2, <2>1, <2>2 DEF Accounted, Chains
  <1> QED BY <1>3, <1>4
=============================================================================
