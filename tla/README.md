# MeperPOS in TLA+

MeperPOS is a multi-tenant point of sale: a NestJS backend (`src/backend`) over
PostgreSQL through Prisma, and a Next.js frontend (`src/frontend`). Several
users of one organization sell, cancel, edit products and receive purchase
orders at the same time, each through HTTP requests served by asynchronous
handlers that interleave at every `await`. The backend keeps almost no state in
memory; what makes it right or wrong is the order in which requests read and
write shared rows, which of those statements are in one transaction, and what
happens when a request stops between two of them.

The frontend adds a second kind of state: copies of rows that age while a
cashier or an administrator works on them, tokens shared by the tabs of a
browser, and pages that poll work the server does after it has answered.

This directory models both: one module per service or stateful page, one action
per step that another request can get in between, the row locks that make
transactions wait, and a failure wherever a request can fail.

- [Components](#components)
- [How the database is modelled](#how-the-database-is-modelled)
- [Modules](#modules)
- [Runs](#runs)
- [Disagreements found](#disagreements-found)
- [Proofs](#proofs)
- [What is not modelled](#what-is-not-modelled)
- [Plan](#plan)

## Components

Paths are relative to `src/backend/src` unless they start with `src/`.

| Component | State | Operations | What is hard | What makes it right |
|---|---|---|---|---|
| Inventory (`products/product-type.logic.ts`, `src/backend/prisma/schema.prisma`) | `Product` rows (stock, version, active, type, tracksStock), `InventoryMovement` rows (the kardex) | pure rules: tracked?, normalized stock, which movement | three services write the same rows with three different disciplines: conditional relative, absolute under a version, absolute without | stock never negative; the kardex explains the stock; untracked holds no stock |
| Sales (`sales/sales.service.ts`) | `Sale`, `SaleItem`, `Payment` rows, the organization's sale number | create, update (cancel, partial return), forceClose | checkouts competing for the last units; a status checked outside the transaction; absolute restock; row locks in line order | a unit sold leaves once; numbers without gaps; a sale is cancelled once and gives back what it took |
| Products (`products/products.service.ts`) | `Product` rows and the movements of manual edits | create, update, deactivate, reactivate, remove | row and movement in separate statements; stale stock rewritten; conversions of type | no edit overwrites another; every movement recorded |
| Purchase orders (`purchase-orders/purchase-orders.service.ts`) | `PurchaseOrder`, `PurchaseOrderItem` | create, update, confirm, receive, cancel | status and pending quantity checked before the row locks are taken | lifecycle; never over-received; items and kardex agree |
| Sequences (`common/sequences/sequence.service.ts`) | `OrganizationSequence` per (organization, type, year) | nextNumber | taken inside the caller's transaction; the row of a new year | consecutive, unique |
| Dashboard cache (`common/services/cache.service.ts`, `reports/reports.service.ts`) | in-memory map with expiry | get, set, clear | a value computed before a clear is stored after it; a cancellation clears nothing | who sells sees the sale; nothing staler than the time to live |
| Plan limits (`plan-limits/plan-limits.service.ts`) | cached counts per organization | guard, count, invalidate | count cached and outside the insertion; rows that come in behind the guard | rows the guard let in fit the plan |
| Expenses (`expenses/expenses.service.ts`) | `Expense`, `ExpensePayment`, receipt images in a file store | create, update, addPayment, duplicate, remove, uploadReceipt | sums read before the insertion; the old image deleted before the new one is linked | status derived from the payments; no dangling receipt but one an upload owes |
| Tasks (`tasks/tasks.service.ts`) | `Task`, `TaskEvent` | create, update, updateStatus, remove | transition checked on a stale status | only allowed transitions; the events are the history |
| Cash registers (`cash-registers/cash-registers.service.ts`) | `CashRegister.isDefault` | create, update, remove | two statements to move the default | one default |
| Auth sessions (`auth/auth.service.ts`) | `RefreshToken`, `User.tokenVersion` | login, choice and change of organization, refresh, grace, logout | rotation against concurrent refreshes of the tabs of a browser | one active token, the cookie's, of the organization last chosen |
| Settings and plan (`settings`, `admin`) | the settings JSON of the organization and its version, its plan | read, merge, write; plan change | a plan change writes settings under no version | no update lost |
| Users (`users`, `admin`) | `User`, `OrganizationUser` with roles and the primary owner | add, update, toggle, remove, transfer ownership | an account shared by organizations and deleted by the last | one owner; a removal stays in its organization |
| Import jobs (`imports/*.ts`, `src/frontend/src/hooks/useImport.ts`) | jobs in memory, polled by a page | start, apply rows, retry a row, cleanup | restart in the middle; retries beside the job; a creation that fails after it inserted | the report tells the rows; a row makes one record; the page learns the end |
| Till (`src/frontend/src/app/pos/page.tsx`, `usePausedSales.ts`) | the cart, the sales paused in localStorage, requests in flight | scan, step, pause, resume, check out | answers that find another cart; stale prices and stock | nothing rung up is lost; a checkout of fresh lines is accepted |
| Billing (`billing`) | `PaymentRecord`, the organization's status | record a payment | two statements | not modelled |
| Categories, customers, suppliers (`categories`, `customers`, `suppliers`, `resolveCategory` of the imports) | rows with a unique key and an active flag, and what refers to them | create, update, remove, reactivate; a category resolved, revived or made for an imported row | uses that look at no flag; caches of imports; two imports that miss the same category | nothing in use is removed; imports make one category of a name |
| Reports (`reports/reports.service.ts`, `financial-aggregator.ts`, `common/utils/bogota-date.ts`) | none but its cache; it reads the money of `Sale` and the stamps of its rows | periods, the financial overview, sales by day, seller, category, method | the same sales cut in many ways; a sale booked on one day and taken back on another | the cuts add up; days that are over keep their figures |
| Receipts, exports, report rendering, the other pages | none of their own | rendering | | not modelled |

How they interact: sales, product edits and purchase receipts meet in the
`Product` rows, in the kardex and in the row locks; sales and orders take their
numbers from the sequences inside their own transactions; sales clear the
dashboard cache after their commit, and reports read the rows sales leave; products,
sales and orders name categories, customers and suppliers, and imports make
categories as they go; the foreign keys of `SaleItem`,
`PurchaseOrderItem` and `InventoryMovement` refuse the deletion of a product
they name. The back-office services (expenses, tasks, registers, users, settings
and plan, reports, numbering) share no rows with each other; the limit of the
plan reads the counts of what the others create. The pages meet the backend
only through requests, which they send once more, give up or send again.

## How the database is modelled

- **A request** is an element of `Requests`; its local state is a record with a
  program counter (`checkout`, `void`, `edit`, `clerk`). A request is made at
  most once, so that the number of requests of a kind is its set of names.
- **READ COMMITTED** (Prisma's default on PostgreSQL, and what every
  `$transaction` that does not ask for more runs at): a statement reads the
  latest committed rows; a write takes the row's lock and keeps it to the end;
  others see it at the commit. An open transaction therefore owns rows in
  `lock`/`itemLock` and carries its writes in its local state; the commit action
  installs all of them at once, a rollback only gives the locks back.
- **SERIALIZABLE** (`sales.service.ts:419`, `purchase-orders.service.ts:201`).
  The sale transaction reads no row it does not also write or lock, so that its
  effect is the one it would have in a single step; the step is its commit, and a
  serialization failure is one of the outcomes of `FailCheckout`/`AbortClerk`.
  The products were read *before* the transaction, in steps of their own.
- **`updateMany` with a condition** is a guard on the row at the moment the lock
  is granted, because PostgreSQL evaluates the condition again on the latest
  version of a row it had to wait for.
- **Deadlocks**: PostgreSQL aborts a transaction of the cycle. An abort can
  always happen in the safety runs; under fairness `BreakStoreDeadlock` fires
  only for a request on a cycle of `StoreWaitsFor`.
- **Back-office services** (`Desk`) run their statements outside transactions, or
  read first and write by id in a later `$transaction` without conditions. A call
  is a record with a program counter; each statement, or such a transaction, is a
  step, and `Stop...Call` ends a call anywhere with what it has written.
- **`serving`** is a constant of a behaviour that bounds the calls in service; a
  run has behaviours for each value up to `MaxServing`. Properties that start
  with `serving = 1 =>` say what sequences of calls, failures included, must
  keep; the others hold of any interleaving. Where the code keeps a property
  only without crossings, the comment of the property says what a crossing does.
- **The kardex** of a product is the sequence of its committed rows in commit
  order; `source` stands for the sale or order named in the row's `reason` and
  relation columns.
- **Stamps.** A row's `createdAt` or `cancelledAt` is taken while its transaction
  runs and the row appears at the commit, maybe on a later day: `Ledger` chooses
  the stamp between the two.
- **Foreign keys** (all `ON DELETE RESTRICT` towards `Product`) appear as
  `Exists` guards on inserts and as the guard of `Remove`.

Data left out because no property tells it apart: SKU, the contents of images and
documents, the names of most rows, and the organization (all rows belong to one;
every query in the code filters by it). In the store the money is left out too: it
is in `Ledger`, where stock in turn is.

## Modules

| Module | Models |
|---|---|
| `Inventory` | product rows, kardex, locks, the rules of `product-type.logic.ts`, and the three properties every writer of stock must keep |
| `Sales` | `SalesService.create` (`OpenCheckout`, `PriceLine`, `CommitSale`, and the ways it fails) and `SalesService.update` (`OpenVoid`, `ReadItem`, `WriteItem`, `CommitVoid`, `MarkPartial`, `AbortVoid`) |
| `SaleBook` | the abstract sales book: a sale takes its units if they are all there, a cancellation puts them back once |
| `Products` | `ProductsService.create`, `update` (`OpenEdit`, `WriteProduct`, `ReadBack`, `LogMovement`, each a statement of its own), `deactivate`, `reactivate`, `remove` |
| `PurchaseOrders` | `create`, `update`, `confirm`, `receive`, `cancel`; a receipt is `OpenReceive`, then `CheckItem`, `ReadProduct`, `AddStock`, `CountItem` for each item, `ReadItems` and `CommitReceive` |
| `PurchaseBook` | the abstract purchase book: the lifecycle of an order and what it may receive |
| `Store` | the three services over one inventory: each step is a step of one of them; deadlocks across services; the foreign keys that a removal meets |
| `Desk` | what the services below share: calls, how many are served at once, admission |
| `Tasks` | `TasksService`: rows and the timeline of events (`OpenTaskCall` reads and checks; `UpdateTask`, `UpdateStatus`, `RemoveTask` write) |
| `Expenses` | `ExpensesService`: payments against a total, the status derived, duplicates, and `uploadReceipt` as upload, deletion of the old image and link |
| `CashRegisters` | `CashRegistersService`: names and the default flag, one step per statement |
| `Members` | `UsersService` and the membership operations of `AdminService`: additions, roles, activation, removal that may delete the account, transfer of ownership |
| `Organization` | `PlanLimitGuard`/`PlanLimitService` with the cached count, `SettingsService` under its version, `AdminService.updatePlan`; restarts empty the cache |
| `Dashboard` | the two cached reports of `ReportsService` over `CacheService`, with the sales and cancellations that make them stale and a clock |
| `Numbering` | `OrganizationSequence` over the years: numbers, and the row that `updateSalePrefix` may make |
| `Ledger` | the money of `SalesService`: what `create` charges for a ticket and accepts (`RingUp`, `CommitRing`), cancellations and partial returns with their stamps (`OpenSaleUpdate`, `CommitCancel`, `MarkReturned`), and the clock |
| `Reports` | `ReportsService` as operators over the rows of `Ledger`: periods, `expandFinancialSale` and `aggregateFinancialSales`, and the reports of completed sales |
| `Directory` | `CategoriesService`, `CustomersService`, `SuppliersService` as three kinds of one protocol, what refers to their rows, and `resolveCategory` of both imports with its cache |
| `Office` | the services from `Tasks` on side by side; a behaviour is about one of them |
| `Sessions` | refresh tokens (`AuthService`), the browser's cookie, its tabs with their access tokens, the interceptor that refreshes and retries (`lib/api.ts`, `AuthContext`) |
| `ImportJobs` | `ImportsService` and `MultiSheetImportService`: the job in memory, its rows, retries, cleanup and restart; the page that polls it (`useImport`) |
| `Counter` | the till: cart, paused sales, checkout and resumption in flight, against a shelf that moves |
| `Browser` | the three pages side by side; a behaviour is about one of them |
| `MCSales`, `MCProducts`, `MCPurchaseOrders`, `MCStore`, `MCOffice`, `MCBrowser` | symmetry and scenarios for TLC; the mappings onto the two books are at the end of `Sales` and `PurchaseOrders` |
| `Sums`, `InventoryProofs`, `SalesProofs`, `ProductsProofs`, `StoreProofs`, `DeskProofs`, `OfficeProofs`, `BrowserProofs` | lemmas and theorems, see [Proofs](#proofs) |

`PROJECT.json` maps every definition to the lines it models. Definitions whose
comment starts with "Mutant" are plausible bugs, used to see that each property
can fail; no specification uses them.

Correspondences worth knowing when reading the code next to the modules:

- `checkout[c].read` is the `tracksStock`/`type` that `create` copies into
  `saleItems` when it prices a line (`sales.service.ts:168-258`). The decrement
  inside the transaction trusts that copy (`Stocked`), while `active` and
  `stock` are checked again by the `updateMany`.
- `void[v].restock` is `newStock`, computed from the `findFirst` at
  `sales.service.ts:622-636` and stored as an absolute value. The void decides
  with the product as it is *now*, not as it was sold.
- `edit[e].seen` is the row `update` read; `NewStock` is always written, also
  when the payload has no stock, and `version` must still be the one read.
- `clerk[c].seen` is the row `receive` read for one item. Within the transaction
  a request sees its own increments, hence `@ + clerk[c].add[p]`.
- `ItemId` names an item by its product and by what inserted it, so that two
  concurrent edits of one order may leave the items of both, as in the code.
- `expenseCall[c].total`/`.paid` are the copies `addPayment` and `update` derive
  the status from; `expenseCall[c].receipt` is the image `uploadReceipt` deletes.
- In `Sessions`, `exchange[c]` is a call of the auth API between its statements:
  what it read of its row stays with it while other calls change the table. The
  cookie is set when a pair is answered, or not at all when the answer is lost.
- In `ImportJobs`, `entry[i]` is what the report says of row `i`; `made` and
  `lost` are ghosts: which row made a record, and which creation was answered
  with an error after it inserted. The two services differ where
  `imports.controller.ts` asks the first and falls back to the second
  (`Retryable`: the promise is returned, not awaited, so that the fallback never
  runs for `productos`), and where they count a row: a workbook before it awaits the row,
  a product import after (`CountedAhead`).
- In `Ledger`, `gone` are the sellers whose account `UsersService.remove` deleted: their
  sales stay, under no user (`UserOf` in `Reports`). `UserPeriod` is the period of the
  report by user, which compares unless told not to; `DailySales` answers nothing to a
  request that leaves a date open (`BothGiven`).
- In `Counter`, a product may be deactivated: the page finds it no more (`AskedFor`), the
  cart and the paused sales keep their copy of it, and the server refuses the checkout
  (`Accepts`).
- In `Counter`, `owed` counts the units asked for and not sold, `excused` turns
  true where the page itself gives units up; both are ghosts and guard nothing.

## Runs

All bounds are constants of the configurations: number of products and of
requests of each kind, `MaxQty`/`MaxOrdered`/`MaxStock` (units on a line, an
order, a payload), `MaxInFlight`/`MaxServed`/`MaxServing` (requests served at
once; 1 makes the service sequential). Two of each are what the races need: two
requests that read the same row, two lines for "one written, the other not" and
for opposite lock orders. `CHECK_DEADLOCK FALSE` everywhere, because a finite set
of requests ends.

| Run | Question | Properties |
|---|---|---|
| `sales_book` | Do two checkouts and two cancellations that race for the same units, with services, missing products and failures, behave as the sale book, but for what they do when overtaken? | `SaleNumbersConsecutive`, `KardexTellsTheStock`, `ImplementsSaleBook` |
| `products_edits` | Does the version guard protect concurrent edits, conversions, deactivations and stops? | `KardexLagsByUnlogged`, `UntrackedHoldsNoStock`, `NoEditIsOverwritten` |
| `orders` | What do three receipts of one order, or any two requests at a time, keep, and is the service the purchase book, but for the requests that are overtaken? | `ReceiptsMatchKardex`, `ReceivedMeansComplete`, `KardexChained`, `TotalsMatchItems`, `ImplementsPurchaseBook` |
| `store_mix` | What do all services of the store together keep? | `StoreTypeOK`, `NeverOversold`, `SoldUnitsLeaveOnce` |
| `store_liveness` | Is every accepted request answered, though voids and receipts lock the same rows in opposite orders, and does a void give back the whole sale? | `EveryStoreRequestIsAnswered`, `VoidReturnsWholeSale` |
| `office` | What do the back-office services keep, one call at a time and two at once? | `OfficeTypeOK`, `TimelineTellsStatus`, `TimelineIsAHistory`, `StatusTellsPayments`, `DanglingReceiptsAreOwed`, `AtMostOneDefault`, `OneOwner`, `RemovalsStayInTheOrganization`, `GuardedRowsFitThePlan`, `NoSettingIsLost`, `DashboardShowsEverySale`, `ReportsAreBoundedlyStale`, `NextNumberIsFree`, `ReportsReconcile`, `ClosedPeriodsKeepTheirOverview`, `DirectoryKeepsWhatIsUsed` |
| `browser` | What do the pages with a state of their own keep against the server, and do the waits they start end? | `BrowserTypeOK`, `ActiveTokenIsTheCookies`, `RequestsAreSettled`, `ReportTellsTheRows`, `RowsAreMadeOnce`, `PageLearnsTheEnd`, `NothingRungUpIsLost`, `FreshCheckoutIsAccepted` |
| `sales_double_void`, `orders_over_receipt`, `store_edit_race`, `store_service_void`, `sessions_two_tabs` | see below | one each, violated |

Bounds of the composed runs, and why they are enough:

- `sales_book` has two checkouts and two cancellations or marks, all four in flight at
  once (`MaxInFlight` 4), over two products with three units and up to two on a line:
  enough for two checkouts that compete, two voids of one sale, a void that overwrites a
  sale it has not seen, and lines in both lock orders.
- `orders` has three requests and two scenarios, told apart by the rigid variable
  `receipts` of `MCPurchaseOrders`: three receipts of an order that is pending, all at
  once; or any three requests, two at once. The commit of an update that was overtaken
  ends a behaviour: it leaves items that the totals and the movements do not tell of
  (`TotalsMatchItems`, `ReceiptsMatchKardex`), and the refinement excuses that very step.
- `office` and `browser` compose services that share no state. The rigid variable
  `part` says which one a behaviour is about, so that the state space is the sum
  of the parts and not their product: a step of one cannot touch a property of
  another. `office` has three calls, two at once; that is one call to prepare a
  state, and two that cross on it. One limited row fits the plan and two exist;
  the clock runs past `TTL` once (`MaxTime` 2, `TTL` 1); three years pass.
  The ledger has two sales and four tickets: one discounted on a line and on the whole
  and overpaid, one paid by card, one that comes to nothing, one not paid in full, which
  is refused. They hold a taxed service beside goods, two methods and two sellers, one of
  whom may lose the account (`Leaving`); every share of a discount is a whole amount, so
  that integers do what `Decimal` does. A day has two moments and the clock stops at the
  first moment of the second day (`TicksPerDay` 2, `LastTick` 2): a sale may be made on
  one day and cancelled on the other, and a stamp may fall before midnight and its
  transaction commit after it. The periods asked for are all pairs of days, open ends
  included.
  The directory has two rows over two names in three spellings, and two references.
- `browser` has two calls, two tabs, two organizations, one waiting request, and
  at most `MaxTokens` = 3 refresh tokens, enough for a rotation, the grace window
  and a change of organization in a row. An import has two rows over two codes,
  so that a duplicate, a correction and a row that fails each occur. The till has
  one product with two prices, active or not, stock and units up to 2 and one paused sale.
  In `Counter`, `Lively` (the shelf moves and the cashier edits lines) is on only
  with one call at a time; with two in flight the cart changes by answers alone,
  scans and resumptions.

`NeverOversold` holds under full interleaving although a void stores an absolute
stock: what it stores is a read plus a positive quantity, hence never negative,
and every decrement is conditional. What that write does *not* keep is the sum, and
the properties of the sales say so step by step instead of keeping other requests out:
`ImplementsSaleBook` allows the last step of an update that was overtaken
(`StaleCommit`: its sale is no longer completed, or the stock of a line is no longer
the one it read) to leave the book, and no other; `KardexTellsTheStock` allows a RETURN
row to start where the row before it did not end, but only at a stock that some row no
older than the sale left. `ImplementsPurchaseBook` does the same for purchase orders
(`StaleEnd`).

Two properties except what the code does give up, and name it. `NothingRungUpIsLost`
stops counting (`excused`) after a sale whose answer is lost or that is answered
to another cart, a sale resumed over lines or over another resumption, and two
equal sales paused as one. `RowsAreMadeOnce` and `ReportTellsTheRows` leave out
the rows whose creation inserted the product and then failed (`lost`). A workbook counts a
row as processed before it awaits it, and a product import after: `CountedAhead` is that row.

### Fairness

- `StoreFairness`: weak fairness of the steps of a request the server has
  accepted, since Node runs every continuation and the database answers every
  statement, and of the deadlock detector. Opening a request is not fair (clients
  owe nothing), nor is any failure: a request must not depend on a timeout to end.
  `MaxServed` and `MaxInFlight` bound only the openings.
- `FairBrowserSpec`: one weak fairness condition on `BrowserWork`, the steps that
  take themselves: an auth call runs its next statement and is answered, a tab
  whose requests wait asks for a token and sends them again, an import goes to its
  next row, the page's timer fires. Nothing is assumed of users, of the passing
  of time, of restarts, of losses. `RequestsAreSettled` says that a request
  refused for its token is sent again or given up with the session;
  `PageLearnsTheEnd` that a page that saw its import at work sees its end, unless
  the server forgot the job (a restart, or the cleanup after half an hour): then
  the page polls for ever, and the property says no more than that.

## Disagreements found

Each is a run whose property TLC finds violated, because a line of the repository
says what the code does not do.

- `sales_double_void`. `update` checks `status === 'COMPLETED'` before its
  transaction and writes `CANCELLED` by id, so that two concurrent cancellations
  both restock: a line of the sale gets two RETURN movements.
- `orders_over_receipt`. Two receipts check the pending quantity on committed
  data before either has the item's lock; the increment is unconditional, so
  that `qtyReceived` exceeds `qtyOrdered`.
- `store_edit_race`. An edit that omits the stock still writes the one it read,
  guarded by a version that sales do not increment: the sale's decrement is undone.
- `store_service_void`. No race at all: sell a service, convert it to tracked
  merchandise, cancel the sale, and units appear that never left.
- `sessions_two_tabs`. A rotation revokes its row and only then makes the new
  one; a tab that presents the same cookie in between finds a revoked row and no
  newer one to fall back to, and is sent to the login. `secrets-rotation.md`
  promises a grace period in which tabs do not end each other.

The same modules show more of the kind, which a property then names as its exception
or leaves to the sequential side (it starts with `serving = 1`):

- a cancellation that overwrites a concurrent checkout's decrement (`Overtaken` in
  `ImplementsSaleBook`), and a void that stores stock in a product no longer
  tracked (`UntrackedHoldsNoStock` in `Store`);
- a confirmation or an edit of an order that lands after its cancellation, a
  cancellation that lands after a receipt, receipts that take in more than was ordered
  (`OutOfDate` in `ImplementsPurchaseBook`);
- two changes of the sale prefix that both find no row and insert one on both sides of
  a new year: each year's row then gives numbers the other has given (`NextNumberIsFree`);
- the user of a sale goes with the account in `schema.prisma` (`SetNull`, l.256), and the
  report by user leaves such sales out (`CutsAddUp`); the migrations still create the
  foreign key with `ON DELETE RESTRICT`, under which the deletion fails. The model
  follows the schema;
- an edit of a product that stops after its row is written and never logs its
  movement (`KardexLagsByUnlogged` counts those on purpose: the kardex lags by
  exactly them);
- two payments of an expense at once exceed its total, although the service
  refuses more than the total (`StatusTellsPayments`);
- `applySystemKeys` preserves every key a user owns of the document it was given;
  a downgrade that runs beside an update was given an older one, and the update's
  keys go without a conflict (`NoSettingIsLost`);
- a removal deletes the account, and with it the membership another organization
  has added after the count (`RemovalsStayInTheOrganization`);
- two transfers of ownership leave two owners, a transfer to a member who is
  being removed leaves none (`OneOwner`);
- two creations at once both pass the plan's guard (`GuardedRowsFitThePlan`);
- a rotation that read its row before `revokeUserTokens` issues its pair after it
  (`ActiveTokenIsTheCookies`);
- a sale marked RETURNED_PARTIAL by a request that read it before its cancellation
  committed keeps its `cancelledAt` and its RETURN movements under a status that is
  not CANCELLED: the overview takes it back twice (`ReportsReconcile`);
- a second cancellation moves `cancelledAt`, and with it the reversal, out of a day
  that is over (`ClosedPeriodsKeepTheirOverview`); the dashboard and the other
  reports count the sales completed now, so that their past figures change with any
  cancellation, where the overview's do not;
- the change given is not taken off a payment: the payments of a period add up to
  what was handed over, not to its revenue (`CutsAddUp` says by how much);
- `remove` refuses a category with products and a customer with sales, but an edit
  that sends `active: false` asks nothing, and sales and products take a removed
  customer or category (`DirectoryKeepsWhatIsUsed` lets a row be hidden by an edit,
  and leaves out what was given to a row that was inactive);
- an import that loses the creation of a category uses the one that won without
  making it active, which it does wherever else it meets a removed one;
- a workbook's failed `productos` row can never be retried: the answer is 404,
  because the promise of the first service is returned and not awaited;
- the resumption of a paused sale takes the price anew but keeps the amount of every
  discount, in percent too, and forgets the price a cashier typed (`Repriced`; adding a
  unit or stepping the quantity do compute the percentage again); both pass the server's
  checks, so that no property fails by them;
- a product removed while its sale is paused is kept as it was, since the page takes the
  old one when the fetch fails, and the server refuses the checkout
  (`FreshCheckoutIsAccepted` asks for products that are active);
- a resumed line whose stock is gone can be stepped to no units, which the server
  refuses (`FreshCheckoutIsAccepted` asks for `qty > 0`).

## Proofs

TLC explores small instances; these theorems hold for every value of the
constants. They rest on the named assumptions of the modules, which TLC evaluates
in the runs (`InventoryAssumption`, `SalesAssumption`, `ProductsAssumption`,
`PurchaseOrdersAssumption`, `DeskAssumption`, and one for each of the services and
pages that has constants): the kinds of identifiers do not overlap, the calls are
finitely many (a run of the program has answered finitely many requests), the rows a
plan limits and what is sold likewise, and prices, quantities and bounds are natural
numbers. `ReportsAssumption` also says that the discount on a whole sale comes to whole
amounts when its lines share it (`SharesAreWhole`): the models divide integers where the
code divides `Decimal`s, and only there do the two agree. `CounterAssumption` says that
there is a highest price: the column is `Decimal(10, 2)`. Three theorems have a hypothesis of
their own, because the code keeps the property only there:

- `NoRacingUpdates` (`ReceiptsFollowKardex`, `TotalsFollowItems`,
  `ReceivedIsComplete`): if orders are updated at all, one request is served at a
  time. Two updates at once leave the items of both beside the totals of one, and an
  update beside a confirmation and a receipt deletes items that were received. The
  hypothesis says nothing where no request is an update: receipts, confirmations and
  cancellations then race without bound.

Properties that start with `serving = 1 =>` carry their hypothesis themselves.

### The store

| Theorem | Says | Argument |
|---|---|---|
| `SalesTypeCorrect` | `SalesSpec => []SalesTypeOK` | not inductive alone: a void that is writing must name a product, and one under way a sale (`VoidsNameSales`) |
| `SalesNeverOversold` | `=> []NeverOversold` | the absolute stock a void holds is itself not negative (`RestockNonNegative`), because it was computed from a stock that was not |
| `SalesNumbered` | `=> []SaleNumbersConsecutive` | a checkout commits once, and a void never brings a sale back to "none" (`SalesAreMadeOnce`) |
| `SalesLeaveOnce` | `=> []SoldUnitsLeaveOnce` | a committed checkout is never priced again, so that its lines stay what they were; only its own commit appends a SALE row of that sale |
| `SalesReturnWhole` | `=> []VoidReturnsWholeSale` | a sale's items are its basket (`SalesAreTheirBaskets`), and the lines a void has collected, is at and has still to do are the tracked lines of its sale (`VoidsCollectTheirSales`), the rows it owns being the collected ones |
| `SalesKardexTells` | `=> []KardexTellsTheStock` | a void that has read a line holds its row from then on; the stock it computed from was left by a row of the kardex, and that row is not older than the SALE of the units it gives back (`ReadsAreRecent`), whatever commits later; every other row starts at the stored stock (`Tells`) |
| `SalesAreTheBook` | `SalesSpec => ImplementsSaleBook`, with no hypothesis | what a sale holds out of stock, by the kardex, is its tracked items until it is cancelled or marked (`SalesHoldTheirUnits`). Only three actions move the book: the commit of a sale, of a void, of a mark; the last two are steps of it if nothing overtook them |
| `ProductsTypeCorrect` | `ProductsSpec => []ProductsTypeOK` | an edit that has read names a product (`EditsNameProducts`) |
| `UntrackedNeverHoldsStock` | `=> []UntrackedHoldsNoStock` | every row any action writes is sound (`SoundRow`): normalization and the type rule are applied together |
| `NoEditOverwritesAnother` | `=> NoEditIsOverwritten` | versions only grow and every change of stock, type or flag grows them, so that a row with the version that was read is the row that was read (`ReadsAreCurrent`) |
| `KardexLags` | `=> []KardexLagsByUnlogged` | each edit owes one movement at most, and the stock is what the kardex moved and what the edits owe (`LagInv`); needs `UntrackedHoldsNoStock` and `ReadsAreCurrent`, without which a conversion would move stock that no row tells of |
| `OrdersTypeCorrect` | `OrdersSpec => []OrdersTypeOK` | an item under way is an item (`ClerksNameItems`) |
| `OrdersKardexExplains` | `=> [](KardexExplainsStock /\ KardexChained)` | the rows a receipt has not committed chain on to the kardex as long as it holds the product's row (`HoldsBack`), and the row it read has the version it will write over (`ReadsTheRow`) |
| `ReceiptsFollowKardex`, `TotalsFollowItems`, `ReceivedIsComplete` | no racing updates: `=> []ReceiptsMatchKardex`, `=> []TotalsMatchItems`, `=> []ReceivedMeansComplete` | one invariant for the three: `OrderSound` relates an order's status, totals, items and movements; `ClerkSound` says what a request still in flight knows of them; the items an update inserts are its own and fresh (`FreshItems`), and creations and updates have their order to themselves |
| `OrdersAreTheBook` | `OrdersSpec => ImplementsPurchaseBook`, with no hypothesis | a receipt has every item it was asked for ahead of it, under way or behind it, and its increments are the units of those whose product it wrote (`ReceiptKnown`), whoever else is at work (`ClerkKnown`); if nothing of what it read has moved, the commit is a receipt of the book. The book's columns are sums over the items of an order and the stock of the products: only commits move them |
| `StoreTypeCorrect` | `StoreSafetySpec => []StoreTypeOK` | a step of one service keeps its own part by that service's step lemma, and the others' because it leaves their local state alone |
| `StoreNeverOversold` | `=> []NeverOversold` | three ways of writing stock, three conditions: conditional decrements, restocks computed from no debt, and edits that read no debt (`EditsSeeNoDebt`); receipts only add |

`NoEditOverwritesAnother` is a theorem of the products *alone*: in `Store`,
sales and voids change the stock without the version, which is exactly what
`store_edit_race` shows. For the same reason the kardex is explained service by
service and not for the store.

### The back office

| Theorem | Says | Argument |
|---|---|---|
| `TasksTypeCorrect`, `TimelineFollowsTask` | `TasksSpec => []TasksTypeOK`, `=> []TimelineTellsStatus` | a call past its read names a task that exists and can only be deleted (`CallsHaveTasks`); each event carries the status its own transaction leaves |
| `TimelinesAreHistories` | `=> []TimelineIsAHistory` | alone, a call finds the task as it read it, so that its event extends the history (`AppendHistory`); timelines are empty exactly where there is no task |
| `ExpensesTypeCorrect`, `OwedReceipts` | `ExpensesSpec => []ExpensesTypeOK`, `=> []DanglingReceiptsAreOwed` | an image belongs to the expense of the upload that made it, for every reader (`ReceiptsBelong`): who deletes it is who owes the link; an image about to be linked is in the store (`UploadsAreStored`) |
| `StatusIsSound` | `=> []StatusTellsPayments` | alone, the row is what was read and what was asked was accepted, so that the derived status is that of the row as written |
| `RegistersTypeCorrect`, `DefaultIsUnique` | `RegistersSpec => []RegistersTypeOK`, `=> []AtMostOneDefault` | a call between its two statements has left no default at all (`DefaultsAreCleared`), wherever it stops |
| `NumberingTypeCorrect`, `NumbersAreFree` | `NumberingSpec => []NumberingTypeOK`, `=> []NextNumberIsFree` | the only row of a type is behind no printed number, nothing is printed without a row, and orders never get a second one (`RowsCount`), whatever interleaves; alone, nor do sales (`OneSaleRow`), since a prefix call finds no SALE row |
| `DashboardTypeCorrect`, `SalesAreShown`, `StalenessIsBounded` | `DashboardSpec => []DashboardTypeOK`, `=> []DashboardShowsEverySale`, `=> ReportsAreBoundedlyStale` | a report, cached or on its way, is honest about what happened before its queries began (`ReportsAreHonest`); alone, a sale that is not shown is one whose call has still to clear the cache (`NoSaleIsHidden`) |
| `MembersTypeCorrect`, `OwnerIsUnique`, `RemovalsAreLocal` | `MembersSpec => []MembersTypeOK`, `=> []OneOwner`, `=> RemovalsStayInTheOrganization` | exactly one member of each organization is its primary owner (`OneOwnerEach`), and what a call in flight read of the members still holds (`MembersAlone`) |
| `OrganizationTypeCorrect`, `GuardHolds`, `SettingsAreKept` | `OrganizationSpec => []OrganizationTypeOK`, `=> []GuardedRowsFitThePlan`, `=> NoSettingIsLost` | alone, a cached count covers the rows the guard let in (`Fitting`), whatever came in behind it, but between a creation and its invalidation (`OneOrgCall`); a document with the version that was read is the document that was read |
| `LedgerTypeCorrect` | `LedgerSpec => []LedgerTypeOK` | a call past its read names a sale (`LedgerInv`) |
| `ClosedPeriodsStand` | `=> ClosedPeriodsKeepTheirOverview` | a sale that was made is charged and dated, and shows no trace of a cancellation before it is cancelled (`SalesAreCharged`); what a call commits it stamps after its own beginning, hence after the period, so that a sale not yet cancelled comes to the same entries there (`SaleStands`), and the same entries of the same tickets are worth the same (`OverviewStands`) |
| `ReportsTellOneStory` | `=> []ReportsReconcile` | each cut of the sales is a sum by key, and categories against products, days or methods are tables summed the other way (`CutsDoAddUp`); days need both dates, and users (`UsersAddUp`) take any period, less the sales that are nobody's; alone, an update finds a completed sale (`UpdatesFindCompletedSales`), so that nothing is returned in part and the entries of a period are its bookings and its reversals (`EntriesAreBookings`), each worth its whole ticket (`EntryWorth`), with the discount shared out without a rest (`NetLinesAddUp`); a period and the one before it part their entries (`PeriodsDoMeet`) |
| `DirectoryTypeCorrect`, `DirectoryIsKept` | `DirectorySpec => []DirectoryTypeOK`, `=> []DirectoryKeepsWhatIsUsed` | keys are unique by the index (`KeysAreUnique`), and imports spell a name alike (`ImportedAreTitled`); alone, what a removal counted is what it removes |
| `OfficeIsItsServices` | `OfficeSpec` implies the specification of each service | a step of one service is a step of it or leaves its variables alone; registers start with what `part` says |
| `OfficeTypeCorrect`, `OfficeKeepsItsPromises` | `OfficeSpec => []OfficeTypeOK`, and the conjunction of the promises above | from the theorem before, so that each is a theorem of the specification the run `office` explores |

"One call at a time" becomes a fact about states in `DeskProofs`: with
`serving = 1` a call is admitted only when none is in service (`AdmittedAlone`,
from the cardinality of finite sets).

### The pages

All are theorems of `BrowserSpec`, the specification of the run `browser`.

| Theorem | Says | Argument |
|---|---|---|
| `CookieIsKept` | `=> []ActiveTokenIsTheCookies` | alone and with no answer lost, the tokens that are active are the cookie's and those a sign-in has replaced; a call in flight holds the only row it read |
| `ImportReportsItsRows`, `ImportMakesRowsOnce` | `=> []ReportTellsTheRows`, `=> []RowsAreMadeOnce` | one invariant (`ImportsInv`): the rows ahead of the job are untouched; a row that made a record is behind the job and not pending (`MadeAreSettled`), and no two records have one maker (`MakersDiffer`); the counts are the cardinalities of the pending rows and of the records told of, and add up to the rows that are settled (`CountsAddUp`, `RowsSettled`), which a workbook's count is ahead of while it creates one; a retry in flight has a row that is still pending |
| `CounterSalesAreAccepted` | `=> []FreshCheckoutIsAccepted` | the discounts of a cart fit its lines, whichever of the edits made them (`DiscountFits`), and that of a resumed line shrinks to its new price (`RepricedFits`); its quantity is not cut to the stock it finds, which the property leaves out |
| `CounterKeepsWhatIsRungUp` | `=> []NothingRungUpIsLost` | the page's folds are sums; the units in the cart, in the paused sales and in the sale being resumed are those owed and those of sales made whose answer is on its way (`UnitsKept`), and every step moves units from one of these to another |
| `BrowserIsTyped` | `=> []BrowserTypeOK` | the conjunction of the invariants above with a shape for each page, below |

`BrowserTypeOK` has bounds that no single step enforces, so it needs the strongest
invariants of the three:

- `SessionsShape`: every refresh token to come was counted when its call or its request
  was let in. Tokens issued, page calls that end in a pair (`Issuing`) and requests that
  may still need a refresh (`Unsettled`) never exceed `MaxTokens`, and the user's version
  never exceeds the tokens and the calls that bumped it (`Budget`). A pair takes the place
  of its call, or of a request that waits for it; that one always waits (`LaneShape`) is
  the hard part: a refresh that fails refuses the waiting requests of its tab, so that
  nothing else of the tab may depend on them. A page that restores its session is loading,
  and a loading page has no request waiting. The bound is the model's; that a refresh in
  flight has a request waiting for it, and a page's restore none, is the code's.
- `ImportShape`: a workbook goes sheet by sheet, so the products passed over as a whole are
  the first rows and the customers the last, and no job stands beyond its file
  (`SheetCounts`, from the cardinality of the rows of each sheet); a job that is kept, or
  has a retry in flight, has a status the page knows.
- `PageShape`, with the stock each line of a cart was given (`OnAShelf`, part of
  `Carts`): a discount never exceeds its line, and a line never the stock there can be.

### How sums are proved

`Sums` proves what `SumFunctionOnSet` does for every finite set: it is a number, adds
the element that is added, agrees where the functions agree, does not depend on the
order in which the fold takes its elements, is linear, and adds up over disjoint sets,
by key, and over a table by rows or by columns. The fold is defined by recursion over the
set, and the library's induction theorems take an operator the installed provers
cannot instantiate; its theorem that finite sets are well founded under strict
inclusion takes none. So the induction is the argument that a smallest bad subset
(`SmallestSubset`) would have a smaller one. All sums of the kardex, the items, the
cart, the books and the reports rest on this module.

### How the proofs are laid out

One lemma per action that says what it does to the tables and to the request's local
record, then one step lemma per part of the invariant that goes through the actions,
then the theorem. TLC checked each invariant on an instance before it was proved.

What the proofs taught about the models: `Counted` had cases that overlapped and is
now a case distinction; the EXCEPT of `CommitCancel` used `@` inside another one and
is written out; the sums of the orders turned out not to be invariants without
`NoRacingUpdates`, which TLC confirmed with the counterexamples above.
What the kardex keeps under crossing cancellations, and which steps leave the two books,
was found by proving without a hypothesis until only the excused steps were left.

### Only model-checked

- Liveness (`EveryStoreRequestIsAnswered`, `RequestsAreSettled`,
  `PageLearnsTheEnd`): fairness and ENABLED are beyond the provers.

Every other invariant and action property of a passing run is a theorem.

## What is not modelled

- Most of the repository's lines: pages that render what the API answers, DTOs and
  their validation, controllers that call one service, spreadsheets, receipts and
  exports. They keep no state that two steps could disagree on, so that the modelled
  share of the lines stays small.
- Money and stock in one module: `Sales` ends a checkout whose totals or payments are
  invalid in `FailCheckout`, `Ledger` ends one whose stock runs out in
  `RollBackLedgerCall`. Price overrides and promotions choose a price (`Ledger` takes
  the catalogue's), rounding to cents is absent (amounts are whole). `Counter` models
  prices and line discounts, where the page and the server must compute alike; not
  taxes nor the discount on a whole sale.
- Reports: expenses in the overview, cash flow, which books a payment on its own day,
  the inventory snapshot, best sellers, customer statistics, and the percentages.
- `Directory`: accents, which the caches of imports fold and the table does not; the
  supplier that a draft order is confirmed with.
- `Counter`: customers, services, a reload of the page, and a second tab, which
  overwrites the paused sales in localStorage without any race.
- `Sessions`: a second browser of the user (the grace window may answer with its
  token), registration, password changes, memberships that change meanwhile.
- `ImportJobs`: suppliers and users (imported like customers), barcodes and
  categories on the way; two imports at once (each page polls its own job); a poll
  that fails the first time, after which the page never polls again.
- `forceClose`: it requires a sale in status OPEN, and no code creates one, so
  that it always refuses.
- Roles: a request its user may not make is refused before it reads or writes
  anything the properties speak of.
- Billing: a payment record is inserted and, when paid, the organization set
  ACTIVE in a second statement; the nightly job does nothing by design. The status
  only gates requests.
- A basket with two lines of one product: the frontend merges them, and the
  model has one quantity per product.
- Everything listed `not_modelled` in `PROJECT.json`, with its reason.

## Plan

Done: the store (`Inventory`, `Sales`, `SaleBook`, `Products`, `PurchaseOrders`,
`PurchaseBook`, `Store`), the back office (`Desk` to `Office`, with `Ledger`,
`Reports` and `Directory`), the pages
(`Sessions`, `ImportJobs`, `Counter`, `Browser`), and the proofs above. Next:

1. A second browser in `Sessions`, and the till of `Counter` against the backend of
   `Sales` instead of a shelf that moves at will.
