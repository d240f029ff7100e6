# kassa in TLA+

kassa is a point of sale for small merchants: an offline-first web application
at the till (`apps/pos`), an API that keeps the books (`apps/api`), a back office
(`apps/back-office`), and two shared packages (`packages/schemas`,
`packages/payments`). This directory models the parts of it whose correctness
depends on the order in which things happen: the till sells while it is offline,
posts its sales later and more than once, dies with requests under way, and the
API has to book every document exactly once.

Every definition is translated from the source; the lines it stands for are in
`PROJECT.json` under `map`.

## 1. The system

| Component | State it keeps | Operations | What makes it correct | Module |
|---|---|---|---|---|
| Sales service (`api/services/sales`) | sales by id, the index by `localSaleId`, the append-only stock ledger | submit, void, refund, reconcileSyntheticSales, lists | every document booked once; stock never oversold; refunds within the sale | `SalesService`, `SalesReports` |
| BOM explosion (both sides) | none | lines to stock movements | one movement per component, summed | `Explosion` |
| Shifts service | shifts by open and close id | open, close | idempotent on the ids; expected cash | `TillDay`, `DayClose` |
| End-of-day close | one record per outlet and date | close, CSV | the day is closed once, with the same sales on both sides | `DayClose`, `SalesReports` |
| Catalog service | items, BOMs, units | create, update, delete, bulk upsert, list | no change is lost to a till that pulls by stamp | `CatalogStore` |
| QRIS payments (`payments`, `api/routes/payments.ts`) | the provider's orders, the webhook dedupe | create order, webhook, poll | a payment is announced, and heard | `QrisOrders` |
| Static QRIS reconciliation | unverified tenders, the settlement report | nightly pass, owner's pass, manual match | one row verifies one tender, and is counted once | `Reconciliation` |
| Enrolment | codes, devices | issue, redeem | a code enrols one device | `Enrolment` |
| POS outbox (`pending_sales`) | one row per sale with its status | enqueue, drain, requeue, hydrate | nothing is dropped; a synced row is on the server | `PosOutbox`, `SaleDelivery` |
| POS sync runner | `inFlight`, a timer | cycle, triggerPush | pull and push make progress | `PosOutbox`, `TillDay`, `TillMirror` |
| POS shift and void outboxes | events, optimistic flags | enqueue, drain, roll back | order of the day is kept | `TillDay` |
| POS reference pull, catalog toggles | cursors, rows, one outbox row per item | pull, toggle, drain | no row skipped; a mark waits until the API has it | `TillMirror` |
| Cart, tray, tender panels, stock snapshot | cart, parked carts, on-hand by item | ring, park, resume, tender, decrement, pull | a unit is sold once; labels never hide stock | `Counter` |
| QRIS tender panel | the order on screen, the poll | create, poll, reset, finalise | a sale is backed by its payment, and paid once | `QrisTender` |
| Idle lock | lock, attempts, cool-down, timer | watch, lock, unlock | an idle till locks; guesses are paced | `IdleLock`, `TillAccess` |
| Receipt lookup and void of the sale found | rows of the till, the sale at the server | find, hydrate, void | the card is the sale asked for; a void stays | `FindSale` |
| Receipt media and printer | the paired printer, print jobs | print, PDF, share | a receipt is whole; the media agree | `ReceiptPrint` |
| Dashboard, bucket, cashier-day report | reads of the recorded sales | list, page, aggregate | the reports agree with each other | `SalesReports` |
| Back office screens | session, filters, request under way | login, filter, load | a screen shows what it asked for | `OfficeScreens` |
| Back office store | a store in localStorage, one copy per tab | edit, import, match | an import lands whole; nothing unverified is dropped | `OfficeStore` |
| Service worker | Workbox's queue of posts | queue, replay, expire | replays are harmless | `PosOutbox` |

Interaction. A sale is finalised in one IndexedDB transaction (row and local
stock), and drained to `/v1/sales/submit` by `pushOutbox`. The runner's cycle
pulls the reference tables, then drains shift events, catalog toggles, sales and
voids, in this order; any screen may call `triggerPush` beside it. The service
worker keeps a copy of a post whose fetch failed and replays it when the
connection returns. The server answers a replay with 409 and the sale it has. At
the end of the day the till sends the ids of its sales, and requeues those the
server lacks. A sale paid by dynamic QRIS waits for the provider, whose notices
reach the API and whose status the till polls through it; one paid by static
QRIS is verified later, against the provider's settlement report. The back
office reads what the API holds; its catalog, outlets and staff are as yet a
store of its own in the browser.

What is hard: every `await` at the till lets other callbacks in; a tab can die
at any of them; a component that is unmounted leaves its promises behind; the
connection fails before or after the server acted; two drains may hold the same
row; handlers of the API are atomic only because the in-memory repository never
yields, and its contract (`repository.ts` 33-41) promises a database behind the
same calls, which the catalog has already; void and refund read the catalog of
the moment, not of the sale. `PROJECT.json` lists each hazard at its line.

## 2. Modules

| Module | What it is |
|---|---|
| `Explosion` | `explodeLines` and what submit validates before it, as pure operators |
| `SalesService`, `MCSalesService` | submit, void and refund over the repository and its ledger; the catalog and the carts of the instance |
| `SaleDelivery` | what the outbox promises the rest of the till |
| `PosOutbox` | rows, drains, service worker, connection, server's record |
| `TillDay` | shifts, sales and voids of a till's day, the order of a push, what the API makes of it |
| `DayClose`, `MCDayClose` | closing one business day: the screen, the handler, the probes it balances, the shift closes beside it |
| `QrisOrders` | orders at the provider, notices, the webhook handler with its dedupe |
| `QrisTender`, `MCQrisTender` | the QRIS panel of the till over `QrisOrders` |
| `Reconciliation`, `MCReconciliation` | passes, manual matches, the settlement report |
| `CatalogStore` | the items at the API, their stamps and their listing |
| `TillMirror`, `MCTillMirror` | the till's copy of the catalog over `CatalogStore`: pull and toggles |
| `Counter`, `MCCounter` | cart, tray, tender panels and stock labels of one till |
| `Enrolment`, `IdleLock`, `TillAccess` | codes and devices; the lock; the two composed |
| `SalesReports` | bucket pages, dashboard, cashier-day report, the close's breakdown and file, and the tables that show them |
| `OfficeScreens` | login, gates and the screens that load, over `SalesReports` |
| `OfficeStore` | forms, import and manual match over localStorage |
| `MCOffice` | the back office as one instance of four parts: the screens that load, the walk of a bucket beside late sales, the reports over the sales alone, the store |
| `FindSale`, `ReceiptPrint` | receipt lookup with the void of the sale found; media and printer |
| `MCReceipts` | receipts as one instance of four parts: lookups, the void beside them, the printer, the renditions of a sale |
| `SalesServiceProofs`, `PosOutboxProofs`, `TillDayProofs` | the theorems of the module each is named for |
| `CounterProofs` | those of `DayClose`, `Counter` and `ReceiptPrint` |
| `QrisProofs` | those of `QrisTender` and `Reconciliation` |
| `TillMirrorProofs` | those of `TillMirror` and `FindSale` |
| `OfficeProofs` | those of `OfficeScreens`, `SalesReports`, `OfficeStore` and `TillAccess` |
| `Sums` | lemmas the proofs share: a set of numbers has a least one; what a sum over a finite set adds up to |

Composition. `QrisTender` extends `QrisOrders`, `TillMirror` extends
`CatalogStore`, `TillAccess` extends `Enrolment` and `IdleLock`, `OfficeScreens`
extends `SalesReports`: the upper module conjoins its own variables to the steps
of the lower one and adds the steps they share. `PosOutbox` is shown to implement
`SaleDelivery`, which `DayClose` and `TillDay` then use in its place. The
parts of `MCOffice`, and those of `MCReceipts`, are alternatives of one instance,
chosen at the start: a behaviour lives in one of them. Some share no state (the
store and the screens, the lookups and the printer), and the others look at the
same modules from bounds of their own, so that each can be as large as its
question needs.

### SalesService

A handler is a few steps. What it reads and decides is one (`SubmitLookup`,
`SubmitCheck`, `VoidCheck`, `RefundCheck`), and the one repository call that
writes is another (`SubmitRecord`, `VoidRecord`, `RefundRecord`). `req[r]` holds
what the handler carries between them: the checked sale, the void id, the
exploded movements, the authoritative total. `AwaitYields` says whether another
handler may run between those steps: `FALSE` is the repository that ships, whose
promises are already resolved, so that nothing but the continuation runs; `TRUE`
is what the contract of the port allows, and what two direct calls of the service
do. Submit is split after its idempotency lookup, because the second look in
`recordSale` is there for the race behind it; the other reads of a handler are
merged into one step, which is a coarsening when `AwaitYields` is `TRUE`.

The ledger is kept, per sale and reason, as the number of batches written and
their sum; `onHand` is the sum over all of it that `onHandForMany` computes at
each read. A cart is the array of lines of a request, an opaque value with the
quantities it holds. The prices, the tax, the movements and the validity of each
cart in each state of the catalog are constants, which the instances compute
with `Explosion` and which the proofs leave arbitrary. The environment edits the
catalog (`EditCatalog`) and opens and closes shifts (`MoveShift`) between
handlers. `MoveShift` may go to any date, because the shifts service refuses no
second open shift and `findOpenShiftForOutlet` answers with the latest. The
manager's PIN is verified before any read of void and changes nothing, so a void
starts after it.

### PosOutbox and SaleDelivery

`row[s]` is the row of `pending_sales` (its status, and whether it knows the
server id), `drain[t]` one call of `pushOutbox`: `reset` after `resetInFlight`,
`looping` with the rest of its batch, `posted` with the sale it is fetching,
`answered` with the code of the response it has yet to act on. Each await of
`pushOutbox` is thus a step. `Cycle` is the drain of the runner's cycle, which
`inFlight` serialises; `Pushes` are those of `triggerPush`. `replays` is the
service worker's queue, `recorded` the server, `link` the connection, and
`missing` what the last end-of-day mismatch listed.

The outbox sees the server through `Submit` only: a new sale is recorded or
turned down, a known one is a conflict. The codes it can be turned down with are
the constant `Verdicts`; `"short"` is 409 `insufficient_stock`, which
`pushOutbox` does not tell from a replay. An answer may come with a body that
cannot be read (`readServerRefs` swallows it): the row is settled all the same,
and does not learn the server id. `Hydrate` reads the row and puts it in
one step, where the code has two awaits (`FindSale` has both). Rows of sales made
on another device, which hydration may add, are not in `Sales`.

In `SaleDelivery` the statuses `queued`, `sending` and `error` are one `pending`
state to the rest of the till. A pending sale is delivered, and then the server
has it, or put aside; a delivered sale becomes pending again only after an
end-of-day close found it missing.

### TillDay

`row[i]` is the i-th row the till enqueued: a shift event or a void (the tables
`pending_shift_events` and `pending_voids` as one function, told apart by
`kind`), in the order of creation in which the drains post. `shift` is the
`shift_state` singleton, `sale[s]` the columns of a sale that this day needs,
`screen` the screen that is open, and `task[t]` one call of `runPush`, which
drains the events, then the sales, then the voids, each await a step: `list`
after `resetInFlight`, `next` with the rest of the batch, `posted`, `answered`,
and `sales` while the outbox of sales is drained. `Cycle` is the push of the
runner's cycle, `Pushes` those that `triggerPush` starts beside it.

A screen enqueues its row (`TapOpen`, `TapClose`, `TapVoid`), stamps the local
state in a second transaction (`Stamp`), posts the row itself (`ServeScreen`) and
reads the answer (`ScreenAnswered`); the tab can die between any two of these,
and a push can run. The void screen acts on the sale and the shift it read when
it was mounted (`LoadVoid`). Its roll-back of the mark and the parking of the row
are two writes in the code and one step here. Two answers that the code treats
alike are one: 200 and 409 of the shift endpoints, a lost fetch and 408, 429
or 5xx.

The sale outbox is that of `SaleDelivery`: a sale is delivered, put aside, or its
answer is lost; a delivered one may lack the server id, without which it cannot be
voided, until a lookup that began before it was rung brings it (`Hydrate`). The cash
of a shift is the set of sales whose cash it adds up, since what the screen and the
server may disagree about is which sales count. A
drain takes all its rows; the code's `listDrainable` takes 50.

### DayClose

One outlet and one business date, which is the key of every read. `req[r]` is one
`POST /v1/eod/close`: `posted` with what the screen sent, `checked` after the
reads and refusals of `closeInner` with the record it is going to write,
`balanced` after `reconcileSyntheticSales`, `replied` while somebody waits for
the answer. A handler that may interleave (`AwaitYields`) may also fail between
its two writes. `listens` holds the requests whose answer the tab still awaits:
the till stores the closure when the answer arrives, whether or not the screen is
still there, and a lost answer leaves the handler to go on.

`screen` is the end-of-day screen, `closure` the row of `eod_closures`, `sale`
the till's rows of that date, under the statuses of `SaleDelivery`. `TapClose`
has the gates of `canSubmit`: nothing outstanding, no closure, and a reason
unless what was counted is what the screen computed. That figure is
`ClientCash`, which counts voided sales and omits the float, so the server may
still want a reason, or none.

`book` is the server's sales; what they come to depends on their `Kind`: an exact
cash sale, one with change, one paid by other means, and the production probe,
whose tenders are synthetic. `balanced[s]` counts the batches of
`synthetic_eod_reconcile` rows written for `s`. Other devices, probes, shifts and
voids (`Others`) reach the server at any time, also after the close, since the
code refuses nothing then.

### QrisOrders and QrisTender

`history[o]` is what an order went through at the provider, which is external
and constrained by `Lifecycle` only: the transactions Midtrans documents and
`mapTransactionStatus` translates. A notice is a position in that history. The
provider may post any notice again until it was answered 200, older after newer;
the handler reads the dedupe store, tells the listeners, and writes the store
after them, so a listener that throws leaves no trace. `newest` and `disturbed`
are history variables of the properties.

The panel is a React component. `Show` tears the poll down with every change of
`panel`, and `saving` holds the finalisations, which outlive it. `EditCart` may
change the cart while the QR is on the screen, as another tab or the panel's own
way back to the catalog may. `requests` are create calls on the wire.

### Reconciliation

`pass[p]` is one pass: it listed the tenders, pages through the report of its
date, and matches in one step what it listed with what it read. `report[d]` is the
list of rows the provider has for a date, which only grows; `due` is what was on it
when the pass began. A page that is refused, times out or is lost fails the pass
(`FetchFails`); one that answers 2xx with a body that is empty, does not parse or
has no data counts for an empty page, which is the last (`FetchBroken`), and the
pass goes on with what it has. The phase `partial` tells such a pass apart, in the
model only. The nightly job of a date is queued once, fails and is
attempted again. `counted` sums what the passes and manual matches reported. The
matcher is a recursive function over the tenders by age; `MatcherServesInOrder`
compares it with a declarative statement over every reachable pair of listing and
report.

### CatalogStore and TillMirror

A write takes its stamp and commits in two steps, because the Postgres repository
of production does; a page is read in the order of stamp and id. The pull walks
pages from the cursor; `walk` is the position asked from, then the page held;
`Reached` is what the till has heard of. A toggle reads the row, puts it back and
then writes its outbox row, three steps. The drain sends a row per item and
deletes it by item. `behind` marks the rows that a named race has left behind
(a late commit under an earlier stamp, two writes of one millisecond, a tab dead
between the put and the enqueue, a read-modify-write over a pull), `raced` those
toggled again while a toggle was being sent. The properties leave these out, and
the remarks below tell of them.

### Counter

A ticket is one unit a customer asked for. The cart is a set of tickets, the tray
a set of parked carts, `sales` the outbox. Parking puts the row and then clears
the cart; resuming deletes the row and then replaces the cart; `moving` is what
is under way between the two, with the cart as it was when it began. `saving`
holds the finalisations, each with the cart it closed over. The tender panels
differ in what they take from the stock: recipes for cash and static QRIS, the
item itself for dynamic QRIS. `left` is a history variable: the tickets of
finalisations, parkings and resumings whose panel or sheet was closed before
they ended, and of those they met.

### Enrolment, IdleLock, TillAccess

Redemption awaits the hash between its check and its write, so `hashing` holds
the requests between them. The till stores the secret, publishes itself enrolled
and boots its runner in separate steps, and a reload begins again; a boot whose
database fails shows the till as not enrolled (`HydrationFails`). Time is
counted in ticks; the watcher's timer, the cool-down and the gaps between wrong
PINs are numbers of ticks. `TillAccess` mounts the watcher while the till shows
itself enrolled.

### FindSale and ReceiptPrint

`lookups` are the submits of the form, each where its handler stands: the local
read, the request, the answer, the read and the write of
`upsertSyncedFromRemote`. One that was reset or whose screen was left goes on.
`crossed` marks what the properties leave out: two submits under way at once, and
a sale rung while the server is asked for the code it bears.
`held` is the till's row and `served` the server's sale, each with the void it
shows: none, a sibling's, or an attempt of this till by its number. An attempt
(`voids[n]`) is the outbox row and the handler of its screen: the row is written
(`Void`), then the mark on the sale (`MarkVoided`, which may fail), then the post
is awaited; a refusal takes back the mark (`RollsBack`) and parks the row
(`MarkRefused`), and the form may be submitted again. The drain lists a row,
sends it, closes it and stamps the sale, beside the screen and from a list that
may be stale; the tab may die between any two of these. `alone` marks attempts no
other attempt to void the same sale mingled with.

`ReceiptPrint` has the renditions of a sale on the screen, the thermal slip, the
PDF and the message to the buyer, as sets of rows with their amounts, and the
printer: `jobs` are the promises of `print`; a write resolves when the radio has
the chunk (`air`), which reaches the `paper` later or never (`lost`), since
`writeChunks` prefers the write that is not acknowledged.

### SalesReports, OfficeScreens, OfficeStore

`SalesReports` has the selections of the bucket, the dashboard, the report by
cashier and the close, each with the filter and the sums of its own code, and the
tables, tiles, cards and files that the screens make of them. A sale has its total
and the amount that was handed over for it (`Paid`), which for cash includes the
change: the tender mixes add up the latter, as the code does. `verified` are the
static QRIS sales that reconciliation has matched. Every sale recorded is
`finalised`, the column's default that no code overwrites, so the filters on it
are left out. `OfficeScreens`
adds the login, the route gates and the three screens that load: a change of
filters aborts the request before it and starts the next one, in one render. The
order of a page is stated by rank (`InOrder`: the sale with n - 1 before it), which
is what the sort of the query does to a set. The tenders are the three methods of
the schema (`MethodAssumption`).
`OfficeStore` has two tabs, each with its copy of the store, and localStorage,
to which a tab writes its whole copy.

## 3. Runs

| Run | Instance | States | What it shows |
|---|---|---|---|
| `sales_atomic` | 2 sales, 2 carts, 2 dates, 2 void ids, 2 refund ids, amounts 1 and 2, 2 recipes with different price and tax, discounts 0 and 3, opening stock 3 of a guarded item | 306621 | `NoOversell`, `PostedOnce`, `RefundsWithinSale`, `ReplyHonest`, `LedgerBalances` |
| `outbox` | 2 sales, 1 drain of 1 row, 2 deaths, fairness | 48996 | `NothingSilentlyDropped`, `DeliverySpec`, `Drained` |
| `outbox_shortage` | 1 drain, 409 for want of stock | violated | a sale short of stock ends as synced |
| `till_day` | 1 sale, 2 shifts, 3 rows, 2 dates, 1 push, the tab may die, fairness | 337052 | `SyncedIsServed`, `CloseNeverParked`, `ShiftsReachServer` |
| `day_close` | 2 sales of 2 kinds, 2 closes that interleave and fail, 1 shift | 1.18 million | `ClosedHoldsTill`, `BalancedOnce` |
| `qris` | 2 orders, amounts 1 and 2, 1 late notice, 1 fault, fairness | 281366 | `SaleBacked`, `ResetIsSafe`, `AckMeansHeard`, `PaidOnceInOrder`, `PaidIsRecorded` |
| `reconcile` | 2 tenders, 2 rows, 2 passes, 2 attempts, pages of 1 row, at most 2 of them | 735180 | `MatcherServesInOrder`, `EveryFlipCountedOnce`, `NoneLeftBehind` |
| `mirror` | 3 items, 2 edits, pages of 1 row, 2 stamps, 2 toggles or deaths, 2 faults, fairness | 338648 | `NothingSkipped`, `IntentKept`, `MirrorConverges` |
| `counter` | 2 tickets, 2 stocked items, cash and dynamic QRIS, 2 parkings or panels, 1 return, 1 death, fairness | 326933 | `SoldOnce`, `LabelNeverHides`, `LabelConverges` |
| `access` | 2 codes, 2 devices, 1 restart of the API, 1 reload, 2 ticks | 369500 | `DevicesAccountedFor`, `LockedWhenIdle`, `PacedGuesses` |
| `office` | screens: 3 sales (one a probe), 2 outlets, 2 dates; walk: 1 outlet, 5 sales of one date (two of one stamp, one before, two behind, one of them a probe and one of an equal stamp) and 1 of the next, at most 3 pages of 1 row; reports: 6 sales, 2 outlets, 2 dates, the 3 tenders, change, a probe, 3 voids; store: 2 tabs, 2 skus, 2 files, 1 tender, 2 writes | 575429 | `SettledIsAsked`, `WalkMissesNone`, `ReportsAgree`, `DroppedIsVerified`, `ImportLandsWhole` |
| `receipts` | 3 sales of one code (own, sibling's, another outlet's), 2 lookups; void: of one sale 3 lookups and attempts together, of two sales 2; 25 slips, 2 jobs of 2 chunks, 3 screens; fairness | 657768 | `FoundIsAsked`, `VoidSticks`, `SearchesEnd`, `PrintsWhole`, `PapersAgree` |

What the properties say is in the comment above each, with the code it is about.
The type invariants (`TypeOK` of `SalesService`, `PosOutbox`, `TillDay`,
`DayClose`, `QrisTender` and `TillMirror`, `ReconcileTypeOK`, `CounterTypeOK`)
hold in the runs when they are added to the configurations, and all are theorems.
So are, of properties no run lists, `VoidIdBoundOnce`, `VoidsInOpenShift`,
`RecordsAppendOnly`, `KnownIdIsServed`, `ClosureIsRecord`,
`ProbesBalancedFirst`, `ClosedForGood` and `VoidXorRefund`.

### Bounds

Two of a kind are what the properties compare: a void id bound twice, two
sales of the last unit, a row that waits behind another, a notice behind a newer
one, two tabs, two lookups. Two refunds of the same sale reach both caps. An
opening stock of three with recipes of one and two beans per cup is enough to
sell exactly, to be one short, and to put back more than was taken after an edit.
`MaxDeaths` bounds the deaths of the tab to one or two: each death erases what
was in memory, so a further one starts from a state the last can leave.
`MaxPerDrain` (50 in the code) is one, so that a batch is shorter than the
outbox, and `PageSize` (200, or 50) is one, so that every walk has pages.
In `TillDay`, `MaxRows` bounds the events and voids together and `MaxDate` the
midnights: three rows and two shifts are an open, its close and either the next
open or a void, which is what the drains must keep in order; two dates make a void
of yesterday's sale. In `DayClose` two closes are enough for one to run between
the writes of another and for a retry beside a handler whose answer was lost; two
sales are one the till knows and one that comes from elsewhere, in each of the two
kinds that differ for the close; the clerk always counts 1, which agrees with the
expected cash in some states and not in others. In `QrisTender` only the first
order meets late notices and faults (`MaxNoticed`), since orders share nothing
but the panel. In `Reconciliation` a window of three minutes lets either tender
claim either row (tenders at 6 and 8, rows at 7 and 9), at different distances,
so that a greedy pairing, a second pass and a manual match can compete; a row may
be posted on the date of its tender or on the next, where no pass finds it. In
`TillMirror` two stamps are enough for an equal stamp, a moved row and a row
behind the cursor. In `Counter` two tickets of different items are two lines, and
the second line is what is added while the first is being sold; `MaxOpened`
bounds parkings and panels together at two, of which one can be entangled with
the other. `MaxWrites` of the office's store is two: one write of each tab. In
the walk of `office` a token stands while sales of its bucket are still to come
that sort before it, at its stamp and behind it, and a walk has up to three pages;
it is of one outlet, begins on the first day and over no answer that is shown, since
those multiply the states and change no page. The sales beside the screens are few,
since what a screen asked for does not depend on them. In the void part of
`receipts` three tries about one sale are a lookup before a void and one after
it, or a void that is refused and tried again beside a lookup; two about each of
two sales of one code let the card show either. Sales,
void ids, refund ids and requests of `SalesService` and the passes of
`Reconciliation` are symmetric; ids that are drawn in order are not.

`NoOversell` and `ReplyHonest` are promises of the in-memory repository only.
With `AwaitYields = TRUE` they do not hold: the guard and the write are separate
calls, `voidSale` looks again at `voidedAt` only and `recordRefund` at
`clientRefundId` only, and a submit that lost the race is answered 201 (the code
says so at `memory-repository.ts` 201-205). `PostedOnce` holds with interleaving
too (set `AwaitYields = TRUE`, `Requests = {r1, r2}`, `Sales = {s1}`); the theorem
`BookedOnce` has every instance. Likewise `NothingSilentlyDropped` with drains
that overlap (`Pushes = {push}`, `MaxPerDrain = 2`, 1.75 million states) and the
theorem `NothingDropped`.

Deadlock is checked except where the system does end: when the day is closed
(`day_close`), every ticket is rung up and every bound reached (`counter`,
`access`), the lookups, attempts and print jobs are spent (`receipts`),
or every sale is in and voided or past its void (the reports of `office`).

### Fairness

`FairSpec` of `PosOutbox` assumes that the interval timer starts the cycle's drain
again and again (`runner.ts` 263-277) and that what a drain awaits comes back: the
database's promises resolve and a fetch is answered or rejected. Nothing is
assumed of the clerk, of `triggerPush`, of the service worker or of the
connection. `Drained` therefore has two premises: the link stays up from some
moment on, and the clerk does not press "retry" for ever, since a refused row
that is requeued again and again can fill every batch ahead of another row.
Only one drain is checked there. With a second one that is restarted for ever,
rows it leaves in `error` sort before the queued ones and may starve them.

`TillDay`'s says the same of the cycle's push, and `steady` marks the moment from
which the link stays up and the tab alive (the premise of `ShiftsReachServer`;
`Settle` may never happen). Nothing is assumed of the cashier or of the screens,
whose own posts may all fail. `CloseNeverParked` is a promise of one push at a
time. With two, the second may list a close while its open is in flight in the
first, and post the close ahead of it: the 404 parks it, and nothing retries a
parked event.

`QrisTender`: the poll's timer and the panel's effects run (weak); a poll is not
lost every time for ever and the browser's database does not refuse for ever
(strong). `TillMirror`: the timer starts cycles and what the till or the API has
begun goes on (weak); edits, losses and refusals need not come. `Counter`: each
cycle pulls and pushes; a pull is not lost every time (strong). `FindSale`: what a lookup awaits comes back, with an answer or an error (weak).

### Finding

* **A sale short of stock is shown as synced** (`outbox_shortage`). `pushOutbox`
  takes every 409 for a replay (`push.ts` 291), and the API answers a submission
  it refuses for want of stock with 409 too (`routes/sales.ts` 122-125). The row
  is marked synced, has no server id and leaves the needs-attention list out. The
  end-of-day close lists it as missing, requeues it, and gets the same answer.

### Remarks

What modelling met where code and text, or two parts of the code, disagree. Those
marked with a property are found by TLC when the property is added to the
configuration named.

The till's day and the close:

* `OneShiftOpen` (`TillDay.cfg`, `MaxShifts = 3`, `MaxRows = 5`): when the close of
  a shift is drained after the next one was opened, `handleSynced` clears the
  singleton whichever shift it holds (`runner.ts` 156-160), and a third shift may
  be opened though `router.tsx` 42-43 relies on the guard.
* `RefusedVoidRolledBack` (`TillDay.cfg`): only the void screen rolls back the
  optimistic mark; a drain that hears the refusal parks the row (`push-voids.ts`
  194) and leaves the sale marked as voided.
* `ShownIsRecorded` (`TillDay.cfg`): the close is sent ahead of the sales, so the
  server computes its expected cash without those still queued, though
  `ShiftCloseScreen.tsx` 21-22 promises the number the server will record.
* `SameNumber` (`DayClose.cfg`, a sale with change): the day's close infers what
  stayed in the drawer (`services/eod/service.ts` 309-320), the shift's adds up
  the tenders as they are (`services/shifts/service.ts` 199-201), though its
  comment says that both land on the same number.
* `push.ts` 169-170 relies on the runner to serialise its calls, but
  `triggerPush` (`runner.ts` 290) does not pass by `inFlight`.
* `enqueueVoid` is not one transaction (`voidRepository.ts` 43 and 60): after a
  death of the tab in between, the void is queued, the sale does not show it, and it
  may be voided again until the drain has stamped it. The void screen's post runs
  beside the drain's (`SaleVoidScreen.tsx` 152), which may send a row that it listed
  before the screen parked it and so queue a refused void again.
* A sale answered with a body that cannot be read is synced without its server id
  (`push.ts` 125-136), and this till cannot void it: the form asks the server only
  on a local miss (`FindSaleScreen.tsx` 208-212), so the id is brought only by a
  lookup that read before the sale was rung.
* A sale in needs-attention makes the day impossible to close; nothing is locked
  after it is closed (`services/eod/service.ts` 194); an answer that is lost leaves
  the till without the closure (`EodScreen.tsx` 128); the screen closes the date
  of its clock, so after midnight yesterday cannot be closed (`useEodData.ts` 67).
* A probe that was voided, or that arrives after the close, does not net to zero
  (`sales/repository.ts` 215-224). The report's `netIdr` is gross.
* With a repository whose awaits yield, a void and a refund of one sale can both
  land (`memory-repository.ts` 341 and 424).
* `listDrainable` cuts the scan off before it sorts.
* The pull overwrites optimistic stock, as `ARCHITECTURE.md` 250 and 476 say.

Payments:

* An order that is paid after its panel was left, or flipped to static QRIS when
  the till went offline, has no sale. `partial_refund` is mapped to cancelled. The
  dedupe keeps the last status only: a late pending lets paid be announced twice
  (`PaidOnceInOrder` leaves out orders that were disturbed). The QRIS client sends
  no device headers.
* `MatchesTheReport` (`Reconcile.cfg`): a page of the settlement report that comes
  with a 2xx status and a body that is empty or does not parse becomes an object
  without `data` (`safeJson`, `midtrans.ts` 536-544), a missing `data` an empty page
  (277), and an empty page the last (282). The pass matches what it has and completes,
  so the nightly job is not retried, and a tender whose row was on a later page stays
  unverified, though `provider.ts` 20-24 promises the rows the provider posted on the
  date and `reconciliation/service.ts` 21 that errors propagate. `NoneLeftBehind` is
  about passes that met no such page.
* `RerunFlipsNothing` (`Reconcile.cfg`): a rerun may pair a tender with a row that
  an earlier pass used (`service.ts` 17-19 against 76-83). The API and the worker
  keep separate in-memory repositories (`workers/index.ts` 92-99), and nothing
  fills them in production. A sale that reaches the server after the nightly job is
  matched by the owner's pass only; a settlement past midnight never; reports of
  more than 50 pages are cut silently; the matching is greedy, not maximum. The
  note of a manual match is described as mandatory (`routes/reconciliation.ts`),
  and the screen posts none.

Catalog and stock at the till:

* `EveryIntentKept` (`Mirror.cfg`): a toggle made while an earlier one of the item
  is being sent is lost, as its row is deleted by item id (`push-catalog.ts` 153),
  though `pending-catalog-mutations.ts` 17-21 says it replays.
* `RefusalReconciled` (`Mirror.cfg`): after a refusal nothing brings the API's value
  back (`runner.ts` 127-130 says the pull does), since its row has not changed.
* A row stamped early and committed late stays behind the cursor
  (`pg-repository.ts`, with the pool of `api/src/index.ts` 61-63). `CATALOG_QUEUE_NAME`
  has no route in the service worker though `push-catalog.ts` 19-20 speaks of one.
  The catalog routes need a staff session, which a device has not, so the toggles
  are refused and parked; `types.ts` 379-381 says such a row is cleared.
* `finalizeQrisSale` takes the tracked item, not its components, off the labels
  (`finalize.ts` 341-350 against 439-440). `stock.ts` 12-18 says that the explosion
  runs inside the transaction, and it runs before it (`finalize.ts` 176-180).

Counter:

* A panel that is left while it finalises, and a sheet closed with Escape while it
  parks or resumes, leave the cart open to a second sale or parking of the same
  lines. `TenderCashPanel.tsx` 192-194 disables its own way out for that reason;
  the navigation under every screen stays. Resuming deletes the row before the cart
  holds it, so a death in between loses it. `ShiftCloseScreen.tsx` 102-105 says
  "atomically" of two transactions.

Access:

* A till enrolled while its tab is open does not sync until it is reloaded
  (`sync-provider.tsx` 71-72), though `docs/ONBOARDING.md` 105 says the next sync
  brings its items. `Enrolment` has the runner's start; no property is stated of it.
* `ARCHITECTURE.md` 269 calls a code single-use; redemptions that overlap each get
  a device. `ONBOARDING.md` gives codes 15 minutes, the code 10. A reset clears the
  secret only; after a restart the API knows none of the enrolled devices. A
  reload drops the lock and its cool-down.

Receipts:

* Codes are the last six of an id, and two sales may share one. A sale that is rung,
  and voided, while the server is asked for its code may lose the mark of the void:
  the form's local read was before the sale, and the row the server answers with is
  put over it (`FindSaleScreen.tsx` 208-226, `pending-sales.ts` 184). The proof of
  `VoidSticks` met this where the run, whose codes differed, had not; the run has
  shared codes since.
* A reset during a lookup and a new submit let the older answer replace the card
  (`FindSaleScreen.tsx` 46-47), and two crossed lookups may overwrite an optimistic
  void (`pending-sales.ts` 184); a 200 whose body breaks off leaves the form
  searching. A row in needs-attention is overwritten as synced. Sales hydrated from
  a sibling till count in this till's expected cash. A sale found locally is never
  refreshed.
* `SlipSaysVoided` (`Receipts.cfg`): the thermal slip of a voided sale has neither
  the banner nor the refund line, though `pdf.ts` 319-321 calls the PDF a
  line-for-line match of it. The slip prints a discount of zero, and leaves out one
  of the whole subtotal. The receipt code, the last six of the id, is on no slip or
  PDF, which print the first eight, though `FindSaleScreen.tsx` 7 says it is. Two
  jobs may interleave on the paper after the screen was left. The receipt screen
  prints twice without the mark of a copy.
* A print is "done" when the last write has resolved. `writeChunks` prefers
  `writeValueWithoutResponse` (`bluetooth.ts` 112-114), which resolves before the
  printer has the bytes: a printer that drops then leaves a slip short that the
  screen calls printed. `PrintsWhole` leaves such jobs out.

Back office:

* The routes of the reports require a bearer token and role headers, and the
  clients send cookies. A logout clears the local session only, and two tabs may
  hold the session and the cookie of different users. The guards are local
  (`dashboard.ts` 11).
* `routes/reports.ts` 190-193 says that voids on the date of the void match the
  close, which counts them by the date of the sale. The sales screen's gross is the
  subtotal, the dashboard's the total. The tender mix counts three methods, the
  gross all. The amount of a cash tender includes the change (`finalize.ts` 158), so
  the slices of the dashboard and the columns of the cashier-day report add up to
  more than the gross they stand beside, by the change of the live cash sales, and
  the shares are of that sum; the close alone takes it off. `ReportsAgree` states
  the difference.
* `NetIsBanked`, `DraftNeverDrifts` and `OnePostAtATime` (`Office.cfg`) are violated: `schemas/reports.ts` 64, `settings.tsx` 48-49, and a `pendingId` for one row at a
  time. The file of the cashier-day report follows the filters, the table the last
  answer, though `admin.reports.cashier-day.tsx` 50-54 says there is no drift. An
  import resets image and availability and shows, and imports, the rows of an
  earlier file under the name of the later. A tab with a stale store overwrites
  what another wrote. Nothing checks for a duplicate sku. A verified tender whose
  answer was lost stays listed. A bucket of more than 40 pages is an error.
## 4. Theorems

All are proved by `tlapm` from the named assumptions on the constants
(`ConstantsAssumption`, or the one named for its module), which TLC evaluates in
the runs: what the constants are, and nothing about their size. Each inductive
invariant was checked on the instance of its run first.

`SalesServiceProofs`

* `TypeCorrect`: `Spec => []TypeOK`. The total is natural because the discount
  is capped; a handler that is about to write a void or a refund holds a
  recorded sale because records are never removed.
* `BookedOnce`: `Spec => []PostedOnce`, with or without interleaving. The
  inductive invariant is `BookedInv`, that is `TypeOK`, that the refunds of a
  sale are finite in number (their count grows by one) and `PostedOnce` itself.
  The second look of each repository call is what the proof uses.
* `RecordsKept`: `Spec => RecordsAppendOnly`, from `TypeOK`.
* `StockGuarded`, `NeverVoidedAndRefunded`, `VoidIdsUnique`, `VoidsStayInShift`,
  `RepliesHonest`: when handlers do not interleave. None of them is inductive,
  because each holds at the write on the strength of a check made a step earlier.
  `SerialInv`
  strengthens them with `Alone` (at most one handler is under way) and `Fresh`
  (what the checked handler saw still holds: the sale is still not recorded and
  the stock still suffices, the sale is still not voided, has no refund, and so
  on). `Fresh` survives every other step because `Alone` leaves it none but the
  handler's own.
* `RefundsBounded`, when handlers do not interleave. `RefundsInv` is `BookedInv` with
  `Alone`, `Fresh`, `Room` (what a refund about to be written leaves of the sale, in
  rupiah and per item) and `Within` (what those on record left). A sum over the
  refunds is a `Tally`; that one more refund adds its amount to it is proved of what
  the community modules' fold evaluates, in `Sums`.
* `LedgersBalance`, when handlers do not interleave and the movements are those
  `explodeLines` computes from some catalog (`UsesExplode`, which the instance
  satisfies: its constants are computed so). `BalanceInv` adds `MovesRight` (the
  movements a handler holds are those of the lines it checked) and `BatchesRight`
  (the rows of each reason add up to what the document says), and the lemma it rests
  on is that an explosion is linear in the quantities: exploding what all refunds
  put back is exploding each. It is about the items no edit of the catalog touches,
  as the property is.

`PosOutboxProofs`

* `TypeCorrect`: for any number of drains and deaths.
* `NothingDropped`: for any number of overlapping drains, under
  `"short" \notin Verdicts`. `OutboxInv` adds `Truthful`: an answer that settles a
  row is about a recorded sale. It is needed because the drain acts on the answer in
  a later step, when other drains have moved the row; it is inductive because the
  server forgets no sale.
* `KnownIdsAreServed`: `Spec => []KnownIdIsServed`, whatever the verdicts, by the
  same argument about the answers that carry an id. That a synced row knows the id is
  not so: its answer may have come without a body that can be read.
* `ImplementsDelivery`: `Spec => DeliverySpec` with serialised drains. The
  refinement mapping is `Promised`. `DeliveryInv` adds `HeldPending`: every row
  the drain holds is outstanding, and the sale it posts has left its batch, so
  that nobody settles a row behind its back. With two drains this fails, and so
  does the refinement: the slower one reopens a synced row.

`TillDayProofs`

* `TypeCorrect` and `SyncedServed`: for any sales, shifts, dates and rows, any
  overlapping pushes, and whether or not the tab may die. `TillInv` adds to them
  that a sale which knows its server id is recorded (so a void is enqueued only
  of a sale the server has), that pushes and screens hold rows of the outbox, and
  that an answer they have yet to act on is true. The last is what makes
  `SyncedIsServed` inductive: the row is settled a step after it was served, when
  others have moved it. It is kept because rows change in nothing but their
  status and the server takes nothing back; every step's lemma concludes `Kept`,
  which says so.
* `ClosesDelivered`: `Spec => []CloseNeverParked` with `Pushes = {}`. `OrderInv`
  adds the order of creation (a close has an open with a smaller id), that no
  event is parked, and of the push, that whenever it holds a close the open of
  its shift is ahead in the list, is the row under way, or has been served. When
  the batch is listed this is because no event was left in flight (`Begin` has
  just reset them) and a synced open has been served (`SyncedIsServed`); later
  because the smallest id goes first and a lost answer ends the drain.

`CounterProofs`, of `DayClose`

* `DayTypes`, `RecordHoldsTill`, `TillHasTheRecord`, `ProbeBalancedOnce`: for any
  number of sales, shifts and closes, whether or not they interleave and fail.
  `DayInv` joins them and adds `InHandSound` (the ids a handler has compared stay
  recorded, and a handler past its balancing has balanced every probe it saw),
  `AnswerSound` (a close answered with a record was answered with the day's,
  which the till stores a step later) and `AskSound` (a close asks about, and is
  told about, rows of the till). They are inductive because the server forgets
  no sale, `balanced` never falls, and `Insert` looks again.
* `RecordFollowsBalance` and `RecordIsFinal`: the action properties, from `DayInv`
  and the lemma that only `Insert` writes the record, of a day that has none.
* `RecordOfTheMoment`, with `AwaitYields = FALSE`: the sales a record is computed
  from are the server's at the step that writes it. `OneAtATime` says that one
  handler at most is past its checks and that the book is as it read it; every
  other writer of the book waits for it. No run states it: with interleaving it
  fails.

`CounterProofs`, of `Counter`

* `TicketsSoldOnce`: `CounterSpec => []SoldOnce`, for any tickets, carts, panels and
  deaths of the tab. `CounterInv` says where a ticket may be. `RungInv`: nothing is
  moved or sold that was not rung up. `FinalInv`: of the finalisations one at most
  has its panel up, which has in the cart, and nowhere else, what it was given;
  those whose panel was left have their tickets in `left`. `TrayInv`: a ticket is
  in one parked cart, and in the cart too only while it is being parked; two
  movements at once have all their tickets in `left`. `SoldOnce` alone is not
  inductive, since a ticket is sold twice by what was begun with it before.
* `LabelsNeverHide`, under `OwnStock`: the recipe of an item with stock of its own
  takes at least one of that item. `explodeLines` leaves the finished good of an item
  with a recipe alone (`stock.ts` 40-90) while a sale by dynamic QRIS takes every
  tracked item itself (`finalize.ts` 343), so without the hypothesis the till takes
  what the API does not, and the label is too low until a pull. The seed keeps to it
  (`scripts/seed-pilot.ts` 375: an item with components is not tracked); the schema of
  the API does not force it. `StockInv` adds `SnapshotInv`: a snapshot that is on
  its way hides no stock either, since what was sold after it was listed is still
  outstanding.

`CounterProofs`, of `ReceiptPrint`

* `ReceiptsWhole`: `PrintSpec => []PrintsWhole`, for any number of jobs and chunks.
  `PrintInv` adds `OneJob` (unless a screen was left, the job under way is the last
  one tapped and its screen shows it) and `EndsRoll` (what it has sent ends the
  paper with what is on the air behind it, if none of it was lost). That a loss
  disturbs only jobs with a chunk on the air is a lemma about concatenation
  (`AirCut`).
* `MediaAgree`: by cases on the medium and the kind of sale, from the type
  invariant.

`QrisProofs`, of `QrisTender`

* `TypesHold`, `SalesAreBacked`, `RetryIsSafe`, `AcksAreHeard`, `PaidAnnouncedOnce`:
  for any orders and amounts, any moves of the provider that `LifecycleAssumption`
  allows, any notices late or lost, listeners that throw and restarts. They are one
  invariant, `QrisInv`. `LifeInv`: nothing follows a final transaction, and after paid
  come only paid and refunds. `PollInv`: what a poll heard is old but not wrong, a
  final status has stayed and a paid order was paid with that amount; it is what
  carries the provider's word over the awaits between the poll and the panel.
  `SavingInv`: a finalisation is as good as the sale it will write. `AbandonedInv`: an
  order the clerk was offered to replace is final. `AckedInv` and `StoreInv`: what was
  answered 200 was heard; of an order nothing disturbed, the dedupe store remembers
  the status of a position delivered, and remembers paid, or what came after it, once
  `tender.paid` is out.

`QrisProofs`, of `Reconciliation`

* `PassesInvariant`, `FlipsCounted`: for any passes, attempts and deaths. `PassInv`:
  a nightly pass is the only one of its job, which is active and has attempts left;
  the report of a date shows no row twice; a pass holds every row of the pages it has
  read; and one that ended on a short page, rather than on a broken one, holds every
  row that was due, if the report fits the pages it may read.
* `PairedAsPromised`: the recursive matcher against its declarative statement, for
  any tenders, rows, keys and times. What a recursive function has computed after n
  tenders is proved by the least n for which it fails.
* `NobodyLeftBehind`: `ReconcileSpec => NoneLeftBehind`, from both: a tender left
  unverified lost its rows to as many earlier tenders (`Beaten`). It is of passes that
  read no broken page; `MatchesTheReport` fails of the others (Remarks).

`TillMirrorProofs`, of `TillMirror`

* `TypesHold`: with `TypeOK` go the shapes of the writes at the API (`WritesInv`), the
  walk (`WalkInv`: it never stands behind the cursor, nor a page's end behind where
  it was asked from), the toggle and the post under way.
* `TogglesKept`: `Spec => []IntentKept`. `IntentInv` says that the batch and the post
  carry the cashier's last word too, so the answer that deletes a row answers that
  toggle, unless the item was toggled meanwhile (`raced`).
* `PullSkipsNothing`: `Spec => []NothingSkipped`, for any page size and any commits
  between pages. `PageInv` says that every row of the page held lies ahead of where
  it was asked from, and is still the catalog's, or the catalog has moved it beyond
  what the till has heard of.

`TillMirrorProofs`, of `FindSale`

* `CardIsAsked`: for any searches, sales and shared codes. `SearchInv` says that what
  a lookup brings was asked for (`Brought`) and that one lookup at a time is under way
  unless two crossed (`OneAtATime`).
* `VoidsStick`: for any attempts, drains and deaths of the tab besides. `VoidInv`, in
  `SearchInv`, says that an attempt is of a sale the till has (`VoidsHeld`), that
  attempts which are alone stand alone (`AloneIsAlone`), and that a mark stays from the
  second write until the screen takes it back, whatever became of the outbox row
  (`MarkStays`). The last is stronger than the property, and inductive: a drain or a
  refusal it hears moves the row and not the mark, a second attempt sets its own mark
  over the first, and a lookup writes only a row the till had not when it began, or one
  no void is of.

`OfficeProofs`, of the back office

* `SettledAsAsked`: `ReaderInv` says that whatever loads was asked for by the filters
  shown, and that a screen where nothing loads has their answer, or an error.
* `WalksMissNone`: for any sales, page sizes and late arrivals. `WalksInv` says that
  a walk lists its bucket in order up to where it stands: every sale that was there
  when it began is listed or lies ahead. That a page begins the rows ahead of its
  token in order rests on a lemma about ranks (in a finite set with a total order
  each element has a rank of its own and no rank is left out), and that the table's
  pages laid end to end are the rows on the arithmetic of `PageCount`.
* `FiguresAgree`: `ReportsAgree` is no matter of steps but of sums: it holds in
  every state whose records are of `Sales` (`WorldInv`). The lemmas are about what a
  sum of a function is: of parts, of differences, by cashier and by method. What was
  sold, what was handed over and the change are such sums of three worths of a sale;
  `ChangeAdds` ties them together, and `NoChange` is where a tender is no cash.
* `ImportsLand`: from `ItemsInv` and `WizardInv` (the items of every copy are rows,
  and the wizard names a file of those there are) by a lemma about `Upserted`.
* `DroppedVerified`: `ListsInv` says it of the disk too, from which a tab reloads.

`OfficeProofs`, of `TillAccess`

* `LocksInTime`: `Spec => []LockedWhenIdle`, for any timeout. `WatchInv` says that
  an unlocked till that is watched has its timer armed, and that what is left on it
  and the ticks since the last touch do not exceed the timeout. `StepsOfLock` sorts
  the steps of the whole by what they do to the lock: the gate mounts or unmounts
  the watcher, the clerk touches the screen, the lock moves, the tab dies.
* `GuessesPaced`: `Spec => []PacedGuesses`, for any cool-down and number of
  attempts. `PaceInv` ties the attempts used to the list of the wrong PINs: a
  cool-down runs iff none is left, what it has run is not more than the age of the
  last wrong PIN, and the PIN before the present run is a cool-down away from it.
  The last holds also where a wrong PIN finds a cool-down that is over and that the
  countdown has not cleared.
* `DevicesAccounted`: for any codes, redemptions and restarts. `CodesInv` counts, per
  code, the devices and the redemptions under way together, which only the latter
  raise, and ties both to the outlet the code was issued for; `SecretInv` says that
  the till's secret, and the answer it has yet to store, are devices of the API unless
  it restarted.

What stays with TLC are the liveness properties: `Drained`, `ShiftsReachServer`,
`PaidIsRecorded`, `MirrorConverges`, `LabelConverges` and `SearchesEnd`, since
fairness is out of the prover's reach. Every invariant and every
action property that a run lists is a theorem, under the hypotheses named above.

The library's induction theorems take an operator as a parameter, which none of the
provers instantiates. Where an induction is needed it is made by hand: the numbers at
which a statement fails are a set, which has a least element (`Sums!LeastNumber`,
from the library's well-founded order of the naturals), and the step refutes it.

## 5. Not modelled

* The values of the ledger rows that `reconcileSyntheticSales` writes, of which
  `DayClose` keeps the number of batches.
* The sales service behind `PosOutbox` and `TillDay` as one instance: the till sees
  the answers the service gives, each of which `SalesService` has as an action.
  Together they are too large for TLC.
* The five drains of one cycle in one instance, for the same reason: `PosOutbox`,
  `TillDay` and `TillMirror` each have theirs.
* Authentication of a request, staff sessions at the API, the hashing of PINs and
  passwords, heartbeats.
* Formatting and parsing of payloads, translations, layout; the bytes of a slip or
  a PDF; the rounding of a line's tax. Ids are values that never collide.
* Several merchants: every key of the code carries one, and no operation modelled
  here crosses them. Several outlets are in `FindSale`, `SalesReports` and
  `Enrolment`, which read by them.
* Recipes, units and outlets as tables of their own in the pull; the cache of the
  printed QRIS image; the leaderboards of the dashboard; the cash differences in the
  cashier-day report.
* Outlets, merchants and staff at the API, which are read; the merchant's settings,
  where the last write wins.
* The database schema, most of which no service uses yet; migrations, seeds, build
  and deployment, error reporting.

## 6. Plan

Done: every module above, with its runs and mutants, and a theorem for each safety
property of the runs. What is left, in this order:

1. The refinement of `SaleDelivery` with drains that overlap, where it fails as it
   stands: which weaker delivery `pushOutbox` keeps when the slower drain reopens a
   synced row.
2. `LedgersBalance` and `RefundsBounded` say what holds when handlers do not
   interleave; with `AwaitYields` the guards that survive are those of the second
   look, and an invariant that says so beyond `PostedOnce` is worth stating.
3. The label after a sale by dynamic QRIS of an item with a recipe and stock of its
   own, which `OwnStock` leaves out, if the API comes to forbid such items.

A real database behind the sales service would make `AwaitYields = TRUE` the
instance to check; the remarks name what breaks then.
