# Smart cafeteria: specifications and proofs

TLA+ modules of the cafeteria's services, the TLC runs that check them on small
instances, and theorems about them that TLAPS checks for every instance. All
line numbers are of the files under `src/services/*/main.py` unless a path is
given.

## 1. The system

Six Python (FastAPI) services share one PostgreSQL database, RabbitMQ and
Redis. Handlers are synchronous functions, so each service runs them
concurrently in a thread pool; every handler opens its own connection and runs
one transaction at READ COMMITTED. What one service does for another goes
through HTTP calls with a timeout or through a queue.

| Component | State | Operations | What makes it hard | Correct means |
|---|---|---|---|---|
| Stock service | `menu_items.stock_quantity`, `available`; `stock_reservations`; Redis keys `lock:reserve:*` | reserve, confirm, release; reaper of reservations older than the TTL | four writers of the same rows, locks taken row by row, statements of one transaction with others between them | no unit lost or promised twice, a reservation ends once, a confirmed order keeps its stock, everything unconfirmed is given back |
| Payment service and wallet routes of the gateway | `students.account_balance`, `wallet_topups`, `wallet_transactions`, `payments` | create a top-up (normal, demo), webhook, review, pay for an order | the same tables written by two services; webhooks come again; keys race | the ledger explains the balance, each top-up and order is booked once, no cancelled order is debited |
| Order gateway, `create_order` | `orders`, `order_items`, `order_idempotency`, `event_outbox` | place an order, delete it | a saga of calls and transactions without a coordinator: any call may fail, time out and be served later, the gateway may die between any two | the kitchen gets what is paid and has its stock, nothing else; a cancelled order costs nothing; a key buys once |
| Outbox worker (gateway) | `event_outbox.published_at` | publish unpublished events | publishes before it marks: at least once | no event lost |
| Kitchen queue worker | `orders.status`; RabbitMQ `kitchen.jobs`, `order.status` | QUEUED to IN_PROGRESS to READY | redelivery, a crash while cooking, commit and publish are two steps | each order cooked once, every change announced |
| Kitchen administration (gateway) | `orders.status`, `ready_until`, `pickup_extend_count`, `kitchen_settings` | start, ready, complete, extend, cancel in peak mode | runs beside the worker and beside `create_order` | statuses only go forward |
| Notification hub | open sockets | consume `order.status`, push | acknowledges before it pushes | the page ends on the last status |
| Order page (web, mobile) | shown status, requests in flight, websocket | poll, retry, push | answers and events in any order, requests and sockets that outlive their effect | never ahead of the kitchen, ready is shown |
| Storage of the clients | `cafeteria:user`, `cafeteria:cart`, the cookie, the phone's store, the mock wallets | login, logout, cart, order, top-up | several tabs with copies of their own, answers to pages that have gone, no idempotency key | nothing ordered twice, no money lost, the stored user is the session's |
| Lists and dashboard | shown rows, selection, busy flags | load, poll, filter, a handler per button | loads are not cancelled, handlers overlap | what was saved and selected is what is shown |
| Caches (gateway, Redis) | negative stock cache, cached menus | read, fill, invalidate | read, then fill, with an invalidation between | a stale entry lives no longer than its TTL |
| Menu administration and windows (gateway) | `menu_items`, `menu_slots`, `menu_windows`, visibility | CRUD; which window is open now | absolute writes of a quantity others decrement; windows across midnight | no reservation overwritten; the open window and its end are right |
| Identity provider | `students`, `auth_tokens` | login, register, verify, refresh | check, then insert | one account per id and e-mail |

Interactions: the gateway calls stock (`/stock/reserve`, `/confirm`,
`/release`), payment (`/payments/process`) and identity (`/verify`); the outbox
worker feeds `kitchen.jobs`, the kitchen worker `order.status`, the hub the
sockets; stock and gateway publish `cache.invalidate`.

`PROJECT.json` lists every component with its state of modelling and every
hazard with the properties that would catch it.

## 2. Modules

| Module | What it is |
|---|---|
| `StockService` | the stock service, one action per SQL statement that takes a lock or commits |
| `Inventory` | what the stock service promises: units move shelf, hold, sold or back, atomically |
| `MCStockService` | instances |
| `Wallet` | accounts: both services' top-ups, webhooks and reviews, and payments |
| `Accounts` | what the wallet promises: one atomic booking at a time, one per reference, never below zero |
| `MCWallet` | instances |
| `OrderFeed` | what the rest of the system may see of the kitchen: statuses that move forward, each change announced at most once, after its commit |
| `OrderPipeline` | outbox worker, kitchen workers, administrator and the `order.status` queue, shown to implement `OrderFeed` |
| `OrderTracking` | the page that follows an order, the hub and websockets, over `OrderFeed` |
| `ListScreens` | the panels of the dashboard with their proxies, the kitchen board, the lists of the web client and of the phone |
| `Storefront` | session and cart of a browser with several tabs; the phone's cart |
| `WalletPage` | the wallet of the web client and of the phone, against the real API and the two mocks |
| `Clients` | `Storefront` and `WalletPage` side by side |
| `MCOrderPipeline`, `MCOrderTracking`, `MCListScreens`, `MCClients` | instances |
| `OrderSaga` | `create_order` from the request to the answer, with failing, late and lost calls, crashes and deletion; its stock is an INSTANCE of `Inventory` |
| `MCOrderSaga` | instances |
| `StockServiceProofs`, `WalletProofs`, `OrderSagaProofs`, `OrderPipelineProofs`, `OrderTrackingProofs`, `ClientsProofs`, `ListScreensProofs` | TLAPS proofs about the module of that name, with its refinements |
| `UnitSums` | lemmas about sums over finite sets, for the proofs that count units or money |

### StockService and the code

The variables are what is committed (`stock`, `available`, `reservation`) plus
what open transactions hold (`tx`: locked rows, the quantity read, increments
not committed). `pc[t]` is the next statement of a pool thread or of the
reaper.

* reserve (253-347): `CallReserve` takes the Redis key, or goes on without it
  when Redis fails (263-277); `ReadReservation` is the idempotency SELECT,
  `LockItem` the SELECT ... FOR UPDATE with its 404 and 409, `StoreReservation`
  the UPDATE, the INSERT that may hit UNIQUE(order_id, item_id), and COMMIT;
  `UnlockKey` the finally clause, which deletes the key whoever holds it.
* confirm (350-402): `CountReservations` and `ConfirmPending`, two statements.
* release (405-452) and the reaper (127-172): `SelectRows` or `ReaperSelect`
  (SKIP LOCKED, LIMIT 100), one `Restock` per row in any order (SELECT has no
  ORDER BY), `FinishRelease` or `ReaperFinish`.
* `DeadlockVictim`, `ConnectionLost`, `Restart`: PostgreSQL aborts a
  transaction of a cycle, a connection breaks, the process dies.

What is assumed of the callers, from `create_order`: an order is confirmed or
released only after its reserve calls were answered (a reserve that timed out
leads to neither). `Prompt` says that the gateway is done with an order within
`RESERVATION_TTL_SECONDS` (300 by default, while the gateway's timeouts add up
to about 2.5 s per line plus 8 s). Without it `ConfirmedOrderKeepsStock` and
`NoOversell` are false, which run `stock_stalled` shows.

The `available` flag has another writer: the administrator's PATCH (gateway
1757-1793, "toggle availability", README.md:297) and PUT (1719-1754) set it
whatever the quantity. `SwitchByHand` is that UPDATE, for the items of
`Switched`; it waits for a row that a transaction has locked. The code keeps no
trace of a hand-set flag: the next reserve computes it from the quantity
(316-324) and the next release or reaper sets it TRUE (151-156, 430-437), so an
item that was archived is on sale again once a reservation of it is released,
and run `stock_units` goes through these steps. `AvailabilityFollowsStock` is
therefore about the items whose flag the stock service wrote last; the auxiliary
variable `byHand` holds the others. No document of the repository says who
should win, and no property does.

Nobody edits `stock_quantity` by hand in the model: `PUT /api/admin/menu/{id}`
also writes that, absolutely, and `POST` inserts new items (see "Not
modelled").

### Wallet and the code

A request is one transaction. Its lock statements are steps: `LockTopup` and
`LockOrder` (row FOR UPDATE), `LockStudent` (balance FOR UPDATE). The
statements after the last lock are one step with the COMMIT: `Credit`
(balance := read + amount, ledger, status) and `Debit` (balance := balance -
amount, ledger, payment; a violation of UNIQUE(order_id) undoes all three).
`InsertTopup` waits for a concurrent insert of the same key, as the unique
index does, and fails if that has committed. Both services have the same
statements (payment service 193-265 and 525-697, gateway 1060-1140 and
2221-2506), so a thread of the model is a thread of either. The INSERT of a
top-up share-locks the student's row through its foreign key until the
transaction ends, and a demo top-up wants the same row FOR UPDATE next:
`HasShare` and `DeadlockVictim` are there for two of them that wait for each
other. Students are not deactivated and amounts are positive, as the schema
says. `IdsLeft` bounds the number of top-ups.

### OrderSaga and the code

`pc[a]` is where `create_order` is with request `a`, whose order id is `a`
itself (a fresh uuid). A step that leads to a remote phase sends the call with
it; `Serve...` is the service executing it, `CallFails` a call that did
nothing, `CallTimesOut` a call the gateway gives up on while it stays in
`calls` and may still be served, also after a crash. `OnError` is the three
except clauses (2879-2904). `InsertOrder`, `Enqueue` and `StoreKey` may also
fail with their transaction committed or not, `MarkCancelled` swallows errors,
as `_mark_order_cancelled` does. Confirm keeps its two statements
(`ServeConfirm`, `ServeUpdate`); the rest of the stock service is
`Inventory`, which `StockService` implements. The payment is one atomic debit,
which `Wallet` justifies. The price of an order is positive.

Two lines of an order may name one item. `Total` charges both, but a reserve
call in the quantity already reserved is answered `already_reserved`, and one in
another quantity is refused. `JobsAreFunded` therefore says of each item that
the units of *its line* are sold to the order, exactly, where one line names it,
and the units of one line where several do: of `<<apple, apple>>` half of what
is paid.

### OrderPipeline, OrderFeed and the code

An order is in the table before it is paid; `outbox[o]` is "none" until
`create_order` has inserted its event (`Enqueue`) or has failed
(`PaymentFails`, whose UPDATE to CANCELLED looks at no status). `RelayJob` is
one publish of the batch of `_process_outbox_once`, `CommitRelay` its UPDATEs
and commit, `RollbackRelay` anything that undoes them after a publish.
`worker[w]` is a consumer thread of the kitchen between two statements:
`Start`, `Finish` (`_set_order_status`, conditional on the status), and
`PublishStatus` after each one that has changed a row. `lost` says that the
channel of its delivery is gone: the broker has the job again while the thread
goes on sleeping and updating. `Chaos` acknowledges without work.
`FindPeakMode`, `UpdateByHand` and `TellByHand` are the three transactions and
calls of `admin_kitchen_set_status`; an order that is READY may have its pickup
extended once, after its window has passed.

`OrderFeed` is what all that promises to the outside, with `unsaid` the changes
that are committed and not yet, or never, announced. The refinement maps
`unsaid` to what the worker and the administrator are about to publish.

### OrderTracking and the code

`page` is what is shown; `loads` the requests of the current run of the polling
effect, `retry` that of the button, `socket` the websocket of the current run
of the other effect. Both effects run again when the shown status changes:
`Show` forgets the requests (their `cancelled` flag is set) and starts anew. A
socket whose effect ends while it still awaits the token is opened all the same
(`connect` looks at its flag before the await and not after): `strays`. In the
browser a moment passes between `setStatus` and the clean-up of the old effect,
in which an old answer would still be taken; in the model they are one step
(`Show`), so `BackOnlyByRetry` says nothing of that moment. On the
web `HasToken` is false, because nothing calls `setToken`: only the phone opens
websockets. `Broadcast` delivers an event to the current socket in the step
that takes it from the queue, which loses no behaviour, since the event may
wait in the queue instead; a stray socket may lag behind.

### ListScreens and the code

One behaviour is one screen and one row of its list. A screen is given by the
tables of the module: who else changes its rows (`Life`), whether it polls, has
a filter, loads twice when mounted (`Mounts`), which handlers it has, whether
they load the list again (`Reloads`), show their answer (`ShowsAnswer`) or
neither. Each handler is an action (`CreateMenuItem`, `DeleteWindow`,
`ReviewTopup`, ...), whose enabling is that of its button, and each proxy or
API call a route: from which states of the row it is accepted, and what it
makes of them. An answer is `Acknowledged`, `Refused` (401 to 422) or lost
(`WriteFails`, with or without the change). `tag` records why a list may
honestly be old: its answer was overtaken, its load failed, or a handler asked
with the selection of the time it was called. Every load needs a session,
the menu's too (gateway 2721-2724).

### Storefront, WalletPage and the code

A call carries the cookie of the moment it is sent and is answered later, to
the page that made it or to none (`here`); leaving a page cancels what
`AuthBootstrap` and the login page have asked `/auth/me` for, and nothing else.
The cart page stores what it has read when mounted, plus the change. No call to
`createOrder` has an Idempotency-Key. A reload drops what is awaited, and the
gateway may have served it. The phone has one stack of screens over a store in
memory; its menu is asked for without the token, and relies on the cookie that
the platform's fetch keeps from the login.

In `WalletPage` one student tops up by units. `account` is the gateway's
balance (real) or what the demo owes since the last login: the web's mock never
writes its table of users, so that a login brings the opening balance back and
what was topped up before is lost, which `MoneyKept` does not count. The mock API of the web keeps the balance
in the user of the loaded page (`memory`), the stored user and a counter, that
of the phone in the stored user and a counter, with an await between reading
and writing. `TellStored` and `CheckUser` are the 3 s, `setUser` and
`/auth/me` of `onConfirmPay`.

## 3. Runs

| Run | Asks | Bounds |
|---|---|---|
| `stock_units` | type, conservation, isolation, locked rows, availability, confirmed orders, life of a row | 2 orders, 1 item with 2 units that the administrator may switch, quantities 0 to 2, 2 threads and the reaper, 1 fault |
| `stock_lines` | settlement, answers, refinement of `Inventory` | 2 orders of 2 items, one unit each, two in stock, 1 thread and the reaper, so that both lock several rows and deadlock |
| `stock_stalled` | `NoOversell` without `Prompt`: violated | 2 orders, 1 unit |
| `wallet` | type, ledger, bookings, keys, cancellation, settled top-ups, answers, refinement of `Accounts` | 2 students, 2 top-ups, 1 order, 1 key, 2 threads, 1 fault |
| `saga` | type, what the kitchen gets, sold stock is paid, replays, settlement of holds | 2 requests out of four: with and without key, an apple, an apple and two breads, an apple in each of two lines; 1 apple, 2 breads, money for three units; any number of failures |
| `saga_retry` | `OneOrderPerKey`: violated | 2 requests with one key |
| `saga_cancelled` | `CancelledIsUndone`: violated | the same |
| `saga_outbox` | `PaidReachesKitchen`: violated | 1 request |
| `kitchen` | type, forward moves, announcements, cooking, refinement of `OrderFeed` | 1 order, 2 kitchen threads, 1 administrator, 2 faults |
| `tracking` | type, nothing shown too early or taken back, ready is shown | 1 order, 2 polls in flight, 1 event waiting, 1 fault |
| `screens` | type, own writes, selection, settling | every screen, 2 handlers, 2 filters, 3 loads in flight, 2 changes, 1 fault |
| `storefront` | type, orders, money, stored user | 2 tabs (one of them the phone), 1 user, 2 units, 2 logins, 2 top-ups, 1 fault |

The bounds are small but let every conflict happen: two threads suffice for
each race on a row, and the reaper is a writer of its own; two rows per
transaction are the least for a deadlock; one fault can hit any step, and two
in `kitchen` let a job that was delivered again be lost again. Orders do not
interact in the kitchen (no statement reads two), so one is enough there: its
job may be in the queue several times. Two loads can cross, a third can be
overtaken by both. A second user adds nothing to `storefront`, where somebody
and nobody already disagree. `MaxFaults` bounds broken connections, restarts
and failing calls; the saga needs no bound since a request has finitely many
steps. Symmetry is used only in runs without liveness. Deadlock checking is
off: all requests can be served, all ids used up and all orders be over.

The four violated properties are places where the repository's documents say
more than the code does; `PROJECT.json` quotes the lines. In short: confirm
answers 200 without looking at how many rows its UPDATE found; the idempotency
key is looked up first and stored last; a failure after the payment cancels
without giving the money back; the outbox row is not in the transaction of
what it announces.

What holds in `saga` is worth as much: however late calls are served and
wherever the gateway dies, no job reaches the kitchen that is not paid, was
cancelled or lacks the units of a line, and every reservation ends. So in `kitchen`: jobs are
published and delivered more than once and threads go on after their channel
broke, and still a paid order only goes forward, is cooked unless chaos mode has
taken its job, and no change is announced twice. An order that is not yet paid
may be cooked in peak mode and then be cancelled, which `PaidMovesForward`
leaves room for.

What the clients promise is weaker, and the properties say how much weaker:
`ReadYourWrites` and `ListMatchesFilter` except an answer that was overtaken,
`BackOnlyByRetry` the retry button and a stray websocket, `OrderedOnce` an
order whose answer was lost, whose lines were stale or which was placed while
another was under way, `MoneyKept` overlapping payments and pages with users of
their own. Each exception is a behaviour TLC has found in the code: without it
the property is violated. So these properties do not catch the hazards that the
exceptions are: the answers of two selections that cross
(`MenuClient.tsx:57`), two tabs that overwrite each other's cart
(`lib/storage.ts:34`), an order placed again after a lost answer
(`cart/page.tsx:40`), overlapping payments (`wallet/page.tsx:184`).
`PROJECT.json` lists them as open. What the properties do catch is a handler
that forgets its load, a cart not emptied, a step of a payment lost to a reload.

Places where the documents say more than the code and no run is about:
README.md:413-414 asks clients to retry with the same Idempotency-Key, and no
client sends one; README.md:45 and 67-68 promise pushed updates, and the web
page never opens its websocket; README.md:417 promises a reconnecting status,
which only the polling of the page stands in for; README.md:416 says that an
expired session redirects to the login, while the web client shows a message.
The phone's mock API keeps an order it has created as QUEUED for ever, since
the list of created orders is asked before the clock. A window of the Ramadan
visibility that is saved again unchanged moves by the browser's distance to UTC:
`toISOString` digits are put into a `datetime-local` field and read back as
local time.

### Fairness

* Stock: a thread in a handler goes on (weak), the reaper's loop wakes up
  (weak; line 175-184), PostgreSQL hands a row to its waiters in the order of
  their arrival and breaks cycles of waits (strong for `Restock`, weak for
  `DeadlockVictim`), the gateway gets done with an order because its calls time
  out, and reservations grow old. Nothing makes a client send a request.
* Wallet: strong for a thread's statements, by the same queue of waiters, weak
  for the deadlock detector.
* Kitchen: weak for the outbox worker's publish and commit, for each kitchen
  thread with its deliveries (the loops of kitchen-queue 198-215 and gateway
  1205-1213 never end) and for an administrator's request once it is made.
  Nobody has to press anything in peak mode.
* Tracking: weak for each poll and its answer, the 4 s interval. Nothing is
  assumed of websockets, events or the retry button.
* Lists and store front: weak for the intervals and for the answers of calls,
  each of which ends or fails. What people do is their choice.
* Saga: weak for each request until it has ended (every call has a timeout) and
  for the reaper. Calls left behind need not be served, crashed gateways need
  not go on.

## 4. Proofs

TLAPS checks, for all values of the constants under the named assumptions:

* `StockServiceProofs`: `TypeOK`, `TransactionsIsolated`,
  `LockedRowsPending`, `AvailabilityFollowsStock`, `RowLifecycle`,
  `StockConserved`, the refinement `ImplementsInventory`, and, under
  `ASSUME Prompt`, `ConfirmedOrderKeepsStock` and `NoOversell`. None of the
  invariants is inductive alone. `IInv` adds what the statements rely on
  (`RowShape`, `CallShape`, `TxShape`): which locks a thread has at each `pc`,
  that the quantity read under a lock is the committed one, that rows to be put
  back are among the rows locked, and that uncommitted increments belong to
  items that are locked. `UnitsInv` adds, for conservation and the refinement,
  that the increments a transaction has made so far are the sum of the rows it
  has put back (`Counted`), and that a release holds every row its order can
  still give back (`Takes`): so what commits is all of them. Each commit is then
  one operation of `Inventory`; every other statement leaves its state alone.
  `PromptInv` adds, for confirmed orders, that rows are locked by release or
  reaper only for orders the gateway has dropped (`OnlyDroppedReleased`), and
  that an order being confirmed has no reserve request in flight
  (`ConfirmAlone`). `NoOversell` follows from conservation and this: what
  confirmed orders hold is part of what all reservations hold. All of it holds
  beside the administrator's switch, which only `AvailabilityFollowsStock`
  has to except. The hypothesis
  is what the run `stock_stalled` shows to be needed.
* `WalletProofs`: `TypeOK`, `LedgerChains`, `BookedOnce`, `OneTopupPerKey`,
  `CancelledNotDebited`, `SettledForGood` and the refinement
  `ImplementsAccounts`. `IInv` says of a transaction at each statement what it
  was asked for (`Asked`), that what it has found under its locks is still there
  (`Backed`: the top-up is pending, the order not cancelled, the balance the one
  read), and what two transactions cannot hold at a time (`Apart`: a row, a
  balance, a share lock beside a balance, an uncommitted key). `BookedOnce`
  without them breaks at the COMMIT of a second credit, `LedgerChains` at the
  UPDATE that writes a balance read before.
* `OrderSagaProofs`: `TypeOK`, `SoldIsPaid`, `RepeatIsReplayed` and, under
  `ASSUME Prompt`, `JobsAreFunded`. `IInv` follows an order along its requests:
  no confirm is sent, served late or half served before the payment
  (`Debited`), what is cancelled is not queued (`Withdrawn`), the lines reserved
  so far stay held until they are sold (`Progress`, which needs `Prompt`: the
  reaper leaves them alone), and the key of a placed order leads to an order of
  that key (`KeyKept`). That shelf and balance stay natural numbers is a second
  invariant, `Amounts`, which also needs that only finitely many reservations
  exist, since what is put back is a sum over them.
  `Measured` carries the quantities: a line whose reserve call was answered has
  the line's units (`ReserveMeasures`), and no step changes the quantity of a
  reservation (`QuantitiesKept`); with `Progress` this is `JobsAreFunded`.
  `StockServed` (`Spec => Stock!Spec`) shows that every step of the saga is an
  operation of `Inventory` or leaves the stock alone, which joins the saga to
  the refinement proved in `StockServiceProofs`. Two books that no run lists are
  kept as well: `UnitsKept` (shelf and promises add up to the initial stock) and
  `DebitedOnce` (a balance and the totals of the student's paid orders add up to
  the opening balance). The second needs `Unpaid`: the one call to pay an order
  is sent when it leaves "insert", and while it is out nothing has been debited.
* `OrderPipelineProofs`: `TypeOK`, `PaidMovesForward`, `AnnouncedOnce` and the
  refinement `Spec => ImplementsFeed`, for any number of orders, threads and
  faults. Each action is given its `Effect` on what the feed knows (`Rows`,
  `Pending`, the queue): none, a change, a withdrawal, an announcement or a
  change forgotten; each effect is a step of `OrderFeed` or a stutter. That the
  event taken from `Pending` leaves it, and is new in the queue, needs more: no
  two threads are about to announce the same (`Alone`), and what is pending or
  announced is at most at the row's `Level` (`Behind`), which every change of a
  thread or by hand raises, so that the event of a change is nobody's yet
  (`ChangeIsNew`). `Shape` ties pickup windows to statuses.
* `OrderTrackingProofs`: `TypeOK`, `NeverAhead` and `BackOnlyByRetry`, for any
  number of orders, requests in flight, faults and waiting events. `NeverAhead`
  alone is not inductive: `IInv` says of every answer not yet received, every
  change not announced and every event in a queue or on a wire that the order
  has reached it (`Reached`), and the feed takes no row back (`Advances`).
  `RestsForGood` adds that a page at READY or a final status has its socket off
  and only such answers in flight. `TrackingAssumption` says that the markers
  of a request are not answers.

* `ClientsProofs`: `ClientsTypeOK` (with `Bounded`: neither the stored cart nor
  a page has more lines than were put into the cart), `OrderedOnce` and
  `MoneyKept`, for any number of tabs, pages, users, units and payments.
  `StoreInv` adds to
  `OrderedOnce` that what is bought, together with the cart, and together with
  each order call on its way, was put into the cart, and that there is one such
  call at most, as long as no answer was lost and no order was placed from stale
  lines (`Booked`). `WalletInv` says, for `MoneyKept`, that unless pages or
  payments got into each other's way one payment runs at a time (`Single`), at
  which of its steps the stored balance may lag behind the account's
  (`StoredKept`), that what it has read or will still store is the account's
  balance (`PendingKept`), and what each API can be found doing (`Builds`).
* `ListScreensProofs`: `TypeOK`, `ReadYourWrites` and `ListMatchesFilter`, for
  any number of handlers, filters, loads and changes. The two properties speak
  of a screen at rest only. What makes them hold on the way is
  `LastLoadCounts`: the load asked for last has what was acknowledged and
  belongs to what is selected, or it has been answered or has failed, and then
  every load still under way is late. `Room` is why the bounds are never
  exceeded: each request on its way has a change and a load kept for it.

`UnitSums` proves what these need about `MapThenSumSet` of the community
modules: that a sum over a finite set exists, splits at an element or into
disjoint parts, and only grows with its set. Its induction is over the subsets
of a finite set (`SubsetInduction`, from the library's theorem that strict
subsets are well-founded).

All invariants, action properties and refinements of the passing runs are thus
proved for every instance. The assumptions are those of the modules (constants
are natural numbers where they count, sentinels are not values, prices and
quantities are positive, the handlers of a screen are finitely many and it may
have its first two loads in flight) and, where said, `Prompt`.

What stays with TLC: every liveness property (`RequestsAnswered`,
`ReservationsSettle`, `HoldsSettle`, `PaidIsCooked`, `ReadyIsShown`,
`ScreensSettle`, `UserSettles`), which needs ENABLED and fairness, and the four
violated properties, whose counterexamples TLC finds.

## 5. Plan

1. `StockCache`: the negative cache, the invalidation queue and the
   administration writing stock quantities, beside `Inventory`.
2. `MenuWindows`: the window functions against a definition by enumeration.
3. `Identity`: register's check and insert.

## Not modelled

The Redis caches and menu windows, and the identity provider behind the login
(see the plan). An administrator's form that writes back a `stock_quantity`
others have changed, and new items, are left to `StockCache`. Rendering, form texts, the header,
toasts, themes, registration forms, mock orders and mock menus, slips, seeds,
migrations, scripts and deployment keep no state that anything else depends on;
hashing and token encoding are library code. What an order contains beyond
units, and what a list shows beyond one row, is abstracted.
