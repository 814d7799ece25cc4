# mini-shop-api in TLA+

Specifications of the mini-shop-api backend (NestJS, TypeORM, PostgreSQL, Redis
with BullMQ, Socket.IO), their model checking with TLC and proofs checked by
TLAPS. They are about what unit and e2e tests of this code hardly reach:
transactions that overlap, wait for each other's rows and roll back, requests
that are repeated, jobs that are lost or run twice, processes that die between
two statements, files and rows that cannot change together.

Contents: [1 The system](#1-the-system) ·
[2 Modules](#2-modules) · [3 How the models correspond to the code](#3-how-the-models-correspond-to-the-code) ·
[4 Runs](#4-runs) · [5 Bounds](#5-bounds) · [6 Fairness](#6-fairness) ·
[7 Proofs](#7-proofs) · [8 Where the code and its documents differ](#8-where-the-code-and-its-documents-differ) ·
[9 What is not modelled](#9-what-is-not-modelled) · [10 Plan](#10-plan)

Paths such as `orders.service.ts` are below `src/src/modules/<feature>/`.

## 1 The system

One NestJS application, of which several instances may run, in front of one
PostgreSQL database and one Redis. Almost all state is in the database; the
services coordinate through its row locks, unique constraints and conditional
UPDATEs. What is kept elsewhere: the blacklist of access tokens and the mail
queue (Redis), product images (disk), sockets and rooms (memory).

| Component | State | Operations | Interacts with |
|---|---|---|---|
| **Orders** (`orders.service.ts`) | `orders`, `order_items`, `order_status_history` | checkout with an `Idempotency-Key`, cancel, confirm / reject / complete, lists, export | takes stock from products and gives it back, empties the cart, records notifications, in one transaction |
| **Cart** (`cart.service.ts`) | `cart_items` | set a line, remove a line, read | locks the user row that checkout locks |
| **Catalogue** (`products.service.ts`, `categories.service.ts`) | `products`, `categories` | create, patch, archive, activate a category, search | its rows are what checkout validates and prices from |
| **Mail outbox** (`notifications/`) | `email_notifications`; jobs in Redis | record a row in the caller's transaction; a cron tick every 5 s makes jobs of PENDING rows; a worker sends them | written by Orders, Auth and the monthly report; BullMQ, SMTP |
| **Auth** (`auth.service.ts`, `jwt.strategy.ts`) | `users`, `auth_tokens`; blacklist in Redis | register, verify, login, logout, forgot and reset password | records a notification for each mailed token |
| **Users** (`users.service.ts`) | `users` | profile, change password, activate and deactivate | `token_version` revokes access tokens |
| **Product images** (`products.service.ts`, `attachments/`) | `attachments`, `products.image_id`; files | replace, remove, hourly sweep of orphan files, serve | locks the product row |
| **Support chat** (`chat/`) | `chat_conversations`, `chat_messages`; sockets, rooms | open, send with a client key, close and reopen, assign, page, mark read; handshake, join, broadcast | REST writes, the gateway only broadcasts |
| **Monthly report** (`monthly-report.service.ts`) | a flag in memory | on the 1st, one notification per admin with last month's revenue | reads Orders, writes the outbox |
| **Reviews** (`reviews.service.ts`) | `reviews` | create, edit, delete one's own, list | reads Orders and Catalogue |
| **Product suggestions** (`product-suggestions.service.ts`) | `product_suggestions` | create; approve or reject; lists | none |
| **Seed command** (`database/seeds/`) | none | inserts what is missing of the demo categories, users and products | beside a running application |
| **Rate limiting, HTTP layer, i18n, mail contents** | none | configuration, shape and wording of requests and answers | in front of everything |

What is hard in them, and what makes them correct:

- **Orders, Cart, Catalogue.** Three writers of the same rows: checkouts,
  moves of orders, administrators' patches. A checkout validates and prices
  from rows that it has locked one after the other, so each of them might be
  stale when it writes. It must sell what it validated, exactly once per key;
  stock must come back exactly once; the history of an order must be one legal
  chain; nobody may wait for ever. All in all: however the transactions
  overlap, fail or deadlock, the tables look as if each request had happened at
  one instant or not at all.
- **Mail outbox.** Three stores that fail separately (database, Redis, SMTP).
  A row must not be forgotten with its job, sent more often than its budget,
  marked with something that did not happen, or changed after it is settled.
- **Accounts.** Requests that read a user row, wait, and act on what they read,
  while the password changes or the user is deactivated; mailed tokens that are
  redeemed and replaced at once. A token must have its effect once; an access
  token must be worth nothing after a change of password or a deactivation.
- **Product images.** A file and its row cannot change together. An image that
  is shown must have its file; files and rows that nobody shows must go away.
- **Catalogue, Reviews, Suggestions, seed.** Check first, write later, mostly
  without a lock, and leave the rest to unique and foreign keys. What was
  refused must not have been written, what was hidden must stay as it is, a
  suggestion has one verdict, and a seed that failed half-way can be repeated.
- **Monthly report.** Every instance's cron job fires at once, in the server's
  time zone, for a month that is Bangkok's, while orders of that month may still
  be committing. One report per admin and month must come of it, with what the
  books of that month showed after it had ended: short of the orders that were still
  being completed, and of no others.
- **Chat.** Messages are committed first and broadcast later, and the client
  pieces its picture together from pages and events. It must miss nothing; a
  closed conversation must take no message; a retry must be answered with its
  own message.

## 2 Modules

| Module | Role |
|---|---|
| `ShopData` | tables of ordering as records and functions, and the row functions that specification and transactions share |
| `RowLocks` | PostgreSQL's row lock modes and their conflicts (external) |
| `OrderBook` | abstract specification of ordering: one atomic step per request |
| `OrderTx` | Orders, Cart, Catalogue: each request a transaction, statement by statement, under row locks; composes `ShopData` and `RowLocks`, implements `OrderBook` |
| `OrderTxProofs` | proofs about `OrderTx`: types; the inductive invariant; the refinement of `OrderBook`; stock; deadlocks |
| `MailOutbox` | rows, queue, dispatcher and worker of every instance, and the faults between them |
| `MailOutboxProofs` | proofs about `MailOutbox`: types, budget, truth of outcomes; finality, at most once without faults |
| `Accounts` | users, mailed tokens, access tokens |
| `AccountsProofs` | proofs about `Accounts` |
| `ProductImages` | image requests and the sweep, with faults |
| `ProductImagesProofs` | proofs about `ProductImages` |
| `Chat` | conversations, sends, sockets, pages |
| `ChatProofs` | proofs about `Chat` |
| `Catalogue` | requests on categories, products and profiles, and the seed command: unique columns, references, activity |
| `Feedback` | reviews and product suggestions; EXTENDS `Catalogue`, whose rows and locks they meet |
| `FeedbackProofs` | proofs about `Catalogue` and `Feedback` |
| `RevenueLedger` | abstract specification of the monthly report: the books of a month stay open; a report quotes what they showed at some moment after it ended |
| `MonthlyReport` | the cron job of every instance, order completions and the clock; implements `RevenueLedger` |
| `MonthlyReportProofs` | proofs about `MonthlyReport`: types, nobody forgotten, what a report lacks, the refinement of `RevenueLedger` |
| `SumTheorems` | lemmas about sums over finite sets, which `OrderTxProofs` and `MonthlyReportProofs` cite |
| `MCOrderTx`, `MCMailOutbox`, `MCAccounts`, `MCProductImages`, `MCChat`, `MCFeedback`, `MCMonthlyReport` | instances for TLC: casts of requests, initial tables, symmetry |

An operator whose comment begins with "Mutant" is not used by the
specification. It stands for a plausible mistake in the operator it comes
before, and the properties are known to notice it.

## 3 How the models correspond to the code

`PROJECT.json` maps every definition to its lines. What is common to all
modules:

- **A step** is what other processes cannot see the inside of. A statement
  whose result a later statement relies on is a step of its own, and so is
  every statement that may wait for a lock, every Redis call, every SMTP
  exchange, every write to disk. The writes of a transaction are invisible
  before its COMMIT, so where they need no further lock they are one step with
  the commit. Everything between two awaits that touches only local variables
  is part of the step it follows.
- **READ COMMITTED**: a statement sees what is committed when it starts; an
  UPDATE that has waited for a row looks at it again.
- **A refusal** (4xx) has no effect, the rollback included. Where it matters that
  a refused transaction gives back its locks, it is a step.
- **A crash** rolls back what was not committed and forgets what was in memory.

### OrderTx

Each connection `c` has a record `tx[c]`: the request, the statement it is
about to execute and what it has read so far. Locks are granted one row at a time.

| Code | Actions |
|---|---|
| `checkout`: lock user | `LockUser` |
| … `findReplay` | `FindReplay`, `AnswerReplay`, `RefuseReplay` |
| … read the cart | `ReadCart`, `RefuseEmptyCart` |
| … `lockProducts` ascending, `assertCategoriesActive` FOR SHARE | `LockProduct`, `LockCategory` |
| … validate, insert the order, items, history, notification, take stock, empty the cart, COMMIT | `PlaceOrder`, or `RefuseOrder` |
| `cancel`, `updateStatusByAdmin` | `LockOrder`, `RefuseMove`, `LockProduct`, `MoveOrder` |
| `setCartItem`, `removeCartItem` | `LockUser`, `ReadLine`, `RefuseLine`, `WriteLine` |
| `patchProduct`, `archiveProduct` | `LockProduct`, `ReadCategory`, `RefusePatch`, `PatchProduct` |
| `patchCategory` (activation) | `PatchCategory` |
| PostgreSQL: deadlock detector; loss of process or connection | `DeadlockVictim`, `Crash` |

`Wants(c)` is the set of locks the next statement asks for. It includes the locks no
statement names: a row that refers to another takes KEY SHARE on it (the
history row of a cancellation on its customer, a new cart line on its product). The
lock queue's order is left out: any waiter may be granted a free lock, which
allows more behaviours than PostgreSQL does.

Abstracted: names, descriptions, snapshots and totals of an order (kept: lines
and unit prices); slugs; the hash of a body is a value of `Hashes`.

### MailOutbox

One record `tick[i]` for the dispatcher and one `worker[i]` for the processor
of each instance. `FindPendingBatch`, `GetJob`, `GetState`, `RemoveJob` and `EnqueueOrFail`
are the tick's statement and Redis calls. Between `getState` and `remove` another
instance may remove the finished job and add a new one: the removal goes by
id, takes away whatever job has it by then, and throws if a worker has locked it, so that
the row is left to the next tick. `Load`, `ReserveAttempt`, `FailIfExhausted`,
`SendMail`, `HandleSendFailure`, `MarkFailed` and `MarkSent` are those of
`process`. `TakeJob`, `Stalled` and `LoseLock` are BullMQ. Faults:
`DispatchError`, `StatementError`, `Crash`, `LoseLock`, `RedisRestart` and a
send that the server accepted and `sendMail` reports as a failure. `sends`
and `delivered` are history variables.

### Accounts

One record `req[c]` for each request under way. A request that reads and later
relies on what it read is several steps: `Login` / `IssueAccessToken`,
`IsTokenBlacklisted` / `Authenticate` / `ChangePassword` / `UpdatePassword`,
`ForgotPassword` / `FindUnused` / `RevokeUnused` / `ReissueToken`,
`ConsumeAuthToken` / `VerifyEmail` or `ResetPassword`, `Register` / `SaveUser`.
The two halves of `revokeUnusedAuthTokens` are one UPDATE, which sees the rows that
are committed when it starts, waits for those that are held and then looks
again (`StillUnused`). A session remembers the password it was given for; that
is what `OnlyCurrentPassword` is about. Access tokens do not expire here, which
only adds behaviours.

### ProductImages

A file and its row are one id. `WriteImageFile`, `LockProduct`, `Apply` within
`Commit`, `CleanNewFile` and `UnlinkPrevious` are `replaceProductImage`; `RemoveImage` begins
`deleteProductImage`; `ListOldFiles`, `FilterInUse` and `RemoveOrphan` are the
sweep. Faults: `Crash`, an unlink that fails (it is logged and the file
stays), and a COMMIT that is carried out but not answered (`AnswerLost`), after
which the catch clause removes the file that the product now shows. `doubtful`
names those files, and `ImageHasFile` excepts them and no others.

### Chat

`req[r]` is a REST call: `FindOpen` and `InsertConversation`
(`getOrCreateOpenConversation`), `BeginSend`, `LockAndCheck`, `InsertMessage`
and `Broadcast` (`sendMessage`). `socket[a]` is an application's connection:
`Connect`, `Authenticate`, `AskJoin`, `CheckJoin`, `EnterRoom`, `Disconnect`.
`history[a]` is how it pages: `StartHistory`, `ReadPage`, `MarkRead`. `UpdateConversation`
assigns, closes and reopens. `clock` gives transactions the time they began, with
`Micros` readings in a millisecond: `created_at` is `now()`, the beginning of
the transaction, so the order of commits and of timestamps may differ.

### MonthlyReport

`run[i]` is `runMonthlyReport` of an instance: `HandleCron`, `FindAdmins`, `SumRevenue`,
`InsertReports`, and `Fail` for its catch clause. `Clock` makes time pass and calls the
cron job of every instance that is up; a call that is due is made before time goes
on. `Stamp` and `Settle` are a completion: it takes its time from the application's clock and
commits, or rolls back, at any time after that, also after the sum and months later. The
ghost `open` of a run, and of a report, are the orders that were stamped in the month and
not committed when it was summed.

### Catalogue and Feedback

Each process `c` serves one request, `ask[c]`, or runs the seed once; `at[c]` is
the statement it executes next, or its answer. Most statements commit at once.
`patchProduct` alone holds a lock between its steps (`LockProduct`, `LoadNewCategory`,
`UpdateProduct`); who needs that row waits: another patch or archive, the
foreign key of a new review, and `deleteCategory`, whose ON DELETE RESTRICT looks for
products again. Likewise `LockSuggestion` and `ReviewSuggestion` are
`reviewByAdmin`.

| Code | Actions |
|---|---|
| `createCategory`, `patchCategory` (UPDATE, then read back), `deleteCategory` (exists, has products, DELETE) | `CreateCategory`; `UpdateCategory`, `ReloadCategory`; `FindCategoryToDelete`, `CheckCategoryEmpty`, `DeleteCategory` |
| `createProduct`, `patchProduct`, `archiveProduct` | `LoadCategory`, `InsertProduct`; `LockProduct`, `LoadNewCategory`, `UpdateProduct`; `ArchiveProduct` |
| `UsersService.create`, `updateProfile` | `CreateUser`, `UpdateProfile` |
| `createReview` (visible, bought, INSERT, read back), `updateOwnReview`, `deleteOwnReview` | `CheckVisible`, `CheckPurchase`, `InsertReview`, `ReloadReview`; `UpdateOwnReview`; `DeleteOwnReview` |
| `ProductSuggestionsService.create`, `reviewByAdmin` | `CheckDuplicate`, `InsertSuggestion`; `LockSuggestion`, `ReviewSuggestion` |
| `seedDemoData` | `BeginSeed`, `CheckRecord` and `InsertRecord` in any order within a batch, `EndBatch`, `EndSeed` |

A row is its id, its unique column (`key`: slug, sku or user name), its activity
and `by`, the process that wrote it last; names, prices, ratings and comments are
whatever that process sent. The requests are the DTOs as they arrive behind
validation, with `None` for what a PATCH leaves out. `before[c]` (who had been answered when `c`
began) and `raced` (seeds beside which somebody wrote) are history variables.

### MonthlyReport

`run[i]` is `runMonthlyReport` of instance `i`: `HandleCron`, `FindAdmins`,
`SumRevenue`, `InsertReports`, with `Fail` for a statement that throws. `isRunning`
is the flag, `due` the instances whose job the timer calls at this moment. `Stamp`
and `Settle` are `updateStatusByAdmin`: `completedAt` is the application's clock
inside the transaction, the commit comes later. Time is counted in units of
a month's fraction from a UTC origin; `BangkokMonth` and `PreviousMonthRange` do what
`monthly-report-period.util.ts` does with `Date`. `owed` is a history variable: whom an
instance has to report to. The refinement mapping books an order in the Bangkok
month of its `completedAt` when the transaction commits.

## 4 Runs

`tlc -workers 2 -config <cfg> <module>`; states are distinct states (after
symmetry where the configuration declares it).

| Run (`cfg`) | What it asks | Checked | States |
|---|---|---|---|
| selling (`OrderTx_selling`) | Checkouts of two customers and their retries, one of them with another body, against edits of the same cart (full at first), patches of stock, price, activity and category of a product, and a category that is switched off; three connections | `TypeOK`, `ReadsStillTrue`, `AnswersAgree` | 116 thousand |
| moving (`OrderTx_moving`) | The life of an order: cancel, confirm, reject and complete race while its customer shops again; an administrator sets a stock and switches a category off; crashes and deadlock victims at every step | `Inv` (the inductive invariant), `HistoryTellsStatus`, `OnlyCancelDeadlocks`, `StockConserved`, the refinement `AtomicBook`, and under fairness `RequestsEnd` | 88 thousand |
| waitcycle (`OrderTx_waitcycle`) | Can a move of an order and a checkout wait for each other? | `NoWaitCycleWithCheckout`: violated | – |
| mail_faults (`MailOutbox_faults`) | One notification, two instances, three faults of any kind anywhere | `TypeOK`, `WithinBudget`, `OutcomeTrue`, `OnceUnlessFaults`, `OutcomeFinal` | 334 thousand |
| mail_settle (`MailOutbox_settle`) | Two notifications in batches of one, a fault and any number of refusals: is every row settled? | `EverySettled` under fairness | 26 thousand |
| accounts (`Accounts_sessions`) | Any two requests on one account at once, with an administrator, expiry and aborted transactions | `TypeOK`, `OnlyCurrentPassword`, `SpentOnce`, `PendingUntilRedeemed`, `RefusedForGood` | 1.3 million |
| superseded (`Accounts_superseded`) | Is the mail of a replaced reset token withdrawn? | `NoDeadLink`: violated | – |
| images_kept (`ProductImages_kept`) | Two requests on one product and a sweep that looks at one file an hour, with one fault | `TypeOK`, `ImageHasFile`, `RowsAreImages`, `NothingLeftBehind`, and under fairness `OrphansSwept` | 116 thousand |
| chat_sending (`Chat_sending`) | Two calls at once open, send, retry with the same body or another, close and reopen, in two conversations of two customers, with a restart | `TypeOK`, `AnswersMatch`, `ClosedTakesNothing` | 1.2 million |
| chat_reading (`Chat_reading`) | An application joins, pages and reconnects while messages are sent and broadcast | `NoGap`, `HistoryComplete` | 1.1 million |
| desk (`Feedback_desk`) | Three requests at once on categories, products, profiles, reviews and suggestions, and one or two runs of the seed that may crash, among them or alone | `TypeOK`, `OneVerdict`, `RefusedLeavesNothing`, `HiddenTakesNothing`, `DuplicatesOverlap`, `SeedFailsOnlyInRace` | 767 thousand |
| report (`MonthlyReport_tick`) | Two instances report December and January, an order is completed at any time and commits at any later one, before or after the sum, admins come and go, an instance or a statement fails | `TypeOK`, `NobodyForgotten`, `LacksOnlyOpen`, refinement `LedgerKept` | 412 thousand |

What the properties say, in the order of what would be worst:

- `AtomicBook` (`OrderBook!Spec`): every transaction of `OrderTx` acts on the
  tables as one atomic operation of `OrderBook` at its commit, or not at all. An
  oversold product, a lost cart edit, a wrong price, a half-written order, a
  duplicate order for a key, an illegal move, a cart above its limit are all
  steps that `OrderBook` does not have.
- `StockConserved`: stock on the shelf plus units held by orders changes only
  when an administrator sets a stock.
- `AnswersAgree`: every answer to a key names one and the same order, of that
  customer and that body.
- `ReadsStillTrue`: what a checkout has read under its locks is so when it writes.
- `HistoryTellsStatus`: the history is one legal chain that ends at the status,
  and the notifications are those of that chain.
- `OnlyCancelDeadlocks`: in every circle of waits there is a cancellation that
  waits for its own customer's row. That is all that remains of "ascending
  product locks do not deadlock".
- `RequestsEnd`, `EverySettled`: what has begun ends.
- `OrphansSwept`: a file that no row names is removed in the end, unless a whole
  batch of old files that must stay is listed before it, and for as long
  (`Shielded`; section 8, 11). Without that condition TLC refutes it.
- `WithinBudget`, `OutcomeTrue`, `OutcomeFinal`, `OnceUnlessFaults`: at most
  `MaxAttempts` calls of `sendMail`, whatever dies; SENT was delivered, FAILED
  has used its attempts; a settled row does not change; and without faults a mail is
  delivered at most once and never after it was given up.
- `OnlyCurrentPassword`, `RefusedForGood`, `SpentOnce`, `PendingUntilRedeemed`: an
  access token is worth something only for the password it was given for; once
  refused it stays so; a mailed token has its effect once, a replaced one none; a
  user is PENDING exactly as long as his verification token is unused, and leaves that
  status only by redeeming it once. It is not said that he can: the token
  may have expired (section 8, 10).
- `ImageHasFile`, `RowsAreImages`, `NothingLeftBehind`: see section 1.
- `ClosedTakesNothing`, `AnswersMatch`, `NoGap`, `HistoryComplete`: a closed
  conversation takes no message; a retry is answered
  with its own message; joining before paging misses nothing except what failed
  to be broadcast; paging to the end shows all there was at the start.
- `LedgerKept` (`RevenueLedger!Spec`): one report per admin and month; each
  carries what the books of that month showed at one moment after it had ended.
- `LacksOnlyOpen`: at any later time a report differs from the books by the orders
  whose completion was under way when it was summed, and by nothing else.
- `NobodyForgotten`: an instance that was up and did not fail has left no admin without
  the report, also when another instance had reported to some of them.
- `OneVerdict`, `RefusedLeavesNothing`, `HiddenTakesNothing`,
  `DuplicatesOverlap`, `SeedFailsOnlyInRace`: who was told that his verdict stands finds
  it; a refused request has left nothing; once a deactivation has been answered no later
  request puts anything under what it hid; two equal suggestions wait only if
  their requests overlapped; a seed fails only beside another writer, whatever earlier runs
  left behind.

Every one of them has a mutant in `PROJECT.json`: a plausible mistake in a
definition of the model that TLC then finds.

## 5 Bounds

No bound is in the code's own logic; each cuts a counter or a population, and
is large enough for the cases the properties are about.

| Bound | Value | Why it is enough |
|---|---|---|
| `Conns` | 3, 2 | a deadlock and a stale read take two transactions; the third lets a request come between two that wait for each other |
| `MaxRequests` | 4 (selling), 5 (moving) | a checkout, its retry and two interfering edits; a checkout, a confirmation, a competitor, a completion and a second checkout |
| `OrderIds` | 4 | at least as many as the run's keys allow orders, so no checkout lacks an id |
| `MaxQuantity`, stock | 2, 2 | a cart has one unit of two products at first: two orders of one unit, or one of two, use a product up |
| `Products`, `Categories` | 3 (moving: 2), 2 | locks in ascending order; a product that changes its category; a third product that finds the cart full |
| `MaxCartLines` | 2 | the code's 20. The carts of selling are full at first; after a line is removed two inserts compete for the room. Moving has two products and never meets the limit |
| `MaxFaults` (outbox) | 3, 1 | three attempts with a fault in each; liveness needs faults to end at some time |
| `MaxAttempts` | 3, 2 | the code's 3 where faults are counted |
| `BatchSize` (outbox) | 1 | the code's 50; with two rows and batches of one a row can starve if the order of the batch is wrong |
| `MaxVersion` | 2 | change the password, then deactivate |
| `Tokens`, `Sessions`, `Clients` | 3, 1, 2 | one token to verify and two to reset; sessions never meet, so one shows what any of them does |
| `Files`, `BatchSize`, `MaxFaults` (images) | 3, 1, 1 | two requests with a file each and a file of before; the code's batch is 50, and with batches of one a single old image already keeps the sweep from an orphan |
| `Messages`, `MaxTime`, `Micros` | 2, 1, 2 | two messages of one millisecond or of two |
| `Bodies` (sending) | 2 | a retry with the first body or another |
| `PageLimit` | 1 | two messages are two pages |
| `MaxRestarts` | 1 | a restart between any two steps |
| `Processes` (desk) | 3 | two writers of a row and one that reads it in between, or one that began after the first was answered |
| `Casts` (desk) | 1264 | any three of ten requests on the catalogue; a seed beside a seed, requests and users; a review with two others; any three on suggestions |
| demo data (desk) | 2, 1, 2 | a category and a product that exist already, one of each that do not, a user whose name may be taken |
| `Instances`, `Admins`, `Orders` (report) | 2, 2, 1 | one instance reports to an admin the other has not; one instance sums before the order commits, the other after |
| `MonthLength`, `Start`, `End` (report) | 4, 94, 101 | from before the end of December, over the tick in January, to the tick in February, so that an order stamped in December may commit when its report is long made |
| `MaxFaults` (report) | 1 | one instance fails or dies, the other does not |

Guards that name a bound: `now < End`, `begun < MaxRequests`, `faults < MaxFaults`,
`users[u].version < MaxVersion`, `t <= MaxTime`, `restarts < MaxRestarts`, and
`IdLeft` and its like, which let a request begin only if there is an id for its row.
`Clock` waits at a tick for a run of the month before: a run takes less than a
month.
When `OrderTx` has reached its bound and everything has ended, `Done` stutters;
so do `MailOutbox` when it is `Quiet` and `Feedback` when it is `Finished`. Every run
checks for deadlock but `report`, whose clock stops at `End`.

Symmetry: connections, instances, admins, clients, tokens, sessions, passwords,
bodies of messages, conversations and customers, where no definition tells them apart and the run
checks no liveness property. Products, categories, files and messages are
numbers and ordered, so they are not symmetric.

## 6 Fairness

Weak fairness only, and only for what the code or its platform keeps doing:

- `OrderTx`: a connection executes its next statement when it can (`Work(c)`),
  and PostgreSQL breaks deadlocks (`DeadlockVictim(c)`). No client has to send
  anything and nothing has to crash. A request that waits for a row that others take
  again and again would need strong fairness; here requests are bounded in
  number, and PostgreSQL queues waiters.
- `MailOutbox`: the cron expression calls the dispatcher every 5 s, and its
  `finally` resets `isRunning`; a worker with a job goes on, since `sendMail`
  has a timeout of 15 s; BullMQ's stalled checker runs periodically.
- `ProductImages`: requests end, files age, the cron job runs every hour.
- `Accounts`, `Chat`, `Catalogue`, `Feedback`, `MonthlyReport`: safety only. A monthly
  report that failed is not repeated before the next month (section 8), so there
  is no fairness under which every admin gets one.

## 7 Proofs

Checked by `tlapm` for every value of the constants: any number of customers,
products, connections, instances, tokens, clients, messages, orders, rows. Every
safety property that a passing run checks is a theorem, the two refinements
included.

| Theorem | Module | States |
|---|---|---|
| `Invariance`, `TypesCorrect`, `ReadsStayTrue`, `HistoryCorrect`, `CheckoutIdempotent` | `OrderTxProofs` | `Spec => []Inv` and its parts `TypeOK`, `ReadsStillTrue`, `HistoryTellsStatus`, `AnswersAgree` |
| `Implements` | | `Spec => AtomicBook` |
| `NoStockLost` | | `Spec => StockConserved` |
| `OnlyCancellationsDeadlock` | | `Spec => []OnlyCancelDeadlocks` |
| `OutboxTyped`, `BudgetHolds`, `OutcomesTrue` | `MailOutboxProofs` | `Spec => []TypeOK`, `[]WithinBudget`, `[]OutcomeTrue` |
| `OutcomesFinal`, `DeliveredOnce` | | `Spec => OutcomeFinal`, `Spec => []OnceUnlessFaults` |
| `AccountsTyped`, `CurrentPasswordOnly`, `RefusalsFinal`, `TokensSpentOnce`, `PendingUsersVerify` | `AccountsProofs` | `Spec => []TypeOK`, `[]OnlyCurrentPassword`, `RefusedForGood`, `[]SpentOnce`, `[]PendingUntilRedeemed` |
| `ImagesTyped`, `ImagesKeepTheirFiles`, `NoStrayRows`, `RequestsCleanUp` | `ProductImagesProofs` | `Spec => []TypeOK`, `[]ImageHasFile`, `[]RowsAreImages`, `[]NothingLeftBehind` |
| `ChatTyped`, `RetriesAnswered`, `ClosedStaysClosed`, `NoMessageMissed`, `HistoriesComplete` | `ChatProofs` | `Spec => []TypeOK`, `[]AnswersMatch`, `ClosedTakesNothing`, `[]NoGap`, `[]HistoryComplete` |
| `FeedbackTyped`, `VerdictsStand`, `RefusalsLeaveNothing`, `HiddenStaysEmpty`, `OnlyOverlapsDuplicate`, `SeedsComplete` | `FeedbackProofs` | `Spec => []TypeOK`, `[]OneVerdict`, `[]RefusedLeavesNothing`, `[]HiddenTakesNothing`, `[]DuplicatesOverlap`, `[]SeedFailsOnlyInRace` |
| `ReportsTyped`, `EveryoneReported`, `ReportsExplained`, `ImplementsLedger` | `MonthlyReportProofs` | `Spec => []TypeOK`, `[]NobodyForgotten`, `[]LacksOnlyOpen`, `LedgerKept` |

**Assumptions.** TLC evaluates each of them in the runs of its module. None says
anything about the order of events.

- `ShopAssumption`, `TxAssumption`: ids of products and categories are numbers,
  order ids and connections are finitely many, customers are not
  administrators, initial tables and requests are of their types, `Null` is no row.
- `OutboxAssumption`: the constants are positive, the set of instances is finite, a
  job id is not a state of a job.
- `AccountsAssumption`, `TypeAssumption`, `ImagesAssumption`, `ChatAssumption`: bounds
  are numbers, page and batch sizes positive, message and file ids are numbers (they
  are ordered by time), every application has an owner, `None` is nobody and nothing.
- `CatalogueAssumption`, `FeedbackAssumption`: the tables before the first request
  are of their types, with unique columns unique, and were written by none of the
  processes; ids that processes will give are not taken (they are new uuids); no demo
  record occurs twice; requests are of their types. That a suggestion is PENDING if and only
  if it has no reviewer is the schema's `ck_product_suggestions_review_consistency`.
- `ReportAssumption`: finitely many orders, amounts and times that are numbers. The
  server may be in any zone, the tick at any time, and nothing bounds
  a commit.

**Ordering.** `ReadsStillTrue` is not inductive: nothing in it says why another
transaction cannot write the row. `Inv` adds

- `StepsFit`: a transaction is at a step its request goes through, having read
  what the steps before read;
- `LocksFit`: it holds the lock of every row it has read under lock, and no two
  connections hold conflicting locks;
- `WritesStillLegal`: an order that a move has locked still may make that move and
  its items are the lines that will be given back; a cart that is being ordered is not
  empty; a line that is being written has room;
- `OneOrderPerKey`.

The argument: a step changes tables only as the last step of a transaction, and
each row it changes is one that transaction holds FOR UPDATE (`NO KEY UPDATE` for a
category, which conflicts with the FOR SHARE of a checkout). A row that another transaction
has read under its own lock is not among them (`Exclusive`). The refinement then takes one
step per action: what was read is what is there (`Inv`), so the last step does to
the tables what the operation of `OrderBook` does, and every other step leaves
them alone.

*Stock.* A checkout and a move change the units held (`HeldBy`) at one order, by as
much as they take from the shelf or put back on it; every other step changes neither, but for the patch
that `SetsStock` names. What is left is that a sum changes by as much as the one summand that
changed (`SumTheorems`): the community module's sum is a recursive function on the subsets of
its argument, and instead of an induction rule, of the sets for which a law fails a
least one is taken (`Least`, by well-foundedness of inclusion on finite sets).

*Deadlocks.* `LockOrderInv` says what each lock is there for, and that a transaction
that is locking products has only locked smaller ones than those it still wants, and
before that none. So who waits for a user or an order waits for one that locks
products or inserts a line, who inserts a line waits for one that locks products,
categories are only shared and nobody waits for them, and who waits for a product to
lock it waits for one that waits for a higher product (`WaitsHigher`). Of finitely
many connections one wants the highest, and nobody it waits for waits. The exception
is the cancellation, which asks for its customer's row after the products. The moves
of administrators do not: nobody ever locks an administrator's row (`WaitsOn`).

**Outbox.** `WithinBudget` counts the workers that are about to send beside the sends that
happened, so a reserved attempt is paid for once even when two workers have the
same job. `WorkTrue` says why a worker marks a row (`markSent` follows a delivery,
`giveUp` an exhausted budget) and that a dispatcher's batch is never ahead of
the table: attempts only grow. For `OnceUnlessFaults` the invariant holds only
while `faults = 0` (`FaultInv`), since any fault breaks it for good:
`OneWorker` (the active job and the worker at work on it are one), `SentOnce`,
`StillUnsent`, and `BehindLastSend`: a dispatcher that is about to mark a row
FAILED because its attempts were used up, with no job in the queue, does so
after the last send has ended.

**Accounts.** `SessionInv`: a version that is as young as the row's means the row is
still as login saw it (`SessionsTrue`, and `LoginsTrue` for logins under way,
which have read the row and not yet signed). `SpentInv`: a token that is unused
has had no effect, and is held by at most one transaction, which found it unused.
`VerifyInv`: a user has one token to verify with, `forgotPassword` revokes only
tokens of the other type, and who has consumed it is about to activate its user
(`VerificationsTrue`, `WritersTrue`); it is mailed for the user who was
registered with it (`MailsTrue`), unused while he is PENDING (`PendingUnused`).

**Images.** `PairInv`: the product row is held from the read of the previous image to
the commit, so the image that `Commit` takes away is the one that was read, and two requests
never have the same one to unlink. `RequestInv`: a new file belongs to its request alone
until the commit; it is too young for the sweep. `SweepInv`: what the sweep is about to
remove no row names. `NothingLeftBehind` holds while there has been no fault: every
file then is an image, or there is a request that will remove it.

**Chat.** `SendInv`: who is about to write has found the conversation OPEN under
its lock. `RoomInv`: an acknowledged join put the socket into the room. `PagingInv`: what
an application has still to be shown is below its cursor. `LiveInv`, for
`NoGap`: each message of the conversation was there before paging began, or has reached
the application, or failed to be broadcast, or is still on its way, and then the
application is in the room it will be broadcast to.

**Catalogue, Reviews, Suggestions, seed.** One argument throughout: a row that changes carries the
name of the process that changed it, and that process has not been answered. What had been
answered before a process began is therefore not what it finds changed. `LooksTrue` applies it
to what a request found active, `SuggestionsTrue` to the duplicate that it did not find,
`SeedsTrue` to the records a seed looked up: beside nobody who writes they stay found, or
missing. `VerdictsTrue` is about the one lock: its holder has found the suggestion PENDING, and
only he writes it.

**Monthly report.** No order can enter an ended month any more but those that were
stamped in it and are still open, since `completedAt` is never later than the
clock (`OrdersTrue`) and a run is for a month that had ended when it began. So at any
time what a run has summed is the completed orders of that month without those that
were open at the sum (`Explained`, in `RunsTrue` and `ReportsTrue`), which is
`LacksOnlyOpen` for the rows. `ImplementsLedger` maps the commit of a completion to `Book`, the
sum to `Quote`, the insertion of reports to `Send` for those that are missing, a failure or crash
between the two to `Forget`, and every other step to a stutter or, at the end of a month, `Turn`.

**Only model-checked**: the liveness properties (`RequestsEnd`,
`EverySettled`, `OrphansSwept`), since ENABLED and fairness are out of the prover's
reach. `NoWaitCycleWithCheckout` and `NoDeadLink` do not hold (section 8).

## 8 Where the code and its documents differ

The first two are runs that are expected to end in a counterexample.

1. **waitcycle.** `database.md:501` says that moves of an order take no lock on
   users and form no circle with checkout; so does the comment at
   `orders.service.ts:190`. But `cancel` appends a history row whose
   `actor_user_id` refers to the customer, and the foreign key's check takes
   KEY SHARE on the row that checkout holds FOR UPDATE. A customer who cancels an
   order of a product and checks out a cart with the same product at once can
   make one of the two a deadlock victim: a 500, but no wrong data (`AtomicBook`
   still holds).
2. **superseded.** `database.md:252` says that a new reset token turns the
   PENDING notification of the old one into FAILED with reason SUPERSEDED. No
   statement does; the dead link is sent. It is dead indeed (`SpentOnce`).

The others were met while modelling. The models do what the code does.

3. `mail.processor.ts:66` logs "DB state is stale, will NOT resend" when
   `markSent` fails after the mail has gone out. The row stays PENDING and the
   next tick sends it again, within the budget (`StatementError`, `WithinBudget`).
4. `database.md:384` says `last_message_at` matches the newest message.
   `created_at` is the time a transaction began, before it waited for the
   conversation row; the later writer may have begun earlier.
5. `chat.service.ts:479` promises 409 where the second `findMessageReplay`
   runs in an aborted transaction and the answer is 500.
6. `database.md:507` and `api-contract.md:521` say that the report is made at
   00:10 of Asia/Bangkok. The cron expression has no time zone, so the
   server's counts. One in UTC reports at 07:10 of Bangkok. One further east is called
   while Bangkok still has the last day of the month before, and reports the month
   before that. The properties hold in any zone.
7. `api-requirements.csv:60` counts database errors among what is retried. A
   monthly report whose statement fails is logged and given up until the next
   month (`Fail`); a second instance is all that makes up for it.
8. Nothing bounds the time between stamping `completedAt` and the commit. An order
   stamped before midnight that commits after the sum is in no report. That is
   all a report may lack (`LacksOnlyOpen`), and two instances that sum before and after may
   send two admins different totals.
9. A category deleted between `createProduct`'s check and its INSERT makes the
   answer a 500 ("error" of `InsertProduct`): `toConflictOrRethrow` translates unique
   violations only, while `deleteCategory` translates the foreign key's.
10. `consumeAuthToken` (`auth.service.ts:248-262`) refuses an expired token and no request
    sends another for verification. A user whose token expires unused stays PENDING
    for good.
11. The comment at `attachments-cleanup.service.ts:13-19` says that the sweep cleans up files
    that no row refers to. `:54` cuts the list to 50 before the files in use are taken out
    of it, so that while the 50 old files listed first are all in use no orphan
    behind them is ever looked at. `OrphansSwept` says what is left of the promise.

## 9 What is not modelled

- **Time.** Expiry of mailed tokens is an action that may happen at any time; access tokens
  and blacklist entries last for ever; the minimum age of an orphan is a state a file
  reaches after the request that wrote it has ended. The listing of a directory has a
  fixed order (that of the ids).
- **The lock queue, the plan of a statement, isolation beyond READ COMMITTED.** Locks
  are granted in any order; a statement that locks several rows locks them in
  the order its ORDER BY gives.
- **Lists, searches, exports and averages**: they read committed rows and change
  nothing.
- **Catalogue and OrderTx are not one model.** Price, stock and activity against
  checkouts are in `OrderTx`; slugs, skus, references and creation in `Catalogue`. A product
  that is created is sold only by requests that come after it.
- **The length of months** (`MonthlyReport` has them equal) and leap days.
- **Refused by validation**: empty patches, malformed ids and bodies are answered
  with 400 before anything is read.
- **Rate limiting, HTTP layer, mail contents, migrations**: no state of
  their own, or run before the program. Constraints of the schema appear as guards
  and as foreign-key locks.

What could go wrong in the modelled parts is listed under "hazards" in
`PROJECT.json`, each with the properties that would notice it.

## 10 Plan

Done, in this order: (1) `ShopData`, `RowLocks`, `OrderBook`, `OrderTx` with
their runs, the inductive invariant and the refinement; (2) `MailOutbox`, runs and
proofs; (3) `Accounts`, runs and proofs; (4) `ProductImages`; (5) `Chat`;
(6) `RevenueLedger` and `MonthlyReport`; (7) `Catalogue` and `Feedback`; (8) the
proofs about (4) to (7), stock and deadlocks.

Next:

1. **Chat, continued**: what may be marked as read. `MarkRead` is modelled, but no property
   is about it yet; it takes read receipts per side with two applications
   (`markOthersMessagesRead`, `chat.service.ts:474`, marks by sender, so that an
   admin who reads marks another admin's messages as read).
2. **Accounts, continued**: mailed tokens and their notifications in one model
   with the outbox, so that "superseded" covers the send itself; two
   `forgotPassword` at once, after which both new tokens are usable
   (`auth.service.ts:114`).
3. **What else follows from the invariants**: that a retry of a checkout commits
   nothing but its answer, as an action property of `OrderTx`; that an orphan the
   sweep removes was never an image.
