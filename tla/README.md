# FairDrop in TLA+

FairDrop is a shop: sellers list products, moderators decide what goes on sale,
buyers reserve stock, turn reservations into orders and pay or cancel them. An
API (FastAPI, one SQLAlchemy session per request), an ARQ worker, Postgres,
Redis and MinIO run side by side, and nearly everything that can go wrong does
so between two of them. This directory models those parts, checks them with TLC
and proves the main results with TLAPS.

Paths below are relative to `src/app/`.

## 1. The system

| Component | State | Operations | Talks to | What makes it correct |
|---|---|---|---|---|
| Stock, reservations, orders (`services/inventory`, `services/orders`) | `products.qty_available`, `reservations`, `orders` | `reserve_items`, `create_order_from_reservation`, `confirm_order_payment`, `cancel_order`, the minutely job `release_expired_reservations` | row locks in Postgres; the worker shares only the database with the API | no unit lost, created or sold twice; an order and its reservation agree; what is final stays final; overdue reservations are released |
| Seller's desk (`services/inventory`, `services/seller_user`) | what the dashboard shows; `qty_available` | `get_my_products`, `update_product`, `delete_product`, `get_my_orders` | works on the rows that are being reserved and ordered, with forms and lists of earlier values | units appear and vanish as the seller means; nothing refers to a deleted product; addresses are shown for paid orders only |
| Listings and moderation (`services/inventory`, `core/admin`) | `products.status`, `moderator_id`, content | create, update, submit, claim, approve, reject, activate, delete; the panel's product form | the seller limit counts rows; the panel writes the same columns | only what the staff decided on is on sale; one moderator per claim; the limit |
| Audit log (`core/audit_log`) | `audit_logs` | a snapshot at the start of a handler, an entry with the difference in its transaction | every handler of a listing writes to it; the panel does not | who replays the log knows the listing |
| Product images (`services/media`) | `product_images.status`, the object in MinIO | upload URL, upload, webhook, sanitising job | MinIO notifies the API, which queues a job, whose own write notifies again | what the shop shows has been re-encoded; the loop ends; uploads are processed |
| Idempotency decorator (`shared/decorators.py`) | responses in Redis | look up, run the handler, store | wraps the handlers that reserve, order, pay and cancel | one effect per call; nothing in Redis that did not happen |
| Rate limiter (`core/lua_scripts.py`, `shared/rate_limit*.py`) | counters with expiry in Redis | one atomic script over two counters | reservations (user and product), logins and sign-ups (one key and a dummy) | bursts are bounded, a refusal by one key costs nothing under the other, refusals end |
| Accounts (`services/user`, `shared/deps.py`) | `users.email`, `refresh_tokens`, `api_keys_b2b_partners` | sign up, login, refresh; create, use, delete and deactivate an API key | two transactions per refresh; every request finds its user by email or by key | an email is one user's; an exchanged token is gone; a deleted or deactivated key stops working |
| Role upgrades (`services/user`, `core/admin`) | `verification_requests`, `users.role`, `is_verified` | create a request; save the admin form and its hook | the hook commits in a session of its own | what reads APPROVED has happened; roles follow approvals |
| Not modelled | | the statistics and the buyer's lists, the catalogue for partners, the panel's forms of orders, reservations and users, payments (an empty package), wiring, deployment | | see section 7 |

What is hard here:

- **Concurrency.** Requests and job executions are transactions under READ
  COMMITTED; they are serialised only where the code says `with_for_update()`.
  Several checks are not (the seller's count, the pending upgrade request, the
  email of a sign-up, the token row, the API key), forms and lists show what was
  true earlier, and SQLAlchemy's identity map can hold older values than a locked row.
- **Time.** Reservations expire while they are being paid; cron starts a sweep
  while the last one still runs; jobs and cached responses time out.
- **Partial failure.** Redis and Postgres do not commit together; neither do the
  two sessions of the admin hook, nor the two transactions of a token refresh,
  nor MinIO and the image row. Workers and requests die anywhere.
- **Delivery.** MinIO notifications and ARQ jobs arrive at least once, late, or never.

Every such place is listed in `PROJECT.json` under `hazards`, with the
properties that guard it.

## 2. The modules

| Module | Models | Checked by | Proofs |
|---|---|---|---|
| `StockLedger` | abstract: what the inventory promises | `conservation`, through `ImplementsLedger` | `StockLedgerProofs` |
| `OrderLifecycle` | transactions, locks, sweep; implements `StockLedger` | `conservation`, `production`, `oversell` | `OrderLifecycleProofs` |
| `SellerDesk` | the seller's screen, edits of stock, deletions, lists of orders; extends and composes with `OrderLifecycle` | `seller_desk` | `OrderLifecycleProofs` |
| `ProductModeration` | listings, moderation, seller limit, the panel's product form | `moderation` | `ProductModerationProofs` |
| `AuditTrail` | the entries about listings; extends and refines `ProductModeration` | `moderation` | `ProductModerationProofs` |
| `ImagePipeline` | upload, notification, job | `images`, `images_undone` | `ImagePipelineProofs` |
| `IdempotentRequests` | the decorator around the handlers of `OrderLifecycle`, which it extends and composes with | `idempotency` | `IdempotentRequestsProofs` |
| `RateLimiter` | the Lua script with a clock | `rate_limiter` | `RateLimiterProofs` |
| `RefreshTokens` | login and refresh | `refresh_tokens` | `AccountsProofs` |
| `Accounts` | sign-up, login by email, API keys; extends and composes with `RefreshTokens` | `refresh_tokens` | `AccountsProofs` |
| `VerificationRequests` | upgrade requests and their approval | `verification`, `verification_regranted` | `VerificationRequestsProofs` |

`MC<Module>` gives a module its constants for TLC, each `.cfg` one instance.
Definitions marked "Mutant" are not part of a specification: each is a plausible
mistake in the definition that follows it, and the property it is paired with in
`PROJECT.json` fails when it takes that definition's place.

### OrderLifecycle

A row is an element of `Products`, `Keys` (a reservation is named by its unique
idempotency key) or `Orders`; `lock` says which transaction holds it `FOR UPDATE`,
from the locking read to the commit or rollback. `tx[c]` is the request running
in an API session, with the stock it has read (`seen`); `sweep[w]` is an execution
of the job, with the ids it selected at its start (`todo`), the reservation it works
on, and the product object its session still holds from the last iteration
(`cached`, `cachedQty`).

A transaction is cut wherever it may have to wait for a lock, and between a read
and the write computed from it. `ReserveRead`/`ReserveCommit`/`ReserveConflict` are
`reserve_items`; `PlaceOrderRead`/`PlaceOrderCommit` are `create_order_from_reservation`;
`PayRead`, `CancelRead`, `CancelLockReservation`, `PayCommit`, `CancelCommit` are the
two order operations with their calls into `inventory/internal.py`; `SweepStart`,
`SweepPick`, `SweepLockReservation`, `SweepSkip`, `SweepLockProduct`, `SweepRelease`
and `SweepEnd` are the job. A refusal leaves no trace and is a guard.
`RequestFails`, `SweepIterationFails`, `SweepCrashes` and `DeadlockVictim` end a
transaction with a rollback.

`ExpireOnCommit` is SQLAlchemy's `expire_on_commit`. `worker.py:30` deploys FALSE;
the tests of the job run with TRUE. With FALSE the session keeps the product
object of an earlier iteration, and `SELECT ... FOR UPDATE` does not overwrite
an object that is already loaded, so the release adds to a stale quantity
(`Loaded`).

`StockLedger` is the promise without sessions and locks: a key takes units once,
and they are sold or given back once. `ImplementsLedger` maps `free` to
`qty_available` and `hold` to the reservation rows.

### SellerDesk

`form` is the quantity the seller's screen shows (`ViewProducts`). `SaveQuantity` is
`update_product` with a new quantity: it locks the product and writes the posted
number, not a difference; nothing in it can wait once the row is locked, so it is
one step, as `DeleteProduct` is. `meant` adds up what the seller put in, as the
forms read. A product that a reservation refers to cannot be deleted (the foreign
key, `Unreferenced`), and a deletion waits for the request that holds the row.
`SelectOrders` and `ReadOrders` are the two statements of `get_my_orders`. The
actions of `OrderLifecycle` run beside these unchanged, except that a product that is
gone cannot be reserved.

### ProductModeration

Every handler but creation locks the product in its first statement and commits
once: `Load` (the locking read, and the checks of role, owner and status that
`Allowed` collects) and `Commit` (`Written` is the row each operation leaves).
Creation counts the seller's rows without a lock (`CreateCheck`) and inserts later
(`CreateCommit`). What a listing says is a version number; `vetted` remembers the
version a moderator claimed or an override activated.

The panel's product form (`core/admin/admin.py:347`) has the status and the
moderator. `PanelLoad` is the read of a save, without a lock; `PanelSave` writes
the columns in which the form differs from that read. What the form says is
arbitrary, because the page may have been opened long before. A save can
therefore break what the handlers keep; `overridden` remembers which listings one
has changed, until a submission, a claim or a rejection sets both columns again.

### AuditTrail

Every handler takes a snapshot of the row after locking it, and adds an entry with
the fields that differ to its own transaction. The log is represented by what a
reader who replays it holds of each listing (`recorded`). `delete_product` passes the
same snapshot twice, so that a deletion leaves no entry; the panel's saves
leave none either.

### ImagePipeline

`status` is the row, `name` the file name that ends its `file_path`, `object` what
MinIO holds, `events` and `queue` count undelivered
notifications and queued jobs, `hook[h]` is the pending row a webhook request has
locked, `job[w]` the step a job has reached. `Put` is the job's own write and adds
an event, as an upload does. The job's SELECT and UPDATE of the status are one
step: two of them on one row have the outcome of one after the other.

A notification names the image by its key as MinIO writes it into a query
(`Escaped`): special characters as %XX, a space as +. `unquote` (`Unquoted`) decodes
the first and not the second, so `Found` fails for a name with a space, and
`Webhook` drops the notification, as it does that of a row that is gone, that is not
pending, or, without `HasPool`, of one that is. `HasPool` is the `arq_redis` argument:
`main.py:52` sets it before the first request and start-up fails without it; the
parameter's default and a test have `None`.

`JobRetried` and `WebhookFails` are repeated deliveries; `JobLost` (ARQ's timeout cancels
the task with something that is not an `Exception`) and `EventLost` are final.

### IdempotentRequests

A call is an operation, the row it is about and a header: POST /products/reserve,
whose header becomes the reservation's `idempotency_key`, POST /orders/ with the id of
a reservation, POST /orders/{id}/pay and /cancel. `LookUp` and `Store` are the
decorator's GET and SETEX. Between them the request runs the steps of
`OrderLifecycle` (`Begin`, `Proceed`, `Commit`), with its locks, its checks and other
requests and sweeps beside it; `Raise` is every way in which a handler ends with an
exception, which passes through the decorator. `ReplyKey` is what the reply is stored
under: method, path and header, not the body. `Die` separates the commit from SETEX,
`Lapse` is the expiry in Redis. A reply found in Redis changes nothing and is no action.
`effects` counts the commits of each call; no guard reads it.

### RateLimiter, RefreshTokens, Accounts

`RateLimiter` keeps a clock, and of each key the times of the requests admitted, in
order; a counter whose expiry has passed reads as zero. A
request names its second key (`SecondKeys`): the product it reserves, or the dummy
that `check_rate_limit` adds, which has a counter of its own. In `RefreshTokens`, `Delete` commits
whether or not the row is still there, and `Issue` is the second transaction.

`Accounts` adds the rest of the user service; a request slot runs a refresh or one of
its calls. `SignUp`/`Register` are the check and the insert of `create_user`, and only the
unique index (`Unique`) orders two of them. `LookUp`/`LetIn` are the authentication of
a request with an API key: the SELECT of active keys, and, after the hash was
verified, the UPDATE of `last_used_at`, which fails if the row is gone and does not
look at `is_active` again. `FindKey`/`DeleteKey` delete a key, `SwitchKey` is the
checkbox in the panel. Roles are left out: who may create a key is a check at
the start of the request.

### VerificationRequests

`CreateCheck`/`CreateCommit` are the two halves of `create_verification_request`. `Load`,
`Grant` and `Save` are what sqladmin does with a posted form: select the row, call
`on_model_change` (which upgrades the user in another session), write what
differs from the loaded row. The posted status is arbitrary: the admin chose it,
or the page showed it when it was opened. Edits of users are left out.

## 3. What the runs show

| Run | Instance | Shows |
|---|---|---|
| `conservation` | 2 users (one of them staff), 2 products, 2 keys, 2 orders, 2 requests, 1 sweep, 1 failure, `ExpireOnCommit` | stock is conserved, orders and reservations agree, final is final, requests do not deadlock among themselves, the ledger is implemented |
| `production` | 1 product, 2 keys, 1 request, 2 sweeps, 1 failure, deployed options, fairness | overdue reservations are released and requests end, through deadlocks and a failure |
| `oversell` | 1 product, 4 keys, 1 request, 1 sweep, deployed options | **violation**: units sold twice |
| `seller_desk` | 1 product, 2 keys, 1 request, 2 sweeps, 1 failure, 1 edit up to 3 units, deployed options | only stale forms and stale sweeps miscount; deletions leave nothing dangling; addresses are of paid orders |
| `moderation` | 2 listings, a seller who may have one, 2 moderators who also use the panel, 2 requests, 1 panel save | what is on sale was decided on; claims are exclusive; the limit is exceeded by concurrent creations only; the audit log tells every listing as it is |
| `images` | 1 image, 2 uploads, 2 webhook requests, 2 jobs, 2 failures or repetitions, 1 loss, three kinds of file names, fairness | active images uploaded once are re-encoded, and only their own failures undo them; jobs only for pending rows; uploads whose name has no space are processed, the feedback loop ends |
| `images_undone` | 1 image, 2 jobs, 1 failure | **violation**: ACTIVE becomes FAILED |
| `idempotency` | 1 user, 1 product, 2 keys, 1 header for 2 orders, 2 requests, 1 sweep, 1 failure, deployed options | no call takes effect twice; what Redis answers has happened and still holds; every missing reply is explained |
| `rate_limiter` | 2 buyers, 1 product, 1 visitor, limits 2 and 3, ttl 3, 6 time units | bursts below twice the limit; counters count what was admitted; the dummy never refuses; refusals end |
| `refresh_tokens` | 4 tokens, 2 users, 2 emails, 1 API key, 2 requests, 1 dies | exchanged tokens are gone; only concurrent requests share one; emails are unambiguous; keys stop working |
| `verification` | 1 user, 3 requests, 2 clients, 2 forms, 1 failure | APPROVED has had its effect; pending requests are bounded |
| `verification_regranted` | 2 requests, 1 form, no failure | **violation**: an old approval undoes a newer one |

The violations are disagreements between the code and a line of its own
documentation; `findings` in `PROJECT.json` quotes the lines. In short:

1. A sweep that releases two reservations of one product, or two overlapping
   sweeps, work from product objects that survived a commit
   (`inventory/tasks.py:53`, `worker.py:30`): stock is lost or sold twice.
2. An image job overwrites whatever status the row has by then
   (`media/tasks.py:73-91`).
3. Re-saving an approved request grants its role again (`core/admin/admin.py:248`).

Other races have no run of their own: a property states how far they can go, and
holds.

- The seller limit and the single pending upgrade request are checked without a
  lock (`inventory/service.py:53`, `user/service.py:264`): `OvershootIsBounded` and
  `PendingIsBounded` allow as many extra rows as requests run at once, less one.
- Two refreshes that read one token row both succeed (`user/service.py:127`):
  `ExchangesAreConcurrent`.
- A repetition between the handler's commit and SETEX runs the handler again and
  gets its conflict error (`shared/decorators.py:93-107`): `EffectsOnce` says that this
  does no harm, `MissingResponsesAreExplained` when it can happen.
- The cache key of a reply leaves out the body, and POST /orders/ has the reservation in
  the body (`shared/decorators.py:91`): a client that orders two reservations under one
  header gets the first order as the answer to the second call, and no second order,
  if the first reply is in Redis, and both orders if the calls overlap.
  `EffectsOnce` counts each reservation's order by itself; `CachedIsCommitted` says only
  that some order was made for the reply.
- An image whose file name has a space stays PENDING although no message was lost
  (`media/service.py:201`, `unquote` where `unquote_plus` would find the row);
  `service.py:184` speaks of "robust error handling". `UploadIsProcessed` is about the other names.
- A second upload to the same URL between the job's write and the commit of ACTIVE
  leaves an active image that was never re-encoded (`media/tasks.py:73`):
  `ActiveIsClean` and `OnlyFailuresUndo` speak of the images that were uploaded once,
  beside others that were uploaded again; of the others both are false.
- A seller's edit of stock forgets the reservations made since the form was opened
  (`inventory/service.py:249`): `OnlyStaleFormsMiscount` says that this and the stale
  sweep are the only steps that do so.
- A save of the panel's product form can put an unapproved text on sale, hand a
  claim to another moderator, or leave a listing in moderation with nobody
  (`core/admin/admin.py:347`): the properties of `moderation` hold for every
  listing that no such save has changed since its last submission, claim or
  rejection.
- A request that had found an API key active is let in although the key was
  deactivated while its hash was verified (`user/service.py:201`): `KeysStopWorking`
  bounds them, and lets none past a deletion.

Divergences between the text and the code that need no run to see:

- Products that are not ACTIVE can be reserved: `reserve_items`
  (`inventory/service.py:371`) checks existence and stock, while
  `inventory/routes.py:143` says that activation makes a product "visible and
  purchasable".
- A deletion is not audited (`inventory/service.py:285` passes one snapshot as old and
  new, so the difference is empty), nor is any save of the panel; the repository's
  README speaks of "change tracking for critical models".
- `OrderAdmin` and `ReservationAdmin` say that editing is disabled; they set only
  `can_delete = False`.
- `reject_product` puts the reason into the audit entry, and not into the
  `moderation_comment` that sellers and the panel are shown.
- `api_keys_b2b_partners.expires_at` is never compared with anything.

## 4. Bounds, and why they are enough

`MaxQuantity`, `MaxFailures`, `MaxLost`, `MaxUploads`, `MaxContent`, `MaxSaves`,
`MaxStock`, `MaxEdits` and `MaxTime` are bounds of the model; the rest is sets of model values.

- Two requests and one sweep (`conservation`) hold the lock cycles of a request
  against a sweep; two sweeps and a request (`production`) add sweep
  against sweep. A third request repeats the position of one of them.
- Two keys on two products let a sweep reuse a session for the same and for
  another product; the stale release needs two units of work on one product plus
  a change in between, which `seller_desk` (an edit) and `oversell` (four keys) have.
- One failure reaches every single-failure state; the proofs have no bound
  on failures.
- One edit, of a form read at any earlier time, meets every transaction at every
  point; three units leave room above and below the two in stock.
- Handlers touch one listing; the second one lets a seller whose limit is one go
  past it. There is no admin in the instance, whose creations have no limit and
  multiply the states; moderators do everything else an admin does, and the theorems
  cover both. One panel save meets every handler at every point; the theorems
  bound their number by nothing.
- Two sign-ups meet on one email; the second email lets both users exist. Two
  requests are a verification and a deletion, or two of either, of the one key.
- Two jobs, two webhook requests and a repeated notification give every pair of
  overlapping deliveries of one image, for each kind of file name. No step of one image reads another;
  images share only job slots, of which one may be taken or both.
- Two requests of one call, of calls that share a reply, or of calls that compete for an
  order, beside a sweep, meet at every point between look-up and SETEX; a third would
  find what one of the two has left in Redis or in the rows.
- The clock of `RateLimiter` covers two windows of the ttl, in every alignment of
  three identifiers, two of which share a product.
- `CHECK_DEADLOCK FALSE` stands where the bounded instance really may stop: every key is
  used, every image deleted, every token issued, the clock at its end.

Symmetry sets are used in safety runs only, over values no definition tells apart.

## 5. Fairness

- `OrderLifecycle`: a request that was started is run to its end; Postgres queues
  the waiters of a row lock, so a wait that is again and again possible to serve is
  served (strong fairness of the steps that take a lock, and of the release,
  which a deadlock abort can interrupt); cron starts the sweep every minute (weak
  fairness); Postgres resolves deadlocks. Nobody has to make a request, nothing has to
  expire or fail.
- `ImagePipeline`: MinIO delivers its notifications, a webhook request runs to its
  end, a worker takes queued jobs and runs them to their end (weak
  fairness). `UploadIsProcessed` says nothing of behaviours that lose a notification or a
  job: there the image stays PENDING, the hazard at `media/tasks.py:82`.

No other module claims liveness.

## 6. What is proved

All theorems hold for every value of the constants that satisfies the `ASSUME`s of
the module (`LedgerAssumptions` for the ledger, which is only instantiated): any
number of rows, processes, quantities and failures. Every safety property of a
passing run, invariant or action property, is proved. Each comes from an inductive
invariant (`IInv`, unless another name is given) by `Init => IInv`,
`IInv /\ [Next]_vars => IInv'` (one lemma per action) and `IInv => property`.

- **Ledger** (`StockLedgerProofs`): types and `Conserved`. The sum over keys is the
  cardinality of a set of (key, unit) pairs, so the proof adds and removes
  intervals of pairs instead of inducting over a sum.
- **Orders** (`OrderLifecycleProofs`): `IInv` = types, well-formed rows, the links
  between orders and reservations row by row, and for each transaction what its
  locks keep true: the row it has read is still what it read. Without the last
  part none of the others is inductive, because a commit writes values that were
  read steps before. From it, whatever `ExpireOnCommit` is: `TypeOK` (stock never
  negative), `OrderMatchesReservation`, `FinalStatusIsFinal`, and
  `OnlyStaleSweepsMiscount` (the runs check the stronger `OnlyStaleFormsMiscount` of
  `SellerDesk`).
- **The shop implements the ledger** (same module): whatever `ExpireOnCommit` is, each
  step of `OrderLifecycle` is a step or a stutter of the ledger, unless it is a
  `Repetition`: a sweep releases a reservation of the product whose object its
  session has kept from the release before. So `TransactionsImplementLedger`,
  `StockIsConserved` and `NeverOversold` are about the deployed worker too: every
  behaviour without a repetition implements the ledger, conserves the stock and never
  oversells. The reason is `FreshInv`: an object the session has not kept is loaded
  under the row's lock and equals the row. With the deployed options repetitions
  happen, and the run `oversell` shows one that sells a unit twice; a worker with
  `expire_on_commit=True` has none (`ForgetfulSessionsRepeatNothing`), so that there the
  three hold of every behaviour.
- **Deadlocks** (same module): `EveryDeadlockInvolvesASweep`, from what a request may
  hold at each of its steps (`HoldInv`): one that holds a product waits for nothing,
  one that holds a reservation waits for a product only.
- **Seller's desk** (same module, last part): edits respect the row locks, so the
  invariant of `OrderLifecycle` is kept by them, and every other step is a step of
  `OrderLifecycle` whose lemmas carry over (`DInv`). From it: `AddressesArePaid`,
  `DeletedIsUnreferenced`, `OnlyStaleFormsMiscount`; and beside the desk still
  `OrderMatchesReservation`, `FinalStatusIsFinal` and `EveryDeadlockInvolvesASweep`.
- **Moderation** (`ProductModerationProofs`): types, `ModeratorAssigned`,
  `OnSaleIsApproved`, `ClaimIsExclusive`; the invariant says that the check made at
  `Load` still holds at `Commit`, because the row is locked and the panel's UPDATE
  waits for the lock. `OvershootIsBounded` counts the listings and the
  requests that will still insert one together: a check adds the only units, and
  an insert moves one from the second to the first.
- **Audit log** (same module, last part): `TrailIsCurrent`, from the invariant of
  `ProductModeration` and the fact that the snapshot of a running request is the row it
  has locked, so that its entry takes the replayed state from the old row to the
  new one (`AuditInv`); and that `AuditTrail` implements `ProductModeration`.
- **Images** (`ImagePipelineProofs`): types; `EnqueuesOnlyPending`, because a webhook
  request holds the row it has checked (`HookInv`); `ActiveIsClean` and
  `OnlyFailuresUndo`, because what every job of an image uploaded once has read is
  the upload or a re-encoding of it (`ContentInv`).
- **Idempotency** (`IdempotentRequestsProofs`): `IdempotentRequests` implements
  `OrderLifecycle` (`DecoratedRequests`), so `IInv` holds. `IdemInv` adds that a call
  that has committed is in the rows (`HistoryIsInRows`), from where no step removes it,
  and that a request which is about to store a reply has committed. `EffectsOnce`
  follows, because the check that each handler makes under its lock, or the unique key at
  its commit, fails on what the first commit left; then `CachedIsCommitted` and
  `MissingResponsesAreExplained`. Redis plays no part in the first.
- **Rate limiter** (`RateLimiterProofs`): all five invariants. A counter's value says
  how many of the last admitted requests are those of its window, the first of
  which opened it (`WindowInv`, `CountedInv`); a request `Limit` or more places before
  that one was admitted at least a ttl earlier (`EarlierInv`), hence any two requests
  `2 * Limit - 1` places apart are a ttl apart (`SpreadInv`), and an interval as long as
  the ttl, which admits a run of consecutive requests (`OrderInv`), holds fewer than
  twice the limit. Counting places in a sequence is what makes this provable without
  induction over a sum of counts. A visitor's counter and its dummy's are equal.
- **Tokens and accounts** (`AccountsProofs`): the invariant of `RefreshTokens` says that
  an exchanged token, and one whose deletion a request has committed, stays gone,
  because no string is issued twice; `ExchangesAreConcurrent` counts successors and
  running exchanges of a token together, and an insert moves one from the second to
  the first. `Accounts` implements `RefreshTokens`, which carries both over. Its own
  invariant (`AccountsInv`) gives the types, `EmailsIdentify` and `KeysStopWorking`: the
  requests let in late and those still verifying the key were all running when it
  was deactivated.
- **Upgrades** (`VerificationRequestsProofs`): types, `ApprovedIsGranted`,
  `PendingIsBounded`; the bound counts rows and requests in flight together, so that
  an insert moves one from the second to the first.

Assumptions on constants are that sets which are counted are finite, bounds are
natural numbers, `None` is no member of the sets it is used beside, and the names of
different kinds of rows, users and Redis keys differ. Two say more:
`LimiterSettings` has the dummy's limit not below the others' (`rate_limit.py:47`
sets 999,999,999), and `SomeClients` that somebody can make a request.

Only model-checked: the liveness properties `OverdueIsReleased`, `RequestsEnd`,
`UploadIsProcessed` and `FeedbackEnds`; the prover handles neither fairness with
`ENABLED` nor leads-to here. The properties that a run refutes are false.

## 7. What is not modelled, and why

- `mark_reservation_as_completed` and `cancel_reservation_and_return_stock`
  (`inventory/internal.py`): no route or job calls them.
- The panel's forms of orders, reservations and users: they can write any value at
  any time, without the handlers' checks, so that no property of the rest would
  survive them; a model would say no more than that. The lists, formatters and the
  panel's sign-in keep no state of their own.
- Audit entries about orders (written as those about listings are) and about
  access to personal data, and the masking of sensitive fields.
- The client of MinIO (`core/s3.py`) and the redirects of the media view: single calls
  and reads.
- The dashboards' statistics, the buyer's lists, the partner catalogue and order
  status: single reads of committed state.
- Who may see the cached response of an idempotency key (`shared/decorators.py:91`):
  replies in the model are addressed to nobody.
- `services/payments` is an empty package; start-up, settings, logging, exception
  mapping, migrations, load tests and deployment have no protocol.
- Serialisation, price arithmetic, hashing, access tokens: functions without state.
- Postgres, Redis, MinIO, ARQ and sqladmin are external: locks, expiry,
  at-least-once delivery, retries and the save of a form are modelled from how the
  code uses them.

## 8. Plan

Done, in this order: `StockLedger` and `OrderLifecycle`, `ProductModeration`,
`ImagePipeline`, `IdempotentRequests`, `RateLimiter`, `RefreshTokens`,
`VerificationRequests`, `SellerDesk`, the panel's product form, `AuditTrail`,
`Accounts`; the proofs of all safety properties; `IdempotentRequests` composed with the
handlers of `OrderLifecycle`.

Next:

1. `AuditTrail` for orders, composed with `OrderLifecycle`.
2. Under the deployed options, how many units the repeated releases of a sweep can
   miscount: a bound in the number of releases of one product.

Check a module with `tlc -config <cfg> MC<Module>`, its proofs with
`tlapm <Module>Proofs.tla`.
