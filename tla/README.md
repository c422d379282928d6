# A TLA+ development of EtsyAuto

EtsyAuto is a multi-tenant automation platform for Etsy shops: a FastAPI
application (`src/apps/api`, four uvicorn workers), Celery workers and beat
(the same code base, concurrency four), PostgreSQL, Redis and a Next.js front
end. This directory holds TLA+ modules that model its logic, the TLC
configurations that check them on small instances, and TLAPS proofs of what
matters most for every value of the constants. Line numbers below and in
`PROJECT.json` refer to the sources in `src/`.

    tlc  -config MCTokenRefresh.cfg MCTokenRefresh.tla      # a run
    tlapm EtsyAccessProofs.tla                              # the proofs of a module

## 1. Inventory

What runs concurrently: the coroutines of each API worker (they take turns at an
`await`), the API workers, the Celery worker processes, beat's schedule, the
IMAP listener's threads, and Etsy, the buyers and the users. Everything is
shared through PostgreSQL and Redis. Celery runs with `task_acks_late`,
`task_reject_on_worker_lost` and a time limit of 300 s (240 s soft)
(`worker/celery_app.py:58-63`), so a task may die anywhere and may run again.

| Component | State | Operations | Hard behaviours | What makes it correct | Module |
|---|---|---|---|---|---|
| **OAuth tokens** (`services/token_manager.py`, `etsy_oauth.py`, `worker/tasks/token_tasks.py`, `endpoints/shops.py`) | `oauth_tokens` row, cached access token, Redis lock, `Shop.status`; at Etsy the valid refresh tokens | `get_token`, `refresh_token`, `save_token`, `revoke_token`; hourly task, OAuth callback, disconnect | several processes refresh at once; a lock that expires under its holder; rotating refresh tokens; sessions with stale objects; a cache written outside the transaction | one refresh at a time; no interleaving within a lock's lifetime loses the grant; the cache never runs ahead of the database; every call ends | `TokenRefresh` |
| **Order synchronisation and fulfilment** (`worker/tasks/order_tasks.py`, `endpoints/orders.py`) | `orders` rows, `shipment_events`; at Etsy the receipts | `sync_orders`, `sync_order_by_id`, `reconcile_orders`, `fulfill_order`, `record_manual_tracking`; lists, cards, single order | long transactions with calls to Etsy inside, committed or rolled back by the token manager; column-wise UPDATEs over stale objects; windows computed from `synced_at` | rows say only what Etsy said; nothing older overwrites anything newer; syncs alone miss no receipt, and all orders come to agree once the shop is silent; an order is counted once | `OrderSync`, `OrderViews` |
| **Etsy gateway** (`services/etsy_client.py`, `circuit_breaker.py`, `token_bucket.py`, `redis_lua/token_bucket.lua`) | a circuit per shop and worker process, a bucket per shop in Redis | `_make_request`: breaker, bucket, token, request, one retry after a 401, recording the outcome | late answers, half-open probes, clocks that disagree, a wait that sleeps the event loop, restarts | breaker counts sound; rate bounded across workers; waits bounded | `EtsyGateway` |
| **Idempotency** (`middleware/idempotency.py`, `web/lib/api.ts`) | cached responses in Redis | look up, run, store; the client's refresh and repetition | two requests with one key; a crash before the store; senders without a key | a keyed request takes effect once, and its sender learns the truth | `Inbox`, `Delivery` |
| **Webhooks** (`endpoints/webhooks.py`, `worker/tasks/webhook_tasks.py`) | `webhook_events` rows, Celery queue | receive, dedupe, enqueue, process | redelivery by Etsy and by Celery, a crash between commit and enqueue | each event carried out once and not lost | `Inbox`, `Delivery` |
| **Mail listener** (`worker/services/imap_listener.py`, `imap_manager.py`) | the flag `\Seen`, threads | search, fetch, post, flag | errors swallowed, restarts in the middle | no mail posted twice | `Inbox`, `Delivery` |
| **Buyer messaging** (`worker/tasks/messaging.py`, `services/adspower.py`, `routers/messages.py`) | threads with status and scraped history, browser profiles in AdsPower | scrape, reply, retry | a profile shared by tasks, a reply sent but not confirmed, retries inside a `try` | one reply per request, in the right conversation | `Messaging` |
| **Login** (`endpoints/auth.py`, `google_oauth.py`, `core/security.py`) | one `users` row: password, failures, lock, two links, memberships | register, log in, verify, reset, invitation, Google | requests of several workers load, check and write the row column by column | every wrong password counts, a lock holds, a mailed link works | `Accounts` |
| **Team and access** (`endpoints/team.py`, `shops.py`, `api/dependencies.py`, `core/rbac.py`) | memberships, shop lists, shops, sessions, connect links | invite, accept, change role or shops, remove, list, connect, disconnect, delete, start a flow | check-then-act on tokens with old roles and rows that change, a callback that asks for no role | an owner remains; lists are those somebody gave; a link starts one flow | `Team` |
| **Ingestion** (`endpoints/ingestion.py`, `worker/tasks/ingestion_tasks.py`) | batches with `raw_data`, products | upload, queue, parse, fail, retry | an error of `delay()` after the broker took the task, redelivery and death between two commits | a batch nobody will look at again says so | `Catalog` |
| **Product synchronisation** (`product_sync_tasks.py`, `endpoints/products.py`) | products | look up and insert or update per listing, import, delete | two syncs at once, no unique key, commits half way | one row per listing | `Catalog` |
| **Finance** (`financial_tasks.py`) | ledger entries, payments, one status row | incremental sync by window and page; payments | late entries, errors in the middle of a page, two writers of the status | every entry arrives; the reconnect flag tells the truth | `Ledger` |
| **Reports and rates** (`financial_service.py`, `financials.py`, `exchange_rate_service.py`, `currency_conversion.py`) | caches, the registry of types, rates | profit and loss, payouts, fees, profitability, timeline, summary; rate lookup, conversion | rounding, caches keyed by less than the answer depends on, unmapped types | reports agree with each other and leave nothing out | `Rates`, `Reports` |
| **Dashboard and analytics** (`dashboard.py`, `analytics_service.py`, `endpoints/analytics.py`, `order_utils.py`) | a cache in Redis | cards, lists, overviews, comparison | three columns that say the same thing, two windows that overlap | the pages agree with each other | `OrderViews` |
| **Notifications, audit** (`notification_service.py`, `audit_service.py`) | append-only rows | write, read, clean up | `notify_tenant_admins` commits its caller's session | records follow what they report | - |
| **Settings and admin endpoints; front end, admin portal; deployment, migrations, metrics** | plain rows, user interface, configuration | one transaction each | none of their own | - | - |

How they interact: every task and endpoint that talks to Etsy goes through
the **gateway**, which asks **OAuth tokens** for an access token *on the
caller's database session*: a refresh inside commits what the caller has
pending, a failed one rolls it back. A shop whose token cannot be had is marked
`revoked` and drops out of order, product and finance sync. Every POST passes
the **idempotency** middleware, also those of Etsy's **webhooks** and of the
**mail listener**, which starts **buyer messaging**. Webhooks start order syncs
by id; order sync and ingestion write notifications. Reports and analytics read
what the syncs have stored.

`PROJECT.json` lists every component with its status, and under `hazards` what
in this code is hard to test, each at its line, with the properties that cover
it.

## 2. The modules

| Module | What it is | Composed with |
|---|---|---|
| `TokenRefresh` | the token of a shop: row, cache, lock, Etsy | - |
| `OrderSync` | orders, receipts and the sessions that copy them | takes the effect of `TokenRefresh` on a caller's session as `CallsEtsy` |
| `EtsyGateway` | breaker and bucket around a request | takes obtaining a token as one `await` |
| `Messaging` | buyers' threads, the jobs on them, the browser profile | - |
| `Inbox` | what a sender may expect of the API | abstract specification |
| `Delivery` | browser, webhooks and mail listener through the middleware | implements `Inbox` (`INSTANCE ... WITH`) |
| `Accounts` | one account and the requests on it | - |
| `Team` | a tenant's members, shops, sessions and connect link | - |
| `Catalog` | batches, product syncs and users on one table | composes ingestion, product sync, imports and deletion |
| `Ledger` | the financial sync of a shop | - |
| `Rates` | conversion and the lookup of rates | operators |
| `Reports` | the financial pages | operators; extends `Rates` |
| `OrderViews` | the order pages, dashboard and analytics | operators; extends `Reports` |
| `EtsyAccessProofs` | theorems of `TokenRefresh` and `EtsyGateway` | extends both and `TLAPS` |
| `FinanceProofs` | theorems of `Ledger`, `Rates`, `Reports` and `OrderViews` | extends them and `TLAPS` |
| `*Proofs` | theorems of the module they are named after | extend it and `TLAPS` |
| `MC*` | constants and bounded inputs for TLC | extend the module they are named after |

### TokenRefresh

A process is one call at a time; a step is everything between two awaits or
round trips. `ReadCache`, `ReadRow`, `FillCache` are `get_token`; `TryLock`,
`Wait`, `ReadRefreshToken`, `EtsyGrants`/`EtsyReplyLost`/`EtsyRefuses`,
`CommitRefresh`/`CommitFails`, `ReloadFails`/`CacheRefreshed` and `ReleaseLock`
are `refresh_token` with its `finally`; `ExchangeCode`, `LoadForSave`,
`SaveToken`, `CacheSaved` the OAuth callback; `FindForRevoke`, `DeleteRow`,
`DeleteCached`, `CloseShop` the disconnect; `Finish` the return to the caller,
where the Etsy client marks a shop revoked. `BeginHourly`, `BeginForced`,
`BeginClient` are the callers of a refresh. `Age`, `CacheExpires`, `LockExpires` are time,
`Crash` is a process that dies without its `finally`.

Two things carry much of the weight. `Seen` is SQLAlchemy's identity map: a query finds out
whether the row exists, but an object the session has loaded keeps the columns
it had, so that the hourly task may send a refresh token of the past.
`valid` is what Etsy accepts: a refresh that returns a new refresh token ends
the one sent, so that whoever forgets the answer has lost the grant. A reply may also
repeat the refresh token that was sent, or leave it out (`reply.ref` is 0). What the
reply has is encrypted anew and written (`token_manager.py:218-219`), also a repeated
token, over whatever another call stored meanwhile: `undone` names those that were
dead by then, and `GrantPreserved` says that only a refresh that outlived its lock
writes one.

Abstractions: one shop; tokens are numbered in the order Etsy issues them;
the lifetimes of tokens are equal, and "expiring" (`aged`) is the five-minute
mark; `Row.refreshed` stands for `last_refreshed_at` of the hourly task's skip
(a refreshed token that is not yet expiring was refreshed in the last hour).
Left out: decryption failures, a Redis that cannot be reached, proactive
polling intervals (a waiter sees the lock free or gives up).

### OrderSync

A process is a database session. `base` and `obj` are its objects as loaded and
as they stand; a commit writes the columns in which they differ (`Saved`,
`Updated`). `CallsEtsy` is what the token manager may do to the session on the
way: nothing, a commit, or a rollback, and both expire the objects.
`BeginSync`, `Fetch`, `Look`, `Extract`, `SkipStale`/`Update`/`Create`/
`Conflict`/`SkipFailed`, `Commit` are `sync_orders` for a shop; `Get` joins
them for `sync_order_by_id` and `reconcile_orders`. `BeginFulfil`, `Submit`,
`Refused`, `ReplyLost`, `Record` are `fulfill_order`; `BeginManual` and `Record`
`record_manual_tracking`. `Placed` and `Moved` are Etsy and the carriers, and
`Crash` a killed worker, the task limit or an exception that ends the task.

Abstractions: one shop; shipments are a set of records (code, whether Etsy's,
whether delivered); the columns that only mirror Etsy's payload are left out, as
are audit rows, notifications and permissions. A listing is one step (the pages
are read newest first). The soft time limit is `SkipFailed`. The 30-day cutoff of
`reconcile_orders` is not modelled: all orders are recent. Every change at Etsy
has a timestamp of its own. Reading orders and assigning suppliers are in
`OrderViews`.

### EtsyGateway

A process is one call of `_make_request`, in one worker. `Start` is the circuit
breaker's `before_request`; `Acquire`, `AskAgain`, `GiveUp` are
`acquire_or_wait` and the Lua script, and `Rest` between them is the refusal that
arrives and the sleep that begins, a round trip after the clock was read; `Send`, `Unauthorized`, `Resend`,
`Succeeded`, `Failed`, `Raises` the request; `Restart` loses a worker's breakers
and calls. `acquire_or_wait` sleeps with `time.sleep`: `HasLoop` lets no other call of
the worker move meanwhile. `clock[p]` is the time a caller read before its round
trip, which the script is given as `now_ms`, `told[p]` the script's answer and
`slept[p]` when the sleep began. The loop cuts its sleep to what was left of `max_wait`
when it read its clock, so that a wait ends up to a round trip past `max_wait`;
`Overrun` is that excess, and `WaitBounded` says that it is the last round's alone.

The bucket counts in units, of which a request takes `Cost`, since the code
refills half a token per second. Left out: `CircuitBreaker.reset` and
`EtsyTokenBucket.acquire`, which nothing calls, and the loss of the
bucket's key, which the script sets without a TTL: only Redis itself loses it.

### Messaging

A process is a Celery worker, which has one job at a time; the queue counts how
many copies of each job wait. `CreateThread`, `ReplyToThread`, `RetryScrape` are
the endpoints. `Take` loads the row; `Check` asks AdsPower whether the profile is
in use, `OpenProfile` starts it, `Navigate` opens the conversation in the first
page of its window. `ReadPage`, `CommitScrape` are the rest of
`scrape_conversation`, `FillReply`, `ClickSend`, `ConfirmReply` that of
`send_reply`. `Leave` is the inner `finally`, `CloseProfile`/`CloseFails` the outer
one, `Handle`/`HandlerFails` the `except` between them, which catches the
`Retry` that `Check` raised as well and retries a second time. `Raise` is any call
that fails, and the soft time limit; `LosesBrowser` a call to a browser that another
job has stopped, or a confirmation that times out; `Crash` a lost worker,
whose job the broker delivers again.

`live[w]` says that a worker's connection still reaches the browser: stopping a
profile ends everyone's. `sent`, `stray`, `raced`, `stuck` are history variables:
where replies went, whether a job started a browser that ran already (the
check at the top of the task and the start are two calls to AdsPower), and whether AdsPower
failed to stop one.

Abstractions: one shop and its profile; a thread stands for its conversation,
its text and the reply to it; AdsPower answers the start of a running profile with
the running browser; a click with an empty box sends nothing; retries may run at once (the countdown
is left out), and the hard limit of 300 s does not strike (the soft one comes first,
and a handler's calls end within 30 s). Left out: shops without a profile,
`check_adspower_health`, notifications and audit rows, and a broker that
refuses a retry.

### Inbox and Delivery

`Inbox` is the promise: a message is accepted, carried out once and the book on
it closed, unless a fault of a known kind excuses it, after which one of a
repeatable kind may be carried out again. `Delivery` is what the code does. A
POST takes a slot (`Post`), is judged by the middleware (`Check`: exempt path,
no key, cached answer, or on to the handler), is handled (`Serve` for the
browser, `CreateThread` for the listener, `LookUp`/`RecordEvent`/`Queue` for a
webhook), and is answered and stored (`Answer`), unless the process dies
(`CrashCall`) or the sender stops waiting (`Lose`). `Refresh` is the browser's
single token refresh, `Expire` its cookies' age. `Load`, `Skip`, `Handle`,
`MarkProcessed`, `Abandon`, `Redeliver` are `process_webhook_event`; `Discard`
is what a worker does with a task it does not know: `webhook_tasks` is not in
Celery's include list (`celery_app.py:21-29`), so that, as deployed, every
event's task meets it; the model allows both. `Search`, `Fetch`, `NextMail`,
`Restart` are the listener: fetching `RFC822` sets `\Seen` itself.

The refinement maps `open` to the events whose task is still to come, `settled`
to what took effect or was dismissed, and keeps `effects` and `excused`.
`excused` names the faults: two attempts past the check at once, an answer that
was not stored, a process that died between the work and its record, a task
that was discarded or gave up.

Abstractions: a message is its own key; an answer is one of four codes; bodies,
signatures and the limits on keys are left out (they refuse a request before it
changes anything); the work of a handler is one commit.

### Accounts

A worker loads the row and checks it (`Load`, `Admitted`), and later commits the
columns its handler changed (`Save`): a column set to what was loaded is not
written, whatever another worker wrote meanwhile. Endpoints run without awaiting
in between, so requests interleave only across the API's processes. `Register`,
`LoginWrong`, `Login`, `VerifyEmail`, `Resend`, `ForgotPassword`,
`ResetPassword`, `Invite`, `Accept`, `Remove`, `Google` are the
handlers, `Failed` a commit that a unique key or a deleted row refuses.
`stale`, `raced`, `crossed` record who committed over what.

The model keeps the code's peculiarities: an expired lock leaves the counter where
it was; the session's tenant is the one the user registered, since `ORDER BY
accepted_at DESC` puts NULL first, where `auth.py:319` says "Prefer most recently
accepted membership". Left out: `google_callback`, which raises UnboundLocalError at
`google_oauth.py:83` on every call (lines 155 and 156 make `logger` a local name) and so changes
nothing; `auth_rate_limiter.py` (counters in Redis; a key that
expires between its GET and its INCR is left without a TTL), how long a link is
valid (an expired one is a refusal, at a time left open), passwords as such, and
`remember_me`, which `create_access_token` ignores.

### Team

A request is admitted on the role its *token* claims and the membership the
*database* has (`Admitted`), and commits later on what it read (`snap`, `shops`).
`Invite`, `Accept`, `UpdateRole`, `UpdateAccess`, `Remove` are `team.py`;
`ListShops` is `list_shops` with the write it makes into the list of owners and
admins; `Connect`, `Disconnect`, `Delete` are the shops. `etsy_oauth_callback` asks for no
role: a flow begun in the app wants a session of any member (`connect`), one begun at the
connect link nothing but a state not used yet (`return`), and the shop goes into the list of
the link's creator, whatever he is by then, if that was empty (`Listed`; a list that was not is
appended to in place, which no commit notices). `Start` and `Flow` are the
two halves of a visit to a connect link. `SignIn` and `SignOut` give and take the
role in the token. `granted` is what somebody gave, `carried` who has a list from elsewhere (as an owner or admin
he had been, or by connecting a shop himself); `outdated` says that a request
committed although its grounds had changed, and `overlap` that two visitors were
on the link at once.

One more observation: `rbac.py:186` lets managers reach every shop, while
`ensure_shop_access` binds them to a list that is not empty; `list_shops` fills
the list, which is why it matters here.

### Catalog

`Upload`, `Queue`, `CrashUpload` are the endpoint, `Queue` with a `delay()` that raises although
the broker may have taken the task; `Begin`, `Parse`, `Fail`, `Die` the task, whose commits
are separate: the status before the file is read, and the one of the handler. `QueueSync`, `StartSync`,
`Look`, `CommitMidway`, `FinishSync`, `AbortSync` are a sync's session; `Import`
and `Delete` the users. An update of a row that a user has deleted makes the
commit fail as a whole (`stale`).

No batch gets past `Parse` as the code stands: both endpoints store a JSON text
(`ingestion.py:102`, `193`) in the JSONB column, from which `ingestion_tasks.py:87` makes
an object, where the parsers expect a text. What comes after it (validation,
`save_products`, the completion) never runs and is not modelled. `left` names batches that a
death or a refused commit left behind, and `BatchSettled` is about the others. Left out:
`errors.py` (no application includes its router), `update_product`, and the
prices of imports (`int(price * 100)` truncates).

### Ledger

An entry is named by its moment. `Show` lets Etsy show it, up to `Late` moments
late; `oldest` says in which order Etsy serves its pages, which no code or
doc fixes. `StartLedger` computes the window from the newest stored entry;
`AskLedger`/`StoreLedger` are a page and its commit; `Error` ends the task in the
middle of a page, whose rows so far stay in the session; `Die` loses the worker.
`StartPayments`/`StorePayments` are `sync_payment_details`; `ReadStatus`/
`WriteStatus` the row both tasks share, written column by column. An error other
than authorisation in one part takes the flag of the other part away
(`financial_tasks.py:248`); `FlagTells` is therefore about times when payments are well.

### Rates, Reports, OrderViews

These translate queries: operators over sets of rows, with no steps of their own.
Their properties are operators too (the last section of each module), over every
row, book and query of a bounded set; `MCReports` and `MCOrderViews` state them
as named assumptions, which TLC evaluates in the `ledger` run. Where the database
leaves the order of equal rows open, the operators take it as a parameter (`tie`), which may differ
from query to query.

`Rates`: a rate comes from Redis, the table or the service, in that order, and
at last from any row. For "latest" a row of any age is answered as fresh; only
the rates of a given day are bounded (`RatesOfTheirDay`). A currency that is not supported is an
error before the cache is asked. `Reports` holds the
money and types the tasks store, every report of `FinancialService`, their cache
and the endpoints that serve them. `OrderViews` holds the order cards and lists,
the dashboard and `AnalyticsService`.

What the translation shows and the properties are stated around:

* the profit and loss leaves out adjustments, other and unmapped types
  (`NothingUncounted`); `total_advertising` and `total_tax` are not converted;
* the payout estimate of several shops shows the newest entry's balance, of one
  of them, and `reserve_held` does not count "Reserve_release";
* a report without entries is in USD for the profit and loss and in ILS for the fees;
* cache keys have the days of a period and its filters the moments, and the pages send the
  moment of the click: two requests that share a key differ in rows of the first and the last
  day alone (`KeysTellApart`, `AnalyticsKeysSuffice`), and mapping a type
  leaves cached reports as they are; invalidating one shop's analytics
  leaves the keys of several shops and of the tenant;
* the fee breakdown counts debits only (`FeesAddUp`); two product rows of a
  listing count twice in the costs, and a quantity that is no number makes all
  costs 0 (`CostsOfItems`);
* a request for reports that names no shop is answered for the tenant, and one
  that names shops for those open to the caller (`OpenShopsOnly`); but with `shop_ids` of
  commas alone the `shop_id` beside it is not checked (`Asked`);
* turning the pages of entries, payments and orders shows every row once, but rows of one moment may repeat or
  be missed, since each page's query may order them anew (`PagesPartition`, `OrderPagesPartition`);
* the list finds cancelled and refunded orders by Etsy's status whatever their
  lifecycle, the cards do not; a row without a lifecycle may be on two cards
  (`ShownIsCounted`), one that a sync stored never is (`SyncedCountsOnce`);
* in a range, a window of the overview begins with the range while the one
  before it lies outside, so that trends tend to 100 % (`WindowsNest` claims them
  without a range); the dashboard's changes are constants.

## 3. The runs

| Run | Configuration | Shows | Distinct states |
|---|---|---|---|
| `token_refresh` | `MCTokenRefresh.cfg` | `SingleFlight`, `GrantPreserved`, `CachedWasCommitted`, `ExpiringOnlyAfterWait` | 5.55 M |
| `token_liveness` | `MCTokenLiveness.cfg` | `GrantPreserved`, and `EveryCallReturns` under `FairSpec` | 439 k |
| `orders` | `MCOrderSync.cfg` | `RowFromEtsy`, `EventsAtEtsy`, `NeverBackInTime`, `SyncKeepsTracking`, `StatusKept` | 1.87 M |
| `orders_liveness` | `MCOrderLiveness.cfg` | `SyncsMissNothing`, `EventuallyAgrees` under `FairSpec` | 371 k |
| `gateway` | `MCEtsyGateway.cfg` | `BreakerSound`, `RateBound`, `WaitBounded` | 1.30 M |
| `messaging` | `MCMessaging.cfg` | `OwnConversation`, `ProfileFreed`, `SentBound` | 3.68 M |
| `accounts` | `MCAccounts.cfg` | `EveryMissCounts`, `LockHolds`, `MailedLinkWorks` | 2.55 M |
| `team` | `MCTeam.cfg` | `OwnerRemains`, `AccessAsGiven`, `LinkOnce` | 1.65 M |
| `delivery` | `MCDelivery.cfg` | `SuccessIsTrue`, and `Implements`: the refinement of `Inbox` | 1.79 M |
| `catalog` | `MCCatalog.cfg` | `BatchSettled`, `OneRowPerListing` | 537 k |
| `ledger` | `MCLedger.cfg` | `NothingLeftBehind`, `FlagTells`; and the assumptions of `MCReports` and `MCOrderViews` | 1.68 M |
| `delivery_keys` | `MCDeliveryKeys.cfg` | violated: `NobodyTurnedAway` | some 200 |

The type invariant of every module with state is checked by one of its passing runs. Each property of a passing run has a mutant in `PROJECT.json`: an
operator beside the definition it mutates, marked "Mutant:", under which the
property fails. The assumptions of `Rates`, `Reports` and `OrderViews` were tried
against changed operators in the same way (a dropped filter, an off-by-one, a
sign), by hand.

**Bounds.** *Tokens:* two concurrent calls. In `token_refresh` a client's or a forced refresh beside the hourly task or
a callback, and three tokens (the one at hand and two more that Etsy issues): a lost grant, a stale object, a cache that
runs ahead and two owners of one lock take two calls and one new token; a callback's grant that meets a
refresh's, or two refreshes that are both granted, take a second. In `token_liveness` a disconnect deletes the row
and a callback inserts it again under the hourly task or a client, which one new token shows. The
safety theorems hold for any number of calls and tokens, of any kinds. *Orders:* two sessions, one receipt and one tracking code,
three clock values, two submitted trackings and one failure: the columns of a
row are disturbed by one other session, and three clock values give a receipt two
changes, so that a session holds an older, an equal or a newer snapshot. The window of a listing needs two
receipts and more time, which `orders_liveness` has, with a margin and a task
limit of two ticks. *Gateway:* three calls, two of them in
one worker, a threshold of two, a bucket of three requests that fills one
request in two ticks, five clock values: there is a circuit that opens, cools down and is
probed while an old answer is on its way, an empty bucket, a wait that gives
up, and a stale clock. *Messaging:* two workers and
two conversations, one retry of a job (the code allows three), one request of a user and one failure; a job
that is lost after its retries were queued already gives four copies of it, each of which
may race with the others, and `SentBound` is reached. *Accounts:* one worker that serves logins,
resets and Google sign-ins beside one that serves everything, so that every handler
meets each of the three that clear something; two passwords, a lock after two misses
that lasts one tick of three, two mails: a lock that is set, runs and expires, and an
older and a newer link. *Team:* two members, two shops, two workers and four requests of
any kind, with every role to begin with: two owners who demote each other, an admin
demoted while its token says otherwise, a list filled and then bound by the next role.
*Delivery:* two requests of the browser, an event and a mail, of which any two are posted,
each twice, two at a time: a repetition beside its first attempt, after it, after a crash,
and after a refresh. *Catalog:* a batch with one retry and one death, an error of the broker or the database anywhere, beside two syncs of two
listings, two rows of each origin: a row deleted under an update and a listing
both syncs miss. *Ledger:* two tasks of three started, four moments, windows of two, pages of one,
entries a moment late and a buffer of a moment: several pages and windows, and an entry that appears behind the
newest one. *Reports:* two shops, up to three entries of seven types, two days, and one
each of every other row a report reads, with the values Null, zero and negative.
*Order pages:* every combination of the four status columns for one row, and three rows of two shops
and two suppliers, with and without dates. `LastStart`,
`MaxTime`, `MaxChange`, `MaxEdits`, `MaxAsked`, `MaxFails`, `MaxGen`, `MaxMails`, `MaxWrong`,
`MaxRequests`, `MaxSends`, `MaxPosted`, `MaxDeaths`, `MaxRows`, `MaxStarts`, `Last` only end behaviours; the others
are parameters of the code (`Margin` and `TaskLimit` both 300 s, `Threshold` 5,
`Cooldown` 60 s, capacity 100, refill 0.5/s, `MaxWait` 30 s, `MaxAttempts` and `LockTime` from the
settings, `Buffer` 5 minutes, `Window` 30 days, `PageSize` 100, `MaxRetries` 3).
Where processes, shops, passwords, listings or messages of a kind are
interchangeable and the properties are invariants or action properties, the
configurations take the symmetry.

**Deadlock** is not checked: the system may idle for ever once the users and
Etsy do nothing, and a bounded model stops.

**Fairness.** `TokenRefresh!FairSpec` lets a call that runs keep running (the
event loop and Celery schedule it, httpx has timeouts). It assumes nothing of the
lock's expiry (a waiter gives up by itself), of Etsy's answers, of who calls, or of a code exchange.
`OrderSync!FairSpec` has beat start a sync (every 15 minutes,
`celery_app.py`), sessions run on and the clock tick; `MaxFails` makes the failures
finitely many, since with a crash in every sync nothing could be promised. `EventuallyAgrees` also rests on
silence: Etsy and the users stop at `MaxChange`, more than a margin before `MaxTime`, so that a window
comes up empty and the full listing follows (`order_tasks.py:204`). In a shop that goes on selling, a
receipt that an edit or a failure made the window pass over is not listed again until it changes.
`SyncsMissNothing`, in the same run, needs neither silence nor fairness: while syncs alone have set `synced_at` and none
has failed, no listing leaves out what the database lacks, because the margin makes up for a whole
run (`TaskLimit <= Margin`). The other
modules state safety only: what their code would have to bring about in the end
depends on senders and users that may stop, or, for a webhook, on a
retry that does not exist.

**The two runs of `Delivery`.** With the middleware's lists of exempt paths as they are,
no webhook and no mail ever gets past it, so the pipeline behind it would not be
explored. The `delivery` run therefore takes both paths as exempt
(`Exempt <- Routed`) and shows what the rest would do; `delivery_keys` takes the
lists as they are and shows who is turned away. TLC's trace is Etsy's webhook: it is posted, refused for
want of a key, and Etsy is told so, where `webhooks.py:40` says "Receive webhook events from Etsy API". Two more
behaviours violate the property: the listener's call, whose
conversation is lost (`imap_listener.py:341` says the call is to create it), and a client's
call that is repeated with its old key after a refresh, to which the cached 401 of the
first attempt is replayed (`api.ts:192`).

**Known to be false of the code**, stated in the modules and in no configuration. Each is
what a comment promises; adding it to the configuration of its module shows the
counterexample:

* `RevokedOnlyIfInvalid` (`TokenRefresh`): `token_manager.py:56` says a shop is marked
  revoked "when its OAuth token is permanently invalid"; a client that gives up waiting
  for the lock marks it as well (`etsy_client.py:115`).
* `NothingMissed` (`OrderSync`): the window starts at the newest `synced_at`, which
  fulfilments move too, so that a listing passes a receipt over in spite of its margin
  of five minutes. `SyncsMissNothing` is what is true of it.
* `TrackingRecorded` (`OrderSync`): a second manual tracking never reaches the `shipments`
  column, since the list was changed in place and assigned to itself.
* `PlatformKept` (`OrderSync`): `reconcile_orders` and `sync_order_by_id` drop tracking that only the
  platform has.
* `OneProbe` (`EtsyGateway`): a half-open circuit lets every request through, not "one probe".
* `NoStrayReply` (`Messaging`): two message jobs that both find the profile free share its page,
  and a reply is sent in the other buyer's conversation.

## 4. The proofs

All theorems hold for every value of the constants that the named assumption of
the module admits.

Every safety invariant and action property that a run checks is a theorem, but for `SyncsMissNothing`. Each comes from an
inductive invariant, which holds initially, is kept by every step (one lemma or step per
action) and implies the property.

**`EtsyAccessProofs`**, about tokens (any set of calls, any number of tokens):

* `TypeCorrect`: `Spec => []TypeOK`.
* `SingleFlightTheorem`: the inductive invariant
  `FlightInv` says that, as long as no lock has expired under a live holder, a
  call inside the `try` of `refresh_token` owns the key. `SingleFlight`
  alone is not inductive: it does not say that the second caller would find the key there,
  nor that the `DEL` in a `finally` removes its own key.
* `GrantTheorem`: two more conjuncts, `Issued` (Etsy's valid tokens, those in the row, in
  replies and in objects were all issued before `next`, so a new token is new) and `Exclusive` (a
  refresh token that a pending reply replaced is no longer valid, and no two pending
  replies replaced the same one). With these, whoever commits last over a row
  writes a token that is valid, lost by name, about to be followed, or a dead one that its reply
  repeats (`undone`); that the last takes a lock outlived follows with `FlightInv`.
* `CacheTheorem` and `ExpiringTheorem`, from `HandInv`: what an open transaction alone
  knows is in nobody else's row, cache, object or reply (`Private`), and what a call carries towards
  its client was not expiring when it began (`Handed`). The properties speak of the cache
  and of calls that have ended, and neither says where the value had been before.

**`EtsyAccessProofs`**, about the gateway (any workers, calls, threshold, cooldown and bucket):

* `GatewayTypeCorrect` and `WaitTheorem`, from `Safe` (types, bounded waits, and a
  bucket that never exceeds its capacity, without which a pause could not be
  bounded): the clock a round reads is within `max_wait`, and what it sleeps is what was left then.
* `BreakerTheorem`: inductive with `GatewayTypeOK`.
* `RateTheorem`, from `Accounted`: what was granted since a mark, plus what
  the bucket now holds, is at most the capacity plus the refill up to
  `last_refill_ms`, and that is never ahead of the clock. The script's maximum of
  the two clocks is what makes this inductive.

**`OrderSyncProofs`** (any sessions, receipts, margin and task limit, and any set of tracking
codes that is not empty: a session that submits none holds one as a placeholder):

* `TypeCorrect`, from `TypeInv`: its conjunct `StagesInv` says which stages a session that runs
  a given kind can be at, and that one that is at an order has one left to do. `UpdatedIs` says what
  a column-wise commit makes of a row, and `OrderDataIs` what `sync_orders` extracts from a receipt.
* `RowTheorem`, `BackTheorem`, `KeepsTheorem` and `StatusTheorem`, from `FlowInv`. It follows an order
  on its way: from the receipt to a session's snapshot (`Older`), to the object it loaded and the one it
  will commit (`FromEtsy`, `Forward`), to the row. The properties look at the row, or at a commit
  that may come; an object of the past is only harmless because everything it holds was once true of the
  receipt, and Etsy's shipments and deliveries only grow (`GrownStep`). A row keeps what it says
  under a commit of some of another object's columns, since each column comes from Etsy by itself.
* `EventsTheorem`, from `SentInv`: of the sessions between Etsy's answer and their commit one at most holds a
  given tracking, Etsy has it, and no event of it exists yet. Etsy refusing a tracking it has is what
  lets one session at a time in; a lost reply leaves a tracking without its event, never two.

**`MessagingProofs`** (any workers, conversations, retries):

* `TypeCorrect`: among others, no status that the table's CHECK constraint
  refuses. `SaveTypes` says what a column-wise UPDATE may do to a row.
* `ProfileFreedTheorem`: inductive given the types. Every step
  of a job leaves it in progress, but for the two that stop the browser and a crash, which
  puts the job back in the queue.
* `OwnConversationTheorem`, by `IInv`, whose conjunct `Alone` says that, as long as no
  start was a race, whoever is connected is alone and the browser runs; and
  `Settled` that a connected worker finds on the page what it put there, that a
  click reached the worker's own conversation, and that what a worker has read is its own
  thread's.
* `SentTheorem`, from `SentFit`. The natural measure is a sum over queue and workers of
  powers of two: a reply retried `k` times may still be sent `2^(MaxRetries - k)` times, since a job that
  is refused the profile leaves two copies with a retry more. The prover has neither such
  sums nor powers, so the proof counts with an injection: every send that was made (`Owed`: the replies
  sent, the one in the box) or may follow (`Share`: a subset of the retries still left, for every copy in the queue or
  in work) has a place of its own in `Pool`, the pairs of a request or failure and a subset of
  the retries. A refused job gives each copy half of its subsets, those with and those without the next retry
  (`Halves`); one that types its reply gives up the full subset for the reply in the box (`FillStep`). A step that
  makes no new claim is `Quiet`, others hand places on (`Moved`) or bring places of their
  own (`Paid`). `SentCounted` turns the injection into the bound with the
  library's theorems on cardinalities.

**`DeliveryProofs`** (any clicks, events, mails, slots and attempts):

* `TypeCorrect`, with `CallsFit`: a call at a place in the middleware carries a message that
  belongs there.
* `ImplementsTheorem`: every step is a step of `Inbox` under the refinement mapping, or a
  stutter. Carrying out a message a second time must be excused, so the invariant has to know,
  for each kind of message, where a first time may still be under way: `ClicksFit` (what the cache
  does not know yet is in the one call past the check), `HooksFit` (an event is recorded by one call,
  whose task finds it so), `MailsFit` (a fetched mail is never fetched again and posted
  once). `OpenIs` and its companions say how the mapped variables change.
* `SuccessTheorem`: `SuccessIsTrue` is not inductive, since an "ok" is kept and on its way before the
  sender has it; `Truth` says the same of every "ok" under way, kept or received, and `GoodStays` that
  what justifies one never ceases to.
* `ActsOnceTheorem`: no message is carried out twice unless it may be repeated and has met a fault,
  derived from the refinement.

**`TeamProofs`** (any members, shops, workers and requests): `TypeCorrect`; `OwnerTheorem`
and `AccessTheorem` from `Decided`, which keeps for every loaded request what it was
admitted on, in terms of the claim and the membership it holds: only with that does a commit on valid grounds say
something of the committed rows; a callback, which is decided on no role, makes its user `carried`. `OwnerCommit` and `AccessCommit` treat one commit each.
`LinkOnceTheorem` from `LinkFit`: a link in use is marked, and one request at most is on it while no
two starts overlapped.

**`CatalogProofs`** (any batches, listings, syncs, retries, deaths): `TypeCorrect`;
`SettledTheorem` by induction over the batch's own steps, each of which leaves the task to come, marks the
batch, or names it in `left`; `OneRowTheorem` from `Apart`, which says without counting that what there is for a
listing is a row or a row one sync is about to add; the cardinalities follow at the end.

**`AccountsProofs`** (any workers, passwords, limits): `TypeCorrect`, `MissTheorem`, `LockTheorem`
(an action property) and `LinkTheorem`, all from one invariant: a row that is not there has no failures, lock or links;
a loaded request remembers what it was admitted on; and the row a worker loaded is the committed one unless
somebody changed it. `CommitIs` lists what the handlers may do to failures, locks and links, so that each
theorem looks at a handful of ways and not at thirteen handlers.

**`FinanceProofs`**, about the ledger (any tasks, window, page size, lateness): `TypeCorrect`, for which a window must end
after it begins (`WindowTypes`) and the newest entry exist (`Greatest`); `FlagTheorem` from
`StatusFit`: until two tasks are about to write the status at once, the one that is writes over
what it read. `LeftTheorem` from `LeftInv`: an entry that is missing and not excused is still to be served to every
sync under way (`Fit`). A page is a range of ranks (`Rank(r, e)`, how many entries of the
window are served before `e`), so that an entry whose rank is below the next page's offset was on a page
already; what Etsy shows late pushes ranks up, never down (`RankGrows`), and so can repeat an entry but not hide one.
For pages served newest first, `Missed` says which running sync will still fetch what the
next one would pass over.

**`FinanceProofs`**, about what is worked out from stored rows. `MCReports` and `MCOrderViews`
evaluate these properties of pure operators on small inputs; the theorems state them for all.

* `ConversionTheorem` and `CentTheorem`: rounding, for all integers. `RoundExact` reduces a
  division to the two inequalities that define it (`Division`), the rest is linear in products that have a name.
* `RatesTheorem`: `RatesOfTheirDay` of every store that is `Timely`: no rate is missing, and what is
  cached under a day is of that day or earlier. The empty store is (`EmptyTimely`), and every
  nightly fetch (`FetchKeeps`) and every lookup keep it so. `NewestIn` gives the table's
  newest row: a finite set that lacks one would have a least subset that lacks one.
* `RegistryTheorem`, `ReportsOpenTheorem`: what syncs and requests keep.
* `ReportKeysTheorem`, `AnalyticsKeysTheorem`: requests of any moments. Days follow the order of their moments
  (`DaysOrder`), so that a row of a day strictly between the first and the last is in both ranges or in neither (`DaysCover`).
* `PagesTheorem`, `OrderPagesTheorem`: turning pages. A row that is alone at its moment has the same rank under every order
  of ties, and any row if all pages use one order; a rank is at most the number of rows, and
  is on one page (`OnlyPage`). Since a ledger page is cut at a hundred rows, a limit above that
  would leave rows out: the theorem is about limits up to a hundred, those the endpoint admits.
* `SyncedTheorem`, `ShownTheorem`, `SuppliersTheorem`, `DashboardTheorem`: cards, lists, the single order and the dashboard
  agree, for any rows. Their hypotheses name what the database guarantees: distinct ids, dates that are numbers, and that
  NULL is none of the words.

Invariants were checked with TLC on the instances of section 3 before they were proved.

**Model-checked only.** Liveness (the prover has no ENABLED and no fairness), `SyncsMissNothing`, and those assumptions
of `MCReports` and `MCOrderViews` that speak of sums of money or of events (`NothingUncounted`, `SummaryAgrees`,
`FeesAddUp`, `TimelinesAgree`, `CostsOfItems`, `ShopsAddUp`, `WindowsNest`, `FulfillmentAgrees`, `ComparisonAddsUp`,
`OnlyOpenShops`): a sum over a set is a fold, and what a fold computes takes an induction over the set.

## 5. What is not modelled, and the plan

Not modelled for good: the front end beyond its API client, migrations, metrics, wording of errors,
encryption, endpoints that only read one table or start one task, plain updates of one row
(`update_product`, preferences, onboarding, admin), and append-only audit rows and notifications:
one transaction each, nothing shared, and no property to state beyond the assignment.

Done of the plan: tokens, orders, gateway, messaging; idempotency, webhooks and the mail listener
with an abstract specification and its refinement; ingestion with product sync; login, teams and
access; the financial sync; reports, rates, order pages and analytics. What would be next:

1. An abstract single-flight token that `TokenRefresh` refines while no lock overruns, and the
   gateway composed with it.
2. `auth_rate_limiter.py`, the error reports of ingestion, and the commits `notify_tenant_admins` makes on
   its caller's session.
