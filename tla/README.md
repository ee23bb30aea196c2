# Verification of payrouter

payrouter is a Stripe-compatible HTTP facade over Indonesian payment gateways
(Midtrans, Xendit, DOKU, Mayar). Merchants call it as they would call Stripe; it
calls the gateway, receives the gateway's notifications, and sends signed events to
the merchant. It runs on Postgres (durable mode) or on maps in memory (memory mode),
over one gateway or over an orchestrator that picks among several. This directory
holds TLA+ modules of both modes and of the gateways, the TLC configurations that
check them on small instances, and TLAPS proofs of the safety properties for every
size.

All paths below are relative to `src/`.

## 1. The system

### Components, their state and their operations

| Component | State | Operations | Status |
|---|---|---|---|
| Outbound events (`internal/storepg/outbound.go`, `internal/webhook/deliverer.go`) | table `outbound_events`; one deliverer loop per process | enqueue, lease, POST, complete, replay | modelled: `Outbox`, `EventDelivery` |
| Idempotency-Key middleware (`internal/server/server.go:134-241`, `internal/storepg/store.go:183-245`) | table `idempotency_records`; one goroutine per request | claim, replay, run, complete, fail | modelled: `Idempotency`, `SingleAnswer` |
| Payment intents (`internal/server/paymentintent.go`, `store.go:262-315`) | `payment_intents`, `payment_transitions` | create in three phases, confirm, apply a notification | modelled: `PaymentIntents`, `Gateways`, `MemoryMode` |
| Inbound notifications (`internal/server/webhook.go`, `internal/storepg/inbound.go`) | `inbound_events`, `payment_intents`, `payment_transitions`, `checkout_sessions`; one goroutine per notification; the connection pool | claim, look up, apply, complete the session, commit | partly: `Inbound`, `MemoryMode`, `Gateways` (payments) |
| Refunds (`internal/server/refund.go`, `store.go:317-375`) | table `refunds` | reserve, call the provider, write the outcome, resume | partly: `Refunds` (durable mode), `Gateways` |
| Checkout sessions (`internal/server/checkout.go`) | `checkout_sessions` | create (payment or subscription), complete | partly: `Inbound`, `MemoryMode` |
| Subscriptions, invoices (`internal/server/subscription.go`, `webhook.go:335-445`) | `subscriptions`, `invoices` | create, cancel, activate, record a cycle | partly: `Subscriptions` |
| Memory store (`internal/store/memory.go`) | maps under one mutex, a webhook queue | the same operations without transactions | partly: `MemoryMode` |
| Orchestrator (`internal/orchestrator/`) | configuration, a map of adapters | selection by cost, fallback, delegation, attribution | partly: `Router`, `Gateways` |
| Gateway adapters (`internal/adapters/`) | none | order, refund, parse a notification; status tables | partly: `Adapters`, `Gateways` |
| Migrations, pool (`internal/storepg/migrate.go`) | `schema_migrations` | migrate at start-up | pool size only, in `Inbound` |
| Reconciler (`internal/server/reconcile.go`) | none of its own | reclaim stuck rows, reapply their events, complete them | not modelled: no reachable state gives it work (section 8) |
| Catalog, authentication, configuration, signer | single rows or none | create and read | not modelled (section 8) |

### How they interact

A write request passes the idempotency middleware, which claims its key in one
transaction, runs the handler into a buffer and stores the answer in another. A
handler (create a payment, a refund) writes what it is about to do, calls the
gateway with no transaction open, and writes the outcome. The gateway is an adapter,
or the orchestrator, which picks an adapter by fee and hands notifications to each in
turn. The provider later sends notifications, at least once and in any order; a
handler applies each in one transaction that also enqueues the merchant's event. A
deliverer loop leases events and POSTs them. Processes may be several; they share
only the database. In memory mode there is one process and no transaction: each
operation of the store is atomic under its mutex, and nothing else is.

### What is hard here

* Leases: idempotency claims and outbox rows are owned for 30 seconds. A slow owner
  is overtaken and comes back.
* Calls out of transactions: a crash, a disconnect (`r.Context()`) or an error between
  two phases leaves the first one's row behind, and the retry meets it.
* Full-row writes: `WriteIntent` writes every column, the status among them, and so
  does every `Put` of the memory store.
* Wrong connection: calls made within a transaction that use the pool instead.
* The activation of a subscription: a provider call and full-row writes, through other
  connections, in the middle of an inbound transaction, with no lock on the row.
* At-least-once delivery on both sides, in overlapping copies and out of order.
* Identity: four providers name an order, its attempts and their notifications in
  four ways, and the same event must never be taken for news, nor news for a copy.
* Go map order: the orchestrator meets its adapters in a random order, both when fees
  tie and when an adapter has already read the body of the notification.

`PROJECT.json` lists each hazard at its line with the properties that cover it.

### What makes each component correct

* Outbox: one owner per claim; an event once owed stays owed until the merchant took
  it or its attempts are used up; duplicates only for a fault or a replay.
* Idempotency: one answer and one body per key; no key is wedged.
* Inbound: a notification is applied at most once, and at least once if it was
  acknowledged; the session agrees with the payment.
* Refunds: never more than was paid; never paid out twice without a fault.
* Payment intents: what the provider accepted is on record; nothing unpaid succeeds;
  an outcome is not overwritten.
* Subscriptions: a schedule that charges is known to its row, so that it can be
  canceled; a cancel is final; a charge is invoiced once.
* Gateways: no payment is made up by a mistaken identity or word; an intent ends as
  its provider last said; an order is placed where its fee is lowest.
* Memory mode: the merchant's feed follows the intent; no status is kept from it; a
  paid session completes; the queue drains, and promises what the outbox promises.

## 2. Modules

### `EventDelivery` and `Outbox`

`EventDelivery` is the abstract promise to the merchant about one event (absent,
owed, delivered, dead; deliveries begun; what the merchant has taken). `Outbox` is
the table and its workers.

| TLA+ | code |
|---|---|
| `status`, `attempts`, `token` | columns of `outbound_events` |
| `elapsed[e]` | whether the time that the lease query compares with `now()` has passed |
| `job[w]` | the local variables of `deliverOnceDurable` |
| `LeaseDueOutbound` | the single lease UPDATE, with its WHERE clause in `Due` |
| `DeliverPayload` | the POST: taken and answered, taken and unanswered (a fault), or refused |
| `CompleteSelect`, `CompleteUpdate` | the two statements of `CompleteOutbound`, which share no transaction |
| `ReplayOutbound` | the replay of a delivered or failed event |
| `Abandon` | the process dies, or the completion fails and is only logged |
| `LeaseLapses`, `BackoffElapses` | time |

Claim tokens are 16 random bytes in the code; here they are numbered per row and
assumed not to collide. `ORDER BY` is a free choice among the due rows.

### `SingleAnswer` and `Idempotency`

`SingleAnswer` is the abstract promise of a key: its operation is executed under one body
only and never after it is answered, and answered with the result of one execution, the
same to everyone. `Idempotency` is the middleware and its table.
`Refunds` takes the promise for granted, as its `closed`.


A key stands for the triple (account, operation, key), a body for its hash, and the
number of the execution for the response it gives, so that two executions never
happen to agree. `ClaimIdempotency` is the claiming transaction; the refusals (409)
change nothing and are no steps. `CompleteIdempotency` and `FailIdempotency` look at
`status = 'processing'` alone, as the code does: there is no owner token, so an owner
that was overtaken may complete the claim of its successor.

### `Inbound`

`BeginTx` takes a connection of the pool and keeps it to the end of the transaction.
`ClaimInbound` is the `INSERT .. ON CONFLICT DO NOTHING`: a committed row is a
conflict, an uncommitted one makes the insert wait (`ClaimOutcome`). `FindIntentByRef`
and `PutSession` need a second connection (`FreeConn`). What the transaction has
written is in `job` until `Commit` makes it visible, all at once; `PutSession` is
visible immediately. `TxFails` is any failing statement: the rollback, and the 200
that the gateway gets regardless. `LookupFails` and `SessionFails` are the two errors
the code swallows. `StoreReference` and `StoreSession` are the request path, which may
store the reference and the session after the first notification has arrived.

### `Refunds`

`Begin` is the handler entered through the middleware: only while no answer is stored
for the refund's key (`closed`), and at no cost only when no other run is at work; an
overlap needs a lapsed claim, which is a fault. `ReserveNew` and `ReserveAgain` are the
two branches of `ReserveRefund` under the row lock of the intent. `CallProvider` pays or
not and answers anything of `RefundResult`, except that a success is never reported
for a refund that was not paid. The provider cannot recognise a repeat: the Midtrans
adapter sends no refund reference (`internal/adapters/midtrans/midtrans.go:155-169`).

### `PaymentIntents`

`Prepare`, `CallProvider`, `PersistAccepted` / `PersistFailure` are the phases of
create; `ConfirmRead` and `ConfirmWrite` the two transactions of confirm.
`ApplyNotification` is the whole of `Inbound` in one step, and `closed` the whole of
`Idempotency` in one bit. `overlapped` records whether a handler was at work across the
moment of the notification, or create was run again after it.

### `Subscriptions`

One subscription, with the provider that owns its clock: `registered`, `running` and
`charged` are the schedules it has registered, those that still charge, and which of
them made the charge of an order. `sent` are the notifications it repeats at will. A
row of `inbound_events` is keyed by gateway, provider event and type (by a hash of the
body only where the provider names no event), so one order has several notifications:
one for each of its transactions. `Copies` numbers them.

| TLA+ | code |
|---|---|
| `row`, `intent`, `invoice`, `billed` | the subscription, its authorization intent, its first invoice, the invoices per order of later charges |
| `CreateSubscription` | `buildSubscription`; any one of its unchecked writes may be lost |
| `Claim`, `Commit` | the inbound transaction: `ClaimInbound` and its end (`Inbound` has the details) |
| `FindByAuthPI` .. `AnnounceActive` | `activateSubscription`, statement by statement; `AlreadyRegistered` is its guard |
| `FindByGatewayID`, `CheckBilled`, `BillCycle` | `recordSubscriptionCycle` |
| `CancelSubscription` .. `AnnounceCanceled` | `cancelSubscription` |
| `RegisterFails`, `StopFails` | the provider refuses, or does it and the answer is lost |
| `LookupFails`, `CheckFails`, `NoInvoice`, `PutRow` and the other writes | errors of the store, which the code ignores or takes for "not found" |
| `Abandon` | the process dies, or the inbound transaction is rolled back: what was written stays |

`overlapped` and `unchecked` are history: that a handler read the row while another was
between its read and its write, and that a check for an invoice ran beside another's
(or failed). The properties except these cases, in which the code has nothing that
would prevent the harm, and show that there are no others. A refused registration is not
repeated by anything: the notification counts as applied. The events
`customer.subscription.created` and `invoice.payment_succeeded` are not tracked.

### `Adapters`, `Router` and `Gateways`

`Adapters` has the four adapters as functions and `Router` the orchestrator's choice;
`Gateways` composes them with the life of one payment: create, order, words of the
provider, notifications. Create and the inbound transaction have the grain that the
gateways need here, and their details in `PaymentIntents` and `Inbound`.

| TLA+ | code |
|---|---|
| `MidtransStatus`, `XenditStatus`, `DokuStatus`, `EventType` | the status tables and `EventTypeForStatus`; Midtrans' fraud_status is part of its word |
| `CreatePayment` | which reference the provider is told, what the intent keeps, the first status |
| `ParseWebhook` | identity, reference and status of the event a notification becomes |
| `CalculateCost`, `Cheapest`, `Fallback`, `SelectBestGateway` | `orchestrator/router.go`; a percentage in thousandths, a cost in hundredths as the code rounds it |
| `deployment` | which gateway is active and which adapters the orchestrator has, fixed at start-up |
| `Iterations` | the random order of a Go map |
| `Prepare`, `Call`, `Persist`, `Again` | `createPaymentIntent` over the chosen adapter, and its repetition |
| `Found`, `Key`, `Apply` | `findIntentByRef`, the dedup key, claim and application in one step |
| `Parsed` | which adapter gets to see a notification: all of them in any order, one body |
| `RefundTargets`, `Refund` | where a refund is routed, and that Midtrans tells of it |
| `ProviderSays`, `Follows` | the provider (external): what may follow a word, from the words of the status tables |

An identifier is a record of the payment, the number of the order and that of the
transaction within it, so that two identifiers are equal exactly if the code's strings
are. `DefaultProviders` is the fee table built into the code; it, and not
`config.yaml`, is what the run is given.

### `MemoryMode`

Create, checkout, confirm, the notification handler and the deliverer over
`internal/store/memory.go`. Every operation of the store copies a value in or out under
the mutex and is one step; between two steps of a handler all others may run.

| TLA+ | code |
|---|---|
| `intent`, `session` | the two maps, by status |
| `made` | how far create has come: the provider is called first, and may notify before `PutIntent` |
| `ReadIntent`, `PutStatus`, `Tell`, `CompleteSession`, `TellSession` | `processEvent`, operation by operation, on the copy in `job` |
| `ConfirmRead`, `ConfirmWrite` | `confirmPaymentIntent`, on the copy in `copy` |
| `queue`, `attempts` | the webhook queue |
| `LeaseDueWebhook`, `DeliverPayload`, `CompleteWebhook` | the deliverer's loop; `working` and `took` are its local variables |

`feed` is the sequence of statuses enqueued for the merchant; `raced` records that two
handlers held a copy of one intent at once, and `early` that a notification came before
create had ended. The queue implements `EventDelivery`, as the outbox does, but in one
process, whose death loses it, intents and all.

### Proof modules

`OutboxProofs`, `IdempotencyProofs`, `InboundProofs`, `PaymentIntentProofs`,
`SubscriptionProofs`, `RefundProofs`, `MemoryProofs` and `GatewayProofs` extend their
module and hold its theorems. The `MC*` modules give the constants of the runs.

## 3. Runs

Every run gives constants their values and nothing else. Bounds on the environment
(`MaxFaults`, `MaxReplays`, `MaxResends`, `MaxCrashes`, `MaxErrors`) limit only how often it misbehaves.
`CHECK_DEADLOCK FALSE` is said where the system may rest for good: clients, gateway
and operators need not send anything, and all requests end.

| Run | Instance | What it shows |
|---|---|---|
| `outbox` | 2 events, 2 workers, 2 attempts, 2 faults, 1 replay | `AtMostOneOwner`, `DuplicatesArePaidFor`; `ImplementsDelivery` (refinement of `EventDelivery`); `OwedIsSettled` (liveness) |
| `idempotency` | 2 keys, 2 bodies, 3 servers, 3 faults | `AnsweredIsStored`; `ImplementsSingleAnswer` (refinement of `SingleAnswer`); `ClaimIsResolved` (liveness) |
| `inbound` | 1 intent, 2 notifications, 2 handlers, 3 connections, 2 unneeded copies, 1 crash, 2 errors | `AppliedAtMostOnce`, `AppliedIsReflected`, `OnlyErrorsLoseNotifications`, `SessionFollowsPayment`; `SentIsApplied` (liveness) |
| `refunds` | payment of 3, a refund of 2 and one of the rest, 2 handlers, 2 faults | `NewWithinPaid`, `RepeatsArePaidFor`; `ReservationIsAnswered` (liveness) |
| `intents` | 2 creators, 2 confirmers, 3 faults | `AcceptedIsOnRecord`, `SucceededWasPaid`, `OutcomeLostOnlyToOverlap`, `OutcomeIsAudited`; `PreparedIsResolved` (liveness) |
| `subscriptions` | 1 order, 2 notifications of each charge, 2 handlers, 2 faults; symmetric in notifications and handlers | `NoStrayClock`, `CanceledStaysCanceled`, `CycleBilledOnce`, `SettledStateAgrees` |
| `gateways` | 1 payment; each adapter alone, and the orchestrator over none, one, two and all; 5 channels, 3 amounts, 3 words, 1 fault | `PaidOnlyIfPaid`, `RowFollowsGateway`, `ChosenIsCheapest` |
| `memory` | 1 checkout payment, 2 notifications of success or cancellation, 1 confirm, 2 attempts | `FeedFollowsStatus`, `StatusIsTold`, `SessionCompletes`; `QueueDrains` (liveness); `MemoryImplementsDelivery` (refinement of `EventDelivery`) |
| `inbound_acked`, `inbound_pool`, `refunds_limit`, `subscriptions_delete` | smaller instances | each refutes one documented promise (section 5) |

Each passing run also checks its module's type invariant.

Why these bounds are enough for the interesting cases. Two workers and two faults allow
a lease to lapse, its successor's to lapse too, and the first worker to come back
between the two statements of the completion. Three servers and three faults allow
a claim to be taken over twice while both earlier owners still run, or one to fail
and one to die. Two handlers, two unneeded copies and a crash allow a copy to wait on an insert that is
rolled back, and one to arrive after the commit; two notifications allow success and
cancellation in either order. A payment of 3 with refunds of 2 and of the rest allows
each to be reserved first, and to find its balance taken. Three connections for two
handlers never exhaust the pool in `inbound`: that case is the run `inbound_pool`.
In `subscriptions` two notifications and two handlers give two activations, two billings of one
charge, or a cancel beside either; two faults give a lost answer followed by a death, and
so three schedules. The run checks no liveness property, as it uses symmetry.
In `gateways` three words make an order pending, paid and refunded, or refused and paid
in a second attempt, or spread over the two orders of a repeated create; one fault gives
that repetition. The channels are one that all providers list with different taxes, one
with ties, cards, one that DOKU does not list and one that nobody does; the amounts are
refused, too small for a percentage to matter, and ordinary. Payments share no state but
`seen`, whose keys name the payment, so one is enough. In `memory` two
notifications and a confirm give every race of two copies of one intent; two attempts
give a retry and its exhaustion. The queue is unbounded in the code; here it has a slot
for each event the handlers can queue.

## 4. Fairness

* Statements, provider calls and POSTs end: the deliverer's HTTP client has a timeout
  of 10 s, and a Postgres statement returns or fails. Weak fairness of the
  worker's and handler's own steps.
* The deliverer's ticker goes on leasing, in this process or a restarted one, and
  time passes (`LeaseLapses`, `BackoffElapses`).
* A gateway repeats a notification until it has a 200, and a client that has
  had no answer repeats its request with its key. Both are the convention the
  endpoints are built for; nothing obliges either to send a first one.
* Nothing is assumed of faults, replays, copies or payments: they may never occur.
* The memory-mode deliverer goes on (`DelivererStep`): it polls, leases while something
  is due and its requests time out. Nothing says which of several due events it takes,
  so fairness is of the loop and not of an event; `QueueDrains` holds since attempts end.
* `PreparedIsResolved` is promised only if runs of one create never overlap: of two
  that do, one may reset the row after the other was answered, and die.

## 5. Where the code differs from what it says

Found while modelling, and refuted by a run:

1. `internal/server/webhook.go:48-49` promises a notification is persisted before it
   is acknowledged. The insert shares its transaction with the application, and a
   failed transaction is logged and acknowledged (`AckedIsDurable`).
2. `webhook.go:106-107` promises it always acknowledges. Eight notifications at once
   hold the pool's eight connections and wait for a ninth (`SentIsAcked`).
3. `internal/storepg/store.go:327-329` promises refunds within the remaining balance.
   A failed refund is reopened without looking at it (`ReservedWithinPaid`).
4. `COMPATIBILITY.md:22` says DELETE cancels the recurring clock. When the card is
   notified as saved after the DELETE, the subscription is activated all the same:
   the guard at `webhook.go:363` does not look for `canceled` (`DeleteStopsClock`).

Noted, without a run. Requests and payments:

* `server.go:138-139` says an in-flight request with the same body is a 409. After 30
  seconds it is run a second time; no adapter sets a timeout on the provider call.
* `paymentintent.go:191-192` says confirm updates the return URL. It writes the status
  it read back as well. `OutcomeLostOnlyToOverlap` states what is left.
* `store.go:338-339` calls retrying the provider safe because its reference is
  deterministic; Midtrans is not sent it. `RepeatsArePaidFor` states what is left.
* `migrations/0006_payment_transitions.sql:1-2` says every status change inserts a row;
  phase 1 of a repeated create and confirm change it without one. `OutcomeIsAudited`
  states what is left.
* `checkout.go:231` stores the session of subscription mode without an intent, by which
  alone a notification finds sessions: it stays open for good.

Notifications and events:

* `reconcile.go:13-14` and `webhook.go:106-108` count on the reconciler for what was
  not applied. A row is inserted and completed in one transaction, so no row is ever
  committed as pending, failed or processing, and the reconciler never finds one.
* `webhook.go:154-155` promises an error for a persistence failure; lookup and read
  errors (165-172) are successes.
* `webhook.go:50-51` promises one transaction for claim and application; the session is
  outside it. `SessionFollowsPayment` states what is left.
* `webhook.go:150-151` calls a repeat a no-op once the status matches. The read takes
  no lock, and two notifications with one status may both be recorded as changes.
* `webhook.go:275-276` says the session's event is not duplicated on re-sends. In memory
  mode two overlapping copies both complete the session and queue the event.
* `internal/store/durable.go:64` speaks of the owned row; no owner is compared.
* `outbound.go:77-79` describes a dead event as `failed` with no next attempt; it is
  `dead`, which `ReplayOutbound` does not replay.
* `internal/store/memory.go:558` has the lease take the oldest due event. It sorts by
  id, and ids are random: the events of one intent go out in any order.

Subscriptions:

* `webhook.go:345` speaks of a cycle charged successfully; the adapter reports every
  notification with a `subscription_id` as that (`adapters/midtrans/midtrans.go:219-227`),
  a declined charge too.
* `webhook.go:152` calls a repeat safe. After a death between lines 398 and 411 the guard
  at 363 makes the repeat do nothing: the first invoice stays open and no event goes out.
* `webhook.go:360-362` rules out a second registration "after a crash+reclaim"; a crash
  between the provider's answer and line 398 allows one. `NoStrayClock` counts them.

Orchestrator and adapters:

* `orchestrator/router_gateway.go:113` says a notification is routed to its adapter. The
  adapters are asked in map order, and Midtrans and DOKU read the body before they look
  whose it is: an adapter asked after them finds none (`Parsed`).
* `COMPATIBILITY.md:74` counts DOKU among the verified gateways. Its adapter signs its
  own path (`adapters/doku/doku.go:202`), while under orchestration only
  `/v1/webhooks/orchestrated` is served: no notification of DOKU is accepted there.
* `router_gateway.go:97` routes refunds by the prefix of a reference. The server passes
  the `pi_` id, which has none: under orchestration every refund fails.
* `README.md:14` promises the cheapest gateway for every method. When none lists the
  channel, as with the `id_hosted` of every checkout session, `router.go:121-133` returns
  the first preferred provider, loaded or not. `ChosenIsCheapest` states what is left.
* `adapters/midtrans/status.go:10-12` has a capture succeed if the fraud check accepts
  it; a challenged capture is reported as succeeded too.
* `migrations/0008_inbound_events.sql` takes corrections for new events. DOKU's
  notifications have only the invoice number: a status that returns (FAILED, PENDING,
  FAILED) is dropped as a duplicate. `Distinguishable` is the exception for it.
* `orchestrator/config.go:86` says `DefaultConfig` matches `config.yaml`; fees differ.
* `README.md:47` documents `PAYMENT_CONFIG_PATH`, which nothing reads (`main.go:125`).

## 6. Proofs

TLAPS checks, for any number of events, workers, keys, requests, notifications,
handlers, connections, payments, words and faults, from the named assumptions on the
constants (`OutboxAssumption`, `IdempotencyAssumption`, `InboundAssumption`,
`IntentAssumption`, `RefundAssumption`, `SubscriptionAssumption`, `MemoryAssumption`,
`GatewayAssumption`: markers such as `NoEvent` are outside their sets, bounds, amounts
and fees are naturals, creators are not confirmers, and workers and handlers that are
counted are finitely many):

* Outbox: `OutboxTypeCorrect`, `ClaimsAreDisciplined`, `SingleOwner`, `UpdateIsSafe`,
  `OutboxRefinesDelivery`, `DuplicatesTakeFaults`. The inductive invariant is the types
  and `ClaimDiscipline`: exactly the leased rows carry a token (`TokensLive`); a token
  is held by one worker ever (`TokensAreUnique`); what a worker has read is true while
  its token is the row's (`JobsAreCurrent`). The last part makes the second statement
  of a completion safe without a transaction: whoever re-leases the row in between
  draws a larger token. The refinement needs it too, for `attempts` read earlier and
  for a 2xx that was really given. The last theorem counts (`PostsAreCounted`): what
  the merchant took, the workers about to POST the event, and one more while the row may
  be leased again for nothing, are never more than 1 plus the faults and replays.
* Idempotency: `IdempotencyTypeCorrect`, `StoredResponseIsFinal`, `ReplaysAgree`,
  `KeysStayBound`, `MiddlewareAnswersOnce`. Although a claim has no owner token, an
  answer goes out only with the statement that takes the row from processing to
  completed, and no statement leaves completed: so the answer given out is the one
  stored. The invariant adds that an unclaimed key was never used
  (`UnclaimedIsUnused`), and that the body a key was used with is the one in its row
  (`KeyIsBoundToBody`). The refinement of `SingleAnswer` needs that servers hold
  executions that have begun (`ExecutionsAreBegun`): then whichever owner completes a
  claim, overtaken or not, decides for one of them.
* Inbound: `InboundTypeCorrect`, `ClaimsStayExclusive`, `NotificationsApplyOnce`,
  `OnlyErrorsLose`, `OnlyErrorsAreNotDurable`, `AppliedTakesEffect`, `SessionsFollow`.
  The first five rest on `ClaimsAreExclusive`: between claim and commit no other
  transaction has the notification, no committed row has it, and only committed
  notifications are in the log; the fifth says when the promise that `inbound_acked`
  refutes is true. The others add that a status is the first one or a logged one, which
  makes the skip of an unchanged status harmless, and that a session that is complete
  without a logged success has a success notification still pending.
* Payment intents: `IntentTypeCorrect`, `AcceptedPaymentsAreOnRecord`,
  `SuccessIsNeverMadeUp`, `OutcomesAreKept`, `OutcomesAreAudited`. The first three rest on
  "past phase 1 the row exists"; the fourth on "after an undisturbed notification every
  confirmer has read the outcome and no creator is past phase 1"; the last on "a
  success or cancellation that the row, a confirmer's copy or a notification shows is
  in the log".
* Refunds: `RefundTypeCorrect`, `NewRefundsFit`, `OnlyReleasedExceed`,
  `RepeatsTakeFaults`. The first three rest on `ReservedInv`. Only refunds that were tried
  have a row, so the sums are over finite sets, whatever ids there may be. A new
  reservation is checked, under the lock, against all that are counted, and those that
  were never released are among them; no other action adds to these, or changes an
  amount. That the sum over a set grows with the set, and by one term for one element,
  is proved from the library's definition of the sum: a least set for which it failed
  would have a smaller one. `OnlyReleasedExceed` says when the promise that
  `refunds_limit` refutes is true. The last theorem counts: for each refund the payouts, the runs that
  may still call the provider, and one more while its request may start another run for
  nothing, are never more than 1 plus the faults.
* Subscriptions: `SubscriptionTypeCorrect`, `StrayClocksTakeFaults`, `CanceledForGood`,
  `CyclesAreBilledOnce`, `TablesAgree`. `RowInv` says that without an overlap at most
  one handler is between its read and its write, and that what it read is what the row
  has: so an activation writes over a row without a schedule, which gives `CanceledForGood`.
  `StrayInv` counts the schedules that neither the row nor a handler has against the
  faults; each action adds to the two sides alike, where `RowInv` is needed for the
  writes. `BillInv` says that, but for the excepted orders, one handler at most is
  about to bill an order, and then it has no invoice. `AgreeInv` says of a state in which
  handlers are at work that what the row claims and the intent, the invoice or the
  events do not show yet is owed by a handler, which is at a place where it will do it:
  when none is at work nothing is owed.
* Memory mode: `MemoryTypeCorrect`, `StatusesAreTold`, `SessionsComplete`,
  `FeedsFollow`, `MemoryRefinesDelivery`. The invariant, `MemoryInv`, is the types, that
  a copy is of a stored intent (`CopiesAreOfStored`), that the event a handler is about
  to queue is not in the queue (`EventsAreFresh`), and that the event in flight is the
  deliverer's, was counted, and was taken if the deliverer says so (`LeaseIsGood`). Each
  property has an invariant of its own over it: for the feed, that without a race the one copy held is the intent's status.
* Gateways: `GatewayTypeCorrect`, `PaidIsPaid`, `RowKeepsUp`, `CheapestIsChosen`. For the
  second the invariant says that a gateway reference names its own payment, that no
  provider's first answer is a success, and that a row that succeeded has an order with
  a word of payment; the lemmas about `Adapters` add that no adapter makes a success of
  any other word, and that an event names its own payment. For the third, `FollowInv`
  adds that the table of events holds the keys of exactly the notes that were heard. A
  note that comes in order is then applied, or its key was seen before, and then
  `Distinguishable` says that nothing else was said in between, and the row has its
  status already. For the last, the loop of the router is a recursive function on the
  position in its list of candidates: it exists and keeps the cheapest up to each
  position, as there would be a first one where it did not; and rounding a fee hides less
  than a hundredth of a rupiah. They hold for every fee table without negative fees, set
  of adapters and order in which they are met.

Not every induction over data is out of the prover's reach: where a recursive
definition runs over the subsets of a finite set or over the naturals up to a bound,
the least counterexample takes its place, as in the sums and the loop above.

Only model-checked: `OwedIsSettled`, `ClaimIsResolved`, `SentIsApplied`,
`ReservationIsAnswered`, `PreparedIsResolved` and `QueueDrains`. They are liveness
properties, which need fairness and ENABLED. Every invariant and action property of the
passing runs, and every refinement, has a theorem. The four properties that runs refute
(section 5) have none; for two of them a theorem says when they do hold.

## 7. What is done, and what remains

Done: a module and a run for each component with state of its own, and proof modules for
all of them. What would come next:

1. An abstract specification of a paid-for intent that `Inbound`, `PaymentIntents` and
   `MemoryMode` all implement, so that the three say one thing about its status.
2. Statuses of subscription cycles, once the adapter reports declined charges.
3. The reconciler, once a row can be committed before it is applied.
4. `Gateways` over the two-phase detail of `PaymentIntents`, so that a confirm runs
   beside two orders of one payment.

## 8. Not modelled, and why

* Reconciler: it works on rows of `inbound_events` that are pending, failed, or
  processing past their lease. `handleWebhookInDurable` inserts and completes a row in
  one transaction, and Postgres aborts the whole of it with any failing statement, so
  no such row is ever committed. A model would have to start from states the program
  is never in.
* Migrations: two replicas that migrate at once run the same first CREATE; the second
  fails, rolls back and exits. Nothing else runs beside them.
* Memory mode: customers, products, prices, subscriptions and invoices are maps that
  are put and got; refunds have neither reservation nor limit there, and the
  idempotency middleware is not in use (it needs the durable store).
* Adapters: signatures, request bodies and HTTP are functions over bytes; `GetStatus` is
  called by the orchestrator's own `GetStatus` alone, which nothing calls; the stub adapter has no provider. Refunds
  at other providers than Midtrans are errors of the adapter, or need an id that the
  server does not pass.
* Orchestrator: reading `config.yaml`, whose table is a constant of `Router`.
* Checkout: line items, totals and the page the customer sees; the session of
  subscription mode, which nothing completes.
* Catalog rows (customers, products, prices) are created and read and never updated
  concurrently. Authentication is a lookup per request. The signer is a stateless
  function. Configuration and `main` only wire the parts together.

In the modelled components, request parsing, response formatting, metadata, currencies,
several accounts and log lines are left out: no modelled decision depends on them,
except the amounts of refunds, and of orders where fees are compared, which are kept.
