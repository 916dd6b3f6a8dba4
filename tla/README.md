# Verification of KUSANYA

KUSANYA is a multi-tenant collections platform written in Django: institutions
issue bills and control numbers, customers pay them through payment providers,
and the platform books ledger entries, charges its fees, settles with the
institution and tells everybody what happened.  This directory holds TLA+
modules translated from the code under `src/apps`, TLC configurations that
model-check them on small instances, and theorems checked by TLAPS.

To run something here: `tlc -config booking.cfg MCPayments.tla`,
`tlapm PaymentProofs.tla`.  `PROJECT.json` lists the runs, what each checks, the
code lines every definition stands for, the hazards of the code and the theorems.

## 1. The system

A request reaches Django under `ATOMIC_REQUESTS` (`config/settings/base.py`): the
whole request is one PostgreSQL transaction at READ COMMITTED.  Most of the
concurrency problems below follow from that one setting: services read a row into
a Python object, decide from the object, and `save()` it, with few exceptions
(settlement) without `select_for_update` and without reading the row again after
they have waited for its lock.

| component | state | operations | talks to |
|---|---|---|---|
| payments (`payments/services.py`) | `Payment`, `PaymentAllocation`, `PaymentCallbackEvent` | `initiate_payment`, `query_payment`, `process_callback`, `refund_payment`, `reverse_payment`, all through `_apply_outcome` or a compensation | calls the provider adapter; writes ledger, revenue, receipt, bill, notification and webhook rows in its own transaction |
| providers (`providers/base.py`, `mock.py`) | `MockProviderTransaction` | `initiate_payment`, `query_payment`, `process_callback`, `refund`, `reverse`, `reconcile` | called by payments and reconciliation; calls back over HTTP |
| revenue | `RevenueEvent` (insert-only) | payment fee, control-number fee, failures and duplicates, compensation | posts ledger entries |
| ledger | `LedgerEntry` (insert-only) | `post_entry` | – |
| receipts | `Receipt`, one per payment | `generate_receipt` | – |
| billing | `Bill` with a status machine and a balance computed from allocations | get-or-create, issue, cancel; paid by `_allocate_to_bill` | audit, notifications, webhooks |
| control numbers | `ControlNumber`, one-time (per bill) or persistent (per account) | `get_or_create_for_bill/_account`, `cancel`, `expire_overdue` | revenue (creation fee), audit, notifications |
| settlement | `SettlementBatch`, `Payment.settlement_batch` | `generate_settlement_batch`, `mark_settlement_completed` | locks payments; reads revenue |
| reconciliation | `ReconciliationRun`, `ReconciliationException` | `run_reconciliation`, `resolve_exception` | `query_payment`, adapter `reconcile` |
| webhooks | `WebhookEndpoint`, `WebhookDelivery` (an outbox) | `dispatch_event`, task `deliver_webhook` | enqueues a Celery task on commit |
| notifications | `Notification`, templates | `send_notification`, task `deliver_notification` | the same |
| audit | `AuditLog`, a hash chain over all tenants | `save`, `verify_chain` | written by nearly every service |
| customers | `Customer`, `CustomerAccount` | get-or-create by external reference, edit, deactivate, activate | audit |
| tenants, users | `Tenant`, `TenantMembership`, platform roles, the tenant in the session | onboarding, approval, team members, `TenantResolutionMiddleware`, role checks | every portal view |
| api | `ApiCredential` | authentication, create, rotate, revoke; one service call per endpoint | all services |
| accounts | `MFADevice`, `BackupCode`, lockout counters in the cache, sessions | password sign-in, TOTP, backup codes, set-up, regeneration, disabling | – |
| reports, read-only pages | – | lists, timelines, audit report | read everything |
| core, organizations | request limiter, encrypted fields, health checks | – | – |

### What is hard in it, and what would make each part correct

* **payments.** Callbacks are redelivered, arrive late, early and out of order;
  queries, retries and refunds race with them; a worker can die between any two
  statements.  A settled payment must be booked completely and once; its status
  must move only along `ALLOWED_TRANSITIONS`; one event id and one idempotency key
  must have one effect; a clawback must cancel the fee and not more; every request
  must end.
* **billing, customers.** Two requests under one external reference must end with one
  record; the bill's status is a cache of its allocations, written by payments that may
  settle at the same time and by staff who cancel it.
* **revenue, ledger, receipts.** Insert-only: their correctness is that the rows
  agree with each other and with the payment.
* **control numbers.** Two requests may both find none: at most one active number
  per bill or account, and its creation fee charged once.
* **settlement.** A payment in at most one batch; a batch's totals are those of its
  payments; refunds racing with a batch.
* **reconciliation.** One transaction over every UNKNOWN payment, then over every
  settled one: it writes from instances read at its start and holds all its row locks
  to its end; an exception must be left wherever provider and platform disagree.
* **webhooks, notifications.** An outbox row is delivered at least once, or ends
  dead-lettered / FAILED; nothing is sent for a rolled-back transaction; a row must
  not stay PENDING for ever.
* **audit.** The chain must verify when nobody has touched it, although writers
  read "the last record" concurrently.
* **tenants, api, pages.** No sequence of lookups leaves the tenant of the request,
  although the session names a tenant the user may have lost meanwhile; what has been
  switched off stays off, although others hold instances read before.
* **accounts.** No session without the second factor, no code used twice, no more
  guesses than the limit; each is a read and a later write.

## 2. Modules

| module | what it is |
|---|---|
| `PaymentStates` | the two state machines (`ALLOWED_TRANSITIONS` of payments and bills), the provider's outcomes, and what `_apply_outcome` does on an instance with a given status: nothing, raise, or write |
| `PaymentOrchestrator` | the core: requests as transactions over payments, bills and the insert-only tables |
| `PaymentLifecycle` | the abstract promise about one payment: committed status and net revenue |
| `PaymentSafety` | the properties of the orchestrator, and the refinement mapping to `PaymentLifecycle` |
| `BackOffice` | settlement batches and reconciliation runs beside callbacks, queries, refunds and clicks; shares `PaymentStates` |
| `ControlNumbers` | get-or-create of a bill's or an account's control number, its creation fee, cancellation and expiry |
| `Registration` | get-or-create of customers, accounts and bills by external reference, and the audit chain every creation extends |
| `WebhookDelivery` | rows of the two outboxes (webhook deliveries, notifications) from the request that writes them to their end, on one broker and one set of workers |
| `Portal` | tenants, memberships, roles, credentials, and the views of the portal, the platform pages and the API that show or write rows of tenants, as what each may read and write |
| `SignIn` | one user account: password, device, backup codes, counters and sessions of several browsers |
| `MCPayments`, `MCBackOffice`, `MCControlNumbers`, `MCRegistration`, `MCWebhooks`, `MCPortal`, `MCSignIn` | values of the constants for TLC |
| `SumLemmas` | sums over finite sets: what the proofs about amounts and fees need of `MapThenSumSet` |
| `PaymentProofs`, `NumberProofs`, `SettlementProofs`, `RegistrationProofs`, `WebhookProofs`, `PortalProofs`, `SignInProofs` | theorems, for all values of the constants |

A component module states its own properties at its end; those of the orchestrator
are in `PaymentSafety`.

### How the orchestrator corresponds to the code

*The database* is `payment`, `bill` and `rows` (the committed rows of ledger,
revenue, allocation, receipt, callback, notification, webhook outbox and the mock
provider's table; all of them only grow), and `lock`, who holds the row lock of
each payment and bill.

*A request* `t` has a program counter `pc[t]`, what it was asked (`req[t]`), the
Python instances it has read (`inst[t]`) and its uncommitted writes (`work[t]`).
`Commit` publishes the writes and releases the locks; `Abort` drops them, at any
point of an open request: that is a crash, a lost connection, or an exception in a
later statement.  A request runs once; retries and redeliveries are other requests.

| code | actions |
|---|---|
| `initiate_payment` | `BeginInitiate` (lookup by key), then the INSERT: `InsertConflicts` (IntegrityError, an error response), or the adapter call that ends in `InitiateTimesOut` (UNKNOWN, no reference, although the provider may have succeeded), `InitiateFails` (another `ProviderError`) or `InitiateAnswered` |
| `query_payment` | `BeginQuery`, then `ApplyNoop`, `ApplyRaises` or `ApplyWrites` |
| `process_callback` | `BeginCallback` (signature), `RecordEvent` (INSERT under the unique event id), `MatchPayment` (by `provider_reference`), then the three `Apply` actions |
| `refund_payment`, `reverse_payment` | `BeginCompensation` (status guard and adapter call), `Compensate` (UPDATE and compensation rows) |
| `_allocate_to_bill`, `Bill.transition_to` | `AllocateToBill`, `WriteBill` |
| `cancel_bill` | `BeginCancelBill`, `WriteBill` |

Three points of PostgreSQL are modelled because everything depends on them.  An
UPDATE waits while another transaction holds the row (`Lockable`).  An INSERT that
meets an uncommitted row with the same unique key waits for that transaction and
then fails or proceeds (`KeyPending`, `EventPending`).  A SELECT sees committed rows
and the request's own, and never waits; the instance it fills is not refreshed
later, which is why `ApplyWrites` decides from `inst[t]` and writes to a row that
may have moved.

A step of the model is one point at which another transaction can be noticed.  Rows
inserted in the same step as the status UPDATE (ledger, fee, receipt, webhook) are
invisible to others until the commit and depend on nothing others can change while
the payment's row is locked, so their order inside the step does not matter; the
allocation is a step of its own because it reads the bill and other payments'
allocations.

*Left out of the data:* amounts in `Decimal` are integers (there is no division or
rounding on these paths); references, signatures, payloads and templates are
identities or flags; a callback is a record naming its payment and outcome, and
each such record is one `external_event_id`.  `webhook` rows stand for one delivery
per subscribed endpoint, `notification` rows for one per channel.

### Control numbers

`ControlNumbers` uses the same transactions.  A request looks for a number
(`Lookup`); if there is none, each attempt inserts one under a savepoint (`Insert`,
or `InsertFails` at a unique index), and after an IntegrityError looks again in a new
statement (`ReturnWinner`), tries another value (`Retry`) or lets the error out
(`GiveUp`).  `numbers` and `events` are the committed rows, `work` the uncommitted
row of each request.  Three indexes matter and all are in `Pending` and `Conflicts`:
the value, the bill (whatever the status), the account's ACTIVE number.  `cancel` and
`expire_overdue` are one UPDATE each and take effect in one step; time is abstract, so
any set of ACTIVE numbers may be overdue.

The loser of a race returns the winner's number and writes neither a revenue event
nor an audit record, which `LoserEvents` follows; `docs/CONTROL_NUMBER_SPEC.md:57` ("Every call
also records an audit event") is not true of that path.

### Settlement and reconciliation

`BackOffice` keeps of a payment only what these two services and those that race with
them look at: status, whether it has a provider reference, its batch, and how many
PAYMENT_SUCCESSFUL events it has (`fees`, what a batch's second query sums).  The steps
of a request are those at which another transaction can be noticed:

| code | actions |
|---|---|
| `generate_settlement_batch` | `BeginBatch` (the filter, before any lock), `LockRow` (one row of `select_for_update` at a time, its condition evaluated again after the wait), `CreateBatch` (gross from the locked instances, fee from the events), `Commit` |
| `mark_settlement_completed` | `MarkCompleted` |
| `_resolve_unknown_payments` | `BeginRun` (the instances), then for each, in the order of `Payment.Meta.ordering`: `ApplyWrites`, `ApplyNoop`, and `AllocateToBill`; or `ApplyRaises`: nothing catches what `query_payment` raises, so the whole run rolls back, and reports nothing |
| `_check_settled_payments` | `ListSettled`, `CheckSettled` for each, with `Verdict` |
| `resolve_exception` | `ResolveException` |
| `process_callback`, `query_payment`, `refund_payment`, `reverse_payment` | `BeginCallback`, `BeginQuery`, `BeginCompensation`, then the same steps as in `PaymentOrchestrator` |

PostgreSQL's deadlock detector is external: `DeadlockVictim` aborts a request that waits
in a cycle of waits (`Blocker`).  Runs go through their payments newest first and hold
all of them, while a callback takes a payment and then its bill, so cycles do occur.

`calm` is an environment chosen at the start: while it is TRUE, no two open requests have
read the same payment.  What holds under `calm` only fails for a reason worth knowing: a
run writes from the instances its query returned, so a callback that settles one of
them meanwhile is overwritten and the payment booked a second time; the batch's fee
total then counts two events for one payment.

### Registration and the audit chain

A request looks its reference up (`Lookup`), inserts under a savepoint (`Insert`), stamps
and links its audit record, announces a bill, and commits.  The unique indexes are in
`Conflicts`: an insert that meets an uncommitted row waits, one that meets a committed row
fails.  What then happens differs: `get_or_create_bill` looks again and answers with the
winner's bill or tries another number up to three times, customers and accounts let the
error out.  The audit record takes its time stamp before it reads the last record, and
both are visible at COMMIT only: that is why the chain forks when requests overlap, which
the header of `audit/models.py` admits.  `serial` (one request at a time) is the
environment under which `verify_chain` must succeed.

### The outboxes

`WebhookDelivery` follows the rows that `dispatch_event` and `send_notification` write.
The request commits or rolls back, then the `on_commit` hook enqueues the task, unless the
process dies in between (`HookIsLost`).  A task reads its row (`StartTask`), POSTs or calls
its handler (`Post`), saves from that instance (`SaveResponse`; `SaveSent`, `SaveFailed`)
and then dead-letters or marks RETRYING and publishes itself again (`Retry`, which stops at
`max_retries`): every save is a statement of its own, so these are separate steps.  Two
facts of Celery with Redis are modelled as external: a message is acknowledged before the
task runs, so a dying worker loses it (`WorkerDies`), and a message that waits past the
visibility timeout is handed out a second time (`HandOutAgain`).  The e-mail handler can
raise, the mock SMS handler cannot; no service writes a notice for a channel without a
handler, so that branch of `deliver_notification` is not reached.

### Portal and API

`Portal` treats a writing view as two steps, because nothing it reads is locked:
`EnterTenantView`, `EnterPlatformView` or `EnterApi` resolves the tenant, checks the role and
fetches the instances named in the URL; the action called like the view writes from them.
The tables `TenantViews`, `PlatformViews` and `ApiViews` give each view its roles, `LookedUp`
and `PlatformLookedUp` its lookups.  The session is `chosen`, which the middleware trusts
only after looking the membership up again (`Resolve`).  `serial` here means one writing
request at a time.

*Rows and foreign keys.*  A row has a tenant of its own and a set `links` of the rows it
refers to; `LinkKinds` says which tables a table's foreign keys lead to (a payment to its
control number and its batch, an exception to its payment and its run, ...).  `Beside` is
what a service writes along with the rows of its view: ledger entries, revenue, notices,
a delivery to endpoints of the tenant, a receipt for a payment that has none.

*Pages.*  A page that only reads is the set of rows it shows or counts, an operator with
the view's name.  It starts from the rows its query filters by tenant (`Owned`) and then
follows foreign keys as the view and its template do, forwards (`Over`) and backwards
(`Under`); the code does not look at the tenant again there, and neither do they.
`Readable` puts together what a user may have shown: `MemberPages` with any membership,
`HookPages` and `credential_list` behind a role, `platform_dashboard` for every staff user
(it asks for `is_staff` only, and shows totals over all tenants), `platform_batch_list` and
`platform_revenue_dashboard` for the settlement roles.  `ApiPages` is what the API's GET
views return, `Activity` a customer's timeline, `audit_report` the tenant's trail.

*Which views.*  The actions cover the portal's writing views of customers, accounts, bills
(with `bill_cancel`), control numbers, payments (`pay_bill`, `payment_query`,
`payment_refund`, `payment_reverse`), endpoints, runs and exceptions, credentials and team
members; onboarding, approval, creation of tenants and users, batches and their
completion on the platform side; and the POST endpoints of the API, the payment query
included.  Not here: `mock_provider_callback`, which belongs to no tenant's page and is
`RecordEvent` and `MatchPayment` of `PaymentOrchestrator`; `verify_chain`, which writes
nothing and names one audit record to platform auditors; `team_members`,
`platform_users` and `pending_tenants`, which list users, memberships and tenants and show
no row; sign-in, which is `SignIn`; health checks and the language switch.

### Sign-in

`SignIn` is one account and its browsers.  `record_failure` is two cache calls (`Fails`
reads, `RecordFailure` sets), a backup code is found unused in one step and marked in
another, a regeneration deletes the codes it has read and creates others.  `disable_mfa` is
two DELETE statements with a snapshot each: `BeginDisable` deletes the device if there is
one, whose row is then locked (`DeviceLocked`) until `mfa_disable` has deleted the codes
there are by then and commits; if there is none nothing is locked in between.  `mfa_verify`
writes the code before the device and the others the device before the codes, so two of
them may wait for each other until PostgreSQL aborts one (`DeadlockAborts`).  Sessions,
guesses and uses of a code are histories: no code reads them.  Whether a TOTP code is
right is the environment's choice.

## 3. The runs

The runs of the payment modules use `MCPayments`.  Such a run is described by how many
requests it has (each of any kind), and by `Overlaps`: which rows may be read by a
request while another open request has read them.  `{"payment", "bill"}` means no
restriction at all, which is what the deployment gives; smaller sets describe quieter
traffic and say under which condition a promise does hold.

| run | requests, payments | overlap | shows |
|---|---|---|---|
| `booking` | 4, 1 payment | bill | `TypeOK`; **`BookedExactlyOnce`**: settled payments booked once, others never, across every outcome, redelivery, event ids that differ, retries and crashes; **`ImplementsLifecycle`**: the orchestrator refines `PaymentLifecycle` |
| `billing` | 4, 2 payments of one bill | none | `BillReflectsAllocations`: ACTIVE, PARTIALLY_PAID and PAID say what was allocated |
| `overlap` | 4, 2 payments of one bill | both | `SettledIsBooked`, `BooksAgree` (each booking complete, one receipt), `EventConsumedOnce`, `PaidIsCovered`: true whatever the interleaving |
| `answered` | 3, 2 payments with one idempotency key, one of them account-bound | both | `OnePaymentPerKey`; `EveryRequestEnds`: no request waits for ever |
| `double_booking` | 3, 1 | both | violation of `BookedExactlyOnce` |
| `unmatched_event` | 3, 1 | none | violation of `DuplicateWasProcessed` |

| run | instance | shows |
|---|---|---|
| `back_office` | 2 payments of one bill, 3 requests: a batch or a run, beside another batch or a callback, beside a refund, query, completion or resolution; `calm` or not | `ClaimsAreFinal`: a payment enters one batch, SUCCESSFUL, for ever; `BatchTotals`: gross is the sum of the payments that point to the batch (the fee total too under `calm`); `NothingOverlooked`: a completed run leaves no disagreement unreported; `SettledStays`: under `calm` only a compensation moves a settled payment; `EveryRequestEnds`, deadlock victims included |
| `control_numbers` | 3 requests, one bill, one account, 3 values, 2 attempts | `OneNumberPerOwner`; `CreationChargedOnce`: the fee once per issued number, never for a reuse, a lost race or a collision; `AnswersAreTrue`: the number returned is the owner's, and `created` exactly for the request that was charged; `EveryRequestEnds` |
| `registration` | 4 requests, one reference, two bill numbers, 3 attempts; `serial` or not | `OneRecordPerReference`; `AnsweredOnce`: the answer is a committed record of what was asked for, with a committed parent, audited once by its creator; `ChainVerifies` |
| `webhooks` | one delivery, or an e-mail and an SMS notice; 2 workers, one message handed out twice; `max_attempts` and `max_retries` are equal, as in the code, but 5 instead of 6 | `QueuedIsCommitted`; `OutcomesAreEarned`: DELIVERED, SENT and DEAD_LETTER only after what they claim; `UnfinishedIsCarried`; `FinishedIsFinal`; `EventuallyFinished` |
| `portal` | an active and a pending tenant and a free one, 15 rows (one or two of every kind) and 11 free ones of the kinds a view creates, 3 users and a platform administrator, 2 credentials, 3 writing requests from 30 views; `serial` or not | `TenantsAreSeparate`; `PagesStayInside`; `AdminRemains`; `SwitchedOffStaysOff` |
| `sign_in` | 2 browsers, 2 codes in sets of one, 2 devices, limit 2; `serial` or not | `SecondFactorHolds`; `FactorsMatch`; `LockoutHolds` |

*Why these bounds.*  The hazards of this code are between two requests, on top of the
one that created the payment: three requests reach every pairwise race about one
payment, and four add a crash, a redelivery, a refund or a cancellation before or
after it.  Two payments of amount 1 on a bill with total 2 make each payment partial
alone and covering together, which is the boundary of `_allocate_to_bill`.  The fee
is 50 as in `revenue/services.py`; its size matters to no guard.  Nothing else is
bounded: the tables grow only with the requests.  `Symmetry` permutes requests,
browsers or codes, which the specifications never tell apart; it is not used in runs
that check a temporal property naming one.

In `back_office` two payments with different amounts tell the sums apart and, with
their bill, are enough rows for a cycle of waits; a run that has both, another writer
and a third request reach every pair the hazards name.  Three requests for control
numbers give two racers and one who finds or loses again after a cancellation; two
attempts instead of five reach every branch of the loop, including its end.  Four
creations let two race for a bill under an account and a customer that two others
create.  The webhook and the notices are alternative bursts (`EachAlone`): rows share
nothing but workers, and two workers are what the two messages of one row, or the two
notices, can occupy.  In `portal` two of the three writing requests may each be one of fifteen views, divided so
that the races the hazards name fall to different requests, and the third reactivates a
customer; the rows are linked in one chain from a delivery, an exception and a receipt
back to the customer, with two numbers (of the bill and of the account), and a second
tenant is what a wrong lookup would find.  Five views are in no request's list because
another view of theirs has the same action: four POST endpoints of the API and the bulk
deactivation.  find.  `MaxSecret`, `MaxGuesses`, `MaxDevices` bound counters: one rotation, one wrong
answer past the limit, one device set up again.

The limits of `webhooks` are the one constant of the code that is made smaller: 6 tries
(`webhooks/models.py:57`) and 6 retries (`webhooks/tasks.py:68`) are 5 and 5, which keeps
what matters, that the tries run out before the retries do; the notice's limit is the
code's 3.  With 6 and 6 the run passes too but takes nearly five minutes, and the theorems
hold for all limits with `MaxAttempts =< MaxRetries + 1`.

Deadlock is checked wherever ending is modelled (`AllEnded`, `Idle`, `Done`).  In
`registration`, `portal` and `sign_in` it is not: each request runs once or the account
may simply be left alone, so stopping is no error there.

### What the code does not keep

Two sentences of the repository are refuted by a run; the lines are in `PROJECT.json`
under `findings`.

* **Double booking** (`double_booking`). Two success callbacks with different event ids
  (or a callback and a query) that both read the payment before either commits each pass
  the status test in `_apply_outcome`; the second waits for the row lock and then books
  again.  `BookedExactlyOnce` holds as soon as requests about one payment do not overlap
  (run `booking`).  The same race makes the committed status jump along edges
  `ALLOWED_TRANSITIONS` does not have, since `transition_to` checks the instance and not
  the row.
* **Early callbacks are lost** (`unmatched_event`). A callback that arrives before the
  payment commits is stored UNMATCHED under its event id, so the provider's redelivery is
  answered DUPLICATE and its outcome never applied.  A later query still finds it.

Other limits are hypotheses of a property: drop `calm`, `serial` or the restriction in
`Overlaps` and TLC shows what follows.

* Refund and reversal both pass the SUCCESSFUL guard when they overlap; net revenue
  goes to minus one fee.
* Two payments that settle together each see only their own allocation and leave a
  covered bill PARTIALLY_PAID; `initiate_payment` does not look at the bill's status, so
  a cancelled bill's number can be paid and charged.
* A callback resolves an UNKNOWN payment that has its reference, which the lifecycle
  document reserves to `query_payment`.
* A reconciliation run that overlaps a callback overwrites the settled payment and
  books it again.
* A callback that read a payment PENDING, before a run met it UNKNOWN and settled it, can
  still write UNKNOWN over it, and the completed run has reported nothing.
  `NothingOverlooked` therefore speaks of payments that are past PENDING at first
  (`Started`), or of requests that do not overlap.
* A row whose message is handed out twice is excepted from `UnfinishedIsCarried` and
  `FinishedIsFinal`: the two tasks save stale instances over each other, so DELIVERED can
  go back to RETRYING and be POSTed again, and `attempt_count` can go back until both
  tasks have used up `max_retries` and the row is RETRYING for ever.  A row whose process
  died is excepted too: nothing looks for PENDING rows.
* Audit records of overlapping requests fork the chain, so that `verify_chain` reports
  a break nobody made.
* Two administrators can deactivate each other; an edit of a customer saved from an
  instance read before a deactivation reactivates the customer (a credential's rotation
  does not: it saves named columns).  A tenant that is still pending can already work in
  the portal.
* Two browsers that present one backup code at once both get in; failures that overlap
  are counted once; a regeneration that overlaps `mfa_disable` leaves codes without a
  device.
* A device can stay confirmed without a backup code: `disable_mfa` finds no device to
  delete, another browser sets one up and confirms it, and the second DELETE takes the
  fresh codes (`mfa_services.py:87-88`; `accounts/models.py:58-62` says what codes are for).
  `FactorsMatch` says that this is the only way.

One more consequence of `ATOMIC_REQUESTS` is in the model but in no property: the
adapter is called inside the transaction, so a request that crashes after the call rolls
its Payment back and a retry under the same key contacts the provider again (`calls`
keeps both).  No row of the database can tell, so there is nothing the platform promises
about it that could be stated.

### Fairness

`FairSpec` of the orchestrator and of `ControlNumbers` adds weak fairness of `Step(t)` for
each request: a worker that has begun a request keeps executing it when it is not
blocked.  Beginning a request and crashing are never obliged.  Weak fairness is enough
because a waiting request becomes enabled for good once the holder of the lock or key
has ended: each request waits at most for one payment, then for one bill, and the
payment rows are always locked before bills.

`BackOffice` assumes less, weak fairness of *some* request's step: while one can go on,
one does.  Each request has finitely many steps, so this suffices; the deadlock
detector's step is one of them, as PostgreSQL looks for cycles after `deadlock_timeout`.

`WebhookDelivery` assumes that a committed request runs its hook, that a worker goes on
with its task, and that workers take what is queued (the queue is served in order), each
unless the process dies.

## 4. Proofs

Each theorem assumes only the named assumptions of its module (`ConstantsAssumption`,
`NumbersAssumption`, `BackOfficeAssumption`, `RegistrationAssumption`,
`DeliveryAssumption` and `NoTaskAssumption`, `PortalAssumption`, `SignInAssumption`): the
constants have the types the schema gives them, and the null values are not confused
with real ones.  The sets of requests, payments, rows, users, workers and so on may have any
size and the limits any value.  TLC checked each strengthened invariant on the
instance of its run first.

* `SumLemmas`.  `MapThenSumSet` folds a set by recursion, and its laws (the empty sum, one
  element more, a larger set, a product) need induction over finite sets.  The library's
  induction theorems take a predicate, which the provers here cannot instantiate; so the
  induction is stated with a *set* of good subsets in the place of the predicate
  (`SubsetInduction`, from the well-foundedness of the strict subset order).
* `PaymentProofs` proves every safety property of the orchestrator, in layers.
  * `TypeInv`: `TypeOK` is not inductive, since the type of a staged row depends on the
    operation of the request that stages it; `ReqOK` ties `pc[t]` to `req[t]` and to the
    instance that has been read.
  * `BookedInv` gives `SettledIsBooked`.  The property speaks about committed rows, and
    becomes true at `Commit` from what was staged before; `StagedIsBooked` says that a
    request that has staged a settled status has staged, or finds committed, the fee and
    the receipt, and once past `allocate` also the allocation.  For a compensation this is
    what the SUCCESSFUL payment its guard has read had booked; rows are never deleted, so
    it is still booked at the commit, however stale the instance.
  * `PreparedInv` says what a request has read and staged by its place in the code: whose
    rows they are, which books are complete, what they charge, which move of the state
    machine it is about to publish.  `HoldInv` says which payments exist and who may write
    them: who stages a status of an existing payment holds its lock, and one request at
    most creates a payment.  `RowsInv`: committed rows are by committed requests.
    Together they are `BaseInv`.
  * `NextGuarded`: every action but `Commit` is a `Guarded` step: it publishes nothing,
    touches one request, waits for the lock, key or event it takes, and reads what is
    committed.  `Commit` publishes exactly what was staged.  Each theorem after this needs
    one lemma for a guarded step and one for a commit, and not one for each action.
  * `KeyInv` (who has staged a payment with a key owns the key), `EventInv` (the same for
    an event id) and `BooksInv` (no two requests have a receipt of one payment staged or
    committed) give `OnePaymentPerKey`, `EventConsumedOnce` and `BooksAgree`; `PaidInv`, with
    sums that only grow, gives `PaidIsCovered`.  These hold for every overlap.
  * Under `"payment" \notin Overlaps`, `OnceInv` (a request that has read a payment is alone
    with it and has read what is committed) gives `BookedExactlyOnce`; under
    `"bill" \notin Overlaps`, `BillInv` does the same for `BillReflectsAllocations`.  These
    assumptions are those of the runs, and without them TLC refutes both (section 3).
  * `OrchestratorImplementsLifecycle`: a guarded step is a stutter of `PaymentLifecycle`, and
    a commit is `Move` for its payment when it has staged a status and `Stay` for all
    others.  The sum `NetFee` grows by the one revenue row the commit adds.
    `RevenueFollowsStatus` then follows from the abstract specification: the net revenue
    of a payment is a function of its committed status.
* `NumberProofs`.  `OneNumberPerOwner`: what is unique in the committed rows is decided when a
  request inserts, not when it commits, so the invariant adds `StagedFree`: an inserted
  row conflicts with no committed one and with no other inserted one.  Nobody can break
  it, since everyone else waits or fails at the index; cancellation and expiry only free
  an account.  `CreationChargedOnce` and `AnswersAreTrue` need `FeeInv` as well: what each
  issued number was charged, by whom, and that an answer which is not "created" is a
  number that was committed before.
* `SettlementProofs`.  `Inv` says what a request may rely on until it ends: a claimed row is
  locked by it and still claimable, a staged row is locked by it and was read (`Held`);
  and, under `calm`, that no two requests have read one payment (`Alone`) and that an
  instance agrees with its row until the request itself writes it (`Fresh`).
  `ClaimsAreFinal` needs only the locks, `SettledStays` only `Fresh`.  `BooksInv` adds what
  was computed: the totals a batch will store are those of the payments it has claimed,
  which is still so when it commits, because nobody else can claim them and no batch
  loses one; one fee event for each SUCCESSFUL payment under `calm`; and for a run, that
  every payment it met is still to do, staged, reported, or matched (`Looked`).  This gives
  `TypeOK`, `BatchTotals` and `NothingOverlooked`.  The last is proved twice: for every
  overlap if no payment is PENDING at first, since then none can become UNKNOWN again
  (`Decided`), and under `calm` without that assumption.  The proof attempt for the general
  case is what showed that it is false (section 3).
* `RegistrationProofs`: `TypeOK`, `OneRecordPerReference`, `AnsweredOnce`, `ChainVerifies`.
  The invariant ties what a request has written to where it is (`Written`, `Answered`)
  and says that attempts are left while it tries (`TriesLeft`: `range(3)` never ends in
  the middle); for the chain, that under `serial` the open request's record is the next
  in time and hangs from the last.
* `WebhookProofs`: `TypeOK`, `QueuedIsCommitted`, `OutcomesAreEarned`, `FinishedIsFinal`, and
  `UnfinishedIsCarried` under `MaxAttempts =< MaxRetries + 1`, the relation the two limits
  of the code must keep.  `Sound` is what remains true when messages come twice: counters
  never exceed the tries made.  `Sole` is the case of one message: a row has one carrier at
  a time, and that carrier's `retries`, its instance and the row's `attempt_count` all equal
  the number of tries, which is what makes `max_attempts` reached before `max_retries`.
* `PortalProofs`: `TypeOK`, `TenantsAreSeparate` and `PagesStayInside` from `Separate`, for every
  overlap: every foreign key stays in its row's tenant and leads to a table it may lead to
  (`Sound`), an audit record is of its target's tenant (`Traced`), and what a request has
  looked up is its tenant's (`Looked`) and of the table its view works on (`Asks`).  A row
  never changes its tenant (`Stays`), so what was read stays true until it is written from.
  `PagesInside` then follows each page along its foreign keys, any number of rows wide.
  `AdminRemains` and `SwitchedOffStaysOff` come from `Sequential`, which adds that under
  `serial` what a request has read is still so.
* `SignInProofs`: `TypeOK`, `SecondFactorHolds`, `LockoutHolds` and the action property
  `FactorsMatch`; the invariant relates the counter, the guesses and the one open request.
  The second half of `FactorsMatch` needs nothing of `serial`: `FactorsStep` goes through the
  steps that touch a device or codes and finds the one exception.

Every invariant and action property of the passing runs, and the refinement, is stated by
a theorem; `PROJECT.json` lists which.

*Only model-checked:* `EveryRequestEnds` (of payments, settlement and control numbers) and
`EventuallyFinished`: liveness under fairness is outside the prover.  The two violations are
counterexamples, which TLC finds and no proof is about.

## 5. Not modelled

* Serializers, forms, templates, filters, totals and CSV of reports: computations of one
  request without shared state.
* Throttling of requests (`core/ratelimit.py`): one atomic counter that fails open.
* The arithmetic of TOTP, hashing of codes and secrets, encrypted columns, signatures:
  taken as right or wrong.
* Organizations: branches and revenue sources, structure that a bill or an account may
  name and no property is about.  A tenant's `fee_refund_policy` is the constant `Clawback`;
  it does not change during a run.
* The Django admin (`config/urls.py:15`).  It is a second program on the same tables, and
  not read-only: who has its permissions sees rows of every tenant and edits what its
  `ModelAdmin`s allow.  It also has a sign-in of its own, `/admin/login/`: for staff, by
  password alone, without the throttle, and it opens the same session the portal uses.  So
  `SecondFactorHolds` and `LockoutHolds` speak about `EmailLoginView` and `mfa_verify`, and
  `PagesStayInside` about the portal and the API; none of them holds of the site as a whole
  for a user with `is_staff`.
* Bill expiry and disputes: the statuses are in `BillTransitions`, but no service
  performs them.
* Health checks: they read and log.
* Tampering with audit rows: `save` and `delete` of an existing record raise, so the
  program has no step that does it.

## 6. What is left

1. Composition of `BackOffice` with the full books of `PaymentOrchestrator`: the ledger rows
   of a payment a run settles.  The state space of the two together is beyond a run of
   minutes; sharing `PaymentStates` is what keeps them consistent now.
2. Theorems about what the abstract specifications of the other components would be: a
   batch as an atomic claim, an outbox row as a message that is sent or given up, and
   the components shown to implement them as the orchestrator implements
   `PaymentLifecycle`.
3. A sharper account of overlap: which single pairs of operations break
   `BookedExactlyOnce` and `NothingOverlooked`, instead of a condition on all requests.
