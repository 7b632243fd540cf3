# TLA+ models of the crypto payment gateway

The gateway quotes a merchant's price in a crypto asset, derives an address for
each payment, watches the chains for transfers to it, credits the merchant when
enough has been confirmed, tells the merchant by webhook, and moves what has
accumulated to a treasury. Everything runs in one process: workers are
`setInterval` callbacks over one PostgreSQL database, and **no interval waits
for its previous callback**. A callback yields at every `await`, so each of its
transactions, autocommitted statements and RPC calls may interleave with every
other callback, its own successor included. That is what these modules model.

Paths below are relative to the repository root.

## 1. Inventory

| Component | Code | State | Operations | Hard part | Should hold |
|---|---|---|---|---|---|
| Settlement | `src/services/payments.ts` | `payments`, `deposits`, `clients.balance_cop`, `ledger_entries` | `createPayment`, `registerDeposit`, `confirmDeposit`, `expireStalePayments` | several workers write one payment | one credit per payment, at the threshold, final, atomic with ledger and webhook |
| EVM watcher | `src/workers/watcher.ts` | watched addresses (process memory) | refresh, subscription, backfill | late, duplicate, re-mined logs | every log counted once |
| Native watcher | `src/workers/native-watcher.ts` | cursor, `scanning`, watched map | head, idle head, scan, backfill, refresh | the backfill moves the cursor under a running scan | no watched transfer is passed over below the cap |
| Tron watcher | `src/workers/tron-watcher.ts`, `src/services/tron.ts` | check cooldown | tick, on-demand check | listed is not mined; pages and lookups fail | a mined transfer is found |
| Confirmers | `src/workers/confirmer.ts`, `tron-confirmer.ts` | a selected batch | maturity, receipt, unwind or confirm | stale batch, failed lookups, reorganisations | counts what is final, unwinds what is gone |
| Expirer | `src/workers/expirer.ts` | local rows | expiry tick, delivery tick | races confirmation; two statements | every lapse announced, paid stays paid |
| Webhook queue | `src/services/webhooks.ts` | `webhook_jobs` | enqueue, deliver | overlapping batches of snapshots | at-least-once, bounded, spaced |
| Sweep planning | `src/services/sweeper.ts` | `sweeps` | ledger, economics, decide, record | planning while sweeping; missing rates; rounding | no value planned twice, none moved at a loss |
| Sweep execution | `src/workers/sweeper.ts`, `src/services/evm-sweep.ts` | `sweeps`, domain cache, nonces | authorize, broadcast, confirm, fail | crash between broadcast and record; overlap; reorganisation | funds move once; the ledger agrees with the chain |
| Sweep reconciliation | `src/workers/sweep-recon.ts` | rotating cursor | audit tick | reads at different times, slices that move | a lasting loss is reported |
| HD wallet | `src/services/wallet.ts`, `derivation.ts` | `hd_counter` | reserve, boot check | concurrent reservations, another seed | an index is issued once, to one tree |
| Rates | `src/services/rates.ts` | FX and asset caches | quote, `copToRaw` | lookups late, failed or out of order; rounding | never short, never staler than stated |
| Console sessions | `src/services/admin-auth.ts`, `src/api/admin-auth.ts` | `admin_users`, `admin_sessions`, throttle | bootstrap, login, resolve, slide, revoke | no two statements are one transaction | an ended session stays ended |
| Console writes | `src/api/admin-write.ts`, `src/services/audit.ts` | merchants, audit log | edits with audit rows | mutations and payments of one merchant race | the trail explains the row |
| Console reads | `src/api/admin.ts` | none | answers of several queries | workers commit in between | an answer adds up |
| Treasury view | `src/services/treasury.ts` | balance cache | `walletOverview` | overlapping reads replace entries | its age does not flatter |
| Merchant API | `src/api/routes.ts`, `auth.ts`, `http.ts` | check cooldown | create, show, check | cooldown across an await | thin handlers |
| Supervisor, boot | `src/workers/supervisor.ts`, `src/index.ts`, `src/config.ts` | phase, retry delays | preflight, seed check, probe, drain | one timer per network keeps it alive | workers start when the RPC is back |
| Observability | `src/observability/` | throttle, ring, export queue | log, repeat, tail, flush | limits, batches lost in flight | what is lost is counted |
| Console page | `web/src/admin/` | query cache, flags, API keys | sign in and out, read, rotate | answers land late | signing out leaves nothing |
| Checkout page | `web/src/checkout/` | query cache | poll, check | answers out of order, polling stops | a settled payment is shown paid |

How they interact: watchers call `registerDeposit`, confirmers call
`confirmDeposit`, the expirer calls `expireStalePayments`; all three enqueue
rows that the delivery loop later reads. The sweeper reads only confirmed
`deposits` and writes only `sweeps`; the reconciliation audit reads both and the
chain. The console edits the merchants whose URL and secret the delivery loop
reads and whose id `createPayment` references. Requests draw on the wallet's
counter and on the rate caches. There are no direct messages between workers:
the database and the chain are the only shared state. The two pages reach the
process over HTTP alone.

Every hazard we know of is in `PROJECT.json` under `hazards`, at its line, with
the properties that would catch it.

## 2. Order of the work

The money path came first, then what feeds it, then what surrounds it:

1. `Settlement` with the abstract account `MerchantCredit`; `SettlementProofs`,
   with the lemmas about sums over finite sets in `SumLemmas`.
2. `WebhookDelivery`; `WebhookProofs`.
3. `SweepExecution`; `SweepProofs`.
4. The intake, composed in `MCIntake`: `PaymentIntake`, `Rates`,
   `NativeWatcher`, `TronWatcher`; `IntakeProofs`.
5. The surroundings, composed in `MCOffice`: `MerchantConsole`,
   `ConsoleSessions`, `Telemetry`, `ConsoleReads`, `ConsoleClient`,
   `SweepPolicy`, `WalletOverview`, `Boot`, `SweepRecon`, `Checkout`;
   `ConsoleProofs` (of `MerchantConsole`), `SessionsProofs`, and `OfficeProofs` of
   the others and of the composition.

Left to do: a composition of `Settlement` and `WebhookDelivery` (what a merchant
is told against what it was credited), and an abstract specification that
`SweepExecution` implements, as `MerchantCredit` is of `Settlement`.

## 3. Modules and the code

### Settlement

One network, one database. An action is one transaction, one autocommitted
statement or one RPC answer.

| State | In the code |
|---|---|
| `payment`, `deposit`, `balance`, `ledger`, `hooks` | tables `payments`, `deposits`, `clients.balance_cop`, `ledger_entries`, and the number of jobs enqueued per payment and event |
| `watched`, `inFlight` | the addresses the subscription filters on; logs whose handler has not run |
| `ticker[k]` | a callback of a confirmer: the rows it selected and the one in hand |
| `expirer[x]` | a callback of the expirer: its `now`, the updates done, the jobs still to enqueue |
| `mined`, `now` | the chain and the clock: one block per time unit |

| Actions | In the code |
|---|---|
| `CreatePayment` | `createPayment` |
| `Resubscribe`, `DeliverLog` | `resubscribe`; `onLogs` and `backfill` |
| `RegisterDeposit`, `RegisterDuplicate` | `registerDeposit`: inserted, or refused by `deposits_tx_log_idx` |
| `TickStart`, `ReceiptFound`, `ReceiptMissing`, `ReceiptLookupFails`, `UnwindDeposit` | the confirmer's callback. A lookup that throws is caught and handled like a missing receipt, as in both confirmers |
| `ConfirmSkipped`, `ConfirmWrongAsset`, `ConfirmAfterPaid`, `ConfirmSettles`, `ConfirmPartial` | the exits of `confirmDeposit`, each one transaction holding the payment's lock |
| `ExpireStart`, `ExpireQuotes`, `ExpireGrace`, `Announce` | `expireStalePayments`: two updates, then one transaction per job |
| `Mine`, `Reorg`, `Tick`, `Restart`, `TickFail`, `ExpirerFail` | the environment: chain, clock, crashes and failed calls |

Row locks are implicit: a transaction that holds the payment's lock is one
action. Inputs are constants (`sentTo`, `sentAsset`, `sentRaw`): what a payer
will have sent is fixed, when it is mined and where is not.

`MerchantCredit` is what a merchant is promised: a payment not yet credited is
credited once, with its ledger entry and its job. `CreditsAtomically` states
that `Settlement` implements it.

### WebhookDelivery

`job` is `webhook_jobs`; `client` whether a merchant has a URL; `runner[r]` one
call of `deliverPendingWebhooks` with the snapshot it works through. `Pick` is
the select, `Post` the start of the fetch, `Accept` the merchant's answer,
`RecordDelivered` and `RecordFailure` the statements behind it, `DropJob` the
branch without a URL. `posts`, `lastPost` and `accepted` only record what
happened. An answer the merchant gave may be lost, and then `RecordFailure`
follows. `SetUrl` is the console's.

### SweepExecution

One EVM network. `sweep` is the table in the order of `created_at`; `tx` the
transactions sent; `received` and `confirmed` what arrived and what the deposits
table has confirmed; `domain` the cached EIP-712 domain; `ticker[k]` a tick.

| Actions | In the code |
|---|---|
| `PlanStart`, `DecideSweep`, `DecideSkip`, `InsertRow` | `plan`: `unsweptLedger`, `decide`, `record` |
| `SelectDue` | `dueSweeps` |
| `AuthorizeToken`, `ReadBalance`, `AuthorizeNative` | `authorize` |
| `CheckUsed`, `SignAuthorization`, `DomainUnverifiable`, `BroadcastNative`, `Send`, `SendUnheard`, `SendRefused`, `RecordBroadcast` | `broadcast`, `signAuthorization`, `sendFrom` |
| `StillMaturing`, `ReceiptUnread`, `Moved`, `Reverted`, `MissingHash`, `RecordConfirmed`, `RecordReverted` | `confirm`, `sweepReceipt` |
| `RecordFailure`, `Throws`, `SetRefused`, `TickFails` | `fail`, called in the `try` (`failing`) or in its `catch` (`fail`), and what leads there |
| `Mine`, `Finalize`, `Reorg`, `Drop`, `Lapse`, `Receive`, `ConfirmDeposit`, `Restart`, `BackoffEnds` | the chain, expiring authorizations, deposits, crashes, the backoff |

The chain mines an account's transactions in nonce order, moves tokens once per
authorization, and a node replaces a pending transaction of the same nonce or
refuses it. There is no clock: a backoff is "later" until it ends at some time,
an authorization lapses at some time, and a mined transaction is `shallow` until
it is `final`.

### PaymentIntake, Rates, NativeWatcher, TronWatcher

| Module | State | Actions |
|---|---|---|
| `PaymentIntake` | `hasRow`, `counter`: the row of `hd_counter`; `proc`: processes with their mnemonic; `call`: `createPayment` in progress; `issued`: what was returned, in order | `Boot`, `assertSeedIdentity` (its read) and `Adopt` (its update), `CheckDeferred`; `Request`, `Quoted`, `reserveDerivationIndex` (one statement), `SeedMismatch`, `InsertPayment`; `Crash`, `CallFails` |
| `Rates` | `fxCache`, `rateCache`; `call`: the two lookups of `getRateCopE6`; `served` | `CacheHit`, `Ask`, `fetchUsdPrice`, `fetchUsdCop`, `getUsdCopFails`; `Settle` is `Promise.all`, `Degrade` the catch |
| `NativeWatcher` | `lastScanned`, `watched`, `scan` (its presence is `scanning`); `call`: refreshes and backfills | `Head`, `IdleHead`, `ReadBlock`, `Credit`, `Advance`, `ScanFails`, `BlockNotFound`; `SelectOpen` and `refreshWatched` (a query and the assignment behind it), `BackfillScan` |
| `TronWatcher` | `call`: scans with the feeds still to list and the candidates in hand; `stamp`: when a transfer was first listed; `lastCheck` | `activePayments`, `List`, `Resolve`, `ScanDone`, `ScanFails`; `CheckRead`, `CheckPasses`, `CheckSkipped` |

An address is the path it is derived by; a rate is the time a provider gave it.
`NativeWatcher.sighted` records the transfers mined ahead of cursor and scan to a
payment that has been watched, and which have been among the last
`nativeBackfillBlocks`, ever since: the ones nothing may excuse passing.

### The office modules

| Module | What an action is | State beside the tables |
|---|---|---|
| `MerchantConsole` | the start, the `SELECT ... FOR UPDATE`, the commit or the rollback of a mutation; the read, the insert and the detached audit row of a payment | `locked`: who holds the merchant's row |
| `ConsoleSessions` | one statement of a bootstrap, a login or a request | `throttle`: the map of attempts; histories of resets and ended sessions |
| `ConsoleReads` | one query of the wave an answer awaits; one transaction of a worker | `got`: what the answer has read |
| `ConsoleClient` | a request leaving, its answer on the server, its landing in the page | `sessionExpired`, query cache, `sessionStorage` |
| `Telemetry` | a call of the logger, a poll of the tail, a flush and its end | ring, queue, batch in flight, counters |
| `SweepPolicy` | `economicsFor` with any rate missing; `decide` | none |
| `WalletOverview` | the cache lookup of a call, each wallet's read, the entry of a network | cache |
| `Boot` | a stage of `index.ts`, a probe, a unit of time, a signal | armed timers, `retryMs` |
| `SweepRecon` | the slice, each of the two reads, the report | `cursor`; ledger and chain as one number per pair |
| `Checkout` | a request leaving, its read of the payment, its landing | the status query's data |

`ConsoleReads` does not repeat `Settlement`: it takes each of its transactions
whole, with what it changes of the rows an answer shows. `Checkout` takes of it
only which status may follow which, reopened payments included.

### Composition

`MCIntake` and `MCOffice` put components side by side that meet only through
arguments and rows each of them models for itself: a behaviour belongs to the one
component `on` names, so one run explores each of them completely, and none
multiplied by another; the variables of the other components keep the value
`Absent`, or a value of their type where a fairness condition or a temporal property
evaluates them regardless.
Where two components have a variable of one name (`now`, `cache`, `payments`,
`faults` of `MCOffice`), it is one variable, used by the component that is on.
`PaymentIntake` and `MerchantConsole` are extended, so that the runs check their
definitions themselves; a property of another component is its own definition,
under its turn (`QuoteFresh` of `MCIntake` is `on = "rates" => Rate!QuoteFresh`).
Every parameter of a component is a constant of the composition, given its value
in `intake.cfg` or `office.cfg`, so that the theorems are about all values of it.
Fairness is the component's, restated over its own variables.

`MCWebhookDelivery` adds one history variable, the jobs two calls have held at
once: the claims about one call at a time are then about the other jobs, in the
run that has overlapping calls.

## 4. Runs

Every run stops somewhere: the clock, the rows and the faults are bounded, so
`CHECK_DEADLOCK FALSE` is set in all of them.

| Run | Question | Bounds |
|---|---|---|
| `settle_reorg` | do confirmed amounts stay backed, does a paid payment rest on transfers that arrived, and do deadlines stay, with a reorganisation or crash? | 1 payment, 2 half transfers, 3 rows, 1 confirmer, 1 fault, time 3 |
| `settle_overpay` | threshold, surplus, single credit, finality and announced lapse at every order | 3 transfers around the tolerance, one in another asset, 1 confirmer, 2 expirers, no faults, time 2 |
| `settle_overlap` | atomic credit, and a balance equal to its ledger, with overlapping confirmers | 2 payments of one merchant, 2 whole transfers, 3 rows, 2 confirmers, 1 fault, time 2 |
| `settle_live` | do open payments and mature deposits resolve? | fair, 2 half transfers, 1 fault, time 2 |
| `hook_overlap` | what do overlapping calls preserve, what holds of jobs they do not share, and is every job settled in the end? | fair, 1 job, 2 calls, 3 attempts, 1 edit, 1 fault, time 6 |
| `sweep_once` | do the funds of a row move once, and does confirmed mean moved, on both mechanisms? | 1 tick, a token and a native pairing, 2 deposits each, 2 rows, 3 transactions, 2 attempts, 1 fault, 1 reorganisation, 1 eviction |
| `sweep_live` | is no value planned twice, and does every live row resolve? | fair, 1 tick, 1 token pairing, 2 deposits, 3 rows, 6 transactions, 1 fault |
| `intake` | is an index issued once and to one tree; are quotes fresh and never short; is what was paid on a coin or on Tron found? | `PaymentIntake`: 2 processes, 2 mnemonics, 2 calls, 3 indexes, 1 fault. `Rates`: 2 calls, lifetimes 1 and 2, time 3. `NativeWatcher`: fair, 1 payment, a refresh, a backfill of 2 blocks, height 2 to 5, 1 fault. `TronWatcher`: fair, 2 transfers, each of the coin or of a token, to one payment, pages of 1 row, a tick and a check, cooldown and time 1, 1 fault |
| `office` | one question for each module of the office | `MerchantConsole`: 2 requests, 2 audit rows, 1 payment. `ConsoleSessions`: 2 boots with different passwords, 2 logins, 1 request, time 3. `Telemetry`: queue, ring and batch of 2. `ConsoleReads`: 2 partials of 1 payment, 3 deposits. `ConsoleClient`: 1 read beside the four other requests, 2 faults. `SweepPolicy`: rates and amounts of every remainder, floors of quarters of a peso, with a gas ceiling and without. `WalletOverview`: 2 calls, 1 network. `Boot`: 2 networks, a delay that doubles and meets its cap. `SweepRecon`: 3 pairs, two of one address, in slices of 1, 1 tick, 2 faults. `Checkout`: 2 faults |

Why the bounds suffice: every property speaks of one payment, job, row, session,
index or block and of at most two callbacks that hold it, so two of each reach the
orders that matter. A third row leaves room to register a transfer again after its
row was unwound; a third pair makes a slice that is neither the first nor the last;
a block beyond the backfill's two can be skipped. The time bounds cover creation,
quote, grace and maturity with windows of one unit, and one expiry of each cache.
Two or three attempts cover "retry" and "last attempt". One fault, at any step,
reaches each error path; two reach a failure while another is handled, and in the
audit a loss beside a failed read or tick. In a page of one row one of two transfers
crowds out the other. The transfers are given three shapes: halves of the price,
amounts at the edge of the tolerance, and the whole price.

`RowMovesOnce`, `NeverOvercommitted`, `EndedRowsStay`, `ConfirmedIsBacked` and
`PaidWasReceived` are claims about one callback at a time: the runs that check them
have one. That is what the code achieves when a callback ends within its interval;
the disagreements listed below say what happens otherwise. `PostsAreCounted` and
`RetriesBackOff` are claims about jobs no two calls have held at once.
`AnswersAddUp` compares the deposits of a payment with its row as long as none of
its confirmed ones is unwound (`torn` remembers which was): an overlapping confirmer
deletes by id what another has just confirmed (`confirmer.ts:84`), and the row keeps
its amount. `ListedIsFound` is a claim about transfers that fit a page (`onPage`),
and `LossReported` about assets that are alone at their address (`Alone`).
`ConfirmedMeansMoved` is a claim about a chain that keeps its blocks,
`SweepsResolve` about a mempool that evicts nothing, `LapseAnnounced` about a
process without faults, and `CursorHonest` and `TransfersFound` about blocks no
older than the backfill reaches.

### Where the code and its documents disagree

Each of these runs checks a sentence of the repository as a property, and TLC
finds a behaviour of the code that violates it.

| Run | What happens | The sentence |
|---|---|---|
| `refute_unwound` | one failed receipt lookup deletes the row of a final transfer (`confirmer.ts:66`) | `confirmer.ts:73` |
| `refute_partials` | a partial payment without a grace deadline stays open for ever (`payments.ts:471`) | `payments.ts:423` |
| `refute_native` | a native send that was not heard of is repeated under a new account nonce (`workers/sweeper.ts:247`) | `workers/sweeper.ts:195` |

`refute_partials` is temporal and uses the fair specification.

Further disagreements met while modelling, on which no run is spent. Some are deliberate trade-offs of a first version; they are recorded
because the documents promise more.

| The code | Says otherwise |
|---|---|
| A deposit maturing after the expiry reopens a lapsed payment (`payments.ts:372`) | `docs/architecture/payment-lifecycle.md:175` |
| `payment.partially_paid` is enqueued again from `underpaid_expired` (`payments.ts:424`) | `payment-lifecycle.md:156` |
| `pending_raw` falls below zero for a late deposit (`payments.ts:329`) | `docs/architecture/data-model.md:95` |
| The `payment.paid` payload reports the status before payment (`payments.ts:397`) | `docs/guides/webhooks.md:30` |
| Of two confirmers one deletes what the other confirmed, and it is counted again (`confirmer.ts:84`) | `docs/adr/0004-in-process-workers.md:25` |
| A transfer mined again at another log index is counted twice (`schema.ts:102`) | `schema.ts:101` |
| A crash after the update loses `payment.expired` (`payments.ts:479`) | `docs/guides/webhooks.md:12` |
| Overlapping calls POST a job more often than the limit (`webhooks.ts:153`) | `docs/guides/webhooks.md:83` |
| A rotated secret is not used for a batch in hand (`webhooks.ts:88`) | `docs/api/console.md:82` |
| Two ticks authorize one row twice and both transfers may go out (`workers/sweeper.ts:220`) | `services/sweeper.ts:328` |
| `fail` overwrites the retry that `confirm` has just stored (`workers/sweeper.ts:163`) | `workers/sweeper.ts:380` |
| The value of a dead-lettered sweep is planned again (`services/sweeper.ts:149`) | `docs/operations/sweeping-runbook.md:111` |
| A row confirmed at the head of the chain survives its block (`workers/sweeper.ts:279`) | `schema.ts:224` |
| The attempts run out while a transaction is out, which then moves the funds (`workers/sweeper.ts:157`) | `docs/design/SWEEPING-PLAN.md:110` |
| An evicted transaction keeps its row in `broadcast` for ever (`workers/sweeper.ts:343`) | `SWEEPING-PLAN.md:107` |
| The backfill sets the cursor to the head less its span although the scan behind it is then refused, so blocks may be passed unread and unlogged (`native-watcher.ts:233`) | `native-watcher.ts:134`, `:158` |
| Two transfers to one address in one Tron transaction are registered under the same, first log (`tron.ts`, `findTransferLog`) | `schema.ts:79` |
| The rotating slice may pass over an asset again and again: two assets of one address are tied in the order of the query, and may swap places between the slices of two ticks (`sweep-recon.ts:64`) | `sweep-recon.ts:189` |
| A login that has verified the old password inserts its session after the reset has deleted them (`admin-auth.ts:133`) | `admin-auth.ts:86` |
| The warning of a rotated secret counts only jobs without an attempt, although retries are signed anew as well (`admin-write.ts:443`) | `admin-write.ts:436` |
| The page stops polling on an expired payment, which a late deposit may reopen (`web/src/lib/status.ts:10`) | `web/src/lib/status.ts:9` |
| The status of an open payment is fetched every ten seconds (`CheckoutRoute.tsx:54`) | `routes.ts:273` |

Smaller observations, where no document says otherwise: a lapsed console session and
a page loaded again leave API keys in `sessionStorage`, and a logout whose POST
fails leaves the cookie valid; a 401 that lands after a new sign-in locks the page
again; the sign-in form stays disabled when the session check after a login fails;
without a dollar rate the floor of a sweep is off, and `Math.round` may lower it by
half a peso; a Tron transfer is not found once fifty newer rows of its address, dust
and other transactions included, have come before a scan; the audit reports drift
for a sweep that ended between its reads; an unreachable network's wallets are
cached as long as others; a boot that adopts no counter row goes on (the statement
that reserves an index still refuses); a list of payments may show pending money
without a deposit after an unwind.

### Fairness

Weak fairness on a callback as a whole (`Confirm(k)`, `Expire(x)`, `Deliver(r)`,
`Plan(k) \/ Execute(k)`, `ScanStep`, `CallStep(c)`, `activePayments(c) \/ Scan(c)`,
`reconcile(k)`): `setInterval` keeps calling it, and every `await` returns or
throws, as requests have timeouts. Weak fairness on the clock and, in the sweeper,
on mining what is in the mempool and on the end of a backoff; in `Boot` on its
stages, the timers and the probes; in `Checkout` on a page's requests, while its
tab is in front. Nothing is assumed of payers, merchants, operators,
reorganisations, evictions, log delivery, new heads, RPC providers or faults; a
lookup may fail, up to the bound on faults.

## 5. Proofs

Checked by TLAPS for every value of the constants, under the `ASSUME`s of the
modules alone: types of the constants, limits that are natural numbers, finite sets
of payments and of audited pairs. The modules that `MCIntake` and `MCOffice`
instantiate name their assumptions (`RNumbers`, `NWNumbers`, `SNumbers`), and
`IntakeAssumption` and `OfficeAssumption` put them together; TLC evaluates them for
the instance that is run. The hypotheses that are more than types stand in the
theorem:

| Hypothesis | Theorems | Why |
|---|---|---|
| `Ticker = {k}`: one callback at a time | `ConfirmedRestsOnDeposits`, `CreditRestsOnTransfers`, `ExactlyOnce`, `EndedIsFinal`, `PlannedOnce` | with two the code does not keep them, see section 4 |
| `LogIndex = {i}`: a transfer keeps its position in the log | `CreditRestsOnTransfers` | at another position it is counted twice, see section 4 |
| `faults = 0` | `LapsesAreAnnounced` | a crash between two statements loses the announcement |
| `BackfillBlocks <= StartHeight` (`NWNumbers`) | `CursorKeeps` | on a younger chain a rewound cursor of zero would start the scan at the head |

All safety properties of the passing runs are proved; a theorem that names one is in
the tables below.

### `SumLemmas`

`SumFunctionOnSet` is a fold, and a fold is a recursive function chosen by its
equation, so what a sum does when one term changes has to be proved first. Induction
over the size of a set takes an operator, which the provers cannot instantiate; each
lemma goes instead by smallest counterexample: `SmallestSet` picks a set of least
cardinality among those that violate the claim, and `LeastWithout` says that the set
less one element does not. `SumsExist` builds the recursive function up to every
size, `SumPicked` is its equation, `SumRemove` frees it of the element the fold
picks, and `SumAdd`, `SumEqual`, `SumUpdate`, `SumMonotone`, `SumReindex` and
`SumAtMost` are what the other modules cite.

### `SettlementProofs`

`CreditedOnce` is not inductive on its own: it needs to know
that no expirer callback carries a `payment.paid` job (`ExpirerJobs`), since
enqueuing one would break the count. `WindowsFrozen` needs `GraceUnopened`: a
payment that has not been touched has no grace deadline. With `TypeOK` and
`PaidInFull` they form `IInv`. The proof has one step per action of `Next`; the
five exits of `confirmDeposit` share lemmas about the row they write, and all
other steps are sorted into those that leave what merchants are owed unchanged
and those that move only a deadline or a status outside `paid`.

`BalanceIsLedger` follows one sum per merchant through the one action that changes
it. `ConfirmedIsBacked` needs `InHand`: the rows a confirmer's callback has yet to
handle are unconfirmed, so what it unwinds was never counted; a second confirmer
would break exactly that. Every step then only inserts, drops or marks a row of its
payment (`Inserts`, `Drops`, `Marks`), and the sum over the rows that back it moves
with `confirmed_raw`. `PaidWasReceived` follows with `OneRow`, the unique index of
the deposits. `LapseAnnounced` needs `NothingListed`: a callback that has not begun
its updates has no jobs in its list, so the assignment that starts the list loses
none.

| Theorem | States |
|---|---|
| `TypeCorrect` | `TypeOK` |
| `NoDoubleCredit` | `CreditedOnce` |
| `PaidMeansThreshold` | `PaidInFull` |
| `BalancesAddUp` | `BalanceIsLedger` |
| `ConfirmedRestsOnDeposits` | `ConfirmedIsBacked`, one confirmer callback |
| `CreditRestsOnTransfers` | `PaidWasReceived`, one confirmer callback, one position |
| `LapsesAreAnnounced` | `LapseAnnounced`, as long as nothing has failed |
| `SettlementIsFinal` | `PaidIsFinal` |
| `DeadlinesAreFrozen` | `WindowsFrozen` |
| `Refinement` | `CreditsAtomically`: every step is a step of `MerchantCredit` or a stutter |

### `WebhookProofs`

`DeadMeansTried` (the counter never leads the POSTs) is
preserved by a stale write only because a snapshot's counter is itself behind
the POSTs (`RowsLag`), strictly so while its own POST is in hand.
`DeliveredMeansAccepted` needs `AnswersReceived`: a call past its answer has an
accepted POST behind it. The claims about a job no two calls have held at once rest
on `HeldRows`: the snapshot of the only call that holds it is still the row in the
table. `Spaced` carries the backoff from the write after one POST to the select
before the next. They are proved of `MCWebhookDelivery`, whose history variable they
speak of.

| Theorem | States |
|---|---|
| `TypeCorrect`, `NoEarlyDeadLetter`, `NoLostDelivery` | `TypeOK`, `DeadMeansTried`, `DeliveredMeansAccepted` |
| `EveryPostCounted`, `BackoffKept` | `PostsAreCounted`, `RetriesBackOff` |

### `SweepProofs`

`TypeOK` holds for any number of ticks; it needs `HashesKnown`: a
tick that has had an answer to its broadcast holds the hash of a transaction.
`RowMovesOnce` is not inductive: two transactions of a row move its funds twice
unless both carry the authorization stored in the row, of which the chain honours
one (`Carried`). `Carried` is kept because `authorize` overwrites that nonce only in
a row of which nothing has been sent, and that rests on the tick's copies of its rows
being those of the table, save for the status it has itself just taken back
(`Faithful`, `InStep`, `Resting`). With two ticks `Faithful` fails, as the table
above says, and so does the conclusion.

`ConfirmedMeansMoved` needs no such agreement. An authorization is of one row
(`OwnNonces`), in the table, in every copy a tick holds and in every transaction; so
is a stored hash (`OwnHashes`); and a tick that is about to confirm has seen funds of
that row move (`Staged`). Stale copies may then be written at any time. The proof
sorts the steps by what they do to rows, transactions and ticks (`Shape`) before it
turns to each part. `NeverOvercommitted` is about what has been read and not yet
inserted: the amount found still fits beside the rows that count (`Room`), because
nobody else inserts one, and confirmed deposits only grow.

| Theorem | States |
|---|---|
| `TypeCorrect` | `TypeOK`, any number of ticks |
| `ConfirmedMoved` | `ConfirmedMeansMoved`, any number of ticks |
| `ExactlyOnce`, `EndedIsFinal`, `PlannedOnce` | `RowMovesOnce`, `EndedRowsStay`, `NeverOvercommitted`, one tick |

### `IntakeProofs`

`PaymentIntake`: `IssuedOnce` rests on more than the counter's growth: the
issued indexes are the last ones below it, in order (`Contiguous`). `OneTree` needs
that the first index binds the row (`Bound`) and that a call belongs to a running
process, whose mnemonic therefore cannot change under it (`Owned`), so that what a
call is about to insert is still a path that was issued (`Issued`). All steps but
one leave row and history alone, and share the lemma `QuietStep`; the adoption of
an unbound row after an index was issued is impossible by `Bound`.

`Rates`: `NeverShort` is arithmetic: the lemma `CeilingDivision` (the quotient
of a number raised by the divisor less one is the least that covers it), applied to
the rate after its spread. `QuoteFresh` is not inductive, as it speaks of the quote
served last alone: every part of it is traced back through the calls that still
await a lookup (`CallOk`, with `PricePart` and `FxPart` for an answer that is
pending, failed or there) and through the quotes in the cache (`QuoteOk`).

`NativeWatcher`: `CursorHonest` needs the place of every sighted transfer: one
that is not registered is ahead of the cursor, and ahead of the scan in progress or
in the block that scan is crediting (`Ahead`). That a scan begins at or before it
(`FirstBlock`) holds because it is among the last `nativeBackfillBlocks`; that the
backfill's rewound cursor is not zero, which would make the scan start at the head,
because it lies above the height the process found (`Sighted`).

`TronWatcher`: what is credited is mined (`CreditsAreMined`). A transfer that was
listed is credited only after the lookup of its transaction, and the transfers of one
transaction come as far together (`TxsProgress`).

`MCInv` puts the four invariants under their turns; the theorems about the properties
of the run `intake` follow from it.

| Theorem | States |
|---|---|
| `TypeCorrect`, `NoIndexTwice`, `OneTreeOnly` | of `PaymentIntake`: `TypeOK`, `IssuedOnce`, `OneTree` |
| `RatesTyped`, `NeverUnderquoted`, `NeverStale` | of `Rates`: `TypeOK`, `NeverShort`, `QuoteFresh` |
| `WatchTyped`, `CursorKeeps` | of `NativeWatcher`: `TypeOK`, `CursorHonest` |
| `OnlyMinedIsCredited` | of `TronWatcher`: `CreditsAreMined`, which no run checks |
| `AllTyped`, `QuotesStayFresh`, `PricesNeverShort`, `CursorStaysHonest` | of the run: `MCTypeOK`, `QuoteFresh`, `NeverShort`, `CursorHonest` |

### `SessionsProofs`, `ConsoleProofs` and `OfficeProofs`

`RevokedStaysRevoked` rests on tokens being of one login each
(`Spent`: a token that was ever inserted is one whose login is done) and on counting
resets (`Counted`): a bootstrap that deletes sessions does it for a reset already
made, so a session inserted later has counted it. All steps but the insert and the
reset only close sessions, and share the lemma `ClosingKeeps`.

`TrailExplains` needs the lock: what a transaction read under it is
the row, until it ends (`Held`); and that a mutation changes no field its audit row
does not tell (`Told`). `Appended` then extends the trail by one row.

`OfficeProofs` has a section for each of the other components.

- `Telemetry`: the ring holds the last records in the order they were given out
  (`Latest`), and a poller has been shown nothing above its cursor (`Polled`), so that
  what is above it is new. Queue, batch, delivered and dropped add up to the records
  at every call of `flush`, whatever its answer.
- `SweepPolicy`: three roundings. The floor in pesos is rounded to the nearest one, which
  lowers it by at most a half (`Rounding`), and in raw units is a ceiling division
  (`FloorIsWorth`), the value and the fee in pesos are floor divisions, so the decision
  is off by at most one peso (`CostIsShare`). `decide` reads economics that were
  computed before: `Priced` and `Decided` say what is known of them by then.
- `ConsoleReads`: an answer is sound while it is put together if what it has
  read is explained by the tables as they are now, since these only grow
  (`DetailInv`, `ClientInv`, `ListInv`), and if the wave order has put the row
  before what explains it (`Waves`). The balance is a sum over the ledger (`TablesInv`).
- `ConsoleClient`: `Settled` adds to the property what is still in flight: the
  requests of the query client that signing out has cancelled, and the flag that locks
  the page against the others.
- `WalletOverview`: an entry is `Dated` if none of its balances is older than it
  says. A call is `Faithful` if that holds of the answer it is putting together, whose
  age is fixed at its start while others replace the entries it has not read.
- `Boot`, `Checkout` and `SweepRecon` have no safety property but their types; of the
  last, a sweep in flight is of all the ledger expects (`AuditInv`).

`OfficeInv` is the composition: the invariant of the component that is on.

| Theorem | States |
|---|---|
| `SessionsProofs`: `SessionsTyped`, `EndedForGood` | of `ConsoleSessions`: `TypeOK`, `RevokedStaysRevoked` |
| `ConsoleProofs`: `TypeCorrect`, `TrailAccounts` | of `MerchantConsole`: `TypeOK`, `TrailExplains` |
| `OfficeProofs`: `OfficeTyped`, `TrailOfOffice`, `RevokedInOffice`, `EveryRecordCounted`, `AnswersConsistent`, `CleanAfterSignOut`, `SweptIsWorth`, `StatedAgeHolds` | of the run: `OfficeTypeOK`, `TrailExplains`, `RevokedStaysRevoked`, `NothingUncounted`, `AnswersAddUp`, `SignedOutIsClean`, `WorthMoving`, `AgeIsHonest` |

### Only model-checked

Liveness, which is outside the prover's reach, like `ENABLED`:
`OpenPaymentsResolve`, `MatureDepositsResolve`, `JobsResolve`, `SweepsResolve`,
`TransfersFound`, `ListedIsFound`, `NetworksComeUp`, `LossReported`,
`SettledIsShown`. Each is checked under the fairness of section 4.
No module declares a RECURSIVE operator.

## 6. Abstractions, and what is not modelled

- In `Settlement` quotes are constants: `createPayment` takes its price and address
  as given; `Rates` and `PaymentIntake` model where they come from.
- Handlers are modelled by the statements they make; body schemas, CORS, rendering,
  metrics and log lines are left out. Redaction and formatting of logs as well.
- The EVM watcher may deliver any log of a watched address at any time, any number
  of times, for as long as it is on the chain; chunking and block spans are not
  modelled.
- One network at a time, except in `Boot`. The two confirmers share one module, as
  they differ only in how they read a receipt.
- Of the Tron client, what a listing or a lookup returns, or that it throws; its
  rate limit and retries are inside a step. The rows of a page are transfers to the
  address, failed ones included; outgoing and other rows, which take room as well,
  are left out.
- The dollar floor is a whole number of parts of a peso: the error of the floating-point
  product under `Math.round` is left out.
- A webhook's payload and its signature are left out.
- Sweeping: `prefund` and `delegate` have no code to model; in `SweepExecution`
  prices and gas decide freely once the floor is passed (`SweepPolicy` says how);
  `SWEEP_DRY_RUN` is off and the treasury is set; the 50-row limit of `dueSweeps` is
  never reached; the branch for a row without token or nonce cannot be reached from
  these actions and is left out.
- The query library of the pages is external: `ConsoleClient` lets it find the
  session query again or not after a cleared cache.

Not modelled, as there is no state to check: key derivation and signing
(`derivation.ts`, `signer.ts`), the tables of `config.ts`, metrics and redaction, the
console's tables and forms (`ui.tsx`, `PaymentDetailRoute.tsx`, `PaymentsRoute.tsx`,
`DepositsRoute.tsx`, `SweepsRoute.tsx`, `UsersRoute.tsx`), `scripts/`, and the
documentation site.
