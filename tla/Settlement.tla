----------------------------- MODULE Settlement -----------------------------
(***************************************************************************)
(* The payment path of the gateway on one network: services/payments.ts    *)
(* with the workers that drive it (workers/watcher.ts, confirmer.ts,       *)
(* tron-confirmer.ts and expirer.ts) over one PostgreSQL database.         *)
(*                                                                         *)
(* One action is one database transaction, one autocommitted statement or  *)
(* one RPC answer: between two of them any other callback of the process   *)
(* may run, because every worker is a setInterval callback that does not   *)
(* wait for its previous call to end.  The clock and the block height are  *)
(* one counter: one block is mined per time unit.                          *)
(***************************************************************************)
EXTENDS Integers, FiniteSets, Functions

CONSTANTS
    Payment,        \* payments that may be created
    Merchant,       \* clients
    Asset,          \* assets the network serves
    Transfer,       \* on-chain transfers to the payments' addresses
    LogIndex,       \* positions a transfer's log can take in a block ({-1}: native)
    DepositId,      \* primary keys of the deposits table; bounds the rows inserted
    Ticker,         \* confirmer callbacks that may overlap
    Expirer         \* expirer callbacks that may overlap

CONSTANTS
    clientId,           \* the merchant of each payment
    amountCop,          \* what the merchant is credited
    asset,              \* the asset each payment quoted
    amountCryptoRaw,    \* the raw amount each payment quoted
    sentTo,             \* the payment whose address a transfer pays
    sentAsset,          \* the asset that arrives
    sentRaw             \* the raw amount that arrives

CONSTANTS
    DustBps,            \* DUST_TOLERANCE_BPS
    QuoteTtl,           \* QUOTE_TTL_MINUTES
    GraceTtl,           \* GRACE_TTL_MINUTES
    Confirmations,      \* confirmation depth of the network
    BackfillBlocks,     \* BACKFILL_BLOCKS
    CreateBy,           \* bound: no payment is created after this time
    MaxTime,            \* bound on the clock
    MaxFaults           \* bound on restarts, reorganisations and failed calls

ASSUME PaymentAssumption ==
    /\ clientId \in [Payment -> Merchant]
    /\ amountCop \in [Payment -> Nat]
    /\ asset \in [Payment -> Asset]
    /\ amountCryptoRaw \in [Payment -> Nat]
    /\ IsFiniteSet(Payment)

ASSUME TransferAssumption ==
    /\ sentTo \in [Transfer -> Payment]
    /\ sentAsset \in [Transfer -> Asset]
    /\ sentRaw \in [Transfer -> Nat]

ASSUME ParameterAssumption ==
    /\ DustBps \in 0..10000
    /\ QuoteTtl \in Nat
    /\ GraceTtl \in Nat
    /\ Confirmations \in Nat
    /\ BackfillBlocks \in Nat
    /\ LogIndex \subseteq Int

VARIABLES
    now,            \* the clock, and the number of the latest block
    mined,          \* the canonical chain: transfer -> [block, logIndex]
    payment,        \* table payments
    deposit,        \* table deposits: every row ever inserted, by id
    balance,        \* clients.balance_cop
    ledger,         \* ledger_entries: payment_credit rows per payment
    hooks,          \* webhook_jobs: the jobs enqueued per payment and event
    watched,        \* payments whose addresses the live subscription filters on
    inFlight,       \* logs delivered to a handler that has not run yet
    ticker,         \* local state of the confirmer callbacks
    expirer,        \* local state of the expirer callbacks
    faults          \* faults that have happened

dbVars == <<payment, deposit, balance, ledger, hooks>>
watcherVars == <<watched, inFlight>>
vars == <<now, mined, payment, deposit, balance, ledger, hooks, watched,
          inFlight, ticker, expirer, faults>>

-----------------------------------------------------------------------------
(***************************************************************************)
(* Types                                                                   *)
(***************************************************************************)

Active == {"pending", "detecting", "partially_paid"}
Terminal == {"paid", "expired", "underpaid_expired"}
Status == {"none"} \cup Active \cup Terminal
Event == {"payment.paid", "payment.partially_paid", "payment.expired",
          "payment.underpaid_expired"}

NoGrace == -1   \* grace_expires_at IS NULL

PaymentRow == [status: Status, quoteExpiresAt: Nat, graceExpiresAt: Nat \cup {NoGrace},
               confirmedRaw: Int, pendingRaw: Int, overpaidRaw: Int]
DepositRow == [state: {"unconfirmed", "confirmed", "deleted"}, transfer: Transfer,
               logIndex: LogIndex, block: Nat]
Log == [transfer: Transfer, logIndex: LogIndex, block: Nat]
TickerState == [pc: {"idle", "loop", "confirm", "unwind"},
                todo: SUBSET DepositId, row: SUBSET DepositId]
ExpirerState == [pc: {"idle", "quotes", "grace", "announce"}, at: Nat,
                 todo: SUBSET (Payment \X Event)]

TypeOK ==
    /\ now \in Nat
    /\ DOMAIN mined \subseteq Transfer
    /\ mined \in [DOMAIN mined -> [block: Nat, logIndex: LogIndex]]
    /\ payment \in [Payment -> PaymentRow]
    /\ DOMAIN deposit \subseteq DepositId
    /\ deposit \in [DOMAIN deposit -> DepositRow]
    /\ balance \in [Merchant -> Nat]
    /\ ledger \in [Payment -> Nat]
    /\ hooks \in [Payment -> [Event -> Nat]]
    /\ watched \subseteq Payment
    /\ inFlight \subseteq Log
    /\ ticker \in [Ticker -> TickerState]
    /\ \A k \in Ticker : ticker[k].todo \cup ticker[k].row \subseteq DOMAIN deposit
    /\ expirer \in [Expirer -> ExpirerState]
    /\ faults \in Nat

IdleTicker == [pc |-> "idle", todo |-> {}, row |-> {}]
IdleExpirer == [pc |-> "idle", at |-> 0, todo |-> {}]

Init ==
    /\ now = 0
    /\ mined = [t \in {} |-> [block |-> 0, logIndex |-> 0]]
    /\ payment = [p \in Payment |->
                    [status |-> "none", quoteExpiresAt |-> 0, graceExpiresAt |-> NoGrace,
                     confirmedRaw |-> 0, pendingRaw |-> 0, overpaidRaw |-> 0]]
    /\ deposit = [d \in {} |-> [state |-> "deleted"]]
    /\ balance = [m \in Merchant |-> 0]
    /\ ledger = [p \in Payment |-> 0]
    /\ hooks = [p \in Payment |-> [e \in Event |-> 0]]
    /\ watched = {}
    /\ inFlight = {}
    /\ ticker = [k \in Ticker |-> IdleTicker]
    /\ expirer = [x \in Expirer |-> IdleExpirer]
    /\ faults = 0

Fault == faults < MaxFaults /\ faults' = faults + 1

-----------------------------------------------------------------------------
(***************************************************************************)
(* The clock and the chain.  A block less than Confirmations deep can be   *)
(* reorganised away; its transfers may be mined again later, at any        *)
(* position of a block.  A deeper block is final.                          *)
(***************************************************************************)

Tick ==
    /\ now < MaxTime
    /\ now' = now + 1
    /\ UNCHANGED <<mined, dbVars, watcherVars, ticker, expirer, faults>>

Mine(t, i) ==
    /\ t \notin DOMAIN mined
    /\ payment[sentTo[t]].status # "none"
    /\ mined' = [u \in DOMAIN mined \cup {t} |->
                    IF u = t THEN [block |-> now, logIndex |-> i] ELSE mined[u]]
    /\ UNCHANGED <<now, dbVars, watcherVars, ticker, expirer, faults>>

Final(t) == t \in DOMAIN mined /\ mined[t].block + Confirmations <= now

Reorg(t) ==
    /\ t \in DOMAIN mined
    /\ ~Final(t)
    /\ Fault
    /\ mined' = [u \in DOMAIN mined \ {t} |-> mined[u]]
    /\ UNCHANGED <<now, dbVars, watcherVars, ticker, expirer>>

-----------------------------------------------------------------------------
(***************************************************************************)
(* createPayment: the quote is frozen and the row inserted as pending.     *)
(***************************************************************************)
CreatePayment(p) ==
    /\ payment[p].status = "none"
    /\ now <= CreateBy
    /\ payment' = [payment EXCEPT ![p].status = "pending",
                                  ![p].quoteExpiresAt = now + QuoteTtl]
    /\ UNCHANGED <<now, mined, deposit, balance, ledger, hooks, watcherVars, ticker,
                   expirer, faults>>

requiredWithTolerance(p) == (amountCryptoRaw[p] * (10000 - DustBps)) \div 10000

enqueueWebhook(p, e) == hooks' = [hooks EXCEPT ![p][e] = @ + 1]

-----------------------------------------------------------------------------
(***************************************************************************)
(* The watcher.  resubscribe reads the active payments; a transfer to one  *)
(* of them reaches a handler from the subscription or from a backfill scan *)
(* of the last BackfillBlocks blocks, any number of times.                 *)
(***************************************************************************)

activeAddresses == {p \in Payment : payment[p].status \in Active}

Resubscribe ==
    /\ watched # activeAddresses
    /\ watched' = activeAddresses
    /\ UNCHANGED <<now, mined, dbVars, inFlight, ticker, expirer, faults>>

DeliverLog(t) ==
    /\ t \in DOMAIN mined
    /\ sentTo[t] \in watched
    /\ now - mined[t].block <= BackfillBlocks
    /\ inFlight' = inFlight \cup {[transfer |-> t, logIndex |-> mined[t].logIndex,
                                   block |-> mined[t].block]}
    /\ UNCHANGED <<now, mined, dbVars, watched, ticker, expirer, faults>>

(***************************************************************************)
(* registerDeposit, one transaction under the payment's row lock.  The     *)
(* unique index deposits_tx_log_idx is on (network, txHash, logIndex).     *)
(***************************************************************************)

Stored(d) == deposit[d].state # "deleted"

\* Mutant: the unique index is missing.
DuplicateUnindexed(l) == FALSE

Duplicate(l) ==
    \E d \in DOMAIN deposit : /\ Stored(d)
                              /\ deposit[d].transfer = l.transfer
                              /\ deposit[d].logIndex = l.logIndex

RightAsset(t) == sentAsset[t] = asset[sentTo[t]]

InWindow(p) ==
    \/ now <= payment[p].quoteExpiresAt
    \/ payment[p].graceExpiresAt # NoGrace /\ now <= payment[p].graceExpiresAt

Applies(t) == /\ RightAsset(t)
              /\ payment[sentTo[t]].status \notin Terminal
              /\ InWindow(sentTo[t])

\* Mutant: every deposit opens the grace window anew.
AppliedToReopens(row, raw) ==
    [row EXCEPT !.pendingRaw = @ + raw, !.status = "detecting",
                !.graceExpiresAt = now + GraceTtl]

\* The row of a payment a deposit of raw units is applied to.
AppliedTo(row, raw) ==
    IF row.status = "pending"
    THEN [row EXCEPT !.pendingRaw = @ + raw, !.status = "detecting",
                     !.graceExpiresAt = now + GraceTtl]
    ELSE [row EXCEPT !.pendingRaw = @ + raw]

InsertDeposit(l) ==
    \E d \in DepositId \ DOMAIN deposit :
        deposit' = [c \in DOMAIN deposit \cup {d} |->
                      IF c = d THEN [state |-> "unconfirmed", transfer |-> l.transfer,
                                     logIndex |-> l.logIndex, block |-> l.block]
                      ELSE deposit[c]]

RegisterDuplicate(l) ==
    /\ l \in inFlight
    /\ Duplicate(l)
    /\ inFlight' = inFlight \ {l}
    /\ UNCHANGED <<now, mined, dbVars, watched, ticker, expirer, faults>>

RegisterDeposit(l) ==
    LET p == sentTo[l.transfer] IN
    /\ l \in inFlight
    /\ ~Duplicate(l)
    /\ InsertDeposit(l)
    /\ payment' = IF Applies(l.transfer)
                  THEN [payment EXCEPT ![p] = AppliedTo(@, sentRaw[l.transfer])]
                  ELSE payment
    /\ inFlight' = inFlight \ {l}
    /\ UNCHANGED <<now, mined, balance, ledger, hooks, watched, ticker, expirer, faults>>

-----------------------------------------------------------------------------
(***************************************************************************)
(* The confirmer: select the unconfirmed rows, then for each mature one    *)
(* ask for its receipt and confirm or unwind it.  Between the select, each *)
(* RPC answer and each transaction other callbacks run; the rows handled   *)
(* are the SNAPSHOT of the select.                                         *)
(***************************************************************************)

Unconfirmed == {d \in DOMAIN deposit : deposit[d].state = "unconfirmed"}

\* Mutant: one confirmation more than required.
MatureOneLate(d) == deposit[d].block + Confirmations < now

Mature(d) == deposit[d].block + Confirmations <= now

\* The callback after its current row: the next row, or the end of the tick.
Continue(todo) ==
    IF todo = {} THEN IdleTicker ELSE [pc |-> "loop", todo |-> todo, row |-> {}]

\* The select and the height it is compared with: rows still maturing are left for
\* a later tick, and a tick without a mature row changes nothing.
TickStart(k) ==
    LET mature == {d \in Unconfirmed : Mature(d)} IN
    /\ ticker[k].pc = "idle"
    /\ mature # {}
    /\ ticker' = [ticker EXCEPT ![k] = Continue(mature)]
    /\ UNCHANGED <<now, mined, dbVars, watcherVars, expirer, faults>>

\* A failed statement ends the tick; the rows not handled wait for the next one.
TickFail(k) ==
    /\ ticker[k].pc # "idle"
    /\ Fault
    /\ ticker' = [ticker EXCEPT ![k] = IdleTicker]
    /\ UNCHANGED <<now, mined, dbVars, watcherVars, expirer>>

Handle(k, d, pc) ==
    ticker' = [ticker EXCEPT ![k] = [pc |-> pc, todo |-> @.todo \ {d}, row |-> {d}]]

ReceiptFound(k, d) ==
    /\ ticker[k].pc = "loop"
    /\ d \in ticker[k].todo
    /\ deposit[d].transfer \in DOMAIN mined
    /\ Handle(k, d, "confirm")
    /\ UNCHANGED <<now, mined, dbVars, watcherVars, expirer, faults>>

ReceiptMissing(k, d) ==
    /\ ticker[k].pc = "loop"
    /\ d \in ticker[k].todo
    /\ deposit[d].transfer \notin DOMAIN mined
    /\ Handle(k, d, "unwind")
    /\ UNCHANGED <<now, mined, dbVars, watcherVars, expirer, faults>>

\* A failed lookup is caught and handled as a missing receipt.
ReceiptLookupFails(k, d) ==
    /\ ticker[k].pc = "loop"
    /\ d \in ticker[k].todo
    /\ Fault
    /\ Handle(k, d, "unwind")
    /\ UNCHANGED <<now, mined, dbVars, watcherVars, expirer>>

NextRow(k) == ticker' = [ticker EXCEPT ![k] = Continue(@.todo)]

SetState(d, s) == deposit' = [deposit EXCEPT ![d].state = s]

\* Deletes the row by id and takes its amount out of pending_raw, whatever the
\* row or its effect on the payment has become since the select.
UnwindDeposit(k, d) ==
    LET t == deposit[d].transfer IN
    /\ ticker[k].pc = "unwind"
    /\ d \in ticker[k].row
    /\ SetState(d, "deleted")
    /\ payment' = [payment EXCEPT ![sentTo[t]].pendingRaw = @ - sentRaw[t]]
    /\ NextRow(k)
    /\ UNCHANGED <<now, mined, balance, ledger, hooks, watcherVars, expirer, faults>>

(***************************************************************************)
(* confirmDeposit, one transaction under the locks of the deposit's and    *)
(* then the payment's row.                                                 *)
(***************************************************************************)

Confirming(k, d) == ticker[k].pc = "confirm" /\ d \in ticker[k].row

\* The deposit is gone, or another callback has confirmed it.
ConfirmSkipped(k, d) ==
    /\ Confirming(k, d)
    /\ deposit[d].state # "unconfirmed"
    /\ NextRow(k)
    /\ UNCHANGED <<now, mined, dbVars, watcherVars, expirer, faults>>

ConfirmWrongAsset(k, d) ==
    /\ Confirming(k, d)
    /\ deposit[d].state = "unconfirmed"
    /\ ~RightAsset(deposit[d].transfer)
    /\ SetState(d, "confirmed")
    /\ NextRow(k)
    /\ UNCHANGED <<now, mined, payment, balance, ledger, hooks, watcherVars, expirer,
                   faults>>

Counts(k, d) ==
    /\ Confirming(k, d)
    /\ deposit[d].state = "unconfirmed"
    /\ RightAsset(deposit[d].transfer)

\* Mutant: the double-credit guard is missing.
AlreadyPaidUnguarded(p) == FALSE

AlreadyPaid(p) == payment[p].status = "paid"

\* Mutant: everything pending is taken for confirmed.
ConfirmedWithPending(p, raw) == payment[p].confirmedRaw + payment[p].pendingRaw

ConfirmedWith(p, raw) == payment[p].confirmedRaw + raw

\* Mutant: deposits still maturing count towards the threshold.
ReachesThresholdWithPending(p, confirmed) ==
    payment[p].confirmedRaw + payment[p].pendingRaw >= requiredWithTolerance(p)

ReachesThreshold(p, confirmed) == confirmed >= requiredWithTolerance(p)

Overpaid(p, confirmed) ==
    IF confirmed > amountCryptoRaw[p] THEN confirmed - amountCryptoRaw[p] ELSE 0

\* The payment's row once raw units are counted in it, with its new status.
Counted(p, raw, status) ==
    LET confirmed == ConfirmedWith(p, raw) IN
    [payment[p] EXCEPT !.status = status,
                       !.confirmedRaw = confirmed,
                       !.pendingRaw = @ - raw,
                       !.overpaidRaw = IF status = "paid" THEN Overpaid(p, confirmed) ELSE @]

ConfirmAfterPaid(k, d) ==
    LET t == deposit[d].transfer
        p == sentTo[t] IN
    /\ Counts(k, d)
    /\ AlreadyPaid(p)
    /\ SetState(d, "confirmed")
    /\ payment' = [payment EXCEPT ![p] = Counted(p, sentRaw[t], "paid")]
    /\ NextRow(k)
    /\ UNCHANGED <<now, mined, balance, ledger, hooks, watcherVars, expirer, faults>>

\* Mutant: the ledger row is not written with the credit.
CreditUnledgered(p) ==
    /\ balance' = [balance EXCEPT ![clientId[p]] = @ + amountCop[p]]
    /\ UNCHANGED ledger

Credit(p) ==
    /\ balance' = [balance EXCEPT ![clientId[p]] = @ + amountCop[p]]
    /\ ledger' = [ledger EXCEPT ![p] = @ + 1]

ConfirmSettles(k, d) ==
    LET t == deposit[d].transfer
        p == sentTo[t] IN
    /\ Counts(k, d)
    /\ ~AlreadyPaid(p)
    /\ ReachesThreshold(p, ConfirmedWith(p, sentRaw[t]))
    /\ SetState(d, "confirmed")
    /\ payment' = [payment EXCEPT ![p] = Counted(p, sentRaw[t], "paid")]
    /\ Credit(p)
    /\ enqueueWebhook(p, "payment.paid")
    /\ NextRow(k)
    /\ UNCHANGED <<now, mined, watcherVars, expirer, faults>>

ConfirmPartial(k, d) ==
    LET t == deposit[d].transfer
        p == sentTo[t] IN
    /\ Counts(k, d)
    /\ ~AlreadyPaid(p)
    /\ ~ReachesThreshold(p, ConfirmedWith(p, sentRaw[t]))
    /\ SetState(d, "confirmed")
    /\ payment' = [payment EXCEPT ![p] = Counted(p, sentRaw[t], "partially_paid")]
    /\ IF payment[p].status = "partially_paid"
       THEN UNCHANGED hooks
       ELSE enqueueWebhook(p, "payment.partially_paid")
    /\ NextRow(k)
    /\ UNCHANGED <<now, mined, balance, ledger, watcherVars, expirer, faults>>

-----------------------------------------------------------------------------
(***************************************************************************)
(* expireStalePayments: two autocommitted updates against one reading of   *)
(* the clock, then one transaction per expired payment to enqueue its job. *)
(***************************************************************************)

QuoteLapsed(p, at) == payment[p].status = "pending" /\ payment[p].quoteExpiresAt < at

\* Mutant: the update does not look at the status.
GraceLapsedAnyStatus(p, at) ==
    payment[p].graceExpiresAt # NoGrace /\ payment[p].graceExpiresAt < at

\* Mutant: only payments with confirmed funds are looked at.
GraceLapsedPartial(p, at) ==
    /\ payment[p].status = "partially_paid"
    /\ payment[p].graceExpiresAt # NoGrace
    /\ payment[p].graceExpiresAt < at

GraceLapsed(p, at) ==
    /\ payment[p].status \in {"detecting", "partially_paid"}
    /\ payment[p].graceExpiresAt # NoGrace
    /\ payment[p].graceExpiresAt < at

\* A tick with nothing lapsed changes nothing and is left out.
ExpireStart(x) ==
    /\ expirer[x].pc = "idle"
    /\ \E p \in Payment : QuoteLapsed(p, now) \/ GraceLapsed(p, now)
    /\ expirer' = [expirer EXCEPT ![x] = [pc |-> "quotes", at |-> now, todo |-> {}]]
    /\ UNCHANGED <<now, mined, dbVars, watcherVars, ticker, faults>>

SetStatus(S, s) ==
    payment' = [p \in Payment |-> IF p \in S THEN [payment[p] EXCEPT !.status = s]
                                             ELSE payment[p]]

ExpireQuotes(x) ==
    LET lapsed == {p \in Payment : QuoteLapsed(p, expirer[x].at)} IN
    /\ expirer[x].pc = "quotes"
    /\ SetStatus(lapsed, "expired")
    /\ expirer' = [expirer EXCEPT ![x] = [@ EXCEPT !.pc = "grace",
                                            !.todo = lapsed \X {"payment.expired"}]]
    /\ UNCHANGED <<now, mined, deposit, balance, ledger, hooks, watcherVars, ticker,
                   faults>>

ExpirerWith(x, todo) ==
    IF todo = {} THEN IdleExpirer
    ELSE [pc |-> "announce", at |-> expirer[x].at, todo |-> todo]

\* Mutant: the second update's rows replace those of the first.
ExpireGraceForgets(x) ==
    LET lapsed == {p \in Payment : GraceLapsed(p, expirer[x].at)} IN
    /\ expirer[x].pc = "grace"
    /\ SetStatus(lapsed, "underpaid_expired")
    /\ expirer' = [expirer EXCEPT ![x] =
                      ExpirerWith(x, lapsed \X {"payment.underpaid_expired"})]
    /\ UNCHANGED <<now, mined, deposit, balance, ledger, hooks, watcherVars, ticker,
                   faults>>

ExpireGrace(x) ==
    LET lapsed == {p \in Payment : GraceLapsed(p, expirer[x].at)}
        todo == expirer[x].todo \cup (lapsed \X {"payment.underpaid_expired"}) IN
    /\ expirer[x].pc = "grace"
    /\ SetStatus(lapsed, "underpaid_expired")
    /\ expirer' = [expirer EXCEPT ![x] = ExpirerWith(x, todo)]
    /\ UNCHANGED <<now, mined, deposit, balance, ledger, hooks, watcherVars, ticker,
                   faults>>

\* The jobs of the first update's rows are enqueued before those of the second.
Announce(x, p, e) ==
    /\ expirer[x].pc = "announce"
    /\ <<p, e>> \in expirer[x].todo
    /\ e = "payment.underpaid_expired" =>
         \A q \in Payment : <<q, "payment.expired">> \notin expirer[x].todo
    /\ enqueueWebhook(p, e)
    /\ expirer' = [expirer EXCEPT ![x] = ExpirerWith(x, expirer[x].todo \ {<<p, e>>})]
    /\ UNCHANGED <<now, mined, payment, deposit, balance, ledger, watcherVars, ticker,
                   faults>>

\* A failed statement ends the tick; the jobs not yet enqueued are dropped.
ExpirerFail(x) ==
    /\ expirer[x].pc # "idle"
    /\ Fault
    /\ expirer' = [expirer EXCEPT ![x] = IdleExpirer]
    /\ UNCHANGED <<now, mined, dbVars, watcherVars, ticker>>

-----------------------------------------------------------------------------
\* The process dies and restarts: the database and the chain survive.
Restart ==
    /\ Fault
    /\ watched' = {}
    /\ inFlight' = {}
    /\ ticker' = [k \in Ticker |-> IdleTicker]
    /\ expirer' = [x \in Expirer |-> IdleExpirer]
    /\ UNCHANGED <<now, mined, dbVars>>

Watch ==
    \/ Resubscribe
    \/ \E t \in Transfer : DeliverLog(t)
    \/ \E l \in inFlight : RegisterDuplicate(l) \/ RegisterDeposit(l)

Confirm(k) ==
    \/ TickStart(k)
    \/ \E d \in DepositId :
        \/ ReceiptFound(k, d)
        \/ ReceiptMissing(k, d)
        \/ UnwindDeposit(k, d)
        \/ ConfirmSkipped(k, d)
        \/ ConfirmWrongAsset(k, d)
        \/ ConfirmAfterPaid(k, d)
        \/ ConfirmSettles(k, d)
        \/ ConfirmPartial(k, d)

Expire(x) ==
    \/ ExpireStart(x)
    \/ ExpireQuotes(x)
    \/ ExpireGrace(x)
    \/ \E p \in Payment, e \in Event : Announce(x, p, e)

Next ==
    \/ Tick
    \/ \E t \in Transfer, i \in LogIndex : Mine(t, i)
    \/ \E t \in Transfer : Reorg(t)
    \/ \E p \in Payment : CreatePayment(p)
    \/ Watch
    \/ \E k \in Ticker : Confirm(k)
    \/ \E k \in Ticker : TickFail(k)
    \/ \E k \in Ticker, d \in DepositId : ReceiptLookupFails(k, d)
    \/ \E x \in Expirer : Expire(x)
    \/ \E x \in Expirer : ExpirerFail(x)
    \/ Restart

Spec == Init /\ [][Next]_vars

(***************************************************************************)
(* setInterval keeps calling the confirmer and the expirer, each awaited   *)
(* call returns or throws, and time passes.  Nothing is assumed of payers, *)
(* merchants, the chain's reorganisations, log delivery or faults.         *)
(***************************************************************************)
Fairness ==
    /\ WF_vars(Tick)
    /\ \A k \in Ticker : WF_vars(Confirm(k))
    /\ \A x \in Expirer : WF_vars(Expire(x))

FairSpec == Spec /\ Fairness

-----------------------------------------------------------------------------
(***************************************************************************)
(* Safety                                                                  *)
(***************************************************************************)

\* No double credit: a payment is paid exactly when it has one payment_credit
\* row, and that row was written with exactly one payment.paid job.
CreditedOnce ==
    \A p \in Payment :
        /\ ledger[p] = (IF payment[p].status = "paid" THEN 1 ELSE 0)
        /\ hooks[p]["payment.paid"] = ledger[p]

\* A merchant's balance is the sum of the ledger rows written for it.
BalanceIsLedger ==
    \A m \in Merchant :
        balance[m] = SumFunctionOnSet([p \in Payment |-> ledger[p] * amountCop[p]],
                                      {p \in Payment : clientId[p] = m})

\* A payment is paid exactly when what it has confirmed is within the dust tolerance
\* of its quote, whatever happened to its windows meanwhile, and what it has above
\* the quote is recorded as overpaid.
PaidInFull ==
    \A p \in Payment :
        /\ payment[p].status = "paid" =>
            /\ payment[p].confirmedRaw >= requiredWithTolerance(p)
            /\ payment[p].overpaidRaw = Overpaid(p, payment[p].confirmedRaw)
        /\ payment[p].status # "paid" =>
            /\ payment[p].confirmedRaw > 0 =>
                 payment[p].confirmedRaw < requiredWithTolerance(p)
            /\ payment[p].overpaidRaw = 0

\* Every unit a payment has confirmed is a unit of a stored, confirmed deposit in
\* the quoted asset: confirming, unwinding and registering again counts once.
ConfirmedIsBacked ==
    \A p \in Payment :
        payment[p].confirmedRaw =
            SumFunctionOnSet([d \in DOMAIN deposit |-> sentRaw[deposit[d].transfer]],
                             {d \in DOMAIN deposit :
                                /\ deposit[d].state = "confirmed"
                                /\ sentTo[deposit[d].transfer] = p
                                /\ RightAsset(deposit[d].transfer)})

\* A merchant is credited only for value that arrived: the transfers behind a paid
\* payment's confirmed deposits, each taken once, reach the threshold.
PaidWasReceived ==
    \A p \in Payment : payment[p].status = "paid" =>
        SumFunctionOnSet(sentRaw,
                         {t \in Transfer :
                            /\ sentTo[t] = p
                            /\ RightAsset(t)
                            /\ \E d \in DOMAIN deposit : /\ deposit[d].transfer = t
                                                         /\ deposit[d].state = "confirmed"})
            >= requiredWithTolerance(p)

\* A payment that has lapsed has its job enqueued, or some expirer callback is
\* still on its way to enqueue it.
LapseAnnounced ==
    \A p \in Payment, s \in {"expired", "underpaid_expired"} :
        LET e == IF s = "expired" THEN "payment.expired" ELSE "payment.underpaid_expired" IN
        payment[p].status = s =>
            hooks[p][e] > 0 \/ \E x \in Expirer : <<p, e>> \in expirer[x].todo

(***************************************************************************)
(* What a step may never do                                                *)
(***************************************************************************)

\* Settlement is final: a paid payment stays paid, what it has confirmed never
\* shrinks, and no later step credits its merchant for it.
PaidIsFinal ==
    [][\A p \in Payment : payment[p].status = "paid" =>
            /\ payment'[p].status = "paid"
            /\ payment'[p].confirmedRaw >= payment[p].confirmedRaw
            /\ ledger'[p] = ledger[p]]_vars

\* The windows the payer was shown are frozen: the quote's deadline never moves
\* once created and the grace deadline never moves once opened.
WindowsFrozen ==
    [][\A p \in Payment :
        /\ payment[p].status # "none" =>
            payment'[p].quoteExpiresAt = payment[p].quoteExpiresAt
        /\ payment[p].graceExpiresAt # NoGrace =>
            payment'[p].graceExpiresAt = payment[p].graceExpiresAt]_vars

(***************************************************************************)
(* Settlement implements the abstract promise of MerchantCredit.           *)
(***************************************************************************)
Credits == INSTANCE MerchantCredit WITH
    credited <- {p \in Payment : payment[p].status = "paid"},
    entries <- ledger,
    announced <- [p \in Payment |-> hooks[p]["payment.paid"]]

\* Crediting is atomic: balance, ledger entry, payment.paid job and the status change
\* together, once per payment.
CreditsAtomically == Credits!Spec

(***************************************************************************)
(* Liveness                                                                *)
(***************************************************************************)

\* A payment nobody has confirmed anything for does not stay open: its quote
\* lapses, or the grace window its first deposit opened does.
OpenPaymentsResolve ==
    \A p \in Payment :
        payment[p].status \in {"pending", "detecting"} ~>
            payment[p].status \notin {"pending", "detecting"}

\* A deposit that can mature before the bound on the clock is confirmed or unwound,
\* whatever calls have failed before.
MatureDepositsResolve ==
    \A d \in DepositId :
        (d \in Unconfirmed /\ deposit[d].block + Confirmations <= MaxTime) ~>
            d \notin Unconfirmed

-----------------------------------------------------------------------------
(***************************************************************************)
(* What the documents say of this code and it does not do; each is refuted *)
(* by a run of its own.                                                    *)
(***************************************************************************)

\* src/workers/confirmer.ts: a deposit is cleaned up because its transaction vanished
\* or failed.  (A lookup that merely failed is handled the same way.)
UnwoundOnlyIfGone ==
    [][\A d \in DOMAIN deposit :
        deposit[d].state # "deleted" /\ deposit'[d].state = "deleted" =>
            ~Final(deposit[d].transfer)]_vars

\* src/services/payments.ts: after a partial payment "grace keeps running", so the
\* payment is completed or lapses.  (A payment confirmed after its quote lapsed
\* without a deposit has no grace deadline.)
PartialsResolve ==
    \A p \in Payment :
        payment[p].status = "partially_paid" ~> payment[p].status # "partially_paid"

=============================================================================
