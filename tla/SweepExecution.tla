--------------------------- MODULE SweepExecution ---------------------------
(***************************************************************************)
(* The sweeper of one EVM network: workers/sweeper.ts over the sweeps      *)
(* table, with the plan of services/sweeper.ts, the sending and receipts   *)
(* of services/evm-sweep.ts and the chain they act on.                     *)
(*                                                                         *)
(* A tick plans (reads the unswept ledger, decides, inserts) and then      *)
(* executes (selects the due rows and works through that SNAPSHOT, one     *)
(* RPC call or one autocommitted statement at a time).  The interval does  *)
(* not wait for its tick, so ticks overlap.  Treasury addresses are set    *)
(* (the preflight refuses to boot otherwise) and SWEEP_DRY_RUN is off.     *)
(***************************************************************************)
EXTENDS Integers, Sequences, FiniteSetsExt, Functions

CONSTANTS
    Pairing,        \* (address, asset) pairs that may hold value
    via,            \* the mechanism of each
    Ticker,         \* ticks that may overlap
    MaxAttempts,    \* SWEEP_MAX_ATTEMPTS
    MinRaw,         \* SWEEP_MIN_USD in raw units
    Fee,            \* fee of a native transfer, headroom included
    DepositRaw      \* the raw amount of each deposit

CONSTANTS
    MaxDeposits,    \* bound on the deposits per pairing
    MaxSweeps,      \* bound on the rows ever inserted
    MaxTxs,         \* bound on the transactions ever sent
    MaxFaults,      \* bound on crashes and failed calls
    MaxReorgs,      \* bound on reorganisations
    MaxDrops        \* bound on transactions evicted from the mempool

ASSUME SweepAssumption ==
    /\ via \in [Pairing -> {"eip3009", "native"}]
    /\ MaxAttempts \in Nat \ {0}
    /\ MinRaw \in Nat
    /\ Fee \in Nat
    /\ DepositRaw \in Nat

VARIABLES
    received,       \* raw units that have arrived at each pairing
    confirmed,      \* those in confirmed rows of the deposits table
    sweep,          \* table sweeps, in the order of created_at
    tx,             \* transactions sent, in order
    lapsed,         \* authorizations whose validBefore has passed
    auths,          \* authorization nonces drawn so far
    domain,         \* the process's cache of the verified EIP-712 domain
    ticker,         \* local state of the ticks
    faults, reorgs, drops

chainVars == <<received, confirmed, tx, lapsed>>
bounds == <<faults, reorgs, drops>>
vars == <<received, confirmed, sweep, tx, lapsed, auths, domain, ticker,
          faults, reorgs, drops>>

-----------------------------------------------------------------------------

Live == {"planned", "authorized", "broadcast"}
Swept == Live \cup {"confirmed"}
Status == Swept \cup {"failed", "skipped", "deleted"}
NoNonce == -1   \* account_nonce IS NULL

\* An authorization nonce or a transaction hash of 0 is NULL.
SweepRow == [pairing: Pairing, status: Status, amountRaw: Nat, authorizationNonce: Nat,
             accountNonce: Nat \cup {NoNonce}, txHash: Nat, attempts: Nat,
             nextAttempt: {"due", "later"}]
TxRow == [sweep: Nat \ {0}, authorizationNonce: Nat, amountRaw: Nat,
          accountNonce: Nat \cup {NoNonce}, state: {"mempool", "dropped", "ok", "reverted"},
          depth: {"shallow", "final"}]
TickerState == [pc: {"idle", "plan", "insert", "select", "loop", "authorize", "sign", "send",
                     "sent", "settle", "revert", "failing", "fail"},
                found: [Pairing -> Nat], decided: [Pairing -> {"none", "planned", "skipped"}],
                todo: SUBSET Nat, rows: Seq(SweepRow), amountRaw: Nat, txHash: Nat,
                dead: {"yes", "no"}]

Idle == [pc |-> "idle", found |-> [p \in Pairing |-> 0], decided |-> [p \in Pairing |-> "none"],
         todo |-> {}, rows |-> <<>>, amountRaw |-> 0, txHash |-> 0, dead |-> "no"]

TypeOK ==
    /\ received \in [Pairing -> Nat]
    /\ confirmed \in [Pairing -> Nat]
    /\ sweep \in Seq(SweepRow)
    /\ tx \in Seq(TxRow)
    /\ \A t \in DOMAIN tx : tx[t].sweep \in DOMAIN sweep
    /\ lapsed \subseteq Nat
    /\ auths \in Nat
    /\ domain \in {"unknown", "verified", "none"}
    /\ ticker \in [Ticker -> TickerState]
    /\ \A k \in Ticker : /\ ticker[k].todo \subseteq DOMAIN ticker[k].rows
                         /\ DOMAIN ticker[k].rows \subseteq DOMAIN sweep
    /\ faults \in Nat /\ reorgs \in Nat /\ drops \in Nat

Init ==
    /\ received = [p \in Pairing |-> 0]
    /\ confirmed = [p \in Pairing |-> 0]
    /\ sweep = <<>>
    /\ tx = <<>>
    /\ lapsed = {}
    /\ auths = 0
    /\ domain = "unknown"
    /\ ticker = [k \in Ticker |-> Idle]
    /\ faults = 0 /\ reorgs = 0 /\ drops = 0

Fault == faults < MaxFaults /\ faults' = faults + 1 /\ UNCHANGED <<reorgs, drops>>

-----------------------------------------------------------------------------
(***************************************************************************)
(* The chain.  Every eip3009 sweep is sent by the relayer, every native    *)
(* sweep by its own address; an account's transactions are mined in the    *)
(* order of their nonces.                                                  *)
(***************************************************************************)

viaOf(i) == via[sweep[i].pairing]

\* The account that sends for row i: {} is the relayer.
Account(i) == IF viaOf(i) = "native" THEN {sweep[i].pairing} ELSE {}
SentBy(a) == {t \in DOMAIN tx : Account(tx[t].sweep) = a}

Mined(t) == tx[t].state \in {"ok", "reverted"}

Balance(p) ==
    received[p] - MapThenSumSet(
        LAMBDA t : tx[t].amountRaw + (IF via[p] = "native" THEN Fee ELSE 0),
        {t \in DOMAIN tx : tx[t].state = "ok" /\ sweep[tx[t].sweep].pairing = p})

authorizationUsed(n) ==
    \E t \in DOMAIN tx : tx[t].state = "ok" /\ tx[t].authorizationNonce = n

Receive(p) ==
    /\ received[p] < MaxDeposits * DepositRaw
    /\ received' = [received EXCEPT ![p] = @ + DepositRaw]
    /\ UNCHANGED <<confirmed, sweep, tx, lapsed, auths, domain, ticker, bounds>>

\* The confirmer marks a deposit confirmed.
ConfirmDeposit(p) ==
    /\ confirmed[p] < received[p]
    /\ confirmed' = [confirmed EXCEPT ![p] = @ + DepositRaw]
    /\ UNCHANGED <<received, sweep, tx, lapsed, auths, domain, ticker, bounds>>

SetTx(t, state, depth) ==
    tx' = [tx EXCEPT ![t].state = state, ![t].depth = depth]

\* The token moves the funds once per authorization, while it is valid and covered.
Mine(t) ==
    LET i == tx[t].sweep
        p == sweep[i].pairing IN
    /\ tx[t].state = "mempool"
    /\ \A n \in 0..tx[t].accountNonce - 1 :
         \E s \in SentBy(Account(i)) : tx[s].accountNonce = n /\ Mined(s)
    /\ IF viaOf(i) = "native"
       THEN Balance(p) >= tx[t].amountRaw + Fee /\ SetTx(t, "ok", "shallow")
       ELSE IF /\ ~authorizationUsed(tx[t].authorizationNonce)
               /\ tx[t].authorizationNonce \notin lapsed
               /\ Balance(p) >= tx[t].amountRaw
            THEN SetTx(t, "ok", "shallow")
            ELSE SetTx(t, "reverted", "shallow")
    /\ UNCHANGED <<received, confirmed, sweep, lapsed, auths, domain, ticker, bounds>>

Finalize(t) ==
    /\ Mined(t)
    /\ tx[t].depth = "shallow"
    /\ \A s \in SentBy(Account(tx[t].sweep)) :
         tx[s].accountNonce < tx[t].accountNonce /\ Mined(s) => tx[s].depth = "final"
    /\ SetTx(t, tx[t].state, "final")
    /\ UNCHANGED <<received, confirmed, sweep, lapsed, auths, domain, ticker, bounds>>

Reorg(t) ==
    /\ reorgs < MaxReorgs
    /\ reorgs' = reorgs + 1
    /\ Mined(t)
    /\ tx[t].depth = "shallow"
    /\ \A s \in SentBy(Account(tx[t].sweep)) :
         tx[s].accountNonce > tx[t].accountNonce => ~Mined(s)
    /\ SetTx(t, "mempool", "shallow")
    /\ UNCHANGED <<received, confirmed, sweep, lapsed, auths, domain, ticker, faults, drops>>

Drop(t) ==
    /\ drops < MaxDrops
    /\ drops' = drops + 1
    /\ tx[t].state = "mempool"
    /\ SetTx(t, "dropped", "shallow")
    /\ UNCHANGED <<received, confirmed, sweep, lapsed, auths, domain, ticker, faults, reorgs>>

\* SWEEP_AUTH_TTL_SEC passes.
Lapse(n) ==
    /\ n \in 1..auths \ lapsed
    /\ lapsed' = lapsed \cup {n}
    /\ UNCHANGED <<received, confirmed, sweep, tx, auths, domain, ticker, bounds>>

-----------------------------------------------------------------------------
(***************************************************************************)
(* plan: the unswept ledger is read once, priced, and each candidate's     *)
(* decision recorded.                                                      *)
(***************************************************************************)

\* Mutant: what has been swept before is not subtracted.
UnsweptGross(p) == confirmed[p]

\* The amounts of a pairing's rows with one of these statuses.
AmountIn(p, statuses) ==
    SumFunctionOnSet([i \in DOMAIN sweep |-> sweep[i].amountRaw],
                     {i \in DOMAIN sweep : sweep[i].pairing = p /\ sweep[i].status \in statuses})

\* unsweptLedger: confirmed deposits less the sweeps that are live or confirmed.
Unswept(p) == confirmed[p] - AmountIn(p, Swept)

\* Mutant: sweeps awaiting their receipt are not looked at again.
DueUnsent == {i \in DOMAIN sweep : /\ sweep[i].status \in {"planned", "authorized"}
                                   /\ sweep[i].nextAttempt = "due"}

\* dueSweeps
Due == {i \in DOMAIN sweep : sweep[i].status \in Live /\ sweep[i].nextAttempt = "due"}

\* next_attempt_at is reached.
BackoffEnds(i) ==
    /\ sweep[i].nextAttempt = "later"
    /\ sweep' = [sweep EXCEPT ![i].nextAttempt = "due"]
    /\ UNCHANGED <<chainVars, auths, domain, ticker, bounds>>

Candidates(found) == {p \in Pairing : found[p] > 0}

Planning(found) ==
    IF Candidates(found) = {} THEN [Idle EXCEPT !.pc = "select"]
                              ELSE [Idle EXCEPT !.pc = "plan", !.found = found]

\* A tick with nothing to plan and nothing due changes nothing and is left out.  The
\* ledger is not read once the bound on rows is reached.
PlanStart(k) ==
    LET found == [p \in Pairing |->
                    IF Unswept(p) \in Nat /\ Len(sweep) < MaxSweeps THEN Unswept(p) ELSE 0] IN
    /\ ticker[k].pc = "idle"
    /\ Candidates(found) # {} \/ Due # {}
    /\ ticker' = [ticker EXCEPT ![k] = Planning(found)]
    /\ UNCHANGED <<chainVars, sweep, auths, domain, bounds>>

NextCandidate(k, p) ==
    ticker' = [ticker EXCEPT ![k] = Planning([ticker[k].found EXCEPT ![p] = 0])]

Insert(k, p, status) ==
    ticker' = [ticker EXCEPT ![k].pc = "insert", ![k].decided[p] = status]

\* decide says yes, and record's first statement deletes the pairing's skipped rows.
\* Prices, gas and the rate service may also say no, whatever the amount.
DecideSweep(k, p) ==
    /\ ticker[k].pc = "plan"
    /\ p \in Candidates(ticker[k].found)
    /\ ticker[k].found[p] >= MinRaw
    /\ sweep' = [i \in DOMAIN sweep |->
                    IF sweep[i].pairing = p /\ sweep[i].status = "skipped"
                    THEN [sweep[i] EXCEPT !.status = "deleted"] ELSE sweep[i]]
    /\ Insert(k, p, "planned")
    /\ UNCHANGED <<chainVars, auths, domain, bounds>>

Skipped(p) == {i \in DOMAIN sweep : sweep[i].pairing = p /\ sweep[i].status = "skipped"}

\* decide says no: the pairing's skipped row is refreshed, or one is to be inserted.
DecideSkip(k, p) ==
    /\ ticker[k].pc = "plan"
    /\ p \in Candidates(ticker[k].found)
    /\ IF Skipped(p) = {}
       THEN Insert(k, p, "skipped") /\ UNCHANGED sweep
       ELSE /\ \E i \in Skipped(p) :
                 sweep' = [sweep EXCEPT ![i].amountRaw = ticker[k].found[p]]
            /\ NextCandidate(k, p)
    /\ UNCHANGED <<chainVars, auths, domain, bounds>>

NewRow(p, status, amountRaw) ==
    [pairing |-> p, status |-> status, amountRaw |-> amountRaw, authorizationNonce |-> 0,
     accountNonce |-> NoNonce, txHash |-> 0, attempts |-> 0, nextAttempt |-> "due"]

\* The insert; sweeps_live_idx admits one live row per pairing.
InsertRow(k, p) ==
    LET status == ticker[k].decided[p] IN
    /\ ticker[k].pc = "insert"
    /\ status # "none"
    /\ IF status = "planned" /\ \E i \in DOMAIN sweep : /\ sweep[i].pairing = p
                                                        /\ sweep[i].status \in Live
       THEN UNCHANGED sweep
       ELSE /\ Len(sweep) < MaxSweeps
            /\ sweep' = Append(sweep, NewRow(p, status, ticker[k].found[p]))
    /\ NextCandidate(k, p)
    /\ UNCHANGED <<chainVars, auths, domain, bounds>>

-----------------------------------------------------------------------------
(***************************************************************************)
(* execute: the due rows as they were when selected, oldest first.         *)
(***************************************************************************)

Executing(todo, rows) ==
    IF todo = {} THEN Idle ELSE [Idle EXCEPT !.pc = "loop", !.todo = todo, !.rows = rows]

SelectDue(k) ==
    /\ ticker[k].pc = "select"
    /\ ticker' = [ticker EXCEPT ![k] = Executing(Due, sweep)]
    /\ UNCHANGED <<chainVars, sweep, auths, domain, bounds>>

\* Row i, in the state the tick selected it in, is the one being handled at step pc.
At(k, i, pc) ==
    /\ ticker[k].pc = pc
    /\ i \in ticker[k].todo
    /\ \A j \in ticker[k].todo : i <= j

Row(k, i) == ticker[k].rows[i]

GoTo(k, pc) == ticker' = [ticker EXCEPT ![k].pc = pc]
Dead(k) == ticker' = [ticker EXCEPT ![k].pc = "failing", ![k].dead = "yes"]

\* Mutant: the row stays in the batch.
NextRowRepeats(k, i) ==
    ticker' = [ticker EXCEPT ![k] = Executing(ticker[k].todo, ticker[k].rows)]

NextRow(k, i) ==
    ticker' = [ticker EXCEPT ![k] = Executing(ticker[k].todo \ {i}, ticker[k].rows)]

\* The index refuses a live status while another row of the pairing is live.
Refused(i, status) ==
    /\ status \in Live
    /\ sweep[i].status # "deleted"
    /\ \E j \in DOMAIN sweep \ {i} : /\ sweep[j].pairing = sweep[i].pairing
                                     /\ sweep[j].status \in Live

\* set: an update by id, whatever the row has become since it was selected.
Set(i, row) ==
    /\ ~Refused(i, row.status)
    /\ sweep' = IF sweep[i].status = "deleted" THEN sweep ELSE [sweep EXCEPT ![i] = row]

-----------------------------------------------------------------------------
(***************************************************************************)
(* authorize: planned -> authorized.  The nonce is drawn and stored before *)
(* anything is signed; a native row stores the amount its balance affords. *)
(***************************************************************************)

AuthorizeToken(k, i) ==
    /\ At(k, i, "loop")
    /\ Row(k, i).status = "planned"
    /\ viaOf(i) = "eip3009"
    /\ auths' = auths + 1
    /\ Set(i, [sweep[i] EXCEPT !.status = "authorized", !.authorizationNonce = auths + 1])
    /\ NextRow(k, i)
    /\ UNCHANGED <<chainVars, domain, bounds>>

nativeSweepAmount(p) ==
    LET rest == Balance(p) - Fee IN IF rest \in Nat THEN rest ELSE 0

ReadBalance(k, i) ==
    /\ At(k, i, "loop")
    /\ Row(k, i).status = "planned"
    /\ viaOf(i) = "native"
    /\ ticker' = [ticker EXCEPT ![k].pc = "authorize",
                                ![k].amountRaw = nativeSweepAmount(sweep[i].pairing)]
    /\ UNCHANGED <<chainVars, sweep, auths, domain, bounds>>

AuthorizeNative(k, i) ==
    LET amountRaw == ticker[k].amountRaw
        status == IF amountRaw = 0 THEN "skipped" ELSE "authorized" IN
    /\ At(k, i, "authorize")
    /\ Set(i, [sweep[i] EXCEPT !.status = status, !.amountRaw = amountRaw])
    /\ NextRow(k, i)
    /\ UNCHANGED <<chainVars, auths, domain, bounds>>

-----------------------------------------------------------------------------
(***************************************************************************)
(* broadcast: authorized -> broadcast.                                     *)
(***************************************************************************)

\* Whether an earlier attempt has landed, asked of the token.
CheckUsed(k, i) ==
    /\ At(k, i, "loop")
    /\ Row(k, i).status = "authorized"
    /\ viaOf(i) = "eip3009"
    /\ GoTo(k, IF authorizationUsed(Row(k, i).authorizationNonce) THEN "settle" ELSE "sign")
    /\ UNCHANGED <<chainVars, sweep, auths, domain, bounds>>

BroadcastNative(k, i) ==
    /\ At(k, i, "loop")
    /\ Row(k, i).status = "authorized"
    /\ viaOf(i) = "native"
    /\ GoTo(k, "send")
    /\ UNCHANGED <<chainVars, sweep, auths, domain, bounds>>

SignAuthorization(k, i) ==
    /\ At(k, i, "sign")
    /\ domain # "none"
    /\ domain' = "verified"
    /\ GoTo(k, "send")
    /\ UNCHANGED <<chainVars, sweep, auths, bounds>>

\* A read that failed while the domain was resolved, remembered until a restart.
DomainUnverifiable(k, i) ==
    /\ At(k, i, "sign")
    /\ \/ domain = "none" /\ UNCHANGED bounds
       \/ domain = "unknown" /\ Fault
    /\ domain' = "none"
    /\ Dead(k)
    /\ UNCHANGED <<chainVars, sweep, auths>>

\* The node's pending nonce of an account: the first it has no transaction for.
PendingNonce(a) ==
    {n \in 0..Len(tx) :
        /\ \A m \in 0..n - 1 : \E t \in SentBy(a) : /\ tx[t].accountNonce = m
                                                    /\ tx[t].state # "dropped"
        /\ \A t \in SentBy(a) : tx[t].accountNonce = n => tx[t].state = "dropped"}

\* A stored account nonce is used again, otherwise the pending one is.
AccountNonce(k, i) ==
    IF Row(k, i).accountNonce # NoNonce THEN {Row(k, i).accountNonce}
                                        ELSE PendingNonce(Account(i))

\* Mutant: the authorization is drawn when it is signed.
SignedWithFresh(k, i) == Len(tx) + 100

\* The authorization signed is the stored one.
SignedWith(k, i) == Row(k, i).authorizationNonce

SameNonce(k, i) == {t \in SentBy(Account(i)) : tx[t].accountNonce \in AccountNonce(k, i)}

\* The node takes a transaction its sender can pay for and whose nonce is not mined;
\* it replaces a pending one of the same nonce.
Accepted(k, i) ==
    /\ \A t \in SameNonce(k, i) : ~Mined(t)
    /\ viaOf(i) = "native" => Balance(sweep[i].pairing) >= Row(k, i).amountRaw + Fee

AddTx(k, i) ==
    /\ Len(tx) < MaxTxs
    /\ \E nonce \in AccountNonce(k, i) :
       tx' = Append([t \in DOMAIN tx |->
                        IF t \in SameNonce(k, i) THEN [tx[t] EXCEPT !.state = "dropped"]
                                                 ELSE tx[t]],
                    [sweep |-> i, authorizationNonce |-> SignedWith(k, i),
                     amountRaw |-> Row(k, i).amountRaw, accountNonce |-> nonce,
                     state |-> "mempool", depth |-> "shallow"])

Send(k, i) ==
    /\ At(k, i, "send")
    /\ Accepted(k, i)
    /\ AddTx(k, i)
    /\ ticker' = [ticker EXCEPT ![k].pc = "sent", ![k].txHash = Len(tx) + 1]
    /\ UNCHANGED <<received, confirmed, sweep, lapsed, auths, domain, bounds>>

\* The transaction is out and the call fails all the same.
SendUnheard(k, i) ==
    /\ At(k, i, "send")
    /\ Accepted(k, i)
    /\ AddTx(k, i)
    /\ Fault
    /\ GoTo(k, "fail")
    /\ UNCHANGED <<received, confirmed, sweep, lapsed, auths, domain>>

\* Nonce too low, replacement underpriced or insufficient funds.
SendRefused(k, i) ==
    /\ At(k, i, "send")
    /\ ~Accepted(k, i) \/ SameNonce(k, i) # {}
    /\ GoTo(k, "fail")
    /\ UNCHANGED <<chainVars, sweep, auths, domain, bounds>>

\* The account nonce is stored only now, after the broadcast.
RecordBroadcast(k, i) ==
    LET t == ticker[k].txHash IN
    /\ At(k, i, "sent")
    /\ Set(i, [sweep[i] EXCEPT !.status = "broadcast", !.txHash = t,
                               !.accountNonce = tx[t].accountNonce])
    /\ NextRow(k, i)
    /\ UNCHANGED <<chainVars, auths, domain, bounds>>

-----------------------------------------------------------------------------
(***************************************************************************)
(* confirm: broadcast -> confirmed, or back to authorized.                 *)
(***************************************************************************)

MissingHash(k, i) ==
    /\ At(k, i, "loop")
    /\ Row(k, i).status = "broadcast"
    /\ Row(k, i).txHash = 0
    /\ Dead(k)
    /\ UNCHANGED <<chainVars, sweep, auths, domain, bounds>>

\* The receipt of the row's transaction.
Receipt(k, i) ==
    LET t == Row(k, i).txHash IN
    IF ~Mined(t) THEN "pending"
    ELSE IF tx[t].state = "reverted" THEN "reverted"
    ELSE IF tx[t].depth = "shallow" THEN "maturing" ELSE "confirmed"

Awaiting(k, i) ==
    /\ At(k, i, "loop")
    /\ Row(k, i).status = "broadcast"
    /\ Row(k, i).txHash # 0

StillMaturing(k, i) ==
    /\ Awaiting(k, i)
    /\ Receipt(k, i) \in {"pending", "maturing"}
    /\ NextRow(k, i)
    /\ UNCHANGED <<chainVars, sweep, auths, domain, bounds>>

\* A failed receipt lookup is caught and reads as pending.
ReceiptUnread(k, i) ==
    /\ Awaiting(k, i)
    /\ Fault
    /\ NextRow(k, i)
    /\ UNCHANGED <<chainVars, sweep, auths, domain>>

\* Mutant: a transaction that was reverted counts as an earlier attempt that landed.
HasMovedOnReceipt(k, i) == Receipt(k, i) \in {"confirmed", "reverted"}

\* A final receipt; or a reverted one, of an authorization used by an earlier attempt.
HasMoved(k, i) ==
    \/ Receipt(k, i) = "confirmed"
    \/ /\ Receipt(k, i) = "reverted"
       /\ viaOf(i) = "eip3009"
       /\ authorizationUsed(Row(k, i).authorizationNonce)

Moved(k, i) ==
    /\ Awaiting(k, i)
    /\ HasMoved(k, i)
    /\ GoTo(k, "settle")
    /\ UNCHANGED <<chainVars, sweep, auths, domain, bounds>>

Reverted(k, i) ==
    /\ Awaiting(k, i)
    /\ Receipt(k, i) = "reverted"
    /\ ~HasMoved(k, i)
    /\ GoTo(k, "revert")
    /\ UNCHANGED <<chainVars, sweep, auths, domain, bounds>>

RecordConfirmed(k, i) ==
    /\ At(k, i, "settle")
    /\ Set(i, [sweep[i] EXCEPT !.status = "confirmed"])
    /\ NextRow(k, i)
    /\ UNCHANGED <<chainVars, auths, domain, bounds>>

RecordReverted(k, i) ==
    /\ At(k, i, "revert")
    /\ Set(i, [sweep[i] EXCEPT !.status = "authorized", !.txHash = 0,
                               !.accountNonce = NoNonce])
    /\ GoTo(k, "failing")
    /\ UNCHANGED <<chainVars, auths, domain, bounds>>

-----------------------------------------------------------------------------
(***************************************************************************)
(* fail, and what leads to it: a call or a statement of the try that       *)
(* throws.                                                                 *)
(***************************************************************************)

\* fail is called inside the try ("failing") or in its catch ("fail").  It counts from
\* the row as it was selected, whose status it writes back as well.
Failed(k, i) ==
    LET attempts == Row(k, i).attempts + 1
        dead == ticker[k].dead = "yes" \/ attempts >= MaxAttempts IN
    [sweep[i] EXCEPT !.attempts = attempts, !.nextAttempt = "later",
                     !.status = IF dead THEN "failed" ELSE Row(k, i).status]

RecordFailure(k, i) ==
    /\ At(k, i, "failing") \/ At(k, i, "fail")
    /\ Set(i, Failed(k, i))
    /\ NextRow(k, i)
    /\ UNCHANGED <<chainVars, auths, domain, bounds>>

Throws(k, i) ==
    /\ \E pc \in {"loop", "authorize", "sign", "send", "sent", "settle", "revert", "failing"} :
         At(k, i, pc)
    /\ Fault
    /\ ticker' = [ticker EXCEPT ![k].pc = "fail", ![k].dead = "no"]
    /\ UNCHANGED <<chainVars, sweep, auths, domain>>

\* The index refuses the row's next status.
SetRefused(k, i) ==
    /\ \/ At(k, i, "loop") /\ Row(k, i).status = "planned" /\ viaOf(i) = "eip3009"
       \/ At(k, i, "authorize") /\ ticker[k].amountRaw > 0
       \/ At(k, i, "sent")
       \/ At(k, i, "revert")
       \/ At(k, i, "failing") /\ Failed(k, i).status \in Live
    /\ Refused(i, "broadcast")
    /\ GoTo(k, "fail")
    /\ UNCHANGED <<chainVars, sweep, auths, domain, bounds>>

\* A failure outside the try, or of fail itself, ends the tick.
TickFails(k) ==
    /\ \/ ticker[k].pc \in {"plan", "insert", "select", "fail"} /\ Fault
       \/ /\ \E i \in ticker[k].todo :
               At(k, i, "fail") /\ Refused(i, Failed(k, i).status)
          /\ UNCHANGED bounds
    /\ ticker' = [ticker EXCEPT ![k] = Idle]
    /\ UNCHANGED <<chainVars, sweep, auths, domain>>

\* The process dies and restarts: the database and the chain survive.
Restart ==
    /\ Fault
    /\ ticker' = [k \in Ticker |-> Idle]
    /\ domain' = "unknown"
    /\ UNCHANGED <<chainVars, sweep, auths>>

Plan(k) ==
    \/ PlanStart(k)
    \/ \E p \in Pairing : DecideSweep(k, p) \/ DecideSkip(k, p) \/ InsertRow(k, p)

Execute(k) ==
    \/ SelectDue(k)
    \/ \E i \in ticker[k].todo :
        \/ AuthorizeToken(k, i) \/ ReadBalance(k, i) \/ AuthorizeNative(k, i)
        \/ CheckUsed(k, i) \/ BroadcastNative(k, i) \/ SignAuthorization(k, i)
        \/ Send(k, i) \/ SendRefused(k, i) \/ RecordBroadcast(k, i)
        \/ MissingHash(k, i) \/ StillMaturing(k, i) \/ Moved(k, i) \/ Reverted(k, i)
        \/ RecordConfirmed(k, i) \/ RecordReverted(k, i) \/ RecordFailure(k, i)
        \/ SetRefused(k, i) \/ DomainUnverifiable(k, i)

Next ==
    \/ \E p \in Pairing : Receive(p) \/ ConfirmDeposit(p)
    \/ \E t \in DOMAIN tx : Mine(t) \/ Finalize(t) \/ Reorg(t) \/ Drop(t)
    \/ \E n \in 1..auths : Lapse(n)
    \/ \E i \in DOMAIN sweep : BackoffEnds(i)
    \/ \E k \in Ticker : Plan(k) \/ Execute(k) \/ TickFails(k)
    \/ \E k \in Ticker : \E i \in ticker[k].todo :
        Throws(k, i) \/ SendUnheard(k, i) \/ ReceiptUnread(k, i)
    \/ Restart

Spec == Init /\ [][Next]_vars

(***************************************************************************)
(* setInterval keeps calling, an awaited call returns or throws, backoffs  *)
(* run out, and the chain mines what it has not lost.  Nothing is assumed  *)
(* of payers, faults, reorganisations, evictions or the authorizations'    *)
(* expiry.                                                                 *)
(***************************************************************************)
FairSpec ==
    /\ Spec
    /\ \A k \in Ticker : WF_vars(Plan(k) \/ Execute(k))
    /\ \A i \in 1..MaxSweeps : WF_vars(i \in DOMAIN sweep /\ BackoffEnds(i))
    /\ \A t \in 1..MaxTxs : WF_vars(t \in DOMAIN tx /\ (Mine(t) \/ Finalize(t)))

-----------------------------------------------------------------------------
(***************************************************************************)
(* Properties                                                              *)
(***************************************************************************)

\* The transactions that moved funds for row i.
Moves(i) == {t \in DOMAIN tx : tx[t].sweep = i /\ tx[t].state = "ok"}

\* Exactly once: as long as ticks do not overlap, the funds of an eip3009 row move at
\* most once, whatever crashes, is lost, reverts, expires or is reorganised away.
RowMovesOnce ==
    \A i \in DOMAIN sweep : viaOf(i) = "eip3009" => \A s, t \in Moves(i) : s = t

\* As long as ticks do not overlap, the live and the confirmed sweeps of a token never
\* exceed its confirmed deposits: no value is planned twice.
NeverOvercommitted ==
    \A p \in Pairing : via[p] = "eip3009" => AmountIn(p, Swept) <= confirmed[p]

\* A row marked confirmed has moved its funds, as long as the chain keeps its blocks.
ConfirmedMeansMoved ==
    \A i \in DOMAIN sweep : sweep[i].status = "confirmed" /\ reorgs = 0 =>
        Moves(i) # {}

\* As long as ticks do not overlap, a confirmed or dead-lettered row is never taken up
\* again, not even by a tick that selected it before.
EndedRowsStay ==
    [][\A i \in DOMAIN sweep : sweep[i].status \in {"confirmed", "failed"} =>
            sweep'[i].status = sweep[i].status]_vars

InProgress(i) == i \in DOMAIN sweep /\ sweep[i].status \in Live

\* Every live row is confirmed, dead-lettered or deferred in the end.
SweepsResolve == \A i \in 1..MaxSweeps : InProgress(i) ~> ~InProgress(i)

(***************************************************************************)
(* What a comment says of this code and it does not do, refuted by a run   *)
(* of its own, like RowMovesOnce by ticks that overlap.                    *)
(***************************************************************************)

\* src/workers/sweeper.ts: on the native path the account nonce "is persisted the same
\* way", before the broadcast.
NativeMovesOnce ==
    \A i \in DOMAIN sweep : viaOf(i) = "native" =>
        \A s, t \in Moves(i) : s = t

=============================================================================
