---------------------------- MODULE SweepProofs ----------------------------
(***************************************************************************)
(* Theorems about SweepExecution: any pairings, any retry ceiling, any     *)
(* crash, lost answer, reorganisation, eviction or expiring authorization. *)
(***************************************************************************)
EXTENDS SweepExecution, SumLemmas, SequenceTheorems

(***************************************************************************)
(* Types.  A tick past its send holds the number of a transaction.         *)
(***************************************************************************)

HashesKnown == \A k \in Ticker : ticker[k].pc = "sent" => ticker[k].txHash \in DOMAIN tx

TypeInv == TypeOK /\ HashesKnown

\* A ticker state that fits the rows selected and the transactions sent.
Fits(next, rows, txs) ==
    /\ next \in TickerState
    /\ next.todo \subseteq DOMAIN next.rows
    /\ DOMAIN next.rows \subseteq DOMAIN rows
    /\ next.pc = "sent" => next.txHash \in DOMAIN txs

LEMMA IdleType == Idle \in TickerState /\ Idle.todo = {} /\ Idle.rows = <<>> /\ Idle.pc = "idle"
BY DEF Idle, TickerState

\* What the type says of a tick.
LEMMA TickerFits ==
    ASSUME TypeInv, NEW k \in Ticker
    PROVE  Fits(ticker[k], sweep, tx)
BY DEF TypeInv, TypeOK, HashesKnown, Fits

\* A tick without rows in hand fits anything.
LEMMA EmptyFits ==
    ASSUME NEW next \in TickerState, next.todo = {}, next.rows = <<>>, next.pc # "sent",
           NEW rows, NEW txs
    PROVE  Fits(next, rows, txs)
BY DEF Fits

\* Tables that only grow, and one tick that moved on.
LEMMA TickStep ==
    ASSUME TypeInv,
           NEW k \in Ticker, NEW next,
           ticker' = [ticker EXCEPT ![k] = next],
           Fits(next, sweep', tx'),
           DOMAIN sweep \subseteq DOMAIN sweep',
           DOMAIN tx \subseteq DOMAIN tx'
    PROVE  /\ ticker' \in [Ticker -> TickerState]
           /\ \A c \in Ticker : /\ ticker'[c].todo \subseteq DOMAIN ticker'[c].rows
                                /\ DOMAIN ticker'[c].rows \subseteq DOMAIN sweep'
           /\ HashesKnown'
<1>1. \A c \in Ticker : ticker'[c] = IF c = k THEN next ELSE ticker[c]
  BY DEF TypeInv, TypeOK
<1>2. \A c \in Ticker : Fits(ticker[c], sweep, tx)
  BY TickerFits
<1>3. \A c \in Ticker : Fits(ticker'[c], sweep', tx')
  BY <1>1, <1>2 DEF Fits
<1>4. ticker' \in [Ticker -> TickerState]
  BY <1>3 DEF Fits, TypeInv, TypeOK
<1>. QED  BY <1>3, <1>4 DEF Fits, HashesKnown

\* One row of the table is replaced.
LEMMA RowType ==
    ASSUME TypeOK, NEW i \in DOMAIN sweep, NEW row \in SweepRow,
           sweep' = [sweep EXCEPT ![i] = row]
    PROVE  /\ sweep' \in Seq(SweepRow)
           /\ DOMAIN sweep' = DOMAIN sweep
           /\ sweep'[i] = row
           /\ \A j \in DOMAIN sweep \ {i} : sweep'[j] = sweep[j]
BY DEF TypeOK

\* What is known of the rows.
LEMMA RowFields ==
    ASSUME TypeOK, NEW i \in DOMAIN sweep
    PROVE  sweep[i] \in SweepRow
BY DEF TypeOK

LEMMA TxFields ==
    ASSUME TypeOK, NEW t \in DOMAIN tx
    PROVE  tx[t] \in TxRow /\ tx[t].sweep \in DOMAIN sweep
BY DEF TypeOK

\* The chain changes the state of a transaction and nothing else of it.
LEMMA TxType ==
    ASSUME TypeOK, NEW t \in DOMAIN tx,
           NEW state \in {"mempool", "dropped", "ok", "reverted"},
           NEW depth \in {"shallow", "final"},
           SetTx(t, state, depth)
    PROVE  /\ tx' \in Seq(TxRow)
           /\ DOMAIN tx' = DOMAIN tx
           /\ \A s \in DOMAIN tx :
                /\ tx'[s].sweep = tx[s].sweep
                /\ tx'[s].authorizationNonce = tx[s].authorizationNonce
                /\ tx'[s].state = IF s = t THEN state ELSE tx[s].state
<1>. DEFINE row == [tx[t] EXCEPT !.state = state, !.depth = depth]
<1>1. tx' = [tx EXCEPT ![t] = row]
  BY DEF SetTx
<1>2. /\ row \in TxRow
      /\ row.sweep = tx[t].sweep
      /\ row.authorizationNonce = tx[t].authorizationNonce
      /\ row.state = state
  BY TxFields DEF TxRow
<1>. HIDE DEF row
<1>3. tx' \in Seq(TxRow) /\ DOMAIN tx' = DOMAIN tx
  BY <1>1, <1>2 DEF TypeOK
<1>4. \A s \in DOMAIN tx : tx'[s] = IF s = t THEN row ELSE tx[s]
  BY <1>1
<1>. QED  BY <1>2, <1>3, <1>4

\* The ticks alone.
TickType ==
    /\ ticker \in [Ticker -> TickerState]
    /\ \A k \in Ticker : /\ ticker[k].todo \subseteq DOMAIN ticker[k].rows
                         /\ DOMAIN ticker[k].rows \subseteq DOMAIN sweep
    /\ HashesKnown

\* The tables and the process, without the ticks.
TablesType ==
    /\ received \in [Pairing -> Nat]
    /\ confirmed \in [Pairing -> Nat]
    /\ sweep \in Seq(SweepRow)
    /\ tx \in Seq(TxRow)
    /\ \A t \in DOMAIN tx : tx[t].sweep \in DOMAIN sweep
    /\ lapsed \subseteq Nat
    /\ auths \in Nat
    /\ domain \in {"unknown", "verified", "none"}
    /\ faults \in Nat /\ reorgs \in Nat /\ drops \in Nat

LEMMA TypeSplit == TypeInv <=> TickType /\ TablesType
BY DEF TypeInv, TypeOK, TickType, TablesType

LEMMA TypeSplitNext == TypeInv' <=> TickType' /\ TablesType'
BY DEF TypeInv, TypeOK, TickType, TablesType

Pcs == {"idle", "plan", "insert", "select", "loop", "authorize", "sign", "send",
        "sent", "settle", "revert", "failing", "fail"}

\* The tick goes on to another step with the same row in hand.
LEMMA GoToStep ==
    ASSUME TypeInv, NEW k \in Ticker, NEW pc \in Pcs \ {"sent"},
           GoTo(k, pc) \/ (pc = "failing" /\ Dead(k))
                       \/ ticker' = [ticker EXCEPT ![k].pc = pc, ![k].dead = "no"],
           DOMAIN sweep \subseteq DOMAIN sweep',
           DOMAIN tx \subseteq DOMAIN tx'
    PROVE  /\ TickType'
           /\ ticker'[k].pc = pc
           /\ ticker'[k].todo = ticker[k].todo
           /\ ticker'[k].rows = ticker[k].rows
<1>. DEFINE next == ticker'[k]
<1>1. /\ ticker[k] \in TickerState
      /\ ticker[k].todo \subseteq DOMAIN ticker[k].rows
      /\ DOMAIN ticker[k].rows \subseteq DOMAIN sweep
  BY TickerFits DEF Fits
<1>2. /\ ticker' = [ticker EXCEPT ![k] = next]
      /\ next \in TickerState
      /\ next.pc = pc
      /\ next.todo = ticker[k].todo
      /\ next.rows = ticker[k].rows
  <2>1. CASE GoTo(k, pc)
    BY <1>1, <2>1 DEF GoTo, TypeInv, TypeOK, TickerState, Pcs
  <2>2. CASE pc = "failing" /\ Dead(k)
    BY <1>1, <2>2 DEF Dead, TypeInv, TypeOK, TickerState, Pcs
  <2>3. CASE ticker' = [ticker EXCEPT ![k].pc = pc, ![k].dead = "no"]
    BY <1>1, <2>3 DEF TypeInv, TypeOK, TickerState, Pcs
  <2>. QED  BY <2>1, <2>2, <2>3
<1>. HIDE DEF next
<1>3. Fits(next, sweep', tx')
  BY <1>1, <1>2 DEF Fits
<1>4. TickType'
  BY <1>2, <1>3, TickStep DEF TickType
<1>. QED  BY <1>2, <1>4 DEF next

\* The tick is done with row i.
LEMMA NextRowStep ==
    ASSUME TypeInv, NEW k \in Ticker, NEW i, NextRow(k, i),
           DOMAIN sweep \subseteq DOMAIN sweep',
           DOMAIN tx \subseteq DOMAIN tx'
    PROVE  /\ TickType'
           /\ ticker'[k].pc \in {"idle", "loop"}
           /\ ticker'[k].pc = "idle" => ticker'[k].todo = {}
           /\ ticker'[k].todo \subseteq ticker[k].todo \ {i}
           /\ ticker'[k].todo # {} => ticker'[k].rows = ticker[k].rows
<1>. DEFINE rest == ticker[k].todo \ {i}
            next == Executing(rest, ticker[k].rows)
<1>1. /\ ticker[k] \in TickerState
      /\ ticker[k].todo \subseteq DOMAIN ticker[k].rows
      /\ DOMAIN ticker[k].rows \subseteq DOMAIN sweep
  BY TickerFits DEF Fits
<1>2. /\ next \in TickerState
      /\ next.pc \in {"idle", "loop"}
      /\ next.pc = "idle" => next.todo = {}
      /\ next.todo \subseteq rest
      /\ next.todo # {} => next.rows = ticker[k].rows
      /\ next.todo \subseteq DOMAIN next.rows
      /\ DOMAIN next.rows \subseteq DOMAIN sweep
  <2>1. CASE rest = {}
    BY <2>1, IdleType DEF Executing
  <2>2. CASE rest # {}
    BY <1>1, <2>2, IdleType DEF Executing, TickerState, Idle
  <2>. QED  BY <2>1, <2>2
<1>3. ticker' = [ticker EXCEPT ![k] = next]
  BY DEF NextRow
<1>. HIDE DEF next
<1>4. Fits(next, sweep', tx')
  BY <1>2 DEF Fits
<1>5. TickType'
  BY <1>3, <1>4, TickStep DEF TickType
<1>6. ticker'[k] = next
  BY <1>3 DEF TypeInv, TypeOK
<1>. QED  BY <1>2, <1>5, <1>6

\* The tick goes on planning.
LEMMA PlanningStep ==
    ASSUME TypeInv, NEW k \in Ticker, NEW found \in [Pairing -> Nat],
           ticker' = [ticker EXCEPT ![k] = Planning(found)],
           DOMAIN sweep \subseteq DOMAIN sweep',
           DOMAIN tx \subseteq DOMAIN tx'
    PROVE  /\ TickType'
           /\ ticker'[k].pc \in {"plan", "select"}
           /\ ticker'[k].todo = {}
<1>. DEFINE next == Planning(found)
<1>1. /\ next \in TickerState
      /\ next.pc \in {"plan", "select"}
      /\ next.todo = {}
      /\ next.rows = <<>>
  <2>1. [Idle EXCEPT !.pc = "select"] \in TickerState
    BY IdleType DEF TickerState
  <2>2. [Idle EXCEPT !.pc = "plan", !.found = found] \in TickerState
    BY IdleType DEF TickerState
  <2>. QED  BY <2>1, <2>2 DEF Planning, Idle
<1>. HIDE DEF next
<1>2. Fits(next, sweep', tx')
  BY <1>1, EmptyFits
<1>3. TickType'
  BY <1>2, TickStep DEF TickType, next
<1>. QED  BY <1>1, <1>3 DEF TypeInv, TypeOK, next

-----------------------------------------------------------------------------
(***************************************************************************)
(* What the statements of a tick write.                                    *)
(***************************************************************************)

LEMMA InHand ==
    ASSUME TypeInv, NEW k \in Ticker, NEW i \in ticker[k].todo
    PROVE  i \in DOMAIN sweep /\ Row(k, i) \in SweepRow
BY TickerFits DEF Fits, Row, TickerState

LEMMA SetStep ==
    ASSUME TypeOK, NEW i \in DOMAIN sweep, NEW row \in SweepRow, Set(i, row)
    PROVE  /\ sweep' \in Seq(SweepRow)
           /\ DOMAIN sweep' = DOMAIN sweep
           /\ sweep'[i] \in {row, sweep[i]}
           /\ \A j \in DOMAIN sweep \ {i} : sweep'[j] = sweep[j]
<1>1. CASE sweep' = sweep
  BY <1>1 DEF TypeOK
<1>2. CASE sweep' = [sweep EXCEPT ![i] = row]
  BY <1>2, RowType
<1>. QED  BY <1>1, <1>2 DEF Set

Writes(k, i) ==
    \/ AuthorizeToken(k, i)
    \/ AuthorizeNative(k, i)
    \/ RecordBroadcast(k, i)
    \/ RecordConfirmed(k, i)
    \/ RecordReverted(k, i)
    \/ RecordFailure(k, i)

\* Where what a statement stores in row i comes from.
Stored(k, i, row) ==
    /\ AuthorizeToken(k, i) => row.authorizationNonce = auths + 1
    /\ \/ row.txHash \in {0, sweep[i].txHash}
       \/ At(k, i, "sent") /\ row.txHash = ticker[k].txHash
    /\ row.amountRaw = sweep[i].amountRaw \/ AuthorizeNative(k, i)
    /\ \/ row.status \in {"failed", "skipped", Row(k, i).status}
       \/ row.status = "confirmed" /\ At(k, i, "settle")
       \/ /\ row.status \in {"authorized", "broadcast"}
          /\ AuthorizeToken(k, i) \/ \E pc \in {"authorize", "sent", "revert"} : At(k, i, pc)

\* A statement of a tick keeps the pairing of its row and, unless it authorizes it, the
\* authorization; only a failure writes planned back.
LEMMA WriteStep ==
    ASSUME TypeInv, NEW k \in Ticker, NEW i \in ticker[k].todo, Writes(k, i)
    PROVE  \E row \in SweepRow :
              /\ Set(i, row)
              /\ row.pairing = sweep[i].pairing
              /\ row.authorizationNonce = sweep[i].authorizationNonce \/ AuthorizeToken(k, i)
              /\ row.status = "planned" => RecordFailure(k, i) /\ Row(k, i).status = "planned"
              /\ RecordReverted(k, i) => row.status = "authorized"
              /\ Stored(k, i, row)
<1>1. /\ sweep[i] \in SweepRow
      /\ Row(k, i) \in SweepRow
      /\ ticker[k] \in TickerState
      /\ i \in DOMAIN sweep
  BY InHand, RowFields, TickerFits DEF Fits, TypeInv
<1>2. CASE AuthorizeToken(k, i)
  <2>. DEFINE n == auths + 1
              row == [sweep[i] EXCEPT !.status = "authorized", !.authorizationNonce = n]
  <2>1. n \in Nat
    BY DEF TypeInv, TypeOK
  <2>2. Set(i, row)
    BY <1>2 DEF AuthorizeToken
  <2>. HIDE DEF n
  <2>3. /\ row \in SweepRow /\ row.pairing = sweep[i].pairing
        /\ row.status = "authorized"
        /\ row.authorizationNonce = n /\ row.txHash = sweep[i].txHash
        /\ row.amountRaw = sweep[i].amountRaw
    BY <1>1, <2>1 DEF SweepRow, Status, Swept, Live
  <2>. HIDE DEF row
  <2>4. Stored(k, i, row)
    BY <1>2, <2>3 DEF Stored, n
  <2>. QED  BY <1>2, <2>2, <2>3, <2>4
<1>3. CASE AuthorizeNative(k, i)
  <2>. DEFINE amount == ticker[k].amountRaw
              status == IF ticker[k].amountRaw = 0 THEN "skipped" ELSE "authorized"
              row == [sweep[i] EXCEPT !.status = status, !.amountRaw = amount]
  <2>1. amount \in Nat
    BY <1>1 DEF TickerState
  <2>2. status \in {"skipped", "authorized"}
    OBVIOUS
  <2>3. Set(i, row)
    BY <1>3 DEF AuthorizeNative
  <2>. HIDE DEF amount, status
  <2>4. /\ row \in SweepRow /\ row.pairing = sweep[i].pairing
        /\ row.authorizationNonce = sweep[i].authorizationNonce
        /\ row.status = status /\ row.txHash = sweep[i].txHash
    BY <1>1, <2>1, <2>2 DEF SweepRow, Status, Swept, Live
  <2>5. ~RecordReverted(k, i) /\ ~AuthorizeToken(k, i) /\ At(k, i, "authorize")
    BY <1>3 DEF AuthorizeNative, AuthorizeToken, RecordReverted, At
  <2>. HIDE DEF row
  <2>6. Stored(k, i, row)
    BY <1>3, <2>2, <2>4, <2>5 DEF Stored
  <2>. QED  BY <2>2, <2>3, <2>4, <2>5, <2>6
<1>4. CASE RecordBroadcast(k, i)
  <2>. DEFINE t == ticker[k].txHash
              n == tx[t].accountNonce
              row == [sweep[i] EXCEPT !.status = "broadcast", !.txHash = t, !.accountNonce = n]
  <2>1. t \in DOMAIN tx /\ t \in Nat
    BY <1>1, <1>4 DEF RecordBroadcast, At, TypeInv, HashesKnown, TickerState
  <2>2. n \in Nat \cup {NoNonce}
    BY <2>1, TxFields DEF TxRow, TypeInv
  <2>3. Set(i, row)
    BY <1>4 DEF RecordBroadcast
  <2>. HIDE DEF t, n
  <2>4. /\ row \in SweepRow /\ row.pairing = sweep[i].pairing
        /\ row.authorizationNonce = sweep[i].authorizationNonce
        /\ row.status = "broadcast"
        /\ row.txHash = t /\ row.amountRaw = sweep[i].amountRaw
    BY <1>1, <2>1, <2>2 DEF SweepRow, Status, Swept, Live
  <2>5. ~RecordReverted(k, i) /\ ~AuthorizeToken(k, i) /\ At(k, i, "sent")
    BY <1>4 DEF RecordBroadcast, AuthorizeToken, RecordReverted, At
  <2>. HIDE DEF row
  <2>6. Stored(k, i, row)
    BY <2>4, <2>5 DEF Stored, t
  <2>. QED  BY <2>3, <2>4, <2>5, <2>6
<1>5. CASE RecordConfirmed(k, i)
  <2>. DEFINE row == [sweep[i] EXCEPT !.status = "confirmed"]
  <2>1. Set(i, row)
    BY <1>5 DEF RecordConfirmed
  <2>2. /\ row \in SweepRow /\ row.pairing = sweep[i].pairing
        /\ row.authorizationNonce = sweep[i].authorizationNonce
        /\ row.status = "confirmed"
        /\ row.txHash = sweep[i].txHash /\ row.amountRaw = sweep[i].amountRaw
    BY <1>1 DEF SweepRow, Status, Swept, Live
  <2>3. ~RecordReverted(k, i) /\ ~AuthorizeToken(k, i) /\ At(k, i, "settle")
    BY <1>5 DEF RecordConfirmed, AuthorizeToken, RecordReverted, At
  <2>. HIDE DEF row
  <2>4. Stored(k, i, row)
    BY <2>2, <2>3 DEF Stored
  <2>. QED  BY <2>1, <2>2, <2>3, <2>4
<1>6. CASE RecordReverted(k, i)
  <2>. DEFINE row == [sweep[i] EXCEPT !.status = "authorized", !.txHash = 0,
                                      !.accountNonce = NoNonce]
  <2>1. Set(i, row)
    BY <1>6 DEF RecordReverted
  <2>2. /\ row \in SweepRow /\ row.pairing = sweep[i].pairing
        /\ row.authorizationNonce = sweep[i].authorizationNonce
        /\ row.status = "authorized"
        /\ row.txHash = 0 /\ row.amountRaw = sweep[i].amountRaw
    BY <1>1 DEF SweepRow, Status, Swept, Live
  <2>3. ~AuthorizeToken(k, i) /\ At(k, i, "revert")
    BY <1>6 DEF RecordReverted, AuthorizeToken, At
  <2>. HIDE DEF row
  <2>4. Stored(k, i, row)
    BY <2>2, <2>3 DEF Stored
  <2>. QED  BY <2>1, <2>2, <2>3, <2>4
<1>7. CASE RecordFailure(k, i)
  <2>. DEFINE attempts == Row(k, i).attempts + 1
              dead == ticker[k].dead = "yes" \/ attempts >= MaxAttempts
              status == IF dead THEN "failed" ELSE Row(k, i).status
              row == [sweep[i] EXCEPT !.attempts = attempts, !.nextAttempt = "later",
                                      !.status = status]
  <2>1. attempts \in Nat /\ status \in Status /\ status \in {"failed", Row(k, i).status}
    BY <1>1 DEF SweepRow, Status
  <2>2. Set(i, row)
    BY <1>7 DEF RecordFailure, Failed
  <2>. HIDE DEF attempts, status
  <2>3. /\ row \in SweepRow /\ row.pairing = sweep[i].pairing
        /\ row.authorizationNonce = sweep[i].authorizationNonce
        /\ row.status = status
        /\ row.txHash = sweep[i].txHash /\ row.amountRaw = sweep[i].amountRaw
    BY <1>1, <2>1 DEF SweepRow
  <2>4. ~RecordReverted(k, i) /\ ~AuthorizeToken(k, i)
    BY <1>7 DEF RecordFailure, AuthorizeToken, RecordReverted, At
  <2>. HIDE DEF row
  <2>5. Stored(k, i, row)
    BY <2>1, <2>3, <2>4 DEF Stored
  <2>. QED  BY <1>7, <2>1, <2>2, <2>3, <2>4, <2>5
<1>. QED  BY <1>2, <1>3, <1>4, <1>5, <1>6, <1>7 DEF Writes

\* The new transaction carries the authorization of the row as it was selected; the
\* others keep theirs, and none of them is mined by a send.
LEMMA AddStep ==
    ASSUME TypeInv, NEW k \in Ticker, NEW i \in ticker[k].todo, AddTx(k, i)
    PROVE  /\ tx' \in Seq(TxRow)
           /\ DOMAIN tx' = DOMAIN tx \cup {Len(tx) + 1}
           /\ Len(tx) + 1 \notin DOMAIN tx
           /\ \A t \in DOMAIN tx :
                /\ tx'[t].sweep = tx[t].sweep
                /\ tx'[t].authorizationNonce = tx[t].authorizationNonce
                /\ tx'[t].state = "ok" => tx[t].state = "ok"
           /\ tx'[Len(tx) + 1].sweep = i
           /\ tx'[Len(tx) + 1].authorizationNonce = Row(k, i).authorizationNonce
           /\ tx'[Len(tx) + 1].state = "mempool"
<1>1. /\ Row(k, i) \in SweepRow
      /\ i \in DOMAIN sweep
      /\ i \in Nat \ {0}
  BY InHand DEF TypeInv, TypeOK
<1>2. PICK nonce \in AccountNonce(k, i) :
       tx' = Append([t \in DOMAIN tx |->
                        IF t \in SameNonce(k, i) THEN [tx[t] EXCEPT !.state = "dropped"]
                                                 ELSE tx[t]],
                    [sweep |-> i, authorizationNonce |-> SignedWith(k, i),
                     amountRaw |-> Row(k, i).amountRaw, accountNonce |-> nonce,
                     state |-> "mempool", depth |-> "shallow"])
  BY DEF AddTx
<1>. DEFINE replaced == SameNonce(k, i)
            left == [t \in DOMAIN tx |->
                        IF t \in replaced THEN [tx[t] EXCEPT !.state = "dropped"] ELSE tx[t]]
            new == [sweep |-> i, authorizationNonce |-> SignedWith(k, i),
                    amountRaw |-> Row(k, i).amountRaw, accountNonce |-> nonce,
                    state |-> "mempool", depth |-> "shallow"]
<1>3. nonce \in Nat \cup {NoNonce}
  <2>1. PendingNonce(Account(i)) \subseteq Nat
    BY DEF PendingNonce, TypeInv, TypeOK
  <2>2. Row(k, i).accountNonce \in Nat \cup {NoNonce}
    BY <1>1 DEF SweepRow
  <2>3. nonce \in AccountNonce(k, i)
    OBVIOUS
  <2>. QED  BY <2>1, <2>2, <2>3 DEF AccountNonce
<1>4. /\ new \in TxRow
      /\ new.sweep = i
      /\ new.authorizationNonce = Row(k, i).authorizationNonce
      /\ new.state = "mempool"
  BY <1>1, <1>3 DEF SignedWith, SweepRow, TxRow
<1>5. tx' = Append(left, new)
  BY <1>2
<1>. HIDE DEF new, replaced
<1>6. \A t \in DOMAIN tx :
        /\ left[t] \in TxRow
        /\ left[t].sweep = tx[t].sweep
        /\ left[t].authorizationNonce = tx[t].authorizationNonce
        /\ left[t].state = "ok" => tx[t].state = "ok"
  BY TxFields DEF TxRow, TypeInv
<1>7. left \in Seq(TxRow) /\ Len(left) = Len(tx) /\ DOMAIN left = DOMAIN tx
  <2>1. tx \in Seq(TxRow)
    BY DEF TypeInv, TypeOK
  <2>2. DOMAIN left = 1..Len(tx) /\ Len(tx) \in Nat
    BY <2>1
  <2>. QED  BY <1>6, <2>1, <2>2
<1>. HIDE DEF left
<1>8. /\ tx' \in Seq(TxRow)
      /\ Len(tx') = Len(tx) + 1
      /\ \A t \in DOMAIN tx : tx'[t] = left[t]
      /\ tx'[Len(tx) + 1] = new
      /\ Len(tx) \in Nat
      /\ DOMAIN tx = 1..Len(tx)
  BY <1>4, <1>5, <1>7, AppendProperties DEF TypeInv, TypeOK
<1>. QED  BY <1>4, <1>6, <1>8

-----------------------------------------------------------------------------
(***************************************************************************)
(* What planning writes, and the steps of a tick that start or end work.   *)
(***************************************************************************)

Plans(k, p) == DecideSweep(k, p) \/ DecideSkip(k, p) \/ InsertRow(k, p)

\* A plan adds rows, and touches none but the skipped ones.
LEMMA PlanWrite ==
    ASSUME TypeInv, NEW k \in Ticker, NEW p \in Pairing, Plans(k, p)
    PROVE  /\ sweep' \in Seq(SweepRow)
           /\ DOMAIN sweep \subseteq DOMAIN sweep'
           /\ \A i \in DOMAIN sweep :
                /\ sweep'[i].pairing = sweep[i].pairing
                /\ sweep'[i].authorizationNonce = sweep[i].authorizationNonce
                /\ sweep'[i].txHash = sweep[i].txHash
                /\ sweep'[i].amountRaw = sweep[i].amountRaw \/ sweep[i].status = "skipped"
                /\ \/ sweep'[i].status = sweep[i].status
                   \/ sweep[i].status = "skipped" /\ sweep'[i].status = "deleted"
           /\ \A i \in DOMAIN sweep' \ DOMAIN sweep :
                /\ InsertRow(k, p) /\ i = Len(sweep) + 1
                /\ sweep'[i] = NewRow(p, ticker[k].decided[p], ticker[k].found[p])
<1>1. /\ ticker[k] \in TickerState
      /\ sweep \in Seq(SweepRow)
      /\ Len(sweep) \in Nat
      /\ DOMAIN sweep = 1..Len(sweep)
      /\ \A i \in DOMAIN sweep : sweep[i] \in SweepRow
  BY TickerFits DEF Fits, TypeInv, TypeOK
<1>2. CASE sweep' = sweep
  BY <1>1, <1>2
<1>3. CASE DecideSweep(k, p)
  <2>. DEFINE del(i) == sweep[i].pairing = p /\ sweep[i].status = "skipped"
              left == [i \in DOMAIN sweep |->
                          IF del(i) THEN [sweep[i] EXCEPT !.status = "deleted"] ELSE sweep[i]]
  <2>1. sweep' = left
    BY <1>3 DEF DecideSweep
  <2>2. \A i \in DOMAIN sweep :
          /\ left[i] \in SweepRow
          /\ left[i].pairing = sweep[i].pairing
          /\ left[i].authorizationNonce = sweep[i].authorizationNonce
          /\ left[i].txHash = sweep[i].txHash
          /\ left[i].amountRaw = sweep[i].amountRaw
          /\ \/ left[i].status = sweep[i].status
             \/ sweep[i].status = "skipped" /\ left[i].status = "deleted"
    <3>. SUFFICES ASSUME NEW i \in DOMAIN sweep
                  PROVE  /\ left[i] \in SweepRow
                         /\ left[i].pairing = sweep[i].pairing
                         /\ left[i].authorizationNonce = sweep[i].authorizationNonce
                         /\ left[i].txHash = sweep[i].txHash
                         /\ left[i].amountRaw = sweep[i].amountRaw
                         /\ \/ left[i].status = sweep[i].status
                            \/ sweep[i].status = "skipped" /\ left[i].status = "deleted"
      OBVIOUS
    <3>. DEFINE row == [sweep[i] EXCEPT !.status = "deleted"]
    <3>1. /\ row \in SweepRow
          /\ row.pairing = sweep[i].pairing
          /\ row.authorizationNonce = sweep[i].authorizationNonce
          /\ row.txHash = sweep[i].txHash
          /\ row.amountRaw = sweep[i].amountRaw
          /\ row.status = "deleted"
      BY <1>1 DEF SweepRow, Status
    <3>2. CASE del(i)
      <4>1. left[i] = row
        BY <3>2
      <4>. QED  BY <3>1, <3>2, <4>1
    <3>3. CASE ~del(i)
      <4>1. left[i] = sweep[i]
        BY <3>3
      <4>. QED  BY <1>1, <4>1
    <3>. QED  BY <3>2, <3>3
  <2>3. DOMAIN left = DOMAIN sweep /\ left = [i \in 1..Len(sweep) |-> left[i]]
    BY <1>1
  <2>. HIDE DEF left
  <2>4. left \in Seq(SweepRow)
    BY <1>1, <2>2, <2>3
  <2>. QED  BY <2>1, <2>2, <2>3, <2>4
<1>4. CASE DecideSkip(k, p) /\ sweep' # sweep
  <2>1. PICK i \in Skipped(p) : sweep' = [sweep EXCEPT ![i].amountRaw = ticker[k].found[p]]
    BY <1>4 DEF DecideSkip
  <2>. DEFINE amount == ticker[k].found[p]
              row == [sweep[i] EXCEPT !.amountRaw = amount]
  <2>2. i \in DOMAIN sweep /\ amount \in Nat /\ sweep[i].status = "skipped"
    BY <1>1 DEF Skipped, TickerState
  <2>3. sweep' = [sweep EXCEPT ![i] = row]
    BY <2>1
  <2>. HIDE DEF amount
  <2>4. /\ row \in SweepRow
        /\ row.pairing = sweep[i].pairing
        /\ row.authorizationNonce = sweep[i].authorizationNonce
        /\ row.txHash = sweep[i].txHash
        /\ row.status = sweep[i].status
    BY <1>1, <2>2 DEF SweepRow
  <2>. HIDE DEF row
  <2>. QED  BY <2>2, <2>3, <2>4, RowType DEF TypeInv
<1>5. CASE InsertRow(k, p) /\ sweep' # sweep
  <2>. DEFINE row == NewRow(p, ticker[k].decided[p], ticker[k].found[p])
  <2>1. sweep' = Append(sweep, row)
    BY <1>5 DEF InsertRow
  <2>2. row \in SweepRow
    <3>1. /\ ticker[k].decided[p] \in {"none", "planned", "skipped"}
          /\ ticker[k].decided[p] # "none"
          /\ ticker[k].found[p] \in Nat
      BY <1>1, <1>5 DEF InsertRow, TickerState
    <3>. QED  BY <3>1 DEF NewRow, SweepRow, Status, Swept, Live, NoNonce
  <2>. HIDE DEF row
  <2>3. /\ sweep' \in Seq(SweepRow)
        /\ DOMAIN sweep' = 1..Len(sweep) + 1
        /\ \A i \in DOMAIN sweep : sweep'[i] = sweep[i]
        /\ sweep'[Len(sweep) + 1] = row
    BY <1>1, <2>1, <2>2, AppendProperties
  <2>4. DOMAIN sweep' \ DOMAIN sweep = {Len(sweep) + 1} /\ DOMAIN sweep \subseteq DOMAIN sweep'
    BY <1>1, <2>3
  <2>. QED  BY <1>5, <2>3, <2>4 DEF row
<1>. QED  BY <1>2, <1>3, <1>4, <1>5 DEF Plans

\* The tick remembers what it decided.
LEMMA InsertStep ==
    ASSUME TypeInv, NEW k \in Ticker, NEW p \in Pairing, NEW status \in {"planned", "skipped"},
           Insert(k, p, status),
           DOMAIN sweep \subseteq DOMAIN sweep',
           DOMAIN tx \subseteq DOMAIN tx'
    PROVE  /\ TickType'
           /\ ticker'[k].pc = "insert"
           /\ ticker'[k].todo = ticker[k].todo
<1>. DEFINE decided == [ticker[k].decided EXCEPT ![p] = status]
            next == [ticker[k] EXCEPT !.pc = "insert", !.decided = decided]
<1>1. /\ ticker[k] \in TickerState
      /\ ticker[k].todo \subseteq DOMAIN ticker[k].rows
      /\ DOMAIN ticker[k].rows \subseteq DOMAIN sweep
  BY TickerFits DEF Fits
<1>2. decided \in [Pairing -> {"none", "planned", "skipped"}]
  BY <1>1 DEF TickerState
<1>3. ticker' = [ticker EXCEPT ![k] = next]
  BY DEF Insert
<1>. HIDE DEF decided
<1>4. /\ next \in TickerState
      /\ next.pc = "insert"
      /\ next.todo = ticker[k].todo
      /\ next.rows = ticker[k].rows
  BY <1>1, <1>2 DEF TickerState
<1>. HIDE DEF next
<1>5. Fits(next, sweep', tx')
  BY <1>1, <1>4 DEF Fits
<1>6. TickType'
  BY <1>3, <1>5, TickStep DEF TickType
<1>. QED  BY <1>3, <1>4, <1>6 DEF TypeInv, TypeOK

\* Planning, whatever the step, leaves the tick without rows in hand if it had none.
LEMMA PlanTick ==
    ASSUME TypeInv, NEW k \in Ticker, NEW p \in Pairing, Plans(k, p)
    PROVE  /\ TickType'
           /\ ticker'[k].pc \in {"plan", "select", "insert"}
           /\ ticker[k].todo = {} => ticker'[k].todo = {}
<1>. DEFINE found == [ticker[k].found EXCEPT ![p] = 0]
<1>1. found \in [Pairing -> Nat]
  BY TickerFits DEF Fits, TickerState
<1>2. DOMAIN sweep \subseteq DOMAIN sweep' /\ DOMAIN tx \subseteq DOMAIN tx'
  BY PlanWrite DEF Plans, DecideSweep, DecideSkip, InsertRow, chainVars
<1>3. CASE NextCandidate(k, p)
  BY <1>1, <1>2, <1>3, PlanningStep DEF NextCandidate
<1>4. CASE Insert(k, p, "planned")
  BY <1>2, <1>4, InsertStep
<1>5. CASE Insert(k, p, "skipped")
  BY <1>2, <1>5, InsertStep
<1>. QED  BY <1>3, <1>4, <1>5 DEF Plans, DecideSweep, DecideSkip, InsertRow

\* Planning takes no row up.
LEMMA PlanRows ==
    ASSUME TypeInv, NEW k \in Ticker, NEW p \in Pairing, Plans(k, p)
    PROVE  /\ ticker'[k].pc \in {"plan", "select", "insert"}
           /\ \A i \in ticker'[k].todo : i \in ticker[k].todo /\ ticker'[k].rows = ticker[k].rows
<1>1. CASE NextCandidate(k, p)
  <2>1. ticker'[k].todo = {}
    BY <1>1 DEF NextCandidate, Planning, Idle, TypeInv, TypeOK
  <2>. QED  BY <2>1, PlanTick
<1>2. ASSUME NEW status, Insert(k, p, status)
      PROVE  ticker'[k].todo = ticker[k].todo /\ ticker'[k].rows = ticker[k].rows
  <2>. DEFINE decided == [ticker[k].decided EXCEPT ![p] = status]
              next == [ticker[k] EXCEPT !.pc = "insert", !.decided = decided]
  <2>1. ticker'[k] = next
    BY <1>2 DEF Insert, TypeInv, TypeOK
  <2>. HIDE DEF decided
  <2>2. next.todo = ticker[k].todo /\ next.rows = ticker[k].rows
    BY TickerFits DEF Fits, TickerState
  <2>. QED  BY <2>1, <2>2
<1>. QED  BY <1>1, <1>2, PlanTick DEF Plans, DecideSweep, DecideSkip, InsertRow

LEMMA PlanStartStep ==
    ASSUME TypeInv, NEW k \in Ticker, PlanStart(k)
    PROVE  /\ TickType'
           /\ ticker'[k].pc \in {"plan", "select"}
           /\ ticker'[k].todo = {}
<1>. DEFINE found == [p \in Pairing |->
                IF Unswept(p) \in Nat /\ Len(sweep) < MaxSweeps THEN Unswept(p) ELSE 0]
<1>1. found \in [Pairing -> Nat]
  OBVIOUS
<1>2. ticker' = [ticker EXCEPT ![k] = Planning(found)] /\ sweep' = sweep /\ tx' = tx
  BY DEF PlanStart, chainVars
<1>. HIDE DEF found
<1>. QED  BY <1>1, <1>2, PlanningStep

\* The rows selected are the due ones, as they are.
LEMMA SelectStep ==
    ASSUME TypeInv, NEW k \in Ticker, SelectDue(k)
    PROVE  /\ TickType'
           /\ ticker'[k].pc \in {"idle", "loop"}
           /\ ticker'[k].pc = "idle" => ticker'[k].todo = {}
           /\ ticker'[k].todo \subseteq Due
           /\ ticker'[k].todo # {} => ticker'[k].rows = sweep
<1>. DEFINE next == Executing(Due, sweep)
<1>1. sweep \in Seq(SweepRow) /\ Due \subseteq DOMAIN sweep /\ DOMAIN sweep \subseteq Nat
  BY DEF Due, TypeInv, TypeOK
<1>2. /\ next \in TickerState
      /\ next.pc \in {"idle", "loop"}
      /\ next.pc = "idle" => next.todo = {}
      /\ next.todo \subseteq Due
      /\ next.todo # {} => next.rows = sweep
      /\ next.todo \subseteq DOMAIN next.rows
      /\ DOMAIN next.rows \subseteq DOMAIN sweep
  <2>1. CASE Due = {}
    BY <2>1, IdleType DEF Executing
  <2>2. CASE Due # {}
    <3>. DEFINE due == Due
    <3>1. next = [Idle EXCEPT !.pc = "loop", !.todo = due, !.rows = sweep]
      BY <2>2 DEF Executing
    <3>2. due \subseteq DOMAIN sweep
      BY <1>1
    <3>. HIDE DEF due
    <3>3. [Idle EXCEPT !.pc = "loop", !.todo = due, !.rows = sweep] \in TickerState
      BY <1>1, <3>2, IdleType DEF TickerState
    <3>. QED  BY <3>1, <3>2, <3>3 DEF Idle, due
  <2>. QED  BY <2>1, <2>2
<1>3. ticker' = [ticker EXCEPT ![k] = next] /\ sweep' = sweep /\ tx' = tx
  BY DEF SelectDue, chainVars
<1>. HIDE DEF next
<1>4. Fits(next, sweep', tx')
  BY <1>2, <1>3 DEF Fits
<1>5. TickType'
  BY <1>3, <1>4, TickStep DEF TickType
<1>. QED  BY <1>2, <1>3, <1>5 DEF TypeInv, TypeOK

-----------------------------------------------------------------------------
(***************************************************************************)
(* Type correctness, for any number of overlapping ticks.                  *)
(***************************************************************************)

\* The steps of a tick that decide where it goes and write nothing.
Walks(k, i) ==
    \/ CheckUsed(k, i)
    \/ BroadcastNative(k, i)
    \/ SignAuthorization(k, i)
    \/ DomainUnverifiable(k, i)
    \/ SendRefused(k, i)
    \/ MissingHash(k, i)
    \/ Moved(k, i)
    \/ Reverted(k, i)
    \/ Throws(k, i)
    \/ SetRefused(k, i)

\* Where a step may lead, and what is known of the row in hand there.
LEMMA WalkStep ==
    ASSUME TypeInv, NEW k \in Ticker, NEW i \in ticker[k].todo, Walks(k, i)
    PROVE  /\ TickType'
           /\ ticker'[k].pc \in Pcs \ {"sent", "idle", "plan", "insert", "select"}
           /\ ticker'[k].todo = ticker[k].todo
           /\ ticker'[k].rows = ticker[k].rows
           /\ ticker'[k].pc \in {"sign", "send"} =>
                Row(k, i).status = "authorized" \/ ticker[k].pc = "sign"
           /\ ticker'[k].pc = "revert" => Row(k, i).status = "broadcast"
           /\ UNCHANGED <<sweep, tx, received, confirmed, lapsed, auths>>
           /\ At(k, i, ticker[k].pc)
<1>. USE DEF chainVars
<1>1. UNCHANGED <<sweep, tx, received, confirmed, lapsed, auths>>
  BY DEF Walks, CheckUsed, BroadcastNative, SignAuthorization, DomainUnverifiable,
         SendRefused, MissingHash, Moved, Reverted, Throws, SetRefused, Awaiting
<1>. DEFINE To(pc) == /\ TickType'
                      /\ ticker'[k].pc = pc
                      /\ ticker'[k].todo = ticker[k].todo
                      /\ ticker'[k].rows = ticker[k].rows
<1>2. ASSUME NEW pc \in Pcs \ {"sent"}, GoTo(k, pc) PROVE To(pc)
  BY <1>1, <1>2, GoToStep
<1>3. ASSUME Dead(k) PROVE To("failing")
  <2>1. "failing" \in Pcs \ {"sent"}
    BY DEF Pcs
  <2>. QED  BY <1>1, <1>3, <2>1, GoToStep
<1>4. ASSUME Throws(k, i) PROVE To("fail")
  <2>1. "fail" \in Pcs \ {"sent"}
    BY DEF Pcs
  <2>. QED  BY <1>1, <1>4, <2>1, GoToStep DEF Throws
<1>. HIDE DEF To
<1>5. \/ /\ To("settle") \/ To("fail") \/ To("failing")
         /\ At(k, i, ticker[k].pc)
      \/ /\ To("sign") \/ To("send")
         /\ At(k, i, ticker[k].pc)
         /\ Row(k, i).status = "authorized" \/ ticker[k].pc = "sign"
      \/ /\ To("revert")
         /\ At(k, i, ticker[k].pc)
         /\ Row(k, i).status = "broadcast"
  <2>1. {"settle", "fail", "failing", "sign", "send", "revert"} \subseteq Pcs \ {"sent"}
    BY DEF Pcs
  <2>2. CASE CheckUsed(k, i)
    BY <1>2, <2>1, <2>2 DEF CheckUsed, At
  <2>3. CASE BroadcastNative(k, i)
    BY <1>2, <2>1, <2>3 DEF BroadcastNative, At
  <2>4. CASE SignAuthorization(k, i)
    BY <1>2, <2>1, <2>4 DEF SignAuthorization, At
  <2>5. CASE DomainUnverifiable(k, i)
    BY <1>3, <2>5 DEF DomainUnverifiable, At
  <2>6. CASE SendRefused(k, i)
    BY <1>2, <2>1, <2>6 DEF SendRefused, At
  <2>7. CASE MissingHash(k, i)
    BY <1>3, <2>7 DEF MissingHash, At
  <2>8. CASE Moved(k, i)
    BY <1>2, <2>1, <2>8 DEF Moved, Awaiting, At
  <2>9. CASE Reverted(k, i)
    BY <1>2, <2>1, <2>9 DEF Reverted, Awaiting, At
  <2>10. CASE Throws(k, i)
    BY <1>4, <2>10 DEF Throws, At
  <2>11. CASE SetRefused(k, i)
    BY <1>2, <2>1, <2>11 DEF SetRefused, At
  <2>. QED
    BY <2>2, <2>3, <2>4, <2>5, <2>6, <2>7, <2>8, <2>9, <2>10, <2>11 DEF Walks
<1>. QED  BY <1>1, <1>5 DEF To, Pcs

\* The tick that reads a balance, or has sent.
LEMMA ReadBalanceStep ==
    ASSUME TypeInv, NEW k \in Ticker, NEW i \in ticker[k].todo, ReadBalance(k, i)
    PROVE  /\ TickType'
           /\ ticker'[k].pc = "authorize"
           /\ ticker'[k].todo = ticker[k].todo
           /\ ticker'[k].rows = ticker[k].rows
<1>. DEFINE amount == nativeSweepAmount(sweep[i].pairing)
            next == [ticker[k] EXCEPT !.pc = "authorize", !.amountRaw = amount]
<1>1. /\ ticker[k] \in TickerState
      /\ ticker[k].todo \subseteq DOMAIN ticker[k].rows
      /\ DOMAIN ticker[k].rows \subseteq DOMAIN sweep
  BY TickerFits DEF Fits
<1>2. amount \in Nat
  BY DEF nativeSweepAmount
<1>3. ticker' = [ticker EXCEPT ![k] = next] /\ sweep' = sweep /\ tx' = tx
  BY DEF ReadBalance, chainVars
<1>. HIDE DEF amount
<1>4. /\ next \in TickerState
      /\ next.pc = "authorize"
      /\ next.todo = ticker[k].todo
      /\ next.rows = ticker[k].rows
  BY <1>1, <1>2 DEF TickerState
<1>. HIDE DEF next
<1>5. Fits(next, sweep', tx')
  BY <1>1, <1>3, <1>4 DEF Fits
<1>6. TickType'
  BY <1>3, <1>5, TickStep DEF TickType
<1>. QED  BY <1>3, <1>4, <1>6 DEF TypeInv, TypeOK

LEMMA SendStep ==
    ASSUME TypeInv, NEW k \in Ticker, NEW i \in ticker[k].todo,
           Send(k, i) \/ SendUnheard(k, i)
    PROVE  /\ TickType'
           /\ ticker'[k].pc \in {"sent", "fail"}
           /\ ticker'[k].todo = ticker[k].todo
           /\ ticker'[k].rows = ticker[k].rows
<1>1. /\ ticker[k] \in TickerState
      /\ ticker[k].todo \subseteq DOMAIN ticker[k].rows
      /\ DOMAIN ticker[k].rows \subseteq DOMAIN sweep
      /\ sweep' = sweep
  BY TickerFits DEF Fits, Send, SendUnheard
<1>2. DOMAIN tx \subseteq DOMAIN tx' /\ Len(tx) + 1 \in DOMAIN tx' /\ Len(tx) + 1 \in Nat
  BY AddStep DEF Send, SendUnheard, TypeInv, TypeOK
<1>3. CASE Send(k, i)
  <2>. DEFINE hash == Len(tx) + 1
              next == [ticker[k] EXCEPT !.pc = "sent", !.txHash = hash]
  <2>1. ticker' = [ticker EXCEPT ![k] = next]
    BY <1>3 DEF Send
  <2>2. hash \in Nat /\ hash \in DOMAIN tx'
    BY <1>2
  <2>. HIDE DEF hash
  <2>3. /\ next \in TickerState
        /\ next.pc = "sent"
        /\ next.txHash = hash
        /\ next.todo = ticker[k].todo
        /\ next.rows = ticker[k].rows
    BY <1>1, <2>2 DEF TickerState
  <2>. HIDE DEF next
  <2>4. Fits(next, sweep', tx')
    BY <1>1, <2>2, <2>3 DEF Fits
  <2>5. TickType'
    BY <1>1, <1>2, <2>1, <2>4, TickStep DEF TickType
  <2>. QED  BY <2>1, <2>3, <2>5 DEF TypeInv, TypeOK
<1>4. CASE SendUnheard(k, i)
  <2>1. GoTo(k, "fail") /\ "fail" \in Pcs \ {"sent"}
    BY <1>4 DEF SendUnheard, Pcs
  <2>2. /\ TickType'
        /\ ticker'[k].pc = "fail"
        /\ ticker'[k].todo = ticker[k].todo
        /\ ticker'[k].rows = ticker[k].rows
    BY <1>1, <1>2, <2>1, GoToStep
  <2>. QED  BY <2>2
<1>. QED  BY <1>3, <1>4

LEMMA TypeInit == Init => TypeInv
BY IdleType DEF Init, TypeInv, TypeOK, HashesKnown

\* Tables that are untouched but for the sweeps.
LEMMA SweepTables ==
    ASSUME TypeInv,
           UNCHANGED <<received, confirmed, tx, lapsed, domain>>,
           sweep' \in Seq(SweepRow),
           DOMAIN sweep \subseteq DOMAIN sweep',
           auths' \in Nat,
           faults' \in Nat, reorgs' \in Nat, drops' \in Nat
    PROVE  TablesType'
BY TypeSplit DEF TablesType

LEMMA TypeStep == TypeInv /\ [Next]_vars => TypeInv'
<1>. SUFFICES ASSUME TypeInv, [Next]_vars PROVE TypeInv'
  OBVIOUS
<1>. USE DEF chainVars, bounds
<1>1. TickType /\ TablesType /\ TypeOK
  BY TypeSplit DEF TypeInv
<1>2. CASE UNCHANGED vars
  BY <1>1, <1>2, TypeSplitNext DEF vars, TickType, TablesType, HashesKnown
<1>3. ASSUME NEW p \in Pairing, Receive(p) \/ ConfirmDeposit(p) PROVE TypeInv'
  <2>1. received' \in [Pairing -> Nat] /\ confirmed' \in [Pairing -> Nat]
    <3>. DEFINE more(n) == n + DepositRaw
    <3>1. \A n \in Nat : more(n) \in Nat
      BY SweepAssumption
    <3>2. \/ received' = [received EXCEPT ![p] = more(received[p])] /\ confirmed' = confirmed
          \/ confirmed' = [confirmed EXCEPT ![p] = more(confirmed[p])] /\ received' = received
      BY <1>3 DEF Receive, ConfirmDeposit
    <3>. HIDE DEF more
    <3>. QED  BY <1>1, <3>1, <3>2 DEF TablesType
  <2>2. UNCHANGED <<sweep, tx, lapsed, auths, domain, ticker, faults, reorgs, drops>>
    BY <1>3 DEF Receive, ConfirmDeposit
  <2>. QED  BY <1>1, <2>1, <2>2, TypeSplitNext DEF TickType, TablesType, HashesKnown
<1>4. ASSUME NEW t \in DOMAIN tx, Mine(t) \/ Finalize(t) \/ Reorg(t) \/ Drop(t)
      PROVE  TypeInv'
  <2>1. \E state \in {"mempool", "dropped", "ok", "reverted"}, depth \in {"shallow", "final"} :
          SetTx(t, state, depth)
    <3>1. tx[t].state \in {"mempool", "dropped", "ok", "reverted"}
      BY <1>1, TxFields DEF TxRow
    <3>. QED  BY <1>4, <3>1 DEF Mine, Finalize, Reorg, Drop
  <2>2. /\ tx' \in Seq(TxRow)
        /\ DOMAIN tx' = DOMAIN tx
        /\ \A s \in DOMAIN tx : tx'[s].sweep = tx[s].sweep
    BY <1>1, <2>1, TxType
  <2>3. /\ UNCHANGED <<received, confirmed, sweep, lapsed, auths, domain, ticker>>
        /\ faults' \in Nat /\ reorgs' \in Nat /\ drops' \in Nat
    BY <1>1, <1>4 DEF Mine, Finalize, Reorg, Drop, TablesType
  <2>. QED  BY <1>1, <2>2, <2>3, TypeSplitNext DEF TickType, TablesType, HashesKnown
<1>5. ASSUME NEW n \in 1..auths, Lapse(n) PROVE TypeInv'
  <2>1. lapsed' \subseteq Nat
    BY <1>1, <1>5 DEF Lapse, TablesType
  <2>2. UNCHANGED <<received, confirmed, sweep, tx, auths, domain, ticker, faults, reorgs, drops>>
    BY <1>5 DEF Lapse
  <2>. QED  BY <1>1, <2>1, <2>2, TypeSplitNext DEF TickType, TablesType, HashesKnown
<1>6. ASSUME NEW i \in DOMAIN sweep, BackoffEnds(i) PROVE TypeInv'
  <2>. DEFINE row == [sweep[i] EXCEPT !.nextAttempt = "due"]
  <2>1. sweep' = [sweep EXCEPT ![i] = row]
    BY <1>6 DEF BackoffEnds
  <2>2. row \in SweepRow
    BY <1>1, RowFields DEF SweepRow
  <2>. HIDE DEF row
  <2>3. sweep' \in Seq(SweepRow) /\ DOMAIN sweep' = DOMAIN sweep
    BY <1>1, <2>1, <2>2, RowType
  <2>. QED  BY <1>1, <1>6, <2>3, TypeSplitNext
            DEF BackoffEnds, TickType, TablesType, HashesKnown
<1>7. ASSUME NEW k \in Ticker, PlanStart(k) \/ SelectDue(k) PROVE TypeInv'
  <2>1. TickType'
    BY <1>7, PlanStartStep, SelectStep
  <2>2. TablesType'
    BY <1>1, <1>7 DEF PlanStart, SelectDue, TablesType
  <2>. QED  BY <2>1, <2>2, TypeSplitNext
<1>8. ASSUME NEW k \in Ticker, NEW p \in Pairing, Plans(k, p) PROVE TypeInv'
  <2>1. /\ UNCHANGED <<received, confirmed, tx, lapsed, domain, auths>>
        /\ UNCHANGED <<faults, reorgs, drops>>
    BY <1>8 DEF Plans, DecideSweep, DecideSkip, InsertRow
  <2>2. TablesType'
    BY <1>1, <1>8, <2>1, PlanWrite, SweepTables DEF TablesType
  <2>. QED  BY <1>8, <2>2, PlanTick, TypeSplitNext
<1>9. ASSUME NEW k \in Ticker, NEW i \in ticker[k].todo, Writes(k, i) PROVE TypeInv'
  <2>1. sweep' \in Seq(SweepRow) /\ DOMAIN sweep' = DOMAIN sweep
    BY <1>1, <1>9, WriteStep, SetStep, InHand
  <2>2. /\ UNCHANGED <<received, confirmed, tx, lapsed, domain>>
        /\ UNCHANGED <<faults, reorgs, drops>>
        /\ auths' \in Nat
    BY <1>1, <1>9
    DEF Writes, AuthorizeToken, AuthorizeNative, RecordBroadcast, RecordConfirmed,
        RecordReverted, RecordFailure, TablesType
  <2>3. TablesType'
    BY <1>1, <2>1, <2>2, SweepTables DEF TablesType
  <2>4. CASE NextRow(k, i)
    BY <2>1, <2>2, <2>3, <2>4, NextRowStep, TypeSplitNext
  <2>5. CASE GoTo(k, "failing")
    <3>1. "failing" \in Pcs \ {"sent"}
      BY DEF Pcs
    <3>. QED  BY <2>1, <2>2, <2>3, <2>5, <3>1, GoToStep, TypeSplitNext
  <2>. QED
    BY <1>9, <2>4, <2>5
    DEF Writes, AuthorizeToken, AuthorizeNative, RecordBroadcast, RecordConfirmed,
        RecordReverted, RecordFailure
<1>10. ASSUME NEW k \in Ticker, NEW i \in ticker[k].todo, Walks(k, i) PROVE TypeInv'
  <2>1. /\ domain' \in {"unknown", "verified", "none"}
        /\ faults' \in Nat /\ reorgs' \in Nat /\ drops' \in Nat
    BY <1>1, <1>10
    DEF Walks, CheckUsed, BroadcastNative, SignAuthorization, DomainUnverifiable,
        SendRefused, MissingHash, Moved, Reverted, Throws, SetRefused, Fault, TablesType
  <2>2. TablesType'
    BY <1>1, <1>10, <2>1, WalkStep DEF TablesType
  <2>. QED  BY <1>10, <2>2, WalkStep, TypeSplitNext
<1>11. ASSUME NEW k \in Ticker, NEW i \in ticker[k].todo, ReadBalance(k, i) PROVE TypeInv'
  <2>1. TablesType'
    BY <1>1, <1>11 DEF ReadBalance, TablesType
  <2>. QED  BY <1>11, <2>1, ReadBalanceStep, TypeSplitNext
<1>12. ASSUME NEW k \in Ticker, NEW i \in ticker[k].todo, Send(k, i) \/ SendUnheard(k, i)
       PROVE  TypeInv'
  <2>1. /\ UNCHANGED <<received, confirmed, sweep, lapsed, auths, domain>>
        /\ faults' \in Nat /\ reorgs' \in Nat /\ drops' \in Nat
    BY <1>1, <1>12 DEF Send, SendUnheard, Fault, TablesType
  <2>2. /\ tx' \in Seq(TxRow)
        /\ \A t \in DOMAIN tx' : tx'[t].sweep \in DOMAIN sweep
    BY <1>1, <1>12, AddStep, InHand DEF Send, SendUnheard, TablesType
  <2>3. TablesType'
    BY <1>1, <2>1, <2>2 DEF TablesType
  <2>. QED  BY <1>12, <2>3, SendStep, TypeSplitNext
<1>13. ASSUME NEW k \in Ticker, NEW i \in ticker[k].todo,
              StillMaturing(k, i) \/ ReceiptUnread(k, i)
       PROVE  TypeInv'
  <2>1. /\ UNCHANGED <<received, confirmed, sweep, tx, lapsed, auths, domain>>
        /\ faults' \in Nat /\ reorgs' \in Nat /\ drops' \in Nat
        /\ NextRow(k, i)
    BY <1>1, <1>13 DEF StillMaturing, ReceiptUnread, Fault, TablesType
  <2>2. TablesType'
    BY <1>1, <2>1 DEF TablesType
  <2>. QED  BY <2>1, <2>2, NextRowStep, TypeSplitNext
<1>14. ASSUME NEW k \in Ticker, TickFails(k) PROVE TypeInv'
  <2>1. /\ UNCHANGED <<received, confirmed, sweep, tx, lapsed, auths, domain>>
        /\ faults' \in Nat /\ reorgs' \in Nat /\ drops' \in Nat
        /\ ticker' = [ticker EXCEPT ![k] = Idle]
    BY <1>1, <1>14 DEF TickFails, Fault, TablesType
  <2>2. Fits(Idle, sweep', tx')
    BY IdleType, EmptyFits
  <2>3. TickType'
    BY <2>1, <2>2, TickStep DEF TickType
  <2>4. TablesType'
    BY <1>1, <2>1 DEF TablesType
  <2>. QED  BY <2>3, <2>4, TypeSplitNext
<1>15. CASE Restart
  <2>1. TickType'
    BY <1>15, IdleType DEF Restart, TickType, HashesKnown
  <2>2. TablesType'
    BY <1>1, <1>15 DEF Restart, Fault, TablesType
  <2>. QED  BY <2>1, <2>2, TypeSplitNext
<1>. QED
  BY <1>2, <1>3, <1>4, <1>5, <1>6, <1>7, <1>8, <1>9, <1>10, <1>11, <1>12, <1>13, <1>14, <1>15
  DEF Next, Plan, Execute, Plans, Writes, Walks

LEMMA TypeInvariant == Spec => []TypeInv
BY TypeInit, TypeStep, PTL DEF Spec

\* Every reachable state of the sweeps table, the chain and the ticks has its type.
THEOREM TypeCorrect == Spec => []TypeOK
<1>1. TypeInv => TypeOK
  BY DEF TypeInv
<1>. QED  BY <1>1, TypeInvariant, PTL

-----------------------------------------------------------------------------
(***************************************************************************)
(* One tick at a time.  The rows it has selected are then the rows of the  *)
(* table (Faithful), so an authorization is drawn only for a row of which  *)
(* nothing has been sent, and every transaction of a row carries the       *)
(* authorization stored in it (Carried): the chain honours one of them.    *)
(***************************************************************************)

Resting(k) == ticker[k].pc \in {"idle", "plan", "insert", "select"} => ticker[k].todo = {}

Faithful(k) ==
    \A i \in ticker[k].todo :
        /\ Row(k, i).status \in Live
        /\ Row(k, i).authorizationNonce = sweep[i].authorizationNonce
        /\ \/ sweep[i].status = Row(k, i).status
           \/ Row(k, i).status = "broadcast" /\ sweep[i].status = "authorized"

InStep(k) ==
    \A i \in ticker[k].todo :
        /\ At(k, i, "sign") \/ At(k, i, "send") => Row(k, i).status = "authorized"
        /\ At(k, i, "revert") => Row(k, i).status = "broadcast"

Carried ==
    \A t \in DOMAIN tx :
        viaOf(tx[t].sweep) = "eip3009" =>
            /\ tx[t].authorizationNonce = sweep[tx[t].sweep].authorizationNonce
            /\ sweep[tx[t].sweep].status # "planned"

IInv(k) ==
    /\ TypeInv
    /\ Resting(k)
    /\ Faithful(k)
    /\ InStep(k)
    /\ Carried
    /\ RowMovesOnce

LEMMA InvInit ==
    ASSUME NEW k, Ticker = {k}
    PROVE  Init => IInv(k)
<1>. SUFFICES ASSUME Init PROVE IInv(k)
  OBVIOUS
<1>1. ticker[k].todo = {} /\ DOMAIN tx = {} /\ DOMAIN sweep = {}
  BY IdleType DEF Init
<1>. QED
  BY <1>1, TypeInit DEF IInv, Resting, Faithful, InStep, Carried, RowMovesOnce

\* Fewer transactions that moved funds cannot move them twice.
LEMMA MovesShrink ==
    ASSUME TypeOK, RowMovesOnce,
           \A i \in DOMAIN sweep : sweep'[i].pairing = sweep[i].pairing,
           \A t \in DOMAIN tx' : tx'[t].state = "ok" =>
               /\ t \in DOMAIN tx
               /\ tx[t].state = "ok"
               /\ tx'[t].sweep = tx[t].sweep
    PROVE  RowMovesOnce'
<1>1. \A t \in DOMAIN tx : tx[t].sweep \in DOMAIN sweep
  BY TxFields
<1>2. \A i : \A t \in Moves(i)' : i \in DOMAIN sweep /\ t \in Moves(i)
  BY <1>1 DEF Moves
<1>3. \A i \in DOMAIN sweep : viaOf(i)' = viaOf(i)
  BY DEF viaOf
<1>. QED  BY <1>2, <1>3 DEF RowMovesOnce

\* What a step of the tick on row i has to leave intact.
LEMMA CarriedKept ==
    ASSUME TypeOK, Carried, UNCHANGED tx,
           NEW i \in DOMAIN sweep,
           \A j \in DOMAIN sweep \ {i} : sweep'[j] = sweep[j],
           sweep'[i].pairing = sweep[i].pairing,
           viaOf(i) = "eip3009" /\ sweep[i].status # "planned" =>
               /\ sweep'[i].authorizationNonce = sweep[i].authorizationNonce
               /\ sweep'[i].status # "planned"
    PROVE  Carried'
<1>. SUFFICES ASSUME NEW t \in DOMAIN tx, (viaOf(tx[t].sweep) = "eip3009")'
              PROVE  /\ tx[t].authorizationNonce = sweep'[tx[t].sweep].authorizationNonce
                     /\ sweep'[tx[t].sweep].status # "planned"
  BY DEF Carried
<1>1. tx[t].sweep \in DOMAIN sweep
  BY TxFields
<1>2. viaOf(tx[t].sweep) = "eip3009"
  BY <1>1 DEF viaOf
<1>3. /\ tx[t].authorizationNonce = sweep[tx[t].sweep].authorizationNonce
      /\ sweep[tx[t].sweep].status # "planned"
  BY <1>2 DEF Carried
<1>. QED  BY <1>1, <1>2, <1>3

LEMMA WriteKeeps ==
    ASSUME NEW k \in Ticker, IInv(k), NEW i \in ticker[k].todo, Writes(k, i)
    PROVE  Resting(k)' /\ Faithful(k)' /\ InStep(k)' /\ Carried' /\ RowMovesOnce'
<1>1. /\ TypeInv /\ TypeOK /\ Resting(k) /\ Faithful(k) /\ InStep(k)
      /\ Carried /\ RowMovesOnce
  BY DEF IInv, TypeInv
<1>2. i \in DOMAIN sweep
  BY <1>1, InHand
<1>3. UNCHANGED tx
  BY DEF Writes, AuthorizeToken, AuthorizeNative, RecordBroadcast, RecordConfirmed,
         RecordReverted, RecordFailure, chainVars
<1>4. PICK row \in SweepRow :
              /\ Set(i, row)
              /\ row.pairing = sweep[i].pairing
              /\ row.authorizationNonce = sweep[i].authorizationNonce \/ AuthorizeToken(k, i)
              /\ row.status = "planned" => RecordFailure(k, i) /\ Row(k, i).status = "planned"
              /\ RecordReverted(k, i) => row.status = "authorized"
  BY <1>1, WriteStep
<1>5. /\ sweep' \in Seq(SweepRow)
      /\ DOMAIN sweep' = DOMAIN sweep
      /\ sweep'[i] \in {row, sweep[i]}
      /\ \A j \in DOMAIN sweep \ {i} : sweep'[j] = sweep[j]
  BY <1>1, <1>2, <1>4, SetStep
<1>6. sweep'[i].pairing = sweep[i].pairing
  BY <1>4, <1>5
<1>7. AuthorizeToken(k, i) \/ row.status = "planned" => sweep[i].status = "planned"
  <2>1. Row(k, i).status = "planned" => sweep[i].status = "planned"
    BY <1>1 DEF Faithful
  <2>. QED  BY <1>4, <2>1 DEF AuthorizeToken
<1>8. Carried'
  BY <1>1, <1>2, <1>3, <1>4, <1>5, <1>6, <1>7, CarriedKept
<1>9. RowMovesOnce'
  BY <1>1, <1>2, <1>3, <1>5, <1>6, MovesShrink
<1>10. CASE NextRow(k, i)
  <2>1. /\ ticker'[k].pc \in {"idle", "loop"}
        /\ ticker'[k].pc = "idle" => ticker'[k].todo = {}
        /\ ticker'[k].todo \subseteq ticker[k].todo \ {i}
        /\ ticker'[k].todo # {} => ticker'[k].rows = ticker[k].rows
    BY <1>1, <1>3, <1>5, <1>10, NextRowStep
  <2>2. \A j \in ticker'[k].todo : j \in DOMAIN sweep /\ j # i /\ Row(k, j)' = Row(k, j)
    BY <1>1, <2>1, InHand DEF Row
  <2>3. Faithful(k)'
    BY <1>1, <1>5, <2>1, <2>2 DEF Faithful
  <2>. QED  BY <1>8, <1>9, <2>1, <2>3 DEF Resting, InStep, At
<1>11. CASE RecordReverted(k, i)
  <2>1. Row(k, i).status = "broadcast" /\ GoTo(k, "failing")
    BY <1>1, <1>11 DEF RecordReverted, InStep
  <2>2. "failing" \in Pcs \ {"sent"}
    BY DEF Pcs
  <2>3. /\ ticker'[k].pc = "failing"
        /\ ticker'[k].todo = ticker[k].todo
        /\ ticker'[k].rows = ticker[k].rows
    BY <1>1, <1>3, <1>5, <2>1, <2>2, GoToStep
  <2>4. \A j \in ticker[k].todo : j \in DOMAIN sweep /\ Row(k, j)' = Row(k, j)
    BY <1>1, <2>3, InHand DEF Row
  <2>5. /\ sweep'[i].authorizationNonce = sweep[i].authorizationNonce
        /\ sweep'[i].status \in {"authorized", sweep[i].status}
    BY <1>4, <1>5, <1>11 DEF RecordReverted, AuthorizeToken, At
  <2>6. Faithful(k)'
    BY <1>1, <1>5, <2>1, <2>3, <2>4, <2>5 DEF Faithful
  <2>. QED  BY <1>8, <1>9, <2>3, <2>6 DEF Resting, InStep, At
<1>. QED
  BY <1>10, <1>11
  DEF Writes, AuthorizeToken, AuthorizeNative, RecordBroadcast, RecordConfirmed, RecordFailure

\* The tick moves on with rows it had in hand, and the tables do not change.
LEMMA TickKeeps ==
    ASSUME NEW k \in Ticker, IInv(k), UNCHANGED <<sweep, tx>>,
           ticker'[k].todo \subseteq ticker[k].todo,
           ticker'[k].todo # {} => ticker'[k].rows = ticker[k].rows
    PROVE  Faithful(k)' /\ Carried' /\ RowMovesOnce'
<1>1. TypeInv /\ Faithful(k) /\ Carried /\ RowMovesOnce
  BY DEF IInv
<1>2. \A j \in ticker'[k].todo : j \in ticker[k].todo /\ Row(k, j)' = Row(k, j)
  BY DEF Row
<1>3. Faithful(k)'
  BY <1>1, <1>2 DEF Faithful
<1>4. Carried' /\ RowMovesOnce'
  BY <1>1 DEF Carried, RowMovesOnce, Moves, viaOf
<1>. QED  BY <1>3, <1>4

LEMMA MineKeeps ==
    ASSUME TypeOK, Carried, RowMovesOnce, NEW t \in DOMAIN tx, Mine(t)
    PROVE  RowMovesOnce'
<1>1. PICK state \in {"ok", "reverted"} : SetTx(t, state, "shallow")
  BY DEF Mine
<1>2. /\ DOMAIN tx' = DOMAIN tx
      /\ \A s \in DOMAIN tx :
           /\ tx'[s].sweep = tx[s].sweep
           /\ tx'[s].authorizationNonce = tx[s].authorizationNonce
           /\ tx'[s].state = IF s = t THEN state ELSE tx[s].state
  BY <1>1, TxType
<1>3. sweep' = sweep
  BY DEF Mine
<1>4. CASE state = "reverted"
  BY <1>2, <1>3, <1>4, MovesShrink
<1>5. CASE state = "ok"
  <2>. DEFINE i == tx[t].sweep
  <2>1. i \in DOMAIN sweep
    BY TxFields
  <2>2. viaOf(i) = "eip3009" => ~authorizationUsed(tx[t].authorizationNonce)
    <3>. SUFFICES ASSUME viaOf(i) = "eip3009", authorizationUsed(tx[t].authorizationNonce)
                  PROVE  FALSE
      OBVIOUS
    <3>1. SetTx(t, "reverted", "shallow")
      BY DEF Mine
    <3>2. tx'[t].state = "reverted"
      BY <3>1, TxType
    <3>. QED  BY <1>2, <1>5, <3>2
  <2>3. viaOf(i) = "eip3009" => Moves(i) = {}
    <3>. SUFFICES ASSUME viaOf(i) = "eip3009", NEW s \in Moves(i) PROVE FALSE
      OBVIOUS
    <3>1. s \in DOMAIN tx /\ tx[s].sweep = i /\ tx[s].state = "ok"
      BY DEF Moves
    <3>2. tx[s].authorizationNonce = tx[t].authorizationNonce
      BY <3>1 DEF Carried
    <3>. QED  BY <2>2, <3>1, <3>2 DEF authorizationUsed
  <2>4. \A j : Moves(j)' = IF j = i THEN Moves(j) \cup {t} ELSE Moves(j)
    <3>1. tx[t].state = "mempool"
      BY DEF Mine
    <3>. QED  BY <1>2, <1>5, <3>1 DEF Moves
  <2>5. \A j \in DOMAIN sweep : viaOf(j)' = viaOf(j)
    BY <1>3 DEF viaOf
  <2>. QED  BY <1>3, <2>3, <2>4, <2>5 DEF RowMovesOnce
<1>. QED  BY <1>4, <1>5

LEMMA InvStep ==
    ASSUME NEW k, Ticker = {k}
    PROVE  IInv(k) /\ [Next]_vars => IInv(k)'
<1>. SUFFICES ASSUME IInv(k), [Next]_vars PROVE IInv(k)'
  OBVIOUS
<1>. USE DEF chainVars, bounds
<1>1. /\ k \in Ticker
      /\ TypeInv /\ TypeOK /\ Resting(k) /\ Faithful(k) /\ InStep(k)
      /\ Carried /\ RowMovesOnce
  BY DEF IInv, TypeInv
<1>2. TypeInv'
  BY <1>1, TypeStep
<1>3. ASSUME UNCHANGED <<sweep, tx, ticker>> PROVE IInv(k)'
  <2>1. Faithful(k)' /\ Carried' /\ RowMovesOnce'
    BY <1>1, <1>3, TickKeeps
  <2>2. Resting(k)' /\ InStep(k)'
    BY <1>1, <1>3 DEF Resting, InStep, At, Row
  <2>. QED  BY <1>2, <2>1, <2>2 DEF IInv
<1>4. ASSUME NEW t \in DOMAIN tx, Mine(t) \/ Finalize(t) \/ Reorg(t) \/ Drop(t)
      PROVE  IInv(k)'
  <2>1. /\ UNCHANGED <<sweep, ticker>>
        /\ \E state \in {"mempool", "dropped", "ok", "reverted"}, depth \in {"shallow", "final"} :
             /\ SetTx(t, state, depth)
             /\ Mine(t) \/ (state = "ok" => tx[t].state = "ok")
    <3>1. tx[t].state \in {"mempool", "dropped", "ok", "reverted"}
      BY <1>1, TxFields DEF TxRow
    <3>. QED  BY <1>4, <3>1 DEF Mine, Finalize, Reorg, Drop
  <2>2. /\ DOMAIN tx' = DOMAIN tx
        /\ \A s \in DOMAIN tx :
             /\ tx'[s].sweep = tx[s].sweep
             /\ tx'[s].authorizationNonce = tx[s].authorizationNonce
             /\ Mine(t) \/ (tx'[s].state = "ok" => tx[s].state = "ok")
    BY <1>1, <2>1, TxType
  <2>3. RowMovesOnce'
    <3>1. CASE Mine(t)
      BY <1>1, <3>1, MineKeeps
    <3>2. CASE ~Mine(t)
      BY <1>1, <2>1, <2>2, <3>2, MovesShrink
    <3>. QED  BY <3>1, <3>2
  <2>4. Carried'
    BY <1>1, <2>1, <2>2 DEF Carried, viaOf
  <2>5. Resting(k)' /\ InStep(k)' /\ Faithful(k)'
    BY <1>1, <2>1 DEF Resting, InStep, Faithful, At, Row
  <2>. QED  BY <1>2, <2>3, <2>4, <2>5 DEF IInv
<1>5. ASSUME NEW i \in DOMAIN sweep, BackoffEnds(i) PROVE IInv(k)'
  <2>. DEFINE row == [sweep[i] EXCEPT !.nextAttempt = "due"]
  <2>1. sweep' = [sweep EXCEPT ![i] = row] /\ UNCHANGED <<tx, ticker>>
    BY <1>5 DEF BackoffEnds
  <2>2. /\ row \in SweepRow
        /\ row.pairing = sweep[i].pairing
        /\ row.authorizationNonce = sweep[i].authorizationNonce
        /\ row.status = sweep[i].status
    BY <1>1, RowFields DEF SweepRow
  <2>. HIDE DEF row
  <2>3. /\ DOMAIN sweep' = DOMAIN sweep
        /\ sweep'[i] = row
        /\ \A j \in DOMAIN sweep \ {i} : sweep'[j] = sweep[j]
    BY <1>1, <2>1, <2>2, RowType
  <2>4. Carried'
    BY <1>1, <2>1, <2>2, <2>3, CarriedKept
  <2>5. RowMovesOnce'
    BY <1>1, <2>1, <2>2, <2>3, MovesShrink
  <2>6. \A j \in ticker[k].todo : j \in DOMAIN sweep /\ Row(k, j)' = Row(k, j)
    BY <1>1, <2>1, InHand DEF Row
  <2>7. Faithful(k)'
    BY <1>1, <2>1, <2>2, <2>3, <2>6 DEF Faithful
  <2>8. Resting(k)' /\ InStep(k)'
    BY <1>1, <2>1, <2>6 DEF Resting, InStep, At
  <2>. QED  BY <1>2, <2>4, <2>5, <2>7, <2>8 DEF IInv
<1>6. CASE PlanStart(k)
  <2>1. /\ ticker'[k].pc \in {"plan", "select"} /\ ticker'[k].todo = {}
        /\ UNCHANGED <<sweep, tx>>
    BY <1>1, <1>6, PlanStartStep DEF PlanStart
  <2>2. Faithful(k)' /\ Carried' /\ RowMovesOnce'
    BY <1>1, <2>1, TickKeeps
  <2>. QED  BY <1>2, <2>1, <2>2 DEF IInv, Resting, InStep
<1>7. CASE SelectDue(k)
  <2>1. /\ ticker'[k].pc \in {"idle", "loop"}
        /\ ticker'[k].pc = "idle" => ticker'[k].todo = {}
        /\ ticker'[k].todo \subseteq Due
        /\ ticker'[k].todo # {} => ticker'[k].rows = sweep
        /\ UNCHANGED <<sweep, tx>>
    BY <1>1, <1>7, SelectStep DEF SelectDue
  <2>2. \A j \in ticker'[k].todo : Row(k, j)' = sweep[j] /\ sweep[j].status \in Live
    BY <2>1 DEF Row, Due
  <2>3. Faithful(k)'
    BY <2>1, <2>2 DEF Faithful
  <2>4. Carried' /\ RowMovesOnce'
    BY <1>1, <2>1 DEF Carried, RowMovesOnce, Moves, viaOf
  <2>. QED  BY <1>2, <2>1, <2>3, <2>4 DEF IInv, Resting, InStep, At
<1>8. ASSUME NEW p \in Pairing, Plans(k, p) PROVE IInv(k)'
  <2>1. ticker[k].todo = {} /\ UNCHANGED tx
    BY <1>1, <1>8 DEF Plans, DecideSweep, DecideSkip, InsertRow, Resting
  <2>2. ticker'[k].todo = {}
    BY <1>1, <1>8, <2>1, PlanTick
  <2>3. \A i \in DOMAIN sweep :
          /\ sweep'[i].pairing = sweep[i].pairing
          /\ sweep'[i].authorizationNonce = sweep[i].authorizationNonce
          /\ sweep[i].status # "planned" => sweep'[i].status # "planned"
    BY <1>1, <1>8, PlanWrite
  <2>4. \A t \in DOMAIN tx : tx[t].sweep \in DOMAIN sweep
    BY <1>1, TxFields
  <2>5. Carried'
    BY <1>1, <2>1, <2>3, <2>4 DEF Carried, viaOf
  <2>6. RowMovesOnce'
    BY <1>1, <2>1, <2>3, MovesShrink
  <2>. QED  BY <1>2, <2>2, <2>5, <2>6 DEF IInv, Resting, Faithful, InStep
<1>9. ASSUME NEW i \in ticker[k].todo, Writes(k, i) PROVE IInv(k)'
  BY <1>1, <1>2, <1>9, WriteKeeps DEF IInv
<1>10. ASSUME NEW i \in ticker[k].todo, Walks(k, i) PROVE IInv(k)'
  <2>1. /\ ticker'[k].pc \in Pcs \ {"sent", "idle", "plan", "insert", "select"}
        /\ ticker'[k].todo = ticker[k].todo
        /\ ticker'[k].rows = ticker[k].rows
        /\ ticker'[k].pc \in {"sign", "send"} =>
             Row(k, i).status = "authorized" \/ ticker[k].pc = "sign"
        /\ ticker'[k].pc = "revert" => Row(k, i).status = "broadcast"
        /\ UNCHANGED <<sweep, tx>>
        /\ At(k, i, ticker[k].pc)
    BY <1>1, <1>10, WalkStep
  <2>2. Faithful(k)' /\ Carried' /\ RowMovesOnce'
    BY <1>1, <2>1, TickKeeps
  <2>3. ticker[k].pc = "sign" => Row(k, i).status = "authorized"
    BY <1>1, <2>1 DEF InStep
  <2>4. \A j \in ticker[k].todo : \A pc : At(k, j, pc)' => j = i
    <3>1. ticker[k].todo \subseteq Nat
      BY <1>1, TickerFits DEF Fits, TickerState
    <3>. QED  BY <2>1, <3>1 DEF At
  <2>5. Row(k, i)' = Row(k, i)
    BY <2>1 DEF Row
  <2>6. InStep(k)'
    BY <2>1, <2>3, <2>4, <2>5 DEF InStep, At
  <2>. QED  BY <1>2, <2>1, <2>2, <2>6 DEF IInv, Resting
<1>11. ASSUME NEW i \in ticker[k].todo, ReadBalance(k, i) PROVE IInv(k)'
  <2>1. /\ ticker'[k].pc = "authorize"
        /\ ticker'[k].todo = ticker[k].todo
        /\ ticker'[k].rows = ticker[k].rows
        /\ UNCHANGED <<sweep, tx>>
    BY <1>1, <1>11, ReadBalanceStep DEF ReadBalance
  <2>2. Faithful(k)' /\ Carried' /\ RowMovesOnce'
    BY <1>1, <2>1, TickKeeps
  <2>. QED  BY <1>2, <2>1, <2>2 DEF IInv, Resting, InStep, At
<1>12. ASSUME NEW i \in ticker[k].todo, Send(k, i) \/ SendUnheard(k, i) PROVE IInv(k)'
  <2>. DEFINE new == Len(tx) + 1
  <2>1. /\ ticker'[k].pc \in {"sent", "fail"}
        /\ ticker'[k].todo = ticker[k].todo
        /\ ticker'[k].rows = ticker[k].rows
        /\ UNCHANGED sweep
        /\ AddTx(k, i)
        /\ At(k, i, "send")
    BY <1>1, <1>12, SendStep DEF Send, SendUnheard
  <2>2. /\ DOMAIN tx' = DOMAIN tx \cup {new}
        /\ new \notin DOMAIN tx
        /\ \A t \in DOMAIN tx :
             /\ tx'[t].sweep = tx[t].sweep
             /\ tx'[t].authorizationNonce = tx[t].authorizationNonce
             /\ tx'[t].state = "ok" => tx[t].state = "ok"
        /\ tx'[new].sweep = i
        /\ tx'[new].authorizationNonce = Row(k, i).authorizationNonce
        /\ tx'[new].state = "mempool"
    BY <1>1, <2>1, AddStep
  <2>. HIDE DEF new
  <2>3. /\ sweep[i].authorizationNonce = Row(k, i).authorizationNonce
        /\ sweep[i].status # "planned"
    BY <1>1, <2>1 DEF Faithful, InStep
  <2>4. Carried'
    BY <1>1, <2>1, <2>2, <2>3 DEF Carried, viaOf
  <2>5. RowMovesOnce'
    BY <1>1, <2>1, <2>2, MovesShrink
  <2>6. \A j \in ticker[k].todo : Row(k, j)' = Row(k, j)
    BY <2>1 DEF Row
  <2>7. Faithful(k)'
    BY <1>1, <2>1, <2>6 DEF Faithful
  <2>. QED  BY <1>2, <2>1, <2>4, <2>5, <2>7 DEF IInv, Resting, InStep, At
<1>13. ASSUME NEW i \in ticker[k].todo, StillMaturing(k, i) \/ ReceiptUnread(k, i)
       PROVE  IInv(k)'
  <2>1. NextRow(k, i) /\ UNCHANGED <<sweep, tx>>
    BY <1>13 DEF StillMaturing, ReceiptUnread
  <2>2. /\ ticker'[k].pc \in {"idle", "loop"}
        /\ ticker'[k].pc = "idle" => ticker'[k].todo = {}
        /\ ticker'[k].todo \subseteq ticker[k].todo \ {i}
        /\ ticker'[k].todo # {} => ticker'[k].rows = ticker[k].rows
    BY <1>1, <2>1, NextRowStep
  <2>3. Faithful(k)' /\ Carried' /\ RowMovesOnce'
    BY <1>1, <2>1, <2>2, TickKeeps
  <2>. QED  BY <1>2, <2>2, <2>3 DEF IInv, Resting, InStep, At
<1>14. CASE TickFails(k) \/ Restart
  <2>1. ticker'[k] = Idle /\ UNCHANGED <<sweep, tx>>
    BY <1>1, <1>14 DEF TickFails, Restart, TypeOK
  <2>2. ticker'[k].todo = {}
    BY <2>1, IdleType
  <2>3. Faithful(k)' /\ Carried' /\ RowMovesOnce'
    BY <1>1, <2>1, <2>2, TickKeeps
  <2>. QED  BY <1>2, <2>2, <2>3 DEF IInv, Resting, InStep
<1>15. CASE UNCHANGED vars
  BY <1>3, <1>15 DEF vars
<1>16. ASSUME NEW p \in Pairing, Receive(p) \/ ConfirmDeposit(p) PROVE IInv(k)'
  BY <1>3, <1>16 DEF Receive, ConfirmDeposit
<1>17. ASSUME NEW n \in 1..auths, Lapse(n) PROVE IInv(k)'
  BY <1>3, <1>17 DEF Lapse
<1>. QED
  BY <1>4, <1>5, <1>6, <1>7, <1>8, <1>9, <1>10, <1>11, <1>12, <1>13, <1>14, <1>15, <1>16, <1>17
  DEF Next, Plan, Execute, Plans, Writes, Walks

LEMMA SingleInvariant ==
    ASSUME NEW k, Ticker = {k}
    PROVE  Spec => []IInv(k)
BY InvInit, InvStep, PTL DEF Spec

\* Exactly once: while ticks do not overlap, no crash, lost answer, reorganisation,
\* eviction, expiry or retry moves the funds of an eip3009 sweep a second time.
THEOREM ExactlyOnce ==
    ASSUME NEW k, Ticker = {k}
    PROVE  Spec => []RowMovesOnce
<1>1. IInv(k) => RowMovesOnce
  BY DEF IInv
<1>. QED  BY <1>1, SingleInvariant, PTL

\* While ticks do not overlap, a confirmed or dead-lettered row is never taken up again:
\* the rows a tick has in hand are live ones.
THEOREM EndedIsFinal ==
    ASSUME NEW k, Ticker = {k}
    PROVE  Spec => EndedRowsStay
<1>. DEFINE Step == \A i \in DOMAIN sweep : sweep[i].status \in {"confirmed", "failed"} =>
                        sweep'[i].status = sweep[i].status
<1>1. ASSUME IInv(k), [Next]_vars PROVE Step
  <2>1. k \in Ticker /\ TypeInv /\ TypeOK /\ Faithful(k)
    BY <1>1 DEF IInv, TypeInv
  <2>2. CASE sweep' = sweep
    BY <2>2
  <2>3. ASSUME NEW i \in DOMAIN sweep, BackoffEnds(i) PROVE Step
    <3>. DEFINE row == [sweep[i] EXCEPT !.nextAttempt = "due"]
    <3>1. sweep' = [sweep EXCEPT ![i] = row]
      BY <2>3 DEF BackoffEnds
    <3>2. row \in SweepRow /\ row.status = sweep[i].status
      BY <2>1, RowFields DEF SweepRow
    <3>. HIDE DEF row
    <3>. QED  BY <2>1, <3>1, <3>2, RowType
  <2>4. ASSUME NEW p \in Pairing, Plans(k, p) PROVE Step
    BY <2>1, <2>4, PlanWrite
  <2>5. ASSUME NEW i \in ticker[k].todo, Writes(k, i) PROVE Step
    <3>1. sweep[i].status \in Live /\ i \in DOMAIN sweep
      BY <2>1, InHand DEF Faithful, Live
    <3>2. \A j \in DOMAIN sweep \ {i} : sweep'[j] = sweep[j]
      BY <2>1, <2>5, <3>1, WriteStep, SetStep
    <3>. QED  BY <3>1, <3>2 DEF Live
  <2>6. ASSUME NEW i \in ticker[k].todo,
               \/ Walks(k, i) \/ ReadBalance(k, i) \/ Send(k, i) \/ SendUnheard(k, i)
               \/ StillMaturing(k, i) \/ ReceiptUnread(k, i)
        PROVE  sweep' = sweep
    BY <2>6
    DEF Walks, CheckUsed, BroadcastNative, SignAuthorization, DomainUnverifiable,
        SendRefused, MissingHash, Moved, Reverted, Throws, SetRefused, ReadBalance, Send,
        SendUnheard, StillMaturing, ReceiptUnread
  <2>7. ASSUME \/ \E p \in Pairing : Receive(p) \/ ConfirmDeposit(p)
               \/ \E t \in DOMAIN tx : Mine(t) \/ Finalize(t) \/ Reorg(t) \/ Drop(t)
               \/ \E n \in 1..auths : Lapse(n)
               \/ PlanStart(k) \/ SelectDue(k) \/ TickFails(k) \/ Restart
        PROVE  sweep' = sweep
    BY <2>7
    DEF Receive, ConfirmDeposit, Mine, Finalize, Reorg, Drop, Lapse, PlanStart, SelectDue,
        TickFails, Restart
  <2>. QED
    BY <1>1, <2>2, <2>3, <2>4, <2>5, <2>6, <2>7
    DEF Next, vars, Plan, Execute, Plans, Writes, Walks
<1>2. [Next]_vars /\ IInv(k) => [Step]_vars
  BY <1>1
<1>. QED  BY <1>2, SingleInvariant, PTL DEF Spec, EndedRowsStay

-----------------------------------------------------------------------------
(***************************************************************************)
(* What a confirmed row has moved, with any number of overlapping ticks.   *)
(* A tick may hold a row as it was long ago, but every authorization and   *)
(* every hash it can meet there is one of that row and of no other         *)
(* (OwnNonces, OwnHashes), so what it finds used or mined is the row's.    *)
(***************************************************************************)

\* The authorizations row i is known by: the one stored, those of the batches it is in
\* and those its transactions carry.
Known(i) ==
    {sweep[i].authorizationNonce}
      \cup {Row(k, i).authorizationNonce : k \in {c \in Ticker : i \in ticker[c].todo}}
      \cup {tx[t].authorizationNonce : t \in {s \in DOMAIN tx : tx[s].sweep = i}}

OwnNonces ==
    \A i \in DOMAIN sweep : \A n \in Known(i) :
        /\ n \in 0..auths
        /\ n # 0 => \A j \in DOMAIN sweep \ {i} : n \notin Known(j)

Signed == {"authorized", "broadcast"}

\* A row that is signed for has an authorization, and never loses it.
Drawn ==
    /\ \A i \in DOMAIN sweep :
         viaOf(i) = "eip3009" /\ sweep[i].status \in Signed => sweep[i].authorizationNonce # 0
    /\ \A k \in Ticker : \A i \in ticker[k].todo :
         /\ viaOf(i) = "eip3009" /\ Row(k, i).status \in Signed =>
              Row(k, i).authorizationNonce # 0
         /\ Row(k, i).authorizationNonce # 0 => sweep[i].authorizationNonce # 0

Sent(t, i) == t \in DOMAIN tx /\ tx[t].sweep = i

OwnHashes ==
    /\ \A i \in DOMAIN sweep : sweep[i].txHash # 0 => Sent(sweep[i].txHash, i)
    /\ \A k \in Ticker : \A i \in ticker[k].todo :
         Row(k, i).txHash # 0 => Sent(Row(k, i).txHash, i)

\* What a tick knows of row i at each of its steps.
Staged(k, i) ==
    /\ Row(k, i).status \in Live
    /\ At(k, i, "authorize") => viaOf(i) = "native"
    /\ \A pc \in {"sign", "send", "sent", "revert"} : At(k, i, pc) => Row(k, i).status \in Signed
    /\ At(k, i, "sent") => Sent(ticker[k].txHash, i)
    /\ At(k, i, "settle") /\ reorgs = 0 => Moves(i) # {}

Stages == \A k \in Ticker : \A i \in ticker[k].todo : Staged(k, i)

MovedInv ==
    /\ TypeInv
    /\ OwnNonces
    /\ Drawn
    /\ OwnHashes
    /\ Stages
    /\ ConfirmedMeansMoved

(***************************************************************************)
(* What every step does to the rows, the transactions and the ticks, as    *)
(* far as MovedInv is concerned.                                           *)
(***************************************************************************)

RowsMove ==
    /\ DOMAIN sweep \subseteq DOMAIN sweep'
    /\ auths' \in Nat /\ auths' >= auths
    /\ \A i \in DOMAIN sweep :
         /\ sweep'[i].pairing = sweep[i].pairing
         /\ \/ sweep'[i].authorizationNonce = sweep[i].authorizationNonce
            \/ /\ sweep'[i].authorizationNonce = auths' /\ auths' > auths
               /\ \A j \in DOMAIN sweep \ {i} : sweep'[j] = sweep[j]
         /\ sweep'[i].txHash \in {0, sweep[i].txHash} \/ Sent(sweep'[i].txHash, i)
         /\ viaOf(i) = "eip3009" /\ sweep'[i].status \in Signed =>
              sweep[i].status \in Signed \/ sweep'[i].authorizationNonce # 0
         /\ sweep'[i].status = "confirmed" /\ reorgs = 0 =>
              sweep[i].status = "confirmed" \/ Moves(i) # {}
    /\ \A i \in DOMAIN sweep' \ DOMAIN sweep :
         /\ sweep'[i].authorizationNonce = 0 /\ sweep'[i].txHash = 0
         /\ sweep'[i].status \notin Signed \cup {"confirmed"}

TxsMove ==
    /\ \A t \in DOMAIN tx :
         /\ t \in DOMAIN tx'
         /\ tx'[t].sweep = tx[t].sweep
         /\ tx'[t].authorizationNonce = tx[t].authorizationNonce
         /\ reorgs' = 0 /\ tx[t].state = "ok" => tx'[t].state = "ok"
    /\ \A t \in DOMAIN tx' \ DOMAIN tx :
         /\ tx'[t].sweep \in DOMAIN sweep
         /\ tx'[t].authorizationNonce \in Known(tx'[t].sweep)
    /\ reorgs' = 0 => reorgs = 0

\* Rows stay in hand as they were, or are taken as they are.
TickMoves(k) ==
    \A i \in ticker'[k].todo :
        /\ \/ i \in ticker[k].todo /\ Row(k, i)' = Row(k, i)
           \/ i \in Due /\ Row(k, i)' = sweep[i]
        /\ At(k, i, "authorize")' => viaOf(i) = "native"
        /\ \A pc \in {"sign", "send", "sent", "revert"} :
             At(k, i, pc)' => Row(k, i)'.status \in Signed
        /\ At(k, i, "sent")' => Sent(ticker[k].txHash, i)'
        /\ At(k, i, "settle")' /\ reorgs = 0 => Moves(i) # {}

Shape == RowsMove /\ TxsMove /\ \A k \in Ticker : ticker'[k] = ticker[k] \/ TickMoves(k)

LEMMA BatchRows ==
    ASSUME TypeInv, NEW k \in Ticker, NEW i \in ticker[k].todo
    PROVE  i \in DOMAIN sweep
BY InHand

\* What a batch holds after a step it held before, or it has just been read.
LEMMA Batches ==
    ASSUME TypeInv, Shape, NEW k \in Ticker, NEW i \in ticker'[k].todo
    PROVE  /\ i \in DOMAIN sweep
           /\ \/ i \in ticker[k].todo /\ Row(k, i)' = Row(k, i)
              \/ i \in Due /\ Row(k, i)' = sweep[i]
<1>1. \/ i \in ticker[k].todo /\ Row(k, i)' = Row(k, i)
      \/ i \in Due /\ Row(k, i)' = sweep[i]
  BY DEF Shape, TickMoves, Row
<1>. QED  BY <1>1, BatchRows DEF Due

LEMMA KnownMoves ==
    ASSUME TypeInv, TypeInv', Shape
    PROVE  /\ \A i \in DOMAIN sweep : \A n \in Known(i)' :
                \/ n \in Known(i)
                \/ /\ n = auths' /\ auths' > auths
                   /\ \A j \in DOMAIN sweep \ {i} : sweep'[j] = sweep[j]
                   /\ n = sweep'[i].authorizationNonce
           /\ \A i \in DOMAIN sweep' \ DOMAIN sweep : Known(i)' \subseteq {0}
<1>1. ASSUME NEW i \in DOMAIN sweep', NEW n \in Known(i)'
      PROVE  \/ n = sweep'[i].authorizationNonce
             \/ i \in DOMAIN sweep /\ n \in Known(i)
  <2>1. ASSUME NEW k \in Ticker, i \in ticker'[k].todo, n = Row(k, i)'.authorizationNonce
        PROVE  i \in DOMAIN sweep /\ n \in Known(i)
    BY <2>1, Batches DEF Known
  <2>2. ASSUME NEW t \in DOMAIN tx', tx'[t].sweep = i, n = tx'[t].authorizationNonce
        PROVE  i \in DOMAIN sweep /\ n \in Known(i)
    <3>1. CASE t \in DOMAIN tx
      BY <2>2, <3>1, TxFields DEF Shape, TxsMove, Known, TypeInv
    <3>2. CASE t \notin DOMAIN tx
      BY <2>2, <3>2 DEF Shape, TxsMove
    <3>. QED  BY <3>1, <3>2
  <2>. QED  BY <1>1, <2>1, <2>2 DEF Known
<1>2. ASSUME NEW i \in DOMAIN sweep, NEW n \in Known(i)', n \notin Known(i)
      PROVE  /\ n = auths' /\ auths' > auths
             /\ \A j \in DOMAIN sweep \ {i} : sweep'[j] = sweep[j]
             /\ n = sweep'[i].authorizationNonce
  <2>1. n = sweep'[i].authorizationNonce /\ n # sweep[i].authorizationNonce
    BY <1>1, <1>2 DEF Shape, RowsMove, Known
  <2>. QED  BY <2>1 DEF Shape, RowsMove
<1>3. ASSUME NEW i \in DOMAIN sweep' \ DOMAIN sweep PROVE Known(i)' \subseteq {0}
  BY <1>1, <1>3 DEF Shape, RowsMove
<1>. QED  BY <1>2, <1>3

LEMMA NoncesKeep ==
    ASSUME TypeInv, TypeInv', Shape, OwnNonces
    PROVE  OwnNonces'
<1>. SUFFICES ASSUME NEW i \in DOMAIN sweep', NEW n \in Known(i)'
              PROVE  /\ n \in 0..auths'
                     /\ n # 0 => \A j \in DOMAIN sweep' \ {i} : n \notin Known(j)'
  BY DEF OwnNonces
<1>1. auths \in Nat /\ auths' \in Nat /\ auths' >= auths
  BY DEF Shape, RowsMove, TypeInv, TypeOK
<1>2. CASE n = 0
  BY <1>1, <1>2
<1>3. CASE n # 0
  <2>1. i \in DOMAIN sweep
    BY <1>3, KnownMoves
  <2>2. ASSUME NEW j \in DOMAIN sweep' \ {i}, n \in Known(j)' PROVE j \in DOMAIN sweep
    BY <1>3, <2>2, KnownMoves
  <2>3. CASE n \in Known(i)
    <3>1. n \in 0..auths
      BY <2>1, <2>3 DEF OwnNonces
    <3>2. ASSUME NEW j \in DOMAIN sweep' \ {i}, n \in Known(j)' PROVE FALSE
      <4>1. n \in Known(j)
        BY <1>1, <2>2, <3>1, <3>2, KnownMoves
      <4>. QED  BY <1>3, <2>1, <2>2, <2>3, <3>2, <4>1 DEF OwnNonces
    <3>. QED  BY <1>1, <3>1, <3>2
  <2>4. CASE n \notin Known(i)
    <3>1. /\ n = auths' /\ auths' > auths
          /\ \A j \in DOMAIN sweep \ {i} : sweep'[j] = sweep[j]
      BY <2>1, <2>4, KnownMoves
    <3>2. ASSUME NEW j \in DOMAIN sweep' \ {i}, n \in Known(j)' PROVE FALSE
      <4>1. j \in DOMAIN sweep \ {i} /\ sweep'[j] = sweep[j]
        BY <2>2, <3>1, <3>2
      <4>2. n \in Known(j) \/ n = sweep'[j].authorizationNonce
        BY <3>2, <4>1, KnownMoves
      <4>3. n \in Known(j)
        BY <4>1, <4>2 DEF Known
      <4>4. n \in 0..auths
        BY <4>1, <4>3 DEF OwnNonces
      <4>. QED  BY <1>1, <3>1, <4>4
    <3>. QED  BY <1>1, <3>1, <3>2
  <2>. QED  BY <2>3, <2>4
<1>. QED  BY <1>2, <1>3

LEMMA DrawnKeeps ==
    ASSUME TypeInv, TypeInv', Shape, Drawn
    PROVE  Drawn'
<1>1. ASSUME NEW i \in DOMAIN sweep
      PROVE  /\ viaOf(i)' = viaOf(i)
             /\ sweep[i].authorizationNonce # 0 => sweep'[i].authorizationNonce # 0
  <2>1. sweep'[i].pairing = sweep[i].pairing
    BY DEF Shape, RowsMove
  <2>2. auths \in Nat /\ auths' \in Nat
    BY DEF TypeInv, TypeOK
  <2>3. \/ sweep'[i].authorizationNonce = sweep[i].authorizationNonce
        \/ sweep'[i].authorizationNonce = auths' /\ auths' > auths
    BY DEF Shape, RowsMove
  <2>. QED  BY <2>1, <2>2, <2>3 DEF viaOf
<1>2. ASSUME NEW i \in DOMAIN sweep', viaOf(i)' = "eip3009", sweep'[i].status \in Signed
      PROVE  sweep'[i].authorizationNonce # 0
  <2>1. i \in DOMAIN sweep
    BY <1>2 DEF Shape, RowsMove
  <2>. QED  BY <1>1, <1>2, <2>1 DEF Shape, RowsMove, Drawn
<1>3. ASSUME NEW k \in Ticker, NEW i \in ticker'[k].todo
      PROVE  /\ viaOf(i)' = "eip3009" /\ Row(k, i)'.status \in Signed =>
                  Row(k, i)'.authorizationNonce # 0
             /\ Row(k, i)'.authorizationNonce # 0 => sweep'[i].authorizationNonce # 0
  BY <1>1, Batches DEF Drawn
<1>. QED  BY <1>2, <1>3 DEF Drawn

LEMMA SentStays ==
    ASSUME Shape, NEW t, NEW i, Sent(t, i)
    PROVE  Sent(t, i)'
BY DEF Shape, TxsMove, Sent

LEMMA HashesKeep ==
    ASSUME TypeInv, TypeInv', Shape, OwnHashes
    PROVE  OwnHashes'
<1>1. ASSUME NEW i \in DOMAIN sweep', sweep'[i].txHash # 0
      PROVE  sweep'[i].txHash \in DOMAIN tx' /\ tx'[sweep'[i].txHash].sweep = i
  <2>1. i \in DOMAIN sweep
    BY <1>1 DEF Shape, RowsMove
  <2>2. Sent(sweep'[i].txHash, i)
    BY <1>1, <2>1 DEF Shape, RowsMove, OwnHashes
  <2>. QED  BY <2>2 DEF Sent, Shape, TxsMove
<1>2. ASSUME NEW k \in Ticker, NEW i \in ticker'[k].todo, Row(k, i)'.txHash # 0
      PROVE  Row(k, i)'.txHash \in DOMAIN tx' /\ tx'[Row(k, i)'.txHash].sweep = i
  <2>1. \/ i \in ticker[k].todo /\ Row(k, i)' = Row(k, i)
        \/ i \in DOMAIN sweep /\ Row(k, i)' = sweep[i]
    BY Batches
  <2>2. Sent(Row(k, i)'.txHash, i)
    BY <1>2, <2>1 DEF OwnHashes
  <2>. QED  BY <2>2 DEF Sent, Shape, TxsMove
<1>. QED  BY <1>1, <1>2 DEF OwnHashes, Sent

LEMMA MovesStay ==
    ASSUME Shape, reorgs' = 0, NEW i, Moves(i) # {}
    PROVE  reorgs = 0 /\ Moves(i)' # {}
<1>1. PICK t \in DOMAIN tx : tx[t].sweep = i /\ tx[t].state = "ok"
  BY DEF Moves
<1>2. t \in DOMAIN tx' /\ tx'[t].sweep = i /\ tx'[t].state = "ok" /\ reorgs = 0
  BY <1>1 DEF Shape, TxsMove
<1>. QED  BY <1>2 DEF Moves

LEMMA StagesKeep ==
    ASSUME TypeInv, TypeInv', Shape, Stages
    PROVE  Stages'
<1>. SUFFICES ASSUME NEW k \in Ticker, NEW i \in ticker'[k].todo PROVE Staged(k, i)'
  BY DEF Stages
<1>1. i \in DOMAIN sweep /\ viaOf(i)' = viaOf(i)
  BY Batches DEF Shape, RowsMove, viaOf
<1>2. Row(k, i)'.status \in Live
  BY Batches DEF Stages, Staged, Due
<1>3. CASE ticker'[k] = ticker[k]
  <2>1. Staged(k, i) /\ Row(k, i)' = Row(k, i) /\ \A pc : At(k, i, pc)' = At(k, i, pc)
    BY <1>3 DEF Stages, Row, At
  <2>2. At(k, i, "sent")' => Sent(ticker[k].txHash, i)'
    <3>1. ASSUME NEW h, h = ticker[k].txHash, At(k, i, "sent") PROVE Sent(h, i)'
      BY <2>1, <3>1, SentStays DEF Staged
    <3>. QED  BY <1>3, <2>1, <3>1 DEF Sent
  <2>3. At(k, i, "settle")' /\ reorgs' = 0 => Moves(i)' # {}
    BY <2>1, MovesStay DEF Staged, Shape, TxsMove
  <2>. QED  BY <1>1, <1>2, <2>1, <2>2, <2>3 DEF Staged
<1>4. CASE TickMoves(k)
  <2>1. At(k, i, "settle")' /\ reorgs' = 0 => Moves(i)' # {}
    BY <1>4, MovesStay DEF TickMoves, Shape, TxsMove
  <2>. QED  BY <1>1, <1>2, <1>4, <2>1 DEF TickMoves, Staged
<1>. QED  BY <1>3, <1>4 DEF Shape

LEMMA ConfirmedKeeps ==
    ASSUME TypeInv, Shape, ConfirmedMeansMoved
    PROVE  ConfirmedMeansMoved'
<1>. SUFFICES ASSUME NEW i \in DOMAIN sweep', sweep'[i].status = "confirmed", reorgs' = 0
              PROVE  Moves(i)' # {}
  BY DEF ConfirmedMeansMoved
<1>1. i \in DOMAIN sweep /\ reorgs = 0
  BY DEF Shape, RowsMove, TxsMove
<1>2. Moves(i) # {}
  BY <1>1 DEF Shape, RowsMove, ConfirmedMeansMoved
<1>. QED  BY <1>2, MovesStay

LEMMA MovedInit == Init => MovedInv
<1>. SUFFICES ASSUME Init PROVE MovedInv
  OBVIOUS
<1>1. (\A k \in Ticker : ticker[k].todo = {}) /\ DOMAIN tx = {} /\ DOMAIN sweep = {}
  BY IdleType DEF Init
<1>. QED
  BY <1>1, TypeInit DEF MovedInv, OwnNonces, Drawn, OwnHashes, Stages, ConfirmedMeansMoved

-----------------------------------------------------------------------------
(***************************************************************************)
(* Every step has that shape.                                              *)
(***************************************************************************)

LEMMA RowsRest ==
    ASSUME TypeInv, sweep' = sweep, auths' = auths
    PROVE  RowsMove
BY DEF RowsMove, TypeInv, TypeOK

LEMMA TxsRest ==
    ASSUME tx' = tx, reorgs' = reorgs
    PROVE  TxsMove
BY DEF TxsMove

\* The tick goes where nothing is known of its row, or ends, or takes rows up.
LEMMA TickWalks ==
    ASSUME NEW k \in Ticker,
           ticker'[k].pc \notin {"authorize", "sign", "send", "sent", "settle", "revert"},
           \A i \in ticker'[k].todo :
              \/ i \in ticker[k].todo /\ ticker'[k].rows = ticker[k].rows
              \/ i \in Due /\ ticker'[k].rows = sweep
    PROVE  TickMoves(k)
BY DEF TickMoves, At, Row

\* The tick goes on with row i to a step where something is.
LEMMA TickArrives ==
    ASSUME TypeInv, NEW k \in Ticker, NEW i \in ticker[k].todo, At(k, i, ticker[k].pc),
           ticker'[k].todo = ticker[k].todo,
           ticker'[k].rows = ticker[k].rows,
           ticker'[k].pc = "authorize" => viaOf(i) = "native",
           ticker'[k].pc \in {"sign", "send", "sent", "revert"} => Row(k, i).status \in Signed,
           ticker'[k].pc = "sent" =>
              ticker'[k].txHash \in DOMAIN tx' /\ tx'[ticker'[k].txHash].sweep = i,
           ticker'[k].pc = "settle" /\ reorgs = 0 => Moves(i) # {}
    PROVE  TickMoves(k)
<1>1. ASSUME NEW j \in ticker'[k].todo, NEW pc, At(k, j, pc)' PROVE j = i /\ ticker'[k].pc = pc
  <2>1. j \in Nat /\ i \in Nat
    BY TickerFits DEF Fits, TickerState
  <2>2. i <= j /\ j <= i /\ ticker'[k].pc = pc
    BY <1>1 DEF At
  <2>. QED  BY <2>1, <2>2
<1>2. \A j \in ticker'[k].todo : j \in ticker[k].todo /\ Row(k, j)' = Row(k, j)
  BY DEF Row
<1>. QED  BY <1>1, <1>2 DEF TickMoves, Sent

\* What a step of tick k does to the other ticks.
LEMMA OthersWait ==
    ASSUME TypeInv, NEW k, NEW i, NEW p,
           \/ PlanStart(k) \/ SelectDue(k) \/ TickFails(k) \/ Plans(k, p)
           \/ Writes(k, i) \/ Walks(k, i) \/ ReadBalance(k, i) \/ Send(k, i)
           \/ SendUnheard(k, i) \/ StillMaturing(k, i) \/ ReceiptUnread(k, i)
    PROVE  \A c \in Ticker \ {k} : ticker'[c] = ticker[c]
<1>1. \E next : ticker' = [ticker EXCEPT ![k] = next]
  <2>1. CASE PlanStart(k) \/ SelectDue(k) \/ TickFails(k) \/ Plans(k, p)
    BY <2>1 DEF PlanStart, SelectDue, TickFails, Plans, DecideSweep, DecideSkip, InsertRow,
                NextCandidate, Insert
  <2>2. CASE Writes(k, i)
    BY <2>2 DEF Writes, AuthorizeToken, AuthorizeNative, RecordBroadcast, RecordConfirmed,
                RecordReverted, RecordFailure, NextRow, GoTo
  <2>3. CASE Walks(k, i)
    BY <2>3 DEF Walks, CheckUsed, BroadcastNative, SignAuthorization, DomainUnverifiable,
                SendRefused, MissingHash, Moved, Reverted, Throws, SetRefused, GoTo, Dead
  <2>4. CASE \/ ReadBalance(k, i) \/ Send(k, i) \/ SendUnheard(k, i)
             \/ StillMaturing(k, i) \/ ReceiptUnread(k, i)
    BY <2>4 DEF ReadBalance, Send, SendUnheard, StillMaturing, ReceiptUnread, NextRow, GoTo
  <2>. QED  BY <2>1, <2>2, <2>3, <2>4
<1>. QED  BY <1>1 DEF TypeInv, TypeOK

\* An authorization the token has seen used was used for its row.
LEMMA UsedMoved ==
    ASSUME TypeInv, OwnNonces, NEW k \in Ticker, NEW i \in ticker[k].todo,
           Row(k, i).authorizationNonce # 0,
           authorizationUsed(Row(k, i).authorizationNonce)
    PROVE  Moves(i) # {}
<1>. DEFINE n == Row(k, i).authorizationNonce
<1>1. PICK t \in DOMAIN tx : tx[t].state = "ok" /\ tx[t].authorizationNonce = n
  BY DEF authorizationUsed
<1>2. tx[t].sweep \in DOMAIN sweep /\ i \in DOMAIN sweep
  BY TxFields, InHand DEF TypeInv
<1>3. n \in Known(tx[t].sweep) /\ n \in Known(i)
  BY <1>1 DEF Known
<1>4. tx[t].sweep = i
  BY <1>2, <1>3 DEF OwnNonces
<1>. QED  BY <1>1, <1>4 DEF Moves

\* A tick that is about to mark a row confirmed has seen its funds moved.
LEMMA SettledMoved ==
    ASSUME TypeInv, OwnNonces, Drawn, OwnHashes,
           NEW k \in Ticker, NEW i \in ticker[k].todo, Walks(k, i), ticker'[k].pc = "settle"
    PROVE  Moves(i) # {}
<1>1. \/ CheckUsed(k, i) /\ authorizationUsed(Row(k, i).authorizationNonce)
      \/ Moved(k, i)
  <2>1. ASSUME NEW pc, GoTo(k, pc) PROVE pc = "settle"
    BY <2>1 DEF GoTo, TypeInv, TypeOK
  <2>2. ~Dead(k) /\ ~Throws(k, i)
    <3>. DEFINE to(pc, dead) == [ticker[k] EXCEPT !.pc = pc, !.dead = dead]
    <3>1. \A pc, dead : to(pc, dead).pc = pc
      BY TickerFits DEF Fits, TickerState
    <3>2. Dead(k) => ticker'[k] = to("failing", "yes")
      BY DEF Dead, TypeInv, TypeOK
    <3>3. Throws(k, i) => ticker'[k] = to("fail", "no")
      BY DEF Throws, TypeInv, TypeOK
    <3>. HIDE DEF to
    <3>. QED  BY <3>1, <3>2, <3>3
  <2>. QED
    BY <2>1, <2>2
    DEF Walks, CheckUsed, BroadcastNative, SignAuthorization, DomainUnverifiable,
        SendRefused, MissingHash, Reverted, SetRefused
<1>2. CASE CheckUsed(k, i) /\ authorizationUsed(Row(k, i).authorizationNonce)
  <2>1. Row(k, i).authorizationNonce # 0
    BY <1>2 DEF CheckUsed, Drawn, Signed
  <2>. QED  BY <1>2, <2>1, UsedMoved
<1>3. CASE Moved(k, i) /\ Receipt(k, i) = "confirmed"
  <2>1. Row(k, i).txHash # 0
    BY <1>3 DEF Moved, Awaiting
  <2>2. Sent(Row(k, i).txHash, i)
    BY <2>1 DEF OwnHashes
  <2>3. tx[Row(k, i).txHash].state = "ok"
    BY <1>3 DEF Receipt, Mined
  <2>. QED  BY <2>2, <2>3 DEF Moves, Sent
<1>4. CASE Moved(k, i) /\ Receipt(k, i) # "confirmed"
  <2>1. /\ viaOf(i) = "eip3009"
        /\ Row(k, i).status = "broadcast"
        /\ authorizationUsed(Row(k, i).authorizationNonce)
    BY <1>4 DEF Moved, HasMoved, Awaiting
  <2>2. Row(k, i).authorizationNonce # 0
    BY <2>1 DEF Drawn, Signed
  <2>. QED  BY <2>1, <2>2, UsedMoved
<1>. QED  BY <1>1, <1>2, <1>3, <1>4

\* A send replaces no transaction that has moved funds.
LEMMA SendKeeps ==
    ASSUME TypeInv, NEW k \in Ticker, NEW i \in ticker[k].todo,
           Accepted(k, i), AddTx(k, i),
           NEW t \in DOMAIN tx, tx[t].state = "ok"
    PROVE  tx'[t].state = "ok"
<1>1. t \notin SameNonce(k, i)
  BY DEF Accepted, Mined
<1>. DEFINE replaced == SameNonce(k, i)
            left == [s \in DOMAIN tx |->
                        IF s \in replaced THEN [tx[s] EXCEPT !.state = "dropped"] ELSE tx[s]]
<1>2. PICK new : tx' = Append(left, new)
  BY DEF AddTx
<1>. HIDE DEF replaced
<1>3. tx \in Seq(TxRow) /\ DOMAIN tx = 1..Len(tx) /\ Len(tx) \in Nat
  BY DEF TypeInv, TypeOK
<1>4. DOMAIN left = 1..Len(tx) /\ left[t] = tx[t]
  BY <1>1, <1>3 DEF replaced
<1>. HIDE DEF left
<1>5. Len(left) = Len(tx)
  BY <1>3, <1>4
<1>6. tx'[t] = left[t]
  BY <1>2, <1>3, <1>4, <1>5
<1>. QED  BY <1>4, <1>6

LEMMA WriteShape ==
    ASSUME MovedInv, NEW k \in Ticker, NEW i \in ticker[k].todo, Writes(k, i)
    PROVE  RowsMove
<1>. USE DEF MovedInv
<1>1. /\ i \in DOMAIN sweep /\ auths \in Nat
      /\ sweep[i] \in SweepRow /\ Row(k, i) \in SweepRow
      /\ Staged(k, i)
  BY InHand, RowFields DEF TypeInv, TypeOK, Stages
<1>2. PICK row \in SweepRow :
        /\ Set(i, row)
        /\ row.pairing = sweep[i].pairing
        /\ row.authorizationNonce = sweep[i].authorizationNonce \/ AuthorizeToken(k, i)
        /\ Stored(k, i, row)
  BY WriteStep
<1>3. /\ DOMAIN sweep' = DOMAIN sweep
      /\ sweep'[i] \in {row, sweep[i]}
      /\ \A j \in DOMAIN sweep \ {i} : sweep'[j] = sweep[j]
  BY <1>1, <1>2, SetStep DEF TypeInv
<1>4. \/ AuthorizeToken(k, i) /\ auths' = auths + 1
      \/ ~AuthorizeToken(k, i) /\ auths' = auths
  BY DEF Writes, AuthorizeToken, AuthorizeNative, RecordBroadcast, RecordConfirmed,
         RecordReverted, RecordFailure
<1>5. \/ row.authorizationNonce = auths' /\ auths' > auths
      \/ row.authorizationNonce = sweep[i].authorizationNonce /\ ~AuthorizeToken(k, i)
  BY <1>1, <1>2, <1>4 DEF Stored
<1>6. row.txHash \in {0, sweep[i].txHash} \/ Sent(row.txHash, i)
  BY <1>1, <1>2 DEF Stored, Staged
<1>7. ASSUME viaOf(i) = "eip3009", row.status \in Signed PROVE row.authorizationNonce # 0
  <2>1. CASE AuthorizeToken(k, i)
    BY <1>1, <1>5, <2>1
  <2>2. CASE ~AuthorizeToken(k, i)
    <3>1. Row(k, i).status \in Signed
      BY <1>1, <1>2, <1>7, <2>2 DEF Stored, Staged, Signed
    <3>2. sweep[i].authorizationNonce # 0
      BY <1>7, <3>1 DEF Drawn
    <3>. QED  BY <1>1, <1>5, <2>2, <3>2
  <2>. QED  BY <2>1, <2>2
<1>8. row.status = "confirmed" /\ reorgs = 0 => Moves(i) # {}
  BY <1>1, <1>2 DEF Stored, Staged, Live
<1>. QED
  BY <1>1, <1>2, <1>3, <1>4, <1>5, <1>6, <1>7, <1>8 DEF RowsMove

\* A tick of the step's shape, and the others as they were.
LEMMA OneMoves ==
    ASSUME NEW k \in Ticker, \A c \in Ticker \ {k} : ticker'[c] = ticker[c], TickMoves(k)
    PROVE  \A c \in Ticker : ticker'[c] = ticker[c] \/ TickMoves(c)
OBVIOUS

LEMMA ChainShape ==
    ASSUME TypeInv, NEW t \in DOMAIN tx, Mine(t) \/ Finalize(t) \/ Reorg(t) \/ Drop(t)
    PROVE  Shape
<1>. USE DEF chainVars, bounds
<1>1. \E state \in {"mempool", "dropped", "ok", "reverted"}, depth \in {"shallow", "final"} :
        /\ SetTx(t, state, depth)
        /\ reorgs' = reorgs /\ tx[t].state = "ok" => state = "ok"
  <2>1. tx[t].state \in {"mempool", "dropped", "ok", "reverted"}
    BY TxFields DEF TxRow, TypeInv
  <2>2. reorgs \in Nat
    BY DEF TypeInv, TypeOK
  <2>. QED  BY <2>1, <2>2 DEF Mine, Finalize, Reorg, Drop
<1>2. reorgs \in Nat /\ (reorgs' = reorgs \/ reorgs' = reorgs + 1)
  BY DEF Mine, Finalize, Reorg, Drop, TypeInv, TypeOK
<1>3. /\ DOMAIN tx' = DOMAIN tx
      /\ \A s \in DOMAIN tx :
           /\ tx'[s].sweep = tx[s].sweep
           /\ tx'[s].authorizationNonce = tx[s].authorizationNonce
           /\ reorgs' = reorgs /\ tx[s].state = "ok" => tx'[s].state = "ok"
  BY <1>1, TxType DEF TypeInv
<1>4. TxsMove
  BY <1>2, <1>3 DEF TxsMove
<1>5. sweep' = sweep /\ auths' = auths /\ ticker' = ticker
  BY DEF Mine, Finalize, Reorg, Drop
<1>. QED  BY <1>4, <1>5, RowsRest DEF Shape

LEMMA WalkShape ==
    ASSUME MovedInv, NEW k \in Ticker, NEW i \in ticker[k].todo, Walks(k, i)
    PROVE  Shape
<1>. USE DEF MovedInv
<1>1. /\ ticker'[k].pc \in Pcs \ {"sent", "idle", "plan", "insert", "select"}
      /\ ticker'[k].todo = ticker[k].todo
      /\ ticker'[k].rows = ticker[k].rows
      /\ ticker'[k].pc \in {"sign", "send"} =>
           Row(k, i).status = "authorized" \/ ticker[k].pc = "sign"
      /\ ticker'[k].pc = "revert" => Row(k, i).status = "broadcast"
      /\ UNCHANGED <<sweep, tx, auths>>
      /\ At(k, i, ticker[k].pc)
  BY WalkStep
<1>2. Staged(k, i)
  BY DEF Stages
<1>3. ticker'[k].pc # "authorize"
  <2>1. ASSUME NEW pc, GoTo(k, pc) PROVE ticker'[k].pc = pc
    BY <2>1, TickerFits DEF GoTo, TypeInv, TypeOK, Fits, TickerState
  <2>2. Dead(k) => ticker'[k].pc = "failing"
    <3>. HAVE Dead(k)
    <3>1. "failing" \in Pcs \ {"sent"}
      BY DEF Pcs
    <3>. QED  BY <1>1, <3>1, GoToStep
  <2>3. Throws(k, i) => ticker'[k].pc = "fail"
    <3>. HAVE Throws(k, i)
    <3>1. "fail" \in Pcs \ {"sent"}
      BY DEF Pcs
    <3>. QED  BY <1>1, <3>1, GoToStep DEF Throws
  <2>. QED
    BY <2>1, <2>2, <2>3
    DEF Walks, CheckUsed, BroadcastNative, SignAuthorization, DomainUnverifiable,
        SendRefused, MissingHash, Moved, Reverted, SetRefused
<1>4. ticker'[k].pc \in {"sign", "send", "sent", "revert"} => Row(k, i).status \in Signed
  BY <1>1, <1>2 DEF Staged, Signed
<1>5. TickMoves(k)
  BY <1>1, <1>3, <1>4, TickArrives, SettledMoved
<1>6. reorgs' = reorgs
  BY DEF Walks, CheckUsed, BroadcastNative, SignAuthorization, DomainUnverifiable,
         SendRefused, MissingHash, Moved, Reverted, Throws, SetRefused, Fault, bounds
<1>7. \A c \in Ticker \ {k} : ticker'[c] = ticker[c]
  BY OthersWait
<1>. QED  BY <1>1, <1>5, <1>6, <1>7, OneMoves, RowsRest, TxsRest DEF Shape

LEMMA SendShape ==
    ASSUME MovedInv, NEW k \in Ticker, NEW i \in ticker[k].todo,
           Send(k, i) \/ SendUnheard(k, i)
    PROVE  Shape
<1>. USE DEF MovedInv, bounds
<1>1. /\ At(k, i, "send") /\ Accepted(k, i) /\ AddTx(k, i)
      /\ UNCHANGED <<sweep, auths, reorgs>>
  BY DEF Send, SendUnheard, Fault
<1>2. /\ DOMAIN tx' = DOMAIN tx \cup {Len(tx) + 1}
      /\ \A t \in DOMAIN tx :
           /\ tx'[t].sweep = tx[t].sweep
           /\ tx'[t].authorizationNonce = tx[t].authorizationNonce
      /\ tx'[Len(tx) + 1].sweep = i
      /\ tx'[Len(tx) + 1].authorizationNonce = Row(k, i).authorizationNonce
  BY <1>1, AddStep
<1>3. i \in DOMAIN sweep /\ Row(k, i).authorizationNonce \in Known(i)
  BY InHand DEF Known
<1>4. TxsMove
  BY <1>1, <1>2, <1>3, SendKeeps DEF TxsMove
<1>5. /\ ticker'[k].pc \in {"sent", "fail"}
      /\ ticker'[k].todo = ticker[k].todo
      /\ ticker'[k].rows = ticker[k].rows
  BY SendStep
<1>6. ticker'[k].pc = "sent" => ticker'[k].txHash = Len(tx) + 1
  <2>1. CASE Send(k, i)
    <3>. DEFINE to(pc, hash) == [ticker[k] EXCEPT !.pc = pc, !.txHash = hash]
    <3>1. \A pc, hash : to(pc, hash).txHash = hash
      BY TickerFits DEF Fits, TickerState
    <3>2. ticker'[k] = to("sent", Len(tx) + 1)
      BY <2>1 DEF Send, TypeInv, TypeOK
    <3>. HIDE DEF to
    <3>. QED  BY <3>1, <3>2
  <2>2. CASE SendUnheard(k, i)
    BY <2>2, TickerFits DEF SendUnheard, GoTo, TypeInv, TypeOK, Fits, TickerState
  <2>. QED  BY <2>1, <2>2
<1>7. Staged(k, i) /\ At(k, i, ticker[k].pc)
  BY <1>1 DEF Stages, At
<1>8. TickMoves(k)
  BY <1>1, <1>2, <1>5, <1>6, <1>7, TickArrives DEF Staged
<1>9. \A c \in Ticker \ {k} : ticker'[c] = ticker[c]
  BY OthersWait
<1>. QED  BY <1>1, <1>4, <1>8, <1>9, OneMoves, RowsRest DEF Shape

LEMMA MovedShape == MovedInv /\ [Next]_vars => Shape
<1>. SUFFICES ASSUME MovedInv, [Next]_vars PROVE Shape
  OBVIOUS
<1>. USE DEF chainVars, bounds
<1>1. TypeInv /\ TypeOK
  BY DEF MovedInv, TypeInv
<1>2. CASE UNCHANGED <<sweep, tx, auths, reorgs, ticker>>
  BY <1>1, <1>2, RowsRest, TxsRest DEF Shape
<1>3. ASSUME NEW t \in DOMAIN tx, Mine(t) \/ Finalize(t) \/ Reorg(t) \/ Drop(t)
      PROVE  Shape
  BY <1>1, <1>3, ChainShape
<1>4. ASSUME NEW i \in DOMAIN sweep, BackoffEnds(i) PROVE Shape
  <2>. DEFINE row == [sweep[i] EXCEPT !.nextAttempt = "due"]
  <2>1. sweep' = [sweep EXCEPT ![i] = row]
    BY <1>4 DEF BackoffEnds
  <2>2. /\ row \in SweepRow /\ row.pairing = sweep[i].pairing
        /\ row.authorizationNonce = sweep[i].authorizationNonce
        /\ row.txHash = sweep[i].txHash /\ row.status = sweep[i].status
    BY <1>1, RowFields DEF SweepRow
  <2>. HIDE DEF row
  <2>3. /\ DOMAIN sweep' = DOMAIN sweep
        /\ sweep'[i] = row
        /\ \A j \in DOMAIN sweep \ {i} : sweep'[j] = sweep[j]
    BY <1>1, <2>1, <2>2, RowType
  <2>4. UNCHANGED <<tx, auths, reorgs, ticker>> /\ auths \in Nat
    BY <1>1, <1>4 DEF BackoffEnds, TypeOK
  <2>5. RowsMove
    BY <2>2, <2>3, <2>4 DEF RowsMove
  <2>. QED  BY <2>4, <2>5, TxsRest DEF Shape
<1>5. ASSUME NEW k \in Ticker, PlanStart(k) \/ SelectDue(k) \/ TickFails(k) PROVE Shape
  <2>1. UNCHANGED <<sweep, tx, auths, reorgs>>
    BY <1>5 DEF PlanStart, SelectDue, TickFails, Fault
  <2>2. TickFails(k) => ticker'[k] = Idle
    BY <1>1 DEF TickFails, TypeOK
  <2>3. /\ ticker'[k].pc \in {"plan", "select", "idle", "loop"}
        /\ \A i \in ticker'[k].todo : i \in Due /\ ticker'[k].rows = sweep
    BY <1>1, <1>5, <2>2, PlanStartStep, SelectStep, IdleType
  <2>4. TickMoves(k)
    BY <2>3, TickWalks
  <2>5. \A c \in Ticker \ {k} : ticker'[c] = ticker[c]
    BY <1>1, <1>5, OthersWait
  <2>. QED  BY <1>1, <2>1, <2>4, <2>5, OneMoves, RowsRest, TxsRest DEF Shape
<1>6. ASSUME NEW k \in Ticker, NEW p \in Pairing, Plans(k, p) PROVE Shape
  <2>1. UNCHANGED <<tx, auths, reorgs>> /\ auths \in Nat
    BY <1>1, <1>6 DEF Plans, DecideSweep, DecideSkip, InsertRow, TypeOK
  <2>2. ASSUME NEW i \in DOMAIN sweep' \ DOMAIN sweep
        PROVE  /\ sweep'[i].authorizationNonce = 0 /\ sweep'[i].txHash = 0
               /\ sweep'[i].status \notin Signed \cup {"confirmed"}
    <3>1. InsertRow(k, p) /\ sweep'[i] = NewRow(p, ticker[k].decided[p], ticker[k].found[p])
      BY <1>1, <1>6, PlanWrite
    <3>2. ticker[k].decided[p] \in {"none", "planned", "skipped"}
      BY <1>1, TickerFits DEF Fits, TickerState
    <3>. QED  BY <3>1, <3>2 DEF NewRow, Signed
  <2>3. RowsMove
    BY <1>1, <1>6, <2>1, <2>2, PlanWrite DEF RowsMove, Signed
  <2>4. TickMoves(k)
    <3>1. ticker[k].pc \in {"plan", "insert"}
      BY <1>6 DEF Plans, DecideSweep, DecideSkip, InsertRow
    <3>2. /\ ticker'[k].pc \in {"plan", "select", "insert"}
          /\ \A i \in ticker'[k].todo : i \in ticker[k].todo /\ ticker'[k].rows = ticker[k].rows
      BY <1>1, <1>6, <3>1, PlanRows
    <3>. QED  BY <3>2, TickWalks
  <2>5. \A c \in Ticker \ {k} : ticker'[c] = ticker[c]
    BY <1>1, <1>6, OthersWait
  <2>. QED  BY <2>1, <2>3, <2>4, <2>5, OneMoves, TxsRest DEF Shape
<1>7. ASSUME NEW k \in Ticker, NEW i \in ticker[k].todo, Writes(k, i) PROVE Shape
  <2>1. RowsMove
    BY <1>7, WriteShape
  <2>2. UNCHANGED <<tx, reorgs>>
    BY <1>7 DEF Writes, AuthorizeToken, AuthorizeNative, RecordBroadcast, RecordConfirmed,
                RecordReverted, RecordFailure
  <2>3. NextRow(k, i) \/ GoTo(k, "failing")
    BY <1>7 DEF Writes, AuthorizeToken, AuthorizeNative, RecordBroadcast, RecordConfirmed,
                RecordReverted, RecordFailure
  <2>4. DOMAIN sweep \subseteq DOMAIN sweep'
    BY <2>1 DEF RowsMove
  <2>5. "failing" \in Pcs \ {"sent"}
    BY DEF Pcs
  <2>6. /\ ticker'[k].pc \in {"idle", "loop", "failing"}
        /\ \A j \in ticker'[k].todo : j \in ticker[k].todo /\ ticker'[k].rows = ticker[k].rows
    BY <1>1, <2>2, <2>3, <2>4, <2>5, NextRowStep, GoToStep
  <2>7. TickMoves(k)
    BY <2>6, TickWalks
  <2>8. \A c \in Ticker \ {k} : ticker'[c] = ticker[c]
    BY <1>1, <1>7, OthersWait
  <2>. QED  BY <2>1, <2>2, <2>7, <2>8, OneMoves, TxsRest DEF Shape
<1>8. ASSUME NEW k \in Ticker, NEW i \in ticker[k].todo, Walks(k, i) PROVE Shape
  BY <1>8, WalkShape
<1>9. ASSUME NEW k \in Ticker, NEW i \in ticker[k].todo, ReadBalance(k, i) PROVE Shape
  <2>1. UNCHANGED <<sweep, tx, auths, reorgs>> /\ viaOf(i) = "native" /\ At(k, i, ticker[k].pc)
    BY <1>9 DEF ReadBalance, At
  <2>2. TickMoves(k)
    BY <1>1, <1>9, <2>1, ReadBalanceStep, TickArrives
  <2>3. \A c \in Ticker \ {k} : ticker'[c] = ticker[c]
    BY <1>1, <1>9, OthersWait
  <2>. QED  BY <1>1, <2>1, <2>2, <2>3, OneMoves, RowsRest, TxsRest DEF Shape
<1>10. ASSUME NEW k \in Ticker, NEW i \in ticker[k].todo, Send(k, i) \/ SendUnheard(k, i)
       PROVE  Shape
  BY <1>10, SendShape
<1>11. ASSUME NEW k \in Ticker, NEW i \in ticker[k].todo,
              StillMaturing(k, i) \/ ReceiptUnread(k, i)
       PROVE  Shape
  <2>1. UNCHANGED <<sweep, tx, auths, reorgs>> /\ NextRow(k, i)
    BY <1>11 DEF StillMaturing, ReceiptUnread, Fault
  <2>2. /\ ticker'[k].pc \in {"idle", "loop"}
        /\ \A j \in ticker'[k].todo : j \in ticker[k].todo /\ ticker'[k].rows = ticker[k].rows
    BY <1>1, <2>1, NextRowStep
  <2>3. TickMoves(k)
    BY <2>2, TickWalks
  <2>4. \A c \in Ticker \ {k} : ticker'[c] = ticker[c]
    BY <1>1, <1>11, OthersWait
  <2>. QED  BY <1>1, <2>1, <2>3, <2>4, OneMoves, RowsRest, TxsRest DEF Shape
<1>12. CASE Restart
  <2>1. UNCHANGED <<sweep, tx, auths, reorgs>>
    BY <1>12 DEF Restart, Fault
  <2>2. \A k \in Ticker : ticker'[k] = Idle
    BY <1>12 DEF Restart
  <2>3. \A k \in Ticker : TickMoves(k)
    BY <2>2, IdleType, TickWalks
  <2>. QED  BY <1>1, <2>1, <2>3, RowsRest, TxsRest DEF Shape
<1>13. ASSUME \/ UNCHANGED vars
              \/ \E p \in Pairing : Receive(p) \/ ConfirmDeposit(p)
              \/ \E n \in 1..auths : Lapse(n)
       PROVE  UNCHANGED <<sweep, tx, auths, reorgs, ticker>>
  BY <1>13 DEF vars, Receive, ConfirmDeposit, Lapse
<1>. QED
  BY <1>2, <1>3, <1>4, <1>5, <1>6, <1>7, <1>8, <1>9, <1>10, <1>11, <1>12, <1>13
  DEF Next, Plan, Execute, Plans, Writes, Walks

LEMMA MovedStep == MovedInv /\ [Next]_vars => MovedInv'
<1>. SUFFICES ASSUME MovedInv, [Next]_vars PROVE MovedInv'
  OBVIOUS
<1>1. Shape
  BY MovedShape
<1>2. TypeInv /\ TypeInv'
  BY TypeStep DEF MovedInv
<1>. QED
  BY <1>1, <1>2, NoncesKeep, DrawnKeeps, HashesKeep, StagesKeep, ConfirmedKeeps DEF MovedInv

\* A row marked confirmed has moved its funds while no block was reorganised away,
\* however many ticks overlap and whatever crashes, is lost or is written late.
THEOREM ConfirmedMoved == Spec => []ConfirmedMeansMoved
<1>1. MovedInv => ConfirmedMeansMoved
  BY DEF MovedInv
<1>. QED  BY <1>1, MovedInit, MovedStep, PTL DEF Spec

-----------------------------------------------------------------------------
(***************************************************************************)
(* What is planned never exceeds what is confirmed, one tick at a time.    *)
(* Between reading the ledger and inserting the row, nothing else moves    *)
(* value of the pairing into a sweep: the amount found still fits.         *)
(***************************************************************************)

\* What tick k has found and not yet planned.
Promised(k, p) == IF ticker[k].pc \in {"plan", "insert"} THEN ticker[k].found[p] ELSE 0

Room(k) ==
    \A p \in Pairing : via[p] = "eip3009" =>
        AmountIn(p, Swept) + Promised(k, p) <= confirmed[p]

\* The rows of pairing p that count.
Counted(p) == {i \in DOMAIN sweep : sweep[i].pairing = p /\ sweep[i].status \in Swept}
Amounts == [i \in DOMAIN sweep |-> sweep[i].amountRaw]

LEMMA CountedFinite ==
    ASSUME TypeOK, NEW p
    PROVE  /\ IsFiniteSet(Counted(p))
           /\ \A i \in DOMAIN sweep : Amounts[i] \in Nat
           /\ AmountIn(p, Swept) = SumFunctionOnSet(Amounts, Counted(p))
           /\ AmountIn(p, Swept) \in Nat
<1>1. sweep \in Seq(SweepRow) /\ DOMAIN sweep = 1..Len(sweep) /\ Len(sweep) \in Nat
  BY DEF TypeOK
<1>2. IsFiniteSet(DOMAIN sweep)
  BY <1>1, FS_Interval
<1>3. IsFiniteSet(Counted(p)) /\ Counted(p) \subseteq DOMAIN sweep
  BY <1>2, FS_Subset DEF Counted
<1>4. \A i \in DOMAIN sweep : Amounts[i] \in Nat
  <2>1. \A i \in DOMAIN sweep : sweep[i] \in SweepRow
    BY <1>1
  <2>. QED  BY <2>1 DEF Amounts, SweepRow
<1>5. AmountIn(p, Swept) = SumFunctionOnSet(Amounts, Counted(p))
  BY DEF AmountIn, Amounts, Counted
<1>6. \A x \in Counted(p) : Amounts[x] \in Nat
  BY <1>3, <1>4
<1>. QED  BY <1>3, <1>4, <1>5, <1>6, SumMonotone

LEMMA CountedFiniteNext ==
    ASSUME TypeOK', NEW p
    PROVE  /\ IsFiniteSet(Counted(p)')
           /\ AmountIn(p, Swept)' = SumFunctionOnSet(Amounts', Counted(p)')
           /\ AmountIn(p, Swept)' \in Nat
<1>1. sweep' \in Seq(SweepRow) /\ DOMAIN sweep' = 1..Len(sweep') /\ Len(sweep') \in Nat
  BY DEF TypeOK
<1>2. IsFiniteSet(DOMAIN sweep')
  BY <1>1, FS_Interval
<1>3. IsFiniteSet(Counted(p)') /\ Counted(p)' \subseteq DOMAIN sweep'
  BY <1>2, FS_Subset DEF Counted
<1>4. \A i \in DOMAIN sweep' : Amounts'[i] \in Nat
  <2>1. \A i \in DOMAIN sweep' : sweep'[i] \in SweepRow
    BY <1>1
  <2>. QED  BY <2>1 DEF Amounts, SweepRow
<1>5. AmountIn(p, Swept)' = SumFunctionOnSet(Amounts', Counted(p)')
  BY DEF AmountIn, Amounts, Counted
<1>6. \A x \in Counted(p)' : Amounts'[x] \in Nat
  BY <1>3, <1>4
<1>. QED  BY <1>3, <1>5, <1>6, SumMonotone

\* No row comes to count, and none that counts changes its amount.
LEMMA AmountShrinks ==
    ASSUME TypeOK, TypeOK', NEW p,
           \A i \in DOMAIN sweep' :
              sweep'[i].pairing = p /\ sweep'[i].status \in Swept =>
                 /\ i \in DOMAIN sweep
                 /\ sweep[i].pairing = p /\ sweep[i].status \in Swept
                 /\ sweep'[i].amountRaw = sweep[i].amountRaw
    PROVE  AmountIn(p, Swept)' <= AmountIn(p, Swept)
<1>. DEFINE S == Counted(p)
            T == Counted(p)'
            f == Amounts
            g == Amounts'
<1>1. /\ IsFiniteSet(S) /\ IsFiniteSet(T)
      /\ AmountIn(p, Swept) = SumFunctionOnSet(f, S)
      /\ AmountIn(p, Swept)' = SumFunctionOnSet(g, T)
      /\ \A x \in S : f[x] \in Nat
  BY CountedFinite, CountedFiniteNext DEF Counted
<1>2. T \in SUBSET S /\ \A x \in T : g[x] = f[x]
  BY DEF Counted, Amounts
<1>. HIDE DEF S, T, f, g
<1>3. SumFunctionOnSet(g, T) = SumFunctionOnSet(f, T)
  BY <1>1, <1>2, SumEqual
<1>. QED  BY <1>1, <1>2, <1>3, SumMonotone

\* A row is added to those that count.
LEMMA AmountAdds ==
    ASSUME TypeOK, TypeOK', NEW p,
           NEW n \in Nat, n \notin DOMAIN sweep,
           DOMAIN sweep' = DOMAIN sweep \cup {n},
           \A i \in DOMAIN sweep : sweep'[i] = sweep[i],
           sweep'[n].pairing = p, sweep'[n].status \in Swept
    PROVE  AmountIn(p, Swept)' = AmountIn(p, Swept) + sweep'[n].amountRaw
<1>. DEFINE S == Counted(p)
            T == Counted(p)'
            f == Amounts
            g == Amounts'
<1>1. /\ IsFiniteSet(S)
      /\ AmountIn(p, Swept) = SumFunctionOnSet(f, S)
      /\ AmountIn(p, Swept)' = SumFunctionOnSet(g, T)
      /\ \A x \in S : f[x] \in Nat
  BY CountedFinite, CountedFiniteNext DEF Counted
<1>2. /\ T = S \cup {n} /\ n \notin S
      /\ \A x \in S : g[x] = f[x]
      /\ g[n] = sweep'[n].amountRaw
  BY DEF Counted, Amounts
<1>3. sweep'[n].amountRaw \in Nat
  <2>1. sweep'[n] \in SweepRow
    BY DEF TypeOK
  <2>. QED  BY <2>1 DEF SweepRow
<1>4. AmountIn(p, Swept) \in Nat
  BY CountedFinite
<1>. HIDE DEF S, T, f, g
<1>5. SumFunctionOnSet(g, T) = g[n] + SumFunctionOnSet(g, S)
  <2>1. g[n] \in Int /\ \A x \in S : g[x] \in Int
    BY <1>1, <1>2, <1>3
  <2>2. SumFunctionOnSet(g, S \cup {n}) = g[n] + SumFunctionOnSet(g, S)
    BY <1>1, <1>2, <2>1, SumAdd
  <2>. QED  BY <1>2, <2>2
<1>6. SumFunctionOnSet(g, S) = SumFunctionOnSet(f, S)
  BY <1>1, <1>2, SumEqual
<1>. QED  BY <1>1, <1>2, <1>3, <1>4, <1>5, <1>6

LEMMA PromisedType ==
    ASSUME TypeInv, NEW k \in Ticker, NEW p \in Pairing
    PROVE  Promised(k, p) \in Nat
BY TickerFits DEF Promised, Fits, TickerState

\* What planning step leaves promised.
LEMMA PlanPromises ==
    ASSUME TypeInv, NEW k \in Ticker, NEW q \in Pairing, NEW p \in Pairing, Plans(k, q)
    PROVE  /\ Promised(k, p)' \in {0, Promised(k, p)}
           /\ InsertRow(k, q) /\ p = q => Promised(k, p)' = 0
           /\ Promised(k, p) = ticker[k].found[p]
<1>. DEFINE found == [ticker[k].found EXCEPT ![q] = 0]
<1>1. /\ ticker[k] \in TickerState /\ ticker[k].pc \in {"plan", "insert"}
      /\ Promised(k, p) = ticker[k].found[p]
  BY TickerFits DEF Plans, DecideSweep, DecideSkip, InsertRow, Fits, Promised
<1>2. found[p] = IF p = q THEN 0 ELSE ticker[k].found[p]
  BY <1>1 DEF TickerState
<1>3. CASE NextCandidate(k, q)
  <2>1. ticker'[k] = Planning(found)
    BY <1>3 DEF NextCandidate, TypeInv, TypeOK
  <2>. HIDE DEF found
  <2>2. ticker'[k].pc = "select" \/ ticker'[k].found = found
    BY <2>1 DEF Planning, Idle
  <2>. QED  BY <1>1, <1>2, <2>2 DEF Promised
<1>4. ASSUME NEW status, Insert(k, q, status)
      PROVE  Promised(k, p)' = Promised(k, p)
  <2>. DEFINE decided == [ticker[k].decided EXCEPT ![q] = status]
              next == [ticker[k] EXCEPT !.pc = "insert", !.decided = decided]
  <2>1. ticker'[k] = next
    BY <1>4 DEF Insert, TypeInv, TypeOK
  <2>. HIDE DEF decided
  <2>2. next.pc = "insert" /\ next.found = ticker[k].found
    BY <1>1 DEF TickerState
  <2>. QED  BY <1>1, <2>1, <2>2 DEF Promised
<1>. QED  BY <1>1, <1>3, <1>4 DEF Plans, DecideSweep, DecideSkip, InsertRow

\* Room is left when nothing grows but the deposits.
LEMMA RoomLeft ==
    ASSUME TypeInv, TypeInv', NEW k \in Ticker, NEW p \in Pairing,
           AmountIn(p, Swept) + Promised(k, p) <= confirmed[p],
           AmountIn(p, Swept)' <= AmountIn(p, Swept),
           Promised(k, p)' \in {0, Promised(k, p)},
           confirmed'[p] >= confirmed[p]
    PROVE  AmountIn(p, Swept)' + Promised(k, p)' <= confirmed'[p]
<1>1. /\ AmountIn(p, Swept) \in Nat /\ AmountIn(p, Swept)' \in Nat
      /\ Promised(k, p) \in Nat
      /\ confirmed[p] \in Nat /\ confirmed'[p] \in Nat
  BY CountedFinite, CountedFiniteNext, PromisedType DEF TypeInv, TypeOK
<1>. QED  BY <1>1

LEMMA RoomInit == ASSUME NEW k, Ticker = {k} PROVE Init => Room(k)
<1>. SUFFICES ASSUME Init, NEW p \in Pairing
              PROVE  AmountIn(p, Swept) + Promised(k, p) <= confirmed[p]
  BY DEF Room
<1>1. Promised(k, p) = 0
  BY IdleType DEF Init, Promised
<1>2. AmountIn(p, Swept) = 0
  <2>1. Counted(p) = {}
    BY DEF Init, Counted
  <2>2. AmountIn(p, Swept) = SumFunctionOnSet(Amounts, Counted(p))
    BY DEF AmountIn, Amounts, Counted
  <2>. QED  BY <2>1, <2>2, SumEmpty
<1>. QED  BY <1>1, <1>2 DEF Init

\* A statement of the tick moves no value of a token into its row.
LEMMA WriteRoom ==
    ASSUME TypeInv, TypeInv', Stages, NEW k \in Ticker, Faithful(k),
           NEW p \in Pairing, via[p] = "eip3009", NEW i \in ticker[k].todo, Writes(k, i)
    PROVE  /\ AmountIn(p, Swept)' <= AmountIn(p, Swept)
           /\ Promised(k, p)' = 0
<1>. USE DEF TypeInv
<1>1. i \in DOMAIN sweep /\ sweep[i].status \in Swept
  BY InHand DEF Faithful, Swept, Live
<1>2. PICK row \in SweepRow :
        /\ Set(i, row)
        /\ row.pairing = sweep[i].pairing
        /\ row.amountRaw = sweep[i].amountRaw \/ AuthorizeNative(k, i)
  BY WriteStep DEF Stored
<1>3. /\ DOMAIN sweep' = DOMAIN sweep
      /\ sweep'[i] \in {row, sweep[i]}
      /\ \A j \in DOMAIN sweep \ {i} : sweep'[j] = sweep[j]
  BY <1>1, <1>2, SetStep
<1>4. AuthorizeNative(k, i) => sweep[i].pairing # p
  BY DEF AuthorizeNative, Stages, Staged, viaOf
<1>5. AmountIn(p, Swept)' <= AmountIn(p, Swept)
  BY <1>1, <1>2, <1>3, <1>4, AmountShrinks
<1>6. ticker'[k].pc \in {"idle", "loop", "failing"}
  <2>1. NextRow(k, i) \/ GoTo(k, "failing")
    BY DEF Writes, AuthorizeToken, AuthorizeNative, RecordBroadcast, RecordConfirmed,
           RecordReverted, RecordFailure
  <2>2. tx' = tx
    BY DEF Writes, AuthorizeToken, AuthorizeNative, RecordBroadcast, RecordConfirmed,
           RecordReverted, RecordFailure, chainVars
  <2>3. "failing" \in Pcs \ {"sent"}
    BY DEF Pcs
  <2>. QED  BY <1>3, <2>1, <2>2, <2>3, NextRowStep, GoToStep
<1>. QED  BY <1>5, <1>6 DEF Promised

LEMMA PlanRoom ==
    ASSUME TypeInv, TypeInv', NEW k \in Ticker, Room(k),
           NEW p \in Pairing, via[p] = "eip3009", NEW q \in Pairing, Plans(k, q)
    PROVE  AmountIn(p, Swept)' + Promised(k, p)' <= confirmed'[p]
<1>. USE DEF TypeInv
<1>1. confirmed' = confirmed /\ AmountIn(p, Swept) + Promised(k, p) <= confirmed[p]
  BY DEF Plans, DecideSweep, DecideSkip, InsertRow, chainVars, Room
<1>2. /\ Promised(k, p)' \in {0, Promised(k, p)}
      /\ InsertRow(k, q) /\ p = q => Promised(k, p)' = 0
      /\ Promised(k, p) = ticker[k].found[p]
  BY PlanPromises
<1>3. \A i \in DOMAIN sweep :
        sweep'[i].pairing = p /\ sweep'[i].status \in Swept =>
           /\ sweep[i].pairing = p /\ sweep[i].status \in Swept
           /\ sweep'[i].amountRaw = sweep[i].amountRaw
  BY PlanWrite DEF Swept, Live
<1>4. CASE \A i \in DOMAIN sweep' \ DOMAIN sweep :
             ~(sweep'[i].pairing = p /\ sweep'[i].status \in Swept)
  <2>1. AmountIn(p, Swept)' <= AmountIn(p, Swept)
    BY <1>3, <1>4, AmountShrinks
  <2>2. confirmed'[p] >= confirmed[p]
    BY <1>1 DEF TypeOK
  <2>. QED  BY <1>1, <1>2, <2>1, <2>2, RoomLeft
<1>5. ASSUME NEW n \in DOMAIN sweep' \ DOMAIN sweep,
             sweep'[n].pairing = p, sweep'[n].status \in Swept
      PROVE  AmountIn(p, Swept)' + Promised(k, p)' <= confirmed'[p]
  <2>1. /\ InsertRow(k, q) /\ n = Len(sweep) + 1
        /\ sweep'[n] = NewRow(q, ticker[k].decided[q], ticker[k].found[q])
        /\ \A i \in DOMAIN sweep' \ DOMAIN sweep : i = Len(sweep) + 1
        /\ DOMAIN sweep \subseteq DOMAIN sweep'
    BY <1>5, PlanWrite
  <2>2. q = p /\ sweep'[n].amountRaw = Promised(k, p)
    BY <1>2, <1>5, <2>1 DEF NewRow
  <2>3. \A i \in DOMAIN sweep : sweep'[i] = sweep[i]
    <3>1. sweep \in Seq(SweepRow) /\ \A row : \A i \in DOMAIN sweep : Append(sweep, row)[i] = sweep[i]
      BY DEF TypeOK
    <3>. QED  BY <2>1, <3>1 DEF InsertRow
  <2>4. n \in Nat /\ DOMAIN sweep' = DOMAIN sweep \cup {n}
    <3>1. sweep \in Seq(SweepRow) /\ DOMAIN sweep = 1..Len(sweep) /\ Len(sweep) \in Nat
      BY DEF TypeOK
    <3>2. n \in Nat
      BY <2>1, <3>1
    <3>3. DOMAIN sweep' \ DOMAIN sweep = {n}
      BY <1>5, <2>1
    <3>. QED  BY <2>1, <3>2, <3>3
  <2>5. AmountIn(p, Swept)' = AmountIn(p, Swept) + sweep'[n].amountRaw
    BY <1>5, <2>3, <2>4, AmountAdds
  <2>6. Promised(k, p)' = 0 /\ AmountIn(p, Swept)' \in Nat
    BY <1>2, <2>1, <2>2, CountedFiniteNext
  <2>. QED  BY <1>1, <2>2, <2>5, <2>6
<1>. QED  BY <1>4, <1>5

\* The ledger is read: what is found is what is left.
LEMMA StartRoom ==
    ASSUME TypeInv, NEW k \in Ticker, Room(k), NEW p \in Pairing, via[p] = "eip3009", PlanStart(k)
    PROVE  AmountIn(p, Swept)' + Promised(k, p)' <= confirmed'[p]
<1>. DEFINE found == [q \in Pairing |->
                IF Unswept(q) \in Nat /\ Len(sweep) < MaxSweeps THEN Unswept(q) ELSE 0]
<1>1. /\ ticker'[k] = Planning(found)
      /\ sweep' = sweep /\ confirmed' = confirmed
  BY DEF PlanStart, chainVars, TypeInv, TypeOK
<1>2. AmountIn(p, Swept)' = AmountIn(p, Swept)
  BY <1>1 DEF AmountIn
<1>3. found[p] = 0 \/ found[p] = confirmed[p] - AmountIn(p, Swept)
  BY DEF Unswept
<1>4. AmountIn(p, Swept) + Promised(k, p) <= confirmed[p]
  BY DEF Room
<1>. HIDE DEF found
<1>5. Promised(k, p)' \in {0, found[p]}
  BY <1>1 DEF Promised, Planning, Idle
<1>6. AmountIn(p, Swept) \in Nat /\ confirmed[p] \in Nat /\ Promised(k, p) \in Nat
  BY CountedFinite, PromisedType DEF TypeInv, TypeOK
<1>. QED  BY <1>1, <1>2, <1>3, <1>4, <1>5, <1>6

LEMMA RoomStep ==
    ASSUME NEW k, Ticker = {k}
    PROVE  IInv(k) /\ MovedInv /\ Room(k) /\ [Next]_vars => Room(k)'
<1>. SUFFICES ASSUME IInv(k), MovedInv, Room(k), [Next]_vars,
                     NEW p \in Pairing, via[p] = "eip3009"
              PROVE  AmountIn(p, Swept)' + Promised(k, p)' <= confirmed'[p]
  BY DEF Room
<1>. USE DEF chainVars
<1>1. k \in Ticker /\ TypeInv /\ TypeOK /\ Stages /\ Faithful(k)
  BY DEF IInv, MovedInv, TypeInv
<1>2. TypeInv' /\ TypeOK'
  <2>1. TypeInv'
    BY <1>1, TypeStep
  <2>. QED  BY <2>1 DEF TypeInv
<1>3. AmountIn(p, Swept) + Promised(k, p) <= confirmed[p]
  BY DEF Room
<1>. DEFINE Goal == AmountIn(p, Swept)' + Promised(k, p)' <= confirmed'[p]
<1>4. ASSUME sweep' = sweep, Promised(k, p)' \in {0, Promised(k, p)},
             confirmed'[p] >= confirmed[p]
      PROVE  Goal
  <2>1. AmountIn(p, Swept)' <= AmountIn(p, Swept)
    BY <1>1, <1>2, <1>4, AmountShrinks
  <2>. QED  BY <1>1, <1>2, <1>3, <1>4, <2>1, RoomLeft
<1>5. confirmed[p] \in Nat
  BY <1>1 DEF TypeOK
<1>. HIDE DEF Goal
<1>6. ASSUME UNCHANGED <<sweep, confirmed, ticker>> PROVE Goal
  <2>1. Promised(k, p)' = Promised(k, p) /\ sweep' = sweep
    BY <1>6 DEF Promised
  <2>2. confirmed'[p] >= confirmed[p]
    BY <1>5, <1>6
  <2>. QED  BY <1>4, <2>1, <2>2
<1>7. ASSUME NEW q \in Pairing, ConfirmDeposit(q) PROVE Goal
  <2>1. UNCHANGED <<sweep, ticker>>
    BY <1>7 DEF ConfirmDeposit
  <2>2. confirmed'[p] >= confirmed[p]
    <3>1. confirmed'[p] = confirmed[p] \/ confirmed'[p] = confirmed[p] + DepositRaw
      BY <1>1, <1>7 DEF ConfirmDeposit, TypeOK
    <3>. QED  BY <1>5, <3>1, SweepAssumption
  <2>. QED  BY <1>4, <2>1, <2>2 DEF Promised
<1>8. ASSUME NEW i \in DOMAIN sweep, BackoffEnds(i) PROVE Goal
  <2>. DEFINE row == [sweep[i] EXCEPT !.nextAttempt = "due"]
  <2>1. sweep' = [sweep EXCEPT ![i] = row] /\ UNCHANGED <<ticker, confirmed>>
    BY <1>8 DEF BackoffEnds
  <2>2. /\ row \in SweepRow /\ row.pairing = sweep[i].pairing
        /\ row.amountRaw = sweep[i].amountRaw /\ row.status = sweep[i].status
    BY <1>1, RowFields DEF SweepRow
  <2>. HIDE DEF row
  <2>3. /\ DOMAIN sweep' = DOMAIN sweep
        /\ sweep'[i] = row
        /\ \A j \in DOMAIN sweep \ {i} : sweep'[j] = sweep[j]
    BY <1>1, <2>1, <2>2, RowType
  <2>4. AmountIn(p, Swept)' <= AmountIn(p, Swept)
    BY <1>1, <1>2, <2>2, <2>3, AmountShrinks
  <2>5. Promised(k, p)' = Promised(k, p) /\ confirmed'[p] >= confirmed[p]
    BY <1>5, <2>1 DEF Promised
  <2>. QED  BY <1>1, <1>2, <1>3, <2>4, <2>5, RoomLeft DEF Goal
<1>9. ASSUME PlanStart(k) PROVE Goal
  BY <1>1, <1>9, StartRoom DEF Goal
<1>10. ASSUME NEW q \in Pairing, Plans(k, q) PROVE Goal
  BY <1>1, <1>2, <1>10, PlanRoom DEF Goal
<1>11. ASSUME NEW i \in ticker[k].todo, Writes(k, i) PROVE Goal
  <2>1. AmountIn(p, Swept)' <= AmountIn(p, Swept) /\ Promised(k, p)' = 0
    BY <1>1, <1>2, <1>11, WriteRoom
  <2>2. confirmed' = confirmed
    BY <1>11 DEF Writes, AuthorizeToken, AuthorizeNative, RecordBroadcast, RecordConfirmed,
                 RecordReverted, RecordFailure
  <2>. QED  BY <1>1, <1>2, <1>3, <1>5, <2>1, <2>2, RoomLeft DEF Goal
<1>12. ASSUME NEW i \in ticker[k].todo,
              \/ Walks(k, i) \/ ReadBalance(k, i) \/ Send(k, i) \/ SendUnheard(k, i)
              \/ StillMaturing(k, i) \/ ReceiptUnread(k, i)
       PROVE  Goal
  <2>1. UNCHANGED <<sweep, confirmed>>
    BY <1>12
    DEF Walks, CheckUsed, BroadcastNative, SignAuthorization, DomainUnverifiable,
        SendRefused, MissingHash, Moved, Reverted, Throws, SetRefused, ReadBalance, Send,
        SendUnheard, StillMaturing, ReceiptUnread
  <2>2. (StillMaturing(k, i) \/ ReceiptUnread(k, i)) => NextRow(k, i) /\ tx' = tx
    BY DEF StillMaturing, ReceiptUnread
  <2>3. ticker'[k].pc \notin {"plan", "insert"}
    BY <1>1, <1>12, <2>1, <2>2, WalkStep, ReadBalanceStep, SendStep, NextRowStep
  <2>4. Promised(k, p)' = 0 /\ confirmed'[p] >= confirmed[p]
    BY <1>5, <2>1, <2>3 DEF Promised
  <2>. QED  BY <1>4, <2>1, <2>4
<1>13. ASSUME SelectDue(k) \/ TickFails(k) \/ Restart PROVE Goal
  <2>1. UNCHANGED <<sweep, confirmed>>
    BY <1>13 DEF SelectDue, TickFails, Restart
  <2>2. TickFails(k) \/ Restart => ticker'[k].pc = "idle"
    BY <1>1, IdleType DEF TickFails, Restart, TypeOK
  <2>3. ticker'[k].pc \notin {"plan", "insert"}
    BY <1>1, <1>13, <2>2, SelectStep
  <2>4. Promised(k, p)' = 0 /\ confirmed'[p] >= confirmed[p]
    BY <1>5, <2>1, <2>3 DEF Promised
  <2>. QED  BY <1>4, <2>1, <2>4
<1>14. ASSUME \/ UNCHANGED vars
              \/ \E q \in Pairing : Receive(q)
              \/ \E n \in 1..auths : Lapse(n)
              \/ \E t \in DOMAIN tx : Mine(t) \/ Finalize(t) \/ Reorg(t) \/ Drop(t)
       PROVE  Goal
  <2>1. UNCHANGED <<sweep, confirmed, ticker>>
    BY <1>14 DEF vars, Receive, Lapse, Mine, Finalize, Reorg, Drop
  <2>. QED  BY <1>6, <2>1
<1>15. Goal
  <2>1. CASE Plan(k)
    BY <1>9, <1>10, <2>1 DEF Plan, Plans
  <2>2. CASE Execute(k)
    BY <1>11, <1>12, <1>13, <2>2 DEF Execute, Writes, Walks
  <2>3. CASE \E i \in ticker[k].todo : Throws(k, i) \/ SendUnheard(k, i) \/ ReceiptUnread(k, i)
    BY <1>12, <2>3 DEF Walks
  <2>. QED  BY <1>7, <1>8, <1>13, <1>14, <2>1, <2>2, <2>3 DEF Next
<1>. QED  BY <1>15 DEF Goal

\* No value is planned twice: while ticks do not overlap, the live and the confirmed
\* sweeps of a token never exceed its confirmed deposits.
THEOREM PlannedOnce ==
    ASSUME NEW k, Ticker = {k}
    PROVE  Spec => []NeverOvercommitted
<1>1. IInv(k) /\ Room(k) => NeverOvercommitted
  <2>. SUFFICES ASSUME IInv(k), Room(k), NEW p \in Pairing, via[p] = "eip3009"
                PROVE  AmountIn(p, Swept) <= confirmed[p]
    BY DEF NeverOvercommitted
  <2>1. TypeInv /\ TypeOK /\ k \in Ticker
    BY DEF IInv, TypeInv
  <2>2. AmountIn(p, Swept) + Promised(k, p) <= confirmed[p]
    BY DEF Room
  <2>3. AmountIn(p, Swept) \in Nat /\ Promised(k, p) \in Nat /\ confirmed[p] \in Nat
    BY <2>1, CountedFinite, PromisedType DEF TypeOK
  <2>. QED  BY <2>2, <2>3
<1>2. Spec => []MovedInv
  BY MovedInit, MovedStep, PTL DEF Spec
<1>3. Init => Room(k)
  BY RoomInit
<1>4. IInv(k) /\ MovedInv /\ Room(k) /\ [Next]_vars => Room(k)'
  BY RoomStep
<1>. QED  BY <1>1, <1>2, <1>3, <1>4, SingleInvariant, PTL DEF Spec

=============================================================================
