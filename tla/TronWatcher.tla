---------------------------- MODULE TronWatcher ----------------------------
(***************************************************************************)
(* Detection on Tron (workers/tron-watcher, services/tron) and the check a *)
(* payer may ask for (api/routes).  Nothing is pushed: a scan lists, for   *)
(* each open payment and feed, the transfers TronGrid knows, resolves each *)
(* against its transaction and registers it.  Scans overlap.               *)
(***************************************************************************)
EXTENDS Integers, FiniteSets

CONSTANTS
    Payment,
    Transfer,
    Token,      \* symbols of the network's TRC-20 tokens
    Native,     \* the symbol of its coin
    Ticker,     \* overlapping ticks of the watcher
    Checker,    \* overlapping on-demand checks
    asset,      \* asset[p]: the asset p is quoted in
    sentTo,     \* sentTo[t]: the payment a transfer goes to
    txHash, logIndex,  \* its transaction and its position among that one's logs
    Cooldown,   \* CHECK_COOLDOWN_MS
    PageLimit,  \* rows one listing returns, the newest (limit)
    MaxTime,    \* bound: the clock
    MaxFaults   \* bound: failed calls and restarts

TWNumbers == {Cooldown, MaxTime, MaxFaults} \subseteq Nat /\ PageLimit \in Nat \ {0}
TWTransfers ==
    /\ Native \notin Token
    /\ asset \in [Payment -> Token \cup {Native}]
    /\ sentTo \in [Transfer -> Payment]
    /\ logIndex \in [Transfer -> Nat]

VARIABLES
    now,
    sentAsset,  \* sentAsset[t]: what a transfer moves, from the start
    chain,      \* chain[t]: how far a transfer has come
    stamp,      \* stamp[t]: its block_timestamp, once it is listed
    open,       \* payments in an active status
    registered, \* transfers handed to registerDeposit
    call,       \* scans in progress
    lastCheck,  \* the cooldown map
    faults

vars == <<now, sentAsset, chain, stamp, open, registered, call, lastCheck, faults>>

Scanner == Ticker \cup Checker
None == -1
Feed == (Token \cup {Native}) \X Payment
Idle == [pc |-> "idle", todo |-> {}, batch |-> {}]

TypeOK ==
    /\ now \in 0..MaxTime
    /\ sentAsset \in [Transfer -> Token \cup {Native}]
    /\ chain \in [Transfer -> {"absent", "listed", "mined", "failed"}]
    /\ stamp \in [Transfer -> 0..MaxTime]
    /\ open \subseteq Payment
    /\ registered \subseteq Transfer
    /\ call \in [Scanner -> [pc : {"idle", "gate", "scan"}, todo : SUBSET Feed,
                          batch : SUBSET Transfer]]
    /\ lastCheck \in [Payment -> {None} \cup 0..MaxTime]
    /\ faults \in 0..MaxFaults

Init ==
    /\ now = 0
    /\ sentAsset \in [Transfer -> Token \cup {Native}]
    /\ chain = [t \in Transfer |-> "absent"]
    /\ stamp = [t \in Transfer |-> 0]
    /\ open = {}
    /\ registered = {}
    /\ call = [c \in Scanner |-> Idle]
    /\ lastCheck = [p \in Payment |-> None]
    /\ faults = 0

Fault == faults < MaxFaults /\ faults' = faults + 1

-----------------------------------------------------------------------------
Tick ==
    /\ now < MaxTime
    /\ now' = now + 1
    /\ UNCHANGED <<sentAsset, chain, stamp, open, registered, call, lastCheck, faults>>

Open(p) ==
    /\ p \notin open /\ \A t \in Transfer : sentTo[t] = p => chain[t] = "absent"
    /\ open' = open \cup {p}
    /\ UNCHANGED <<now, sentAsset, chain, stamp, registered, call, lastCheck, faults>>

Close(p) ==
    /\ p \in open
    /\ open' = open \ {p}
    /\ UNCHANGED <<now, sentAsset, chain, stamp, registered, call, lastCheck, faults>>

\* A transaction is listed, then mined or failed, with all the transfers in it.
Progress(t) ==
    LET ofTx == {u \in Transfer : txHash[u] = txHash[t]}
        Turns(state) == chain' = [u \in Transfer |-> IF u \in ofTx THEN state ELSE chain[u]]
    IN  /\ \/ /\ chain[t] = "absent" /\ sentTo[t] \in open /\ Turns("listed")
              /\ stamp' = [u \in Transfer |-> IF u \in ofTx THEN now ELSE stamp[u]]
           \/ chain[t] = "listed" /\ (Turns("mined") \/ Turns("failed")) /\ stamp' = stamp
        /\ UNCHANGED <<now, sentAsset, open, registered, call, lastCheck, faults>>

-----------------------------------------------------------------------------
(* Scanning. *)

\* What a scan of the payments ps has to list: every token, the coin only where quoted.
feeds(ps) == (Token \X ps) \cup {f \in {Native} \X ps : asset[f[2]] = Native}

\* activePayments, and the tick that scans them.
activePayments(c) ==
    /\ call[c].pc = "idle"
    /\ call' = [call EXCEPT ![c] = [pc |-> "scan", todo |-> feeds(open), batch |-> {}]]
    /\ UNCHANGED <<now, sentAsset, chain, stamp, open, registered, lastCheck, faults>>

\* The rows of a feed.
rows(f) == {t \in Transfer : sentAsset[t] = f[1] /\ sentTo[t] = f[2] /\ chain[t] # "absent"}

\* A full listing: PageLimit of them, or all there are.
fullPages(f) ==
    {page \in SUBSET rows(f) :
        IF page = rows(f) THEN Cardinality(page) <= PageLimit ELSE Cardinality(page) = PageLimit}

\* Mutant: the oldest rows come first.
oldestPages(f) ==
    {page \in fullPages(f) : \A t \in page, u \in rows(f) \ page : stamp[t] <= stamp[u]}

\* The newest rows come first, those of the same moment in any order.
pages(f) ==
    {page \in fullPages(f) : \A t \in page, u \in rows(f) \ page : stamp[u] <= stamp[t]}

\* getTrc20Transfers lists what is not mined yet, parseNativeTransfer drops it.
listed(f, page) == IF f[1] = Native THEN {t \in page : chain[t] = "mined"} ELSE page

List(c) ==
    /\ call[c].pc = "scan" /\ call[c].batch = {}
    /\ \E f \in call[c].todo : \E page \in pages(f) :
          call' = [call EXCEPT ![c].todo = @ \ {f}, ![c].batch = listed(f, page)]
    /\ UNCHANGED <<now, sentAsset, chain, stamp, open, registered, lastCheck, faults>>

\* findTransferLog: the first log of the transaction that fits; a coin transfer is its own.
findTransferLog(t) ==
    IF sentAsset[t] = Native THEN t
    ELSE CHOOSE u \in Transfer :
            /\ txHash[u] = txHash[t] /\ sentAsset[u] = sentAsset[t] /\ sentTo[u] = sentTo[t]
            /\ \A v \in Transfer :
                  (txHash[v] = txHash[t] /\ sentAsset[v] = sentAsset[t] /\ sentTo[v] = sentTo[t])
                      => logIndex[u] <= logIndex[v]

\* getTransactionInfo says mined, and registerDeposit is called; or it is skipped.
Resolve(c) ==
    /\ \E t \in call[c].batch :
          /\ call' = [call EXCEPT ![c].batch = @ \ {t}]
          /\ registered' = IF chain[t] = "mined" THEN registered \cup {findTransferLog(t)}
                           ELSE registered
    /\ UNCHANGED <<now, sentAsset, chain, stamp, open, lastCheck, faults>>

ScanDone(c) ==
    /\ call[c].pc = "scan" /\ call[c].todo = {} /\ call[c].batch = {}
    /\ call' = [call EXCEPT ![c] = Idle]
    /\ UNCHANGED <<now, sentAsset, chain, stamp, open, registered, lastCheck, faults>>

\* A call throws: the rest of the scan is given up.
ScanFails(c) ==
    /\ call[c].pc # "idle"
    /\ Fault
    /\ call' = [call EXCEPT ![c] = Idle]
    /\ UNCHANGED <<now, sentAsset, chain, stamp, open, registered, lastCheck>>

Restart ==
    /\ Fault
    /\ call' = [c \in Scanner |-> Idle]
    /\ lastCheck' = [p \in Payment |-> None]
    /\ UNCHANGED <<now, sentAsset, chain, stamp, open, registered>>

-----------------------------------------------------------------------------
(* POST /public/payments/:publicId/check. *)

\* The row is read, as of now ...
CheckRead(c, p) ==
    /\ call[c].pc = "idle"
    /\ call' = [call EXCEPT ![c] = [pc |-> "gate", todo |-> feeds(open \cap {p}), batch |-> {}]]
    /\ UNCHANGED <<now, sentAsset, chain, stamp, open, registered, lastCheck, faults>>

cooledDown(p) == lastCheck[p] = None \/ now - lastCheck[p] >= Cooldown

\* ... and behind it the cooldown is looked up, set and pruned without an await.
recorded(p) ==
    [q \in Payment |->
        IF q = p THEN now
        ELSE IF lastCheck[q] # None /\ now - lastCheck[q] > Cooldown THEN None
        ELSE lastCheck[q]]

CheckPasses(c, p) ==
    /\ call[c].pc = "gate" /\ call[c].todo = feeds({p})
    /\ cooledDown(p)
    /\ lastCheck' = recorded(p)
    /\ call' = [call EXCEPT ![c].pc = "scan"]
    /\ UNCHANGED <<now, sentAsset, chain, stamp, open, registered, faults>>

CheckSkipped(c) ==
    /\ call[c].pc = "gate"
    /\ \A p \in Payment : call[c].todo = feeds({p}) => ~cooledDown(p)
    /\ call' = [call EXCEPT ![c] = Idle]
    /\ UNCHANGED <<now, sentAsset, chain, stamp, open, registered, lastCheck, faults>>

-----------------------------------------------------------------------------
Scan(c) == List(c) \/ Resolve(c) \/ ScanDone(c)

Next ==
    \/ Tick
    \/ \E p \in Payment : Open(p) \/ Close(p)
    \/ \E t \in Transfer : Progress(t)
    \/ \E c \in Scanner : Scan(c) \/ ScanFails(c)
    \/ \E c \in Ticker : activePayments(c)
    \/ \E c \in Checker :
          CheckSkipped(c) \/ \E p \in Payment : CheckRead(c, p) \/ CheckPasses(c, p)
    \/ Restart

Spec == Init /\ [][Next]_vars

\* The interval keeps ticking, and every await returns or throws.
Fairness == \A c \in Ticker : WF_vars(activePayments(c) \/ Scan(c))

FairSpec == Spec /\ Fairness

-----------------------------------------------------------------------------
\* No page leaves the transfer out: too few rows of its feed are as new as it is.
onPage(t) ==
    LET newer == {u \in rows(<<sentAsset[t], sentTo[t]>>) : u # t /\ stamp[t] <= stamp[u]}
    IN  Cardinality(newer) < PageLimit

\* A poll finds it: while the payment stays open and the transfer is among the newest of
\* its feed, a mined transfer in any token, or in the coin where that is quoted, is
\* registered under the first log of its transaction that pays the address, although
\* scans may have listed and skipped it before it was mined.
ListedIsFound ==
    \A t \in Transfer :
        (chain[t] = "mined" /\ <<sentAsset[t], sentTo[t]>> \in feeds(open) /\ onPage(t))
            ~> (findTransferLog(t) \in registered \/ sentTo[t] \notin open \/ ~onPage(t))

=============================================================================
