--------------------------- MODULE NativeWatcher ---------------------------
(***************************************************************************)
(* Detection of transfers of a chain's own coin (workers/native-watcher).  *)
(* Nothing indexes such a transfer: the watcher reads whole blocks, from a *)
(* cursor that new heads push forward and a periodic backfill moves back,  *)
(* for the addresses a periodic refresh last found open.  Heads, refreshes *)
(* and backfills run concurrently; only the scan itself is exclusive.      *)
(***************************************************************************)
EXTENDS Naturals, FiniteSets

CONSTANTS
    Payment,        \* payments quoted in the coin, each with an address of its own
    Refresher,      \* overlapping calls of refreshWatched
    Backfiller,     \* overlapping calls of backfill
    BackfillBlocks, \* env.nativeBackfillBlocks
    StartHeight,    \* height of the chain when the process first starts
    MaxHeight,      \* bound: height of the chain
    MaxFaults       \* bound: failed calls, crashes and reorganisations

NWNumbers ==
    /\ {BackfillBlocks, StartHeight, MaxHeight, MaxFaults} \subseteq Nat
    /\ 0 < BackfillBlocks /\ BackfillBlocks <= StartHeight /\ StartHeight <= MaxHeight

VARIABLES
    height,      \* the chain's head
    block,       \* block[n]: the payments block n holds a transfer to
    open,        \* payments the database holds in an active status
    registered,  \* <<payment, block>> handed to registerDeposit
    watched,     \* the watched map
    lastScanned, \* the cursor
    scan,        \* the scan in progress; its presence is the `scanning` flag
    call,        \* refreshes and backfills in progress
    faults,
    sighted      \* history: transfers mined ahead of cursor and scan, and ever since watched
                 \* and among the last BackfillBlocks

chain == <<height, block>>
vars == <<height, block, open, registered, watched, lastScanned, scan, call, faults,
          sighted>>

Height == 1..MaxHeight
NotScanning == [step |-> "none", latest |-> 0, at |-> 0, todo |-> {}]
Scan == [step : {"none", "read", "credit"}, latest : 0..MaxHeight, at : 0..MaxHeight,
         todo : SUBSET Payment]
Idle == [pc |-> "idle", rows |-> {}]
scanning == scan # NotScanning

TypeOK ==
    /\ height \in Height /\ lastScanned \in 0..MaxHeight
    /\ block \in [Height -> SUBSET Payment]
    /\ open \subseteq Payment /\ watched \subseteq Payment
    /\ registered \subseteq Payment \X Height
    /\ sighted \subseteq Payment \X Height
    /\ scan \in Scan
    /\ call \in [Refresher \cup Backfiller ->
                    [pc : {"idle", "rows", "height"}, rows : SUBSET Payment]]
    /\ faults \in 0..MaxFaults

\* startNativeWatcher: empty map, cursor at zero, the first backfill about to run.
Init ==
    /\ height = StartHeight
    /\ block = [n \in Height |-> {}]
    /\ open = {} /\ registered = {} /\ watched = {}
    /\ lastScanned = 0 /\ scan = NotScanning
    /\ call = [c \in Refresher \cup Backfiller |-> Idle]
    /\ faults = 0
    /\ sighted = {}

Fault == faults < MaxFaults /\ faults' = faults + 1

-----------------------------------------------------------------------------
(* Payers, payments and the chain. *)

Open(p) ==
    /\ p \notin open
    /\ \A n \in Height : p \notin block[n]
    /\ open' = open \cup {p}
    /\ UNCHANGED <<chain, registered, watched, lastScanned, scan, call, faults, sighted>>

Close(p) ==
    /\ p \in open
    /\ open' = open \ {p}
    /\ UNCHANGED <<chain, registered, watched, lastScanned, scan, call, faults, sighted>>

\* A new head with at most one transfer; each payment is paid once.
Mine(S) ==
    /\ height < MaxHeight
    /\ Cardinality(S) <= 1
    /\ \A p \in S : p \in open /\ \A n \in Height : p \notin block[n]
    /\ height' = height + 1
    /\ block' = [block EXCEPT ![height + 1] = S]
    /\ sighted' = {s \in sighted : height + 1 < s[2] + BackfillBlocks} \cup
                  (IF lastScanned \in 1..height /\ scan.at <= height
                   THEN (S \cap watched) \X {height + 1} ELSE {})
    /\ UNCHANGED <<open, registered, watched, lastScanned, scan, call, faults>>

\* The head is replaced: its transfers may be mined again, at a height already passed.
Reorg ==
    /\ Fault
    /\ height > StartHeight
    /\ height' = height - 1
    /\ block' = [block EXCEPT ![height] = {}]
    /\ sighted' = {s \in sighted : s[2] # height}
    /\ UNCHANGED <<open, registered, watched, lastScanned, scan, call>>

\* Everything but the database and the chain is lost.
Restart ==
    /\ Fault
    /\ watched' = {} /\ lastScanned' = 0 /\ scan' = NotScanning
    /\ call' = [c \in DOMAIN call |-> Idle]
    /\ sighted' = {}
    /\ UNCHANGED <<chain, open, registered>>

-----------------------------------------------------------------------------
(* Scanning. *)

\* Mutant: off by one.
firstBlockSkipping(cursor, latest) == IF cursor = 0 THEN latest ELSE cursor + 2

\* The first block of a scan up to `latest`, and that block once the span is capped.
firstBlock(cursor, latest) == IF cursor = 0 THEN latest ELSE cursor + 1
fromBlock(cursor, latest) ==
    IF latest + 1 > firstBlock(cursor, latest) + BackfillBlocks
    THEN latest + 1 - BackfillBlocks
    ELSE firstBlock(cursor, latest)

\* scanUpTo, entered with the cursor at `cursor`: refused while a scan is running.
scanUpTo(cursor, latest) ==
    LET from == fromBlock(cursor, latest)
    IN  /\ lastScanned' = cursor
        /\ IF scanning \/ from > latest
           THEN UNCHANGED scan
           ELSE scan' = [step |-> "read", latest |-> latest, at |-> from, todo |-> {}]

\* A head arrives, late or out of order, while something is watched ...
Head(latest) ==
    /\ watched # {}
    /\ latest <= height
    /\ ~scanning
    /\ scanUpTo(lastScanned, latest)
    /\ UNCHANGED <<chain, open, registered, watched, call, faults, sighted>>

\* ... or while nothing is: the cursor is kept current.
IdleHead(latest) ==
    /\ watched = {}
    /\ latest <= height
    /\ lastScanned' = latest
    /\ UNCHANGED <<chain, open, registered, watched, scan, call, faults, sighted>>

ReadBlock ==
    /\ scan.step = "read"
    /\ scan.at <= height
    /\ scan' = [scan EXCEPT !.step = "credit", !.todo = block[scan.at]]
    /\ UNCHANGED <<chain, open, registered, watched, lastScanned, call, faults, sighted>>

\* A transaction of the block is looked up in the map as it is now.
Credit(p) ==
    /\ p \in scan.todo
    /\ scan' = [scan EXCEPT !.todo = @ \ {p}]
    /\ registered' = IF p \in watched THEN registered \cup {<<p, scan.at>>} ELSE registered
    /\ UNCHANGED <<chain, open, watched, lastScanned, call, faults, sighted>>

\* The cursor follows block by block, and never moves back.
Advance ==
    /\ scan.step = "credit" /\ scan.todo = {}
    /\ lastScanned' = IF scan.at > lastScanned THEN scan.at ELSE lastScanned
    /\ scan' = IF scan.at < scan.latest
               THEN [scan EXCEPT !.step = "read", !.at = @ + 1]
               ELSE NotScanning
    /\ UNCHANGED <<chain, open, registered, watched, call, faults, sighted>>

\* getBlock or registerDeposit throws; a block that is not there (yet) always does.
ScanFails ==
    /\ scanning
    /\ Fault
    /\ scan' = NotScanning
    /\ UNCHANGED <<chain, open, registered, watched, lastScanned, call, sighted>>

BlockNotFound ==
    /\ scan.step = "read" /\ scan.at > height
    /\ scan' = NotScanning
    /\ UNCHANGED <<chain, open, registered, watched, lastScanned, call, faults, sighted>>

ScanStep == ReadBlock \/ Advance \/ BlockNotFound \/ \E p \in Payment : Credit(p)

-----------------------------------------------------------------------------
(* Refreshing and backfilling. *)

\* The query of activeNativeAddresses ...
SelectOpen(c) ==
    /\ call[c].pc = "idle"
    /\ call' = [call EXCEPT ![c] = [pc |-> "rows", rows |-> open]]
    /\ UNCHANGED <<chain, open, registered, watched, lastScanned, scan, faults, sighted>>

\* ... and the assignment behind it, whichever of two queries was made first.
refreshWatched(c) ==
    /\ call[c].pc = "rows"
    /\ watched' = call[c].rows
    /\ sighted' = {s \in sighted : s[1] \in call[c].rows}
    /\ call' = [call EXCEPT ![c] =
                    IF c \in Backfiller /\ call[c].rows # {}
                    THEN [pc |-> "height", rows |-> {}]
                    ELSE Idle]
    /\ UNCHANGED <<chain, open, registered, lastScanned, scan, faults>>

\* Mutant: the backfill goes on from the cursor.
notRewound == lastScanned

rewound == IF height > BackfillBlocks THEN height - BackfillBlocks ELSE 0

\* The cursor goes back, or forward after a long gap, even if the scan is then refused.
BackfillScan(c) ==
    /\ call[c].pc = "height"
    /\ scanUpTo(rewound, height)
    /\ call' = [call EXCEPT ![c] = Idle]
    /\ UNCHANGED <<chain, open, registered, watched, faults, sighted>>

CallFails(c) ==
    /\ call[c].pc # "idle"
    /\ Fault
    /\ call' = [call EXCEPT ![c] = Idle]
    /\ UNCHANGED <<chain, open, registered, watched, lastScanned, scan, sighted>>

CallStep(c) == SelectOpen(c) \/ refreshWatched(c) \/ BackfillScan(c)

-----------------------------------------------------------------------------
Next ==
    \/ \E p \in Payment : Open(p) \/ Close(p)
    \/ \E S \in SUBSET Payment : Mine(S)
    \/ Reorg \/ Restart
    \/ \E latest \in Height : Head(latest) \/ IdleHead(latest)
    \/ ScanStep \/ ScanFails
    \/ \E c \in DOMAIN call : CallStep(c) \/ CallFails(c)

Spec == Init /\ [][Next]_vars

\* The intervals keep firing, and every await returns or throws.
Fairness == WF_vars(ScanStep) /\ \A c \in Refresher \cup Backfiller : WF_vars(CallStep(c))

FairSpec == Spec /\ Fairness

-----------------------------------------------------------------------------
\* A transfer whose block the cursor passes in this step.
Passes(s) == lastScanned < s[2] /\ s[2] <= lastScanned'

\* No scan, refusal, failure, late head or backfill takes the cursor past a transfer
\* to a payment watched since before it was mined, unless registerDeposit has had it:
\* only what has been older than the last nativeBackfillBlocks may be skipped.
CursorHonest == [][\A s \in sighted : Passes(s) => s \in registered']_vars

\* A transfer in the last blocks of the chain, to a payment that stays open, is found:
\* by a head, or by a backfill after a stale map, a reorganisation, a crash or a failure.
TransfersFound ==
    \A p \in Payment, n \in Height :
        n + BackfillBlocks > MaxHeight =>
            ((p \in open /\ p \in block[n])
                ~> (<<p, n>> \in registered \/ p \notin open \/ p \notin block[n]))

=============================================================================
