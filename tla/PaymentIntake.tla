---------------------------- MODULE PaymentIntake ----------------------------
(***************************************************************************)
(* How a payment gets its receiving address (services/wallet, the boot in  *)
(* index and createPayment up to its insert).  Processes, old and new ones *)
(* of a deployment, draw derivation indexes from one counter row, which is *)
(* bound to the mnemonic that issued the first of them.                    *)
(***************************************************************************)
EXTENDS Integers, Sequences

CONSTANTS
    Proc,      \* processes that may run at the same time
    Call,      \* requests to create a payment in progress
    Seed,      \* fingerprints of the mnemonics a process may be configured with
    Unbound,   \* the fingerprint of a counter that predates fingerprints (SQL NULL)
    MaxIndex,  \* bound: derivation indexes issued
    MaxFaults  \* bound: failed calls and crashes

ASSUME PINumbers == {MaxIndex, MaxFaults} \subseteq Nat
ASSUME PIUnbound == Unbound \notin Seed
ASSUME PIProc == Proc # {}

VARIABLES
    hasRow,    \* whether hd_counter has its one row
    counter,   \* that row
    proc,      \* processes
    call,      \* createPayment calls
    issued,    \* history: what reserveDerivationIndex has returned, in order
    payments,  \* rows of payments, by the derivation path of their address
    faults

vars == <<hasRow, counter, proc, call, issued, payments, faults>>

Path == [index : Nat, seed : Seed]
Down(seed) == [pc |-> "down", seed |-> seed]
Idle == [pc |-> "idle", proc |-> CHOOSE p \in Proc : TRUE, index |-> 0]

TypeOK ==
    /\ hasRow \in BOOLEAN
    /\ counter \in [next_index : Nat, seed_fingerprint : Seed \cup {Unbound}]
    /\ proc \in [Proc -> [pc : {"down", "boot", "adopt", "up"}, seed : Seed]]
    /\ call \in [Call -> [pc : {"idle", "quote", "reserve", "insert"}, proc : Proc,
                          index : Nat]]
    /\ issued \in Seq(Path)
    /\ payments \subseteq Path
    /\ faults \in Nat

\* A fresh database, or one whose counter predates fingerprints.
Init ==
    /\ \/ hasRow = FALSE /\ counter = [next_index |-> 0, seed_fingerprint |-> Unbound]
       \/ /\ hasRow = TRUE
          /\ \E n \in 0..1 : counter = [next_index |-> n, seed_fingerprint |-> Unbound]
    /\ proc \in [Proc -> {Down(s) : s \in Seed}]
    /\ call = [c \in Call |-> Idle]
    /\ issued = <<>>
    /\ payments = {}
    /\ faults = 0

Fault == faults < MaxFaults /\ faults' = faults + 1

-----------------------------------------------------------------------------
(* Boot. *)

\* A process starts with whichever mnemonic it is configured with now.
Boot(p, seed) ==
    /\ proc[p].pc = "down"
    /\ proc' = [proc EXCEPT ![p] = [pc |-> "boot", seed |-> seed]]
    /\ UNCHANGED <<hasRow, counter, call, issued, payments, faults>>

\* The read of assertSeedIdentity, and what follows without another one.
assertSeedIdentity(p) ==
    /\ proc[p].pc = "boot"
    /\ proc' = [proc EXCEPT ![p].pc =
                    IF ~hasRow \/ counter.seed_fingerprint = proc[p].seed THEN "up"
                    ELSE IF counter.seed_fingerprint = Unbound THEN "adopt"
                    ELSE "down"]
    /\ UNCHANGED <<hasRow, counter, call, issued, payments, faults>>

\* Its update, which another process may have overtaken.
Adopt(p) ==
    /\ proc[p].pc = "adopt"
    /\ counter' = IF counter.seed_fingerprint = Unbound
                  THEN [counter EXCEPT !.seed_fingerprint = proc[p].seed]
                  ELSE counter
    /\ proc' = [proc EXCEPT ![p].pc = "up"]
    /\ UNCHANGED <<hasRow, call, issued, payments, faults>>

\* The database does not answer: the check is deferred.
CheckDeferred(p) ==
    /\ proc[p].pc \in {"boot", "adopt"}
    /\ Fault
    /\ proc' = [proc EXCEPT ![p].pc = "up"]
    /\ UNCHANGED <<hasRow, counter, call, issued, payments>>

Crash(p) ==
    /\ proc[p].pc # "down"
    /\ Fault
    /\ proc' = [proc EXCEPT ![p].pc = "down"]
    /\ call' = [c \in Call |-> IF call[c].proc = p THEN Idle ELSE call[c]]
    /\ UNCHANGED <<hasRow, counter, issued, payments>>

-----------------------------------------------------------------------------
(* createPayment. *)

\* A request that passes the api key, the body's schema, the pairing and the minimum.
Request(c, p) ==
    /\ call[c].pc = "idle"
    /\ proc[p].pc = "up"
    /\ call' = [call EXCEPT ![c] = [Idle EXCEPT !.pc = "quote", !.proc = p]]
    /\ UNCHANGED <<hasRow, counter, proc, issued, payments, faults>>

\* getRateCopE6 returns a rate, or throws for want of one.
Quoted(c) ==
    /\ call[c].pc = "quote"
    /\ \/ call' = [call EXCEPT ![c].pc = "reserve"]
       \/ call' = [call EXCEPT ![c] = Idle]
    /\ UNCHANGED <<hasRow, counter, proc, issued, payments, faults>>

\* Mutant: the insert leaves the counter where it starts.
followingUnmoved == IF hasRow THEN counter.next_index + 1 ELSE 0

\* Mutant: the counter runs down.
followingDown == IF hasRow THEN counter.next_index - 1 ELSE -1

\* The insert stores one, the update on conflict adds one.
following == IF hasRow THEN counter.next_index + 1 ELSE 1

\* Mutant: the update has no predicate.
bindsAny(seed) == TRUE

\* The predicate of the update.
binds(seed) == ~hasRow \/ counter.seed_fingerprint \in {seed, Unbound}

\* The statement of reserveDerivationIndex binds the row and takes an index at once.
reserveDerivationIndex(c) ==
    LET seed == proc[call[c].proc].seed
        index == IF hasRow THEN counter.next_index ELSE 0
    IN  /\ call[c].pc = "reserve"
        /\ Len(issued) < MaxIndex
        /\ binds(seed)
        /\ hasRow' = TRUE
        /\ counter' = [next_index |-> following, seed_fingerprint |-> seed]
        /\ issued' = Append(issued, [index |-> index, seed |-> seed])
        /\ call' = [call EXCEPT ![c].pc = "insert", ![c].index = index]
        /\ UNCHANGED <<proc, payments, faults>>

\* No row passed the predicate: SeedMismatchError, and the request is refused.
SeedMismatch(c) ==
    /\ call[c].pc = "reserve"
    /\ ~binds(proc[call[c].proc].seed)
    /\ call' = [call EXCEPT ![c] = Idle]
    /\ UNCHANGED <<hasRow, counter, proc, issued, payments, faults>>

InsertPayment(c) ==
    /\ call[c].pc = "insert"
    /\ payments' = payments \cup {[index |-> call[c].index, seed |-> proc[call[c].proc].seed]}
    /\ call' = [call EXCEPT ![c] = Idle]
    /\ UNCHANGED <<hasRow, counter, proc, issued, faults>>

\* A statement fails; an index already taken is not given back.
CallFails(c) ==
    /\ call[c].pc \in {"reserve", "insert"}
    /\ Fault
    /\ call' = [call EXCEPT ![c] = Idle]
    /\ UNCHANGED <<hasRow, counter, proc, issued, payments>>

-----------------------------------------------------------------------------
ProcStep(p) ==
    \/ \E seed \in Seed : Boot(p, seed)
    \/ assertSeedIdentity(p) \/ Adopt(p) \/ CheckDeferred(p) \/ Crash(p)

CallStep(c) ==
    \/ \E p \in Proc : Request(c, p)
    \/ Quoted(c) \/ reserveDerivationIndex(c) \/ SeedMismatch(c) \/ InsertPayment(c)
    \/ CallFails(c)

Next == (\E p \in Proc : ProcStep(p)) \/ (\E c \in Call : CallStep(c))

Spec == Init /\ [][Next]_vars

-----------------------------------------------------------------------------
\* Concurrent requests, crashes, failed inserts and restarts notwithstanding, no index
\* is issued twice: no two payers are given one address.
IssuedOnce ==
    \A i, j \in DOMAIN issued : issued[i].index = issued[j].index => i = j

\* Once a process has drawn an index, every payment's address derives from the tree
\* the counter records, whatever the mnemonics of other and of later processes.
OneTree ==
    /\ \A i \in DOMAIN issued : issued[i].seed = counter.seed_fingerprint
    /\ \A path \in payments : path.seed = counter.seed_fingerprint

=============================================================================
