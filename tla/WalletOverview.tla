--------------------------- MODULE WalletOverview ---------------------------
(***************************************************************************)
(* What the console shows of the gateway's own wallets (services/treasury).*)
(* A call answers each network from a cache or reads it from the chain,    *)
(* and says how old the oldest entry it used is.  Calls overlap: a slow    *)
(* one may replace what a later one has cached.                            *)
(***************************************************************************)
EXTENDS Integers

CONSTANTS
    Network,
    Call,     \* calls of walletOverview in progress
    Ttl,      \* TTL_MS
    MaxTime,  \* bound: the clock
    MaxFaults \* bound: reads that fail

WNumbers == {Ttl, MaxTime, MaxFaults} \subseteq Nat

VARIABLES
    now,
    settings, \* networks that have their credential, wallets that have an address
    cache,
    call,
    faults

vars == <<now, settings, cache, call, faults>>

Role == {"treasury", "relayer"}
Blank == -1    \* no balances
Waiting == -2
\* A wallet's balances are known by the moment they were read at.
Wallets == [Role -> 0..MaxTime \cup {Blank}]
Empty == [r \in Role |-> Blank]
NoEntry == [at |-> -1, wallets |-> Empty]
Idle == [pc |-> "idle", at |-> 0, oldest |-> 0, reads |-> [n \in Network |-> Empty], due |-> {}]

TypeOK ==
    /\ now \in 0..MaxTime
    /\ settings \in [credential : SUBSET Network, addressed : SUBSET Role]
    /\ cache \in [Network -> [at : -1..MaxTime, wallets : Wallets]]
    /\ call \in [Call -> [pc : {"idle", "asked"}, at : 0..MaxTime, oldest : 0..MaxTime,
                          reads : [Network -> [Role -> 0..MaxTime \cup {Blank, Waiting}]],
                          due : SUBSET Network]]
    /\ faults \in 0..MaxFaults

Init ==
    /\ now = 0
    /\ settings \in [credential : SUBSET Network, addressed : SUBSET Role]
    /\ cache = [n \in Network |-> NoEntry]
    /\ call = [k \in Call |-> Idle]
    /\ faults = 0

Tick ==
    /\ now < MaxTime
    /\ now' = now + 1
    /\ UNCHANGED <<settings, cache, call, faults>>

-----------------------------------------------------------------------------
hit(n) == cache[n] # NoEntry /\ now - cache[n].at < Ttl

\* The time is taken, the cache looked at, and a network without credential left blank.
walletOverview(k) ==
    LET hits == {n \in Network : hit(n)}
        read == (Network \ hits) \cap settings.credential
        toRead == [r \in Role |-> IF r \in settings.addressed THEN Waiting ELSE Blank]
        used == {now} \cup {cache[n].at : n \in hits}
    IN  /\ call[k] = Idle
        /\ call' = [call EXCEPT ![k] =
               [pc |-> "asked", at |-> now,
                oldest |-> CHOOSE t \in used : \A u \in used : t <= u,
                reads |-> [n \in Network |-> IF n \in read THEN toRead
                                             ELSE IF n \in hits THEN cache[n].wallets ELSE Empty],
                due |-> read]]
        /\ cache' = [n \in Network |->
               IF n \in hits \cup read THEN cache[n] ELSE [at |-> now, wallets |-> Empty]]
        /\ UNCHANGED <<now, settings, faults>>

\* evmBalances or tronBalances of one wallet.
readWallet(k, n, r) ==
    /\ n \in call[k].due /\ call[k].reads[n][r] = Waiting
    /\ call' = [call EXCEPT ![k].reads[n][r] = now]
    /\ UNCHANGED <<now, settings, cache, faults>>

\* Mutant: the entry is stamped when it is made.
stampedLate(k) == now

stamp(k) == call[k].at

Enter(k, n, wallets) ==
    /\ cache' = [cache EXCEPT ![n] = [at |-> stamp(k), wallets |-> wallets]]
    /\ call' = [call EXCEPT ![k].reads[n] = wallets, ![k].due = @ \ {n}]
    /\ UNCHANGED <<now, settings>>

readNetwork(k, n) ==
    /\ n \in call[k].due
    /\ \A r \in Role : call[k].reads[n][r] # Waiting
    /\ Enter(k, n, call[k].reads[n])
    /\ UNCHANGED faults

\* One wallet's read fails: the network is unreachable, and neither has balances.
ReadFails(k, n) ==
    /\ n \in call[k].due
    /\ \E r \in Role : call[k].reads[n][r] = Waiting
    /\ faults < MaxFaults /\ faults' = faults + 1
    /\ Enter(k, n, Empty)

answered(k) == call[k].pc = "asked" /\ call[k].due = {}

Answer(k) ==
    /\ answered(k)
    /\ call' = [call EXCEPT ![k] = Idle]
    /\ UNCHANGED <<now, settings, cache, faults>>

Next ==
    \/ Tick
    \/ \E k \in Call : \/ walletOverview(k) \/ Answer(k)
                       \/ \E n \in Network : \/ readNetwork(k, n) \/ ReadFails(k, n)
                                             \/ \E r \in Role : readWallet(k, n, r)

Spec == Init /\ [][Next]_vars

-----------------------------------------------------------------------------
\* The age an answer states never flatters it: however calls overlap and replace each other's
\* entries, no balance shown is older than the oldest entry's age, nor that age than the TTL.
AgeIsHonest ==
    \A k \in Call : answered(k) =>
        /\ call[k].oldest > call[k].at - Ttl \/ call[k].oldest = call[k].at
        /\ \A n \in Network, r \in Role :
              call[k].reads[n][r] # Blank => call[k].reads[n][r] >= call[k].oldest

=============================================================================
