---------------------------- MODULE ConsoleClient ----------------------------
(***************************************************************************)
(* The console in an operator's browser (web/src/admin): who it believes   *)
(* is signed in, what it has fetched, and the merchants' keys it holds,    *)
(* beside the session row on the server.  Answers are written by the       *)
(* server at one time and land in the page at a later one.                 *)
(***************************************************************************)
EXTENDS Naturals

CONSTANTS
    Fetch,    \* slots for console reads in flight
    MaxFaults \* bound: requests lost, sessions that end by themselves, pages loaded again

VARIABLES
    valid,     \* the server would answer this browser's cookie
    sessionExpired,
    me, meReq, \* the session query: what it shows, and its request
    fetched, write, login, logout, \* requests in flight; `live`: the query client still wants it
    cache, keys, revealed, \* there is merchant data; an API key; a credential on screen
    pending,   \* of the login form
    attached,  \* the session query is still in the client's cache
    signedOut, \* history: signOut has run to its end, and nobody has signed in since
    faults

requests == <<meReq, fetched, write, login, logout>>
held == <<cache, keys, revealed>>
vars == <<valid, sessionExpired, me, requests, held, pending, attached, signedOut, faults>>

Reply == {"idle", "sent", "ok", "denied", "lost"}

locked == sessionExpired \/ me = "out"
blank == me = "none"
console == ~blank /\ ~locked
loginForm == ~blank /\ locked

TypeOK ==
    /\ {valid, sessionExpired, cache, keys, revealed, pending, attached, signedOut} \subseteq BOOLEAN
    /\ me \in {"none", "error", "in", "out"}
    /\ {meReq, write, login} \subseteq Reply
    /\ logout \in {"idle", "sent", "answered"}
    /\ fetched \in [Fetch -> [pc : Reply, live : BOOLEAN]]
    /\ faults \in 0..MaxFaults

NoFetch == [f \in Fetch |-> [pc |-> "idle", live |-> TRUE]]

Init ==
    /\ valid \in BOOLEAN
    /\ sessionExpired = FALSE
    /\ me = "none" /\ meReq = "sent"
    /\ fetched = NoFetch /\ write = "idle" /\ login = "idle" /\ logout = "idle"
    /\ cache = FALSE /\ keys = FALSE /\ revealed = FALSE
    /\ pending = FALSE /\ attached = TRUE /\ signedOut = FALSE
    /\ faults = 0

Fault == faults < MaxFaults /\ faults' = faults + 1

\* The guard's answer to a request it receives now, or none.
Answer(reply) ==
    \/ reply = (IF valid THEN "ok" ELSE "denied") /\ UNCHANGED faults
    \/ reply = "lost" /\ Fault

-----------------------------------------------------------------------------
(* Console reads and writes: api.ts raises sessionExpired on a 401, and the *)
(* routes, with what they have on screen, leave when the console locks.     *)

Read(f) ==
    /\ console /\ fetched[f].pc = "idle"
    /\ fetched' = [fetched EXCEPT ![f] = [pc |-> "sent", live |-> TRUE]]
    /\ UNCHANGED <<valid, sessionExpired, me, meReq, write, login, logout, held, pending,
                   attached, signedOut, faults>>

ReadAnswered(f) ==
    /\ fetched[f].pc = "sent"
    /\ \E reply \in Reply : Answer(reply) /\ fetched' = [fetched EXCEPT ![f].pc = reply]
    /\ UNCHANGED <<valid, sessionExpired, me, meReq, write, login, logout, held, pending,
                   attached, signedOut>>

\* get: a cancelled query keeps no data, but its 401 is noted all the same.
ReadLands(f) ==
    /\ fetched[f].pc \in {"ok", "denied", "lost"}
    /\ UNCHANGED <<valid, me, meReq, write, login, logout, keys, pending, attached, signedOut, faults>>
    /\ fetched' = [fetched EXCEPT ![f] = [pc |-> "idle", live |-> TRUE]]
    /\ cache' = (cache \/ (fetched[f].pc = "ok" /\ fetched[f].live))
    /\ sessionExpired' = (sessionExpired \/ fetched[f].pc = "denied")
    /\ revealed' = (revealed /\ ~locked')

\* A mutation of the Merchants view that returns a credential once.
Rotate ==
    /\ console /\ write = "idle"
    /\ write' = "sent"
    /\ UNCHANGED <<valid, sessionExpired, me, meReq, fetched, login, logout, held, pending,
                   attached, signedOut, faults>>

RotateAnswered ==
    /\ write = "sent"
    /\ \E reply \in Reply : Answer(reply) /\ write' = reply
    /\ UNCHANGED <<valid, sessionExpired, me, meReq, fetched, login, logout, held, pending,
                   attached, signedOut>>

\* onSuccess: it can be shown only while the view that asked is there.
RotateLands ==
    /\ write \in {"ok", "denied", "lost"}
    /\ UNCHANGED <<valid, me, meReq, fetched, login, logout, cache, keys, pending, attached,
                   signedOut, faults>>
    /\ write' = "idle"
    /\ sessionExpired' = (sessionExpired \/ write = "denied")
    /\ \/ revealed' = ((revealed \/ write = "ok") /\ ~locked')
       \/ revealed' = (revealed /\ ~locked') \* the view has been left meanwhile

Dismiss ==
    /\ revealed /\ revealed' = FALSE
    /\ UNCHANGED <<valid, sessionExpired, me, requests, cache, keys, pending, attached, signedOut, faults>>

\* The Build view: rememberApiKey, forgetApiKey.
HoldKey ==
    /\ console /\ keys' = ~keys
    /\ UNCHANGED <<valid, sessionExpired, me, requests, cache, revealed, pending, attached,
                   signedOut, faults>>

-----------------------------------------------------------------------------
(* The session query: never retried, and a 401 is an answer. *)

\* The Refresh button refetches it with everything else.
RefetchMe ==
    /\ console /\ attached /\ meReq = "idle"
    /\ meReq' = "sent"
    /\ UNCHANGED <<valid, sessionExpired, me, fetched, write, login, logout, held, pending,
                   attached, signedOut, faults>>

MeAnswered ==
    /\ meReq = "sent"
    /\ \E reply \in Reply : Answer(reply) /\ meReq' = reply
    /\ UNCHANGED <<valid, sessionExpired, me, fetched, write, login, logout, held, pending,
                   attached, signedOut>>

MeLands ==
    /\ meReq \in {"ok", "denied", "lost"}
    /\ UNCHANGED <<valid, sessionExpired, fetched, write, login, logout, cache, keys, attached,
                   signedOut, faults>>
    /\ meReq' = "idle"
    /\ me' = CASE meReq = "ok" -> "in"
               [] meReq = "denied" -> "out"
               [] OTHER -> IF me = "none" THEN "error" ELSE me
    /\ revealed' = (revealed /\ ~locked')
    /\ pending' = (pending /\ loginForm /\ loginForm')

-----------------------------------------------------------------------------
(* Signing in. *)

Submit ==
    /\ loginForm /\ ~pending /\ login = "idle"
    /\ login' = "sent" /\ pending' = TRUE
    /\ UNCHANGED <<valid, sessionExpired, me, meReq, fetched, write, logout, held, attached,
                   signedOut, faults>>

\* The right password, or one the server refuses (401, 409, 429), or no answer.
LoginAnswered ==
    /\ login = "sent"
    /\ \/ login' = "ok" /\ valid' = TRUE /\ UNCHANGED faults
       \/ login' \in {"denied", "lost"} /\ Fault /\ UNCHANGED valid
    /\ UNCHANGED <<sessionExpired, me, meReq, fetched, write, logout, held, pending, attached, signedOut>>

\* login and onSignedIn: the flag comes down and every query in the cache is invalidated; the
\* form stays disabled, as it is about to be replaced.
SignedIn ==
    /\ login = "ok"
    /\ UNCHANGED <<valid, me, fetched, write, logout, held, attached, faults>>
    /\ login' = "idle"
    /\ sessionExpired' = FALSE
    /\ signedOut' = FALSE
    /\ meReq' = IF attached THEN "sent" ELSE meReq
    /\ pending' = (pending /\ loginForm')

Refused ==
    /\ login \in {"denied", "lost"}
    /\ login' = "idle" /\ pending' = FALSE
    /\ UNCHANGED <<valid, sessionExpired, me, meReq, fetched, write, logout, held, attached,
                   signedOut, faults>>

-----------------------------------------------------------------------------
(* Signing out. *)

SignOut ==
    /\ console /\ me = "in" /\ logout = "idle"
    /\ logout' = "sent"
    /\ UNCHANGED <<valid, sessionExpired, me, meReq, fetched, write, login, held, pending,
                   attached, signedOut, faults>>

LogoutAnswered ==
    /\ logout = "sent"
    /\ \/ valid' = FALSE /\ UNCHANGED faults
       \/ UNCHANGED valid /\ Fault
    /\ logout' = "answered"
    /\ UNCHANGED <<sessionExpired, me, meReq, fetched, write, login, held, pending, attached, signedOut>>

\* Mutant: the lock is left to the next answer of the guard.
leftToTheGuard == sessionExpired

locks == TRUE

\* logout returns whatever came of the POST, locks the console, and signOut clears: what is in
\* flight is cancelled; whether the session query is found again is the library's affair.
LogoutReturns ==
    /\ logout = "answered"
    /\ logout' = "idle"
    /\ sessionExpired' = locks
    /\ cache' = FALSE /\ keys' = FALSE /\ revealed' = FALSE
    /\ fetched' = [f \in Fetch |-> [fetched[f] EXCEPT !.live = FALSE]]
    /\ meReq' = "idle"
    /\ attached' \in BOOLEAN
    /\ signedOut' = TRUE
    /\ UNCHANGED <<valid, me, write, login, pending, faults>>

-----------------------------------------------------------------------------
\* The session lapses, or is revoked.
Lapse ==
    /\ valid /\ Fault
    /\ valid' = FALSE
    /\ UNCHANGED <<sessionExpired, me, requests, held, pending, attached, signedOut>>

\* The page is loaded again: sessionStorage, and so the keys, stay.
Reload ==
    /\ Fault
    /\ sessionExpired' = FALSE
    /\ me' = "none" /\ meReq' = "sent"
    /\ fetched' = NoFetch /\ write' = "idle" /\ login' = "idle" /\ logout' = "idle"
    /\ cache' = FALSE /\ revealed' = FALSE
    /\ pending' = FALSE /\ attached' = TRUE /\ signedOut' = FALSE
    /\ UNCHANGED <<valid, keys>>

MeStep == MeAnswered \/ MeLands
FormStep == Submit \/ LoginAnswered \/ SignedIn \/ Refused
WriteStep == RotateAnswered \/ RotateLands
SignOutStep == LogoutAnswered \/ LogoutReturns

Next ==
    \/ \E f \in Fetch : Read(f) \/ ReadAnswered(f) \/ ReadLands(f)
    \/ Rotate \/ WriteStep \/ Dismiss \/ HoldKey
    \/ RefetchMe \/ MeStep \/ FormStep \/ SignOut \/ SignOutStep \/ Lapse \/ Reload

Spec == Init /\ [][Next]_vars

-----------------------------------------------------------------------------
\* A browser whose operator has signed out holds nothing of the session, whatever was in
\* flight when it ended: no merchant's data, no API key, no credential on screen.
SignedOutIsClean == signedOut => ~cache /\ ~keys /\ ~revealed

=============================================================================
