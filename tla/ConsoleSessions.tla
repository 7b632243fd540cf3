-------------------------- MODULE ConsoleSessions --------------------------
(***************************************************************************)
(* Who is signed in to the console (services/admin-auth, api/admin-auth).  *)
(* A session is a row that requests slide forward and that a logout, its   *)
(* expiry, a deactivation or a rotated ADMIN_PASSWORD removes.  No two     *)
(* statements of a login, a request or a boot are one transaction.         *)
(***************************************************************************)
EXTENDS Integers, FiniteSets

CONSTANTS
    Token,       \* sessions that may be opened, one by each login
    Request,     \* requests with a session cookie in progress
    Boot,        \* processes that start, each with the ADMIN_PASSWORD it has
    Password,    \* values of ADMIN_PASSWORD
    configured,  \* the one a process has
    Ttl,         \* sessionTtlMs
    MaxFailures, Window, \* MAX_FAILURES, THROTTLE_WINDOW_MS
    MaxTime,     \* bound: the clock
    MaxFaults    \* bound: crashes and failed statements

None == -1

SNumbers ==
    /\ {Ttl, MaxFailures, Window, MaxTime, MaxFaults} \subseteq Nat
    /\ configured \in [Boot -> Password]
    /\ None \notin Password /\ Token # {} /\ MaxFailures > 0

VARIABLES
    now,
    user,        \* the operator's row
    session,     \* the expiry of each session's row, if it has one
    boot, login, request, \* what each has read, and where it is
    throttle,    \* the attempts entry of the address the logins come from
    rotations,   \* history: passwords reset so far
    revoked,     \* history: the last reset whose sessions have been deleted
    opened,      \* history: resets there had been when a session was inserted
    ended,       \* history: sessions whose row has been deleted
    faults

history == <<rotations, revoked, opened, ended>>
vars == <<now, user, session, boot, login, request, throttle, history, faults>>

NoUser == [password |-> None, active |-> FALSE]
User == [password : Password, active : BOOLEAN] \cup {NoUser}
IdleBoot == [pc |-> "down", seen |-> NoUser, reset |-> 0]
IdleRequest == [pc |-> "idle", token |-> CHOOSE t \in Token : TRUE, expiry |-> None]
Login(pc, at) == [pc |-> pc, at |-> at]

TypeOK ==
    /\ now \in 0..MaxTime
    /\ user \in User
    /\ session \in [Token -> 0..(MaxTime + Ttl) \cup {None}]
    /\ boot \in [Boot -> [pc : {"down", "read", "reset", "up"}, seen : User, reset : Nat]]
    /\ login \in [Token -> [pc : {"unused", "tried", "wrong", "right", "done"}, at : 0..MaxTime]]
    /\ request \in [Request -> [pc : {"idle", "slide", "reject", "revoke"}, token : Token,
                                expiry : Nat \cup {None}]]
    /\ throttle \in [failures : 0..MaxFailures, resetAt : Int]
    /\ rotations \in Nat /\ revoked \in Nat
    /\ opened \in [Token -> Nat] /\ ended \subseteq Token
    /\ faults \in Nat

Init ==
    /\ now = 0
    /\ user = NoUser
    /\ session = [t \in Token |-> None]
    /\ boot = [b \in Boot |-> IdleBoot]
    /\ login = [t \in Token |-> Login("unused", 0)]
    /\ request = [r \in Request |-> IdleRequest]
    /\ throttle = [failures |-> 0, resetAt |-> 0]
    /\ rotations = 0 /\ revoked = 0
    /\ opened = [t \in Token |-> 0] /\ ended = {}
    /\ faults = 0

Tick ==
    /\ now < MaxTime
    /\ now' = now + 1
    /\ UNCHANGED <<user, session, boot, login, request, throttle, history, faults>>

Live(t) == session[t] # None
Delete(T) ==
    /\ session' = [t \in Token |-> IF t \in T THEN None ELSE session[t]]
    /\ ended' = ended \cup {t \in T : Live(t)}

-----------------------------------------------------------------------------
(* bootstrapOperator. *)

ReadOperator(b) ==
    /\ boot[b].pc = "down"
    /\ boot' = [boot EXCEPT ![b].pc = "read", ![b].seen = user]
    /\ UNCHANGED <<now, user, session, login, request, throttle, history, faults>>

\* No row: insert one, unless another process has.
CreateOperator(b) ==
    /\ boot[b].pc = "read" /\ boot[b].seen = NoUser
    /\ user' = IF user = NoUser THEN [password |-> configured[b], active |-> TRUE] ELSE user
    /\ boot' = [boot EXCEPT ![b].pc = "up"]
    /\ UNCHANGED <<now, session, login, request, throttle, history, faults>>

differs(b) == boot[b].seen.password # configured[b]

ResetPassword(b) ==
    /\ boot[b].pc = "read" /\ boot[b].seen # NoUser /\ differs(b)
    /\ user' = [user EXCEPT !.password = configured[b]]
    /\ rotations' = rotations + 1
    /\ boot' = [boot EXCEPT ![b].pc = "reset", ![b].reset = rotations + 1]
    /\ UNCHANGED <<now, session, login, request, throttle, revoked, opened, ended, faults>>

ofTheOperator == {t \in Token : Live(t)}

RevokeSessions(b) ==
    /\ boot[b].pc = "reset"
    /\ Delete(ofTheOperator)
    /\ revoked' = IF boot[b].reset > revoked THEN boot[b].reset ELSE revoked
    /\ boot' = [boot EXCEPT ![b].pc = "up"]
    /\ UNCHANGED <<now, user, login, request, throttle, rotations, opened, faults>>

Reactivate(b) ==
    /\ boot[b].pc = "read" /\ boot[b].seen # NoUser /\ ~differs(b)
    /\ user' = IF boot[b].seen.active THEN user ELSE [user EXCEPT !.active = TRUE]
    /\ boot' = [boot EXCEPT ![b].pc = "up"]
    /\ UNCHANGED <<now, session, login, request, throttle, history, faults>>

Fault == faults < MaxFaults /\ faults' = faults + 1

\* A statement fails, and the bootstrap is deferred; or the process dies, its map with it.
BootFails(b) ==
    /\ boot[b].pc \in {"read", "reset"}
    /\ Fault
    /\ boot' = [boot EXCEPT ![b].pc = "up"]
    /\ UNCHANGED <<now, user, session, login, request, throttle, history>>

\* Someone with the database at hand deactivates the operator.
Deactivate ==
    /\ user # NoUser /\ user.active
    /\ Fault
    /\ user' = [user EXCEPT !.active = FALSE]
    /\ UNCHANGED <<now, session, boot, login, request, throttle, history>>

-----------------------------------------------------------------------------
(* POST /login, by someone who knows any one of the passwords. *)

throttled == throttle.failures >= MaxFailures /\ throttle.resetAt > now

\* The throttle lets the attempt through; the time it was asked at is kept.
TryLogin(t) ==
    /\ login[t].pc = "unused"
    /\ ~throttled
    /\ login' = [login EXCEPT ![t] = Login("tried", now)]
    /\ UNCHANGED <<now, user, session, boot, request, throttle, history, faults>>

\* authenticate: the row is read, the password verified, the flag looked at.
authenticate(t) ==
    /\ login[t].pc = "tried"
    /\ \E password \in Password :
          login' = [login EXCEPT ![t] =
                       IF user.password = password /\ user.active
                       THEN Login("right", 0)
                       ELSE [@ EXCEPT !.pc = "wrong"]]
    /\ UNCHANGED <<now, user, session, boot, request, throttle, history, faults>>

recordFailure(t) ==
    /\ login[t].pc = "wrong"
    /\ throttle' = IF throttle.resetAt <= login[t].at
                   THEN [failures |-> 1, resetAt |-> login[t].at + Window]
                   ELSE [throttle EXCEPT !.failures = IF @ < MaxFailures THEN @ + 1 ELSE @]
    /\ login' = [login EXCEPT ![t] = Login("unused", 0)]
    /\ UNCHANGED <<now, user, session, boot, request, history, faults>>

\* clearFailures, and the insert of createSession.
createSession(t) ==
    /\ login[t].pc = "right"
    /\ throttle' = [failures |-> 0, resetAt |-> 0]
    /\ session' = [session EXCEPT ![t] = now + Ttl]
    /\ opened' = [opened EXCEPT ![t] = rotations]
    /\ login' = [login EXCEPT ![t] = Login("done", 0)]
    /\ UNCHANGED <<now, user, boot, request, rotations, revoked, ended, faults>>

\* Behind every login.
sweepExpiredSessions ==
    /\ \E t \in Token : login[t].pc = "done"
    /\ Delete({t \in Token : Live(t) /\ session[t] < now})
    /\ UNCHANGED <<now, user, boot, login, request, throttle, rotations, revoked, opened, faults>>

-----------------------------------------------------------------------------
(* A request with a cookie: the guard's resolveSession, and POST /logout behind it. *)

\* The row, if it has not expired, with the operator's flag.
resolveSession(r, t) ==
    /\ request[r].pc = "idle"
    /\ Live(t) /\ session[t] > now
    /\ request' = [request EXCEPT ![r] =
                      [pc |-> IF user.active THEN "slide" ELSE "reject", token |-> t,
                       expiry |-> session[t]]]
    /\ UNCHANGED <<now, user, session, boot, login, throttle, history, faults>>

\* Mutant: the row is written back whole.
slidUpsert(t) == [session EXCEPT ![t] = now + Ttl]

\* The update finds the row, or nothing.
slid(t) == [session EXCEPT ![t] = IF Live(t) THEN now + Ttl ELSE None]

\* Past half of its life the row is slid forward; then the request is served, or logs out.
Slide(r) ==
    LET t == request[r].token
    IN  /\ request[r].pc = "slide"
        /\ session' = IF 2 * (request[r].expiry - now) < Ttl THEN slid(t) ELSE session
        /\ \/ request' = [request EXCEPT ![r] = IdleRequest]
           \/ request' = [request EXCEPT ![r].pc = "revoke", ![r].expiry = None]
        /\ UNCHANGED <<now, user, boot, login, throttle, history, faults>>

\* The delete for a deactivated operator, and the one of revokeSession.
RevokeOne(r) ==
    /\ request[r].pc \in {"reject", "revoke"}
    /\ Delete({request[r].token})
    /\ request' = [request EXCEPT ![r] = IdleRequest]
    /\ UNCHANGED <<now, user, boot, login, throttle, rotations, revoked, opened, faults>>

-----------------------------------------------------------------------------
Next ==
    \/ Tick \/ Deactivate \/ sweepExpiredSessions
    \/ \E b \in Boot : \/ ReadOperator(b) \/ CreateOperator(b) \/ ResetPassword(b)
                       \/ RevokeSessions(b) \/ Reactivate(b) \/ BootFails(b)
    \/ \E t \in Token : TryLogin(t) \/ authenticate(t) \/ recordFailure(t) \/ createSession(t)
    \/ \E r \in Request : Slide(r) \/ RevokeOne(r) \/ \E t \in Token : resolveSession(r, t)

Spec == Init /\ [][Next]_vars

-----------------------------------------------------------------------------
\* A session that has been ended stays ended, whatever request still slides it forward;
\* and no session that was open when a password was reset outlives the bootstrap that
\* reset it, however logins and other bootstraps overlap.
RevokedStaysRevoked ==
    \A t \in Token : Live(t) => t \notin ended /\ opened[t] >= revoked

=============================================================================
