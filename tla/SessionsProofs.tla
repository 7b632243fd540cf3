--------------------------- MODULE SessionsProofs ---------------------------
(***************************************************************************)
(* ConsoleSessions for any logins, requests, processes, passwords and      *)
(* lifetimes, as the instance Sessions of MCOffice: what ends a session    *)
(* ends it for good.                                                       *)
(***************************************************************************)
EXTENDS MCOffice, TLAPS

BootType == [pc : {"down", "read", "reset", "up"}, seen : Sessions!User, reset : Nat]
LoginType == [pc : {"unused", "tried", "wrong", "right", "done"}, at : 0..MaxTime]
CookieType == [pc : {"idle", "slide", "reject", "revoke"}, token : Token, expiry : Nat \cup {Sessions!None}]
ThrottleType == [failures : 0..MaxFailures, resetAt : Int]
Expiry == 0..(MaxTime + SessionTtl) \cup {Sessions!None}

\* The operator's row is never deleted.
SeenStays == \A b \in Boot : boot[b].seen # Sessions!NoUser => user # Sessions!NoUser

\* A token is that of one login, and of no other once that has opened its session.
Spent == \A t \in Token : Sessions!Live(t) \/ t \in ended => login[t].pc = "done"

\* No reset has deleted sessions before it was made.
Counted == revoked <= rotations /\ \A b \in Boot : boot[b].reset <= rotations

SessionsInv == Sessions!TypeOK /\ SeenStays /\ Spent /\ Counted /\ Sessions!RevokedStaysRevoked

-----------------------------------------------------------------------------
LEMMA SessionsNumbers ==
    ASSUME Sessions!SNumbers
    PROVE  /\ SessionTtl \in Nat /\ MaxFailures \in Nat /\ Window \in Nat /\ MaxTime \in Nat /\ MaxFaults \in Nat
           /\ configured \in [Boot -> Password] /\ Token # {} /\ MaxFailures > 0
           /\ Sessions!None \notin Password
BY DEF Sessions!SNumbers

LEMMA SessionsTypes ==
    Sessions!TypeOK <=> /\ now \in 0..MaxTime /\ user \in Sessions!User
               /\ session \in [Token -> Expiry] /\ boot \in [Boot -> BootType]
               /\ login \in [Token -> LoginType] /\ request \in [Cookie -> CookieType]
               /\ throttle \in ThrottleType
               /\ rotations \in Nat /\ revoked \in Nat
               /\ opened \in [Token -> Nat] /\ ended \subseteq Token /\ faults \in Nat
BY DEF Sessions!TypeOK, BootType, LoginType, CookieType, ThrottleType, Expiry

LEMMA SessionsTypesNext ==
    Sessions!TypeOK' <=> /\ now' \in 0..MaxTime /\ user' \in Sessions!User
                /\ session' \in [Token -> Expiry] /\ boot' \in [Boot -> BootType]
                /\ login' \in [Token -> LoginType] /\ request' \in [Cookie -> CookieType]
                /\ throttle' \in ThrottleType
                /\ rotations' \in Nat /\ revoked' \in Nat
                /\ opened' \in [Token -> Nat] /\ ended' \subseteq Token /\ faults' \in Nat
BY DEF Sessions!TypeOK, BootType, LoginType, CookieType, ThrottleType, Expiry

LEMMA Idles ==
    ASSUME Sessions!SNumbers
    PROVE  /\ Sessions!NoUser \in Sessions!User /\ Sessions!IdleBoot \in BootType /\ Sessions!IdleRequest \in CookieType
           /\ \A pc \in {"unused", "tried", "right", "done"}, at \in 0..MaxTime :
                 Sessions!Login(pc, at) \in LoginType /\ Sessions!Login(pc, at).pc = pc
           /\ 0 \in 0..MaxTime
BY SessionsNumbers DEF Sessions!NoUser, Sessions!User, Sessions!IdleBoot, BootType,
                       Sessions!IdleRequest, CookieType, Sessions!Login, LoginType

LEMMA SessionsInit == ASSUME Sessions!SNumbers, Sessions!Init PROVE SessionsInv
<1>2. /\ session \in [Token -> Expiry] /\ boot \in [Boot -> BootType]
      /\ login \in [Token -> LoginType] /\ request \in [Cookie -> CookieType]
      /\ throttle \in ThrottleType /\ opened \in [Token -> Nat] /\ now \in 0..MaxTime /\ user \in Sessions!User
    BY Idles, SessionsNumbers DEF Sessions!Init, Expiry, ThrottleType
<1>3. Sessions!TypeOK
    BY <1>2, SessionsTypes DEF Sessions!Init
<1>4. \A b \in Boot : boot[b].seen = Sessions!NoUser /\ boot[b].reset = 0
    BY DEF Sessions!Init, Sessions!IdleBoot
<1>5. \A t \in Token : ~Sessions!Live(t)
    BY DEF Sessions!Init, Sessions!Live
<1> QED
    BY <1>3, <1>4, <1>5 DEF Sessions!Init, SessionsInv, SeenStays, Spent, Counted,
                            Sessions!RevokedStaysRevoked

\* Steps that open no session: those that are live were, and those that end are dead.
Closing ==
    /\ \A t \in Token : Sessions!Live(t)' => Sessions!Live(t) /\ t \notin ended' \ ended
    /\ \A t \in ended' : t \in ended \/ Sessions!Live(t)
    /\ \A t \in Token : login[t].pc = "done" => login'[t].pc = "done"
    /\ UNCHANGED <<rotations, revoked, opened>>
    /\ \A b \in Boot : boot'[b].reset = boot[b].reset

LEMMA ClosingKeeps ==
    ASSUME SessionsInv, Sessions!TypeOK', Closing
    PROVE  Spent' /\ Counted' /\ Sessions!RevokedStaysRevoked'
<1>1. Spent'
    <2>1. SUFFICES ASSUME NEW t \in Token, Sessions!Live(t)' \/ t \in ended' PROVE login'[t].pc = "done"
        BY DEF Spent
    <2>2. Sessions!Live(t) \/ t \in ended
        BY <2>1 DEF Closing
    <2> QED
        BY <2>2 DEF SessionsInv, Spent, Closing
<1>2. Counted'
    BY DEF SessionsInv, Counted, Closing
<1>3. Sessions!RevokedStaysRevoked'
    <2>1. SUFFICES ASSUME NEW t \in Token, Sessions!Live(t)' PROVE t \notin ended' /\ opened'[t] >= revoked'
        BY DEF Sessions!RevokedStaysRevoked
    <2>2. Sessions!Live(t) /\ t \notin ended' \ ended
        BY <2>1 DEF Closing
    <2> QED
        BY <2>2 DEF SessionsInv, Sessions!RevokedStaysRevoked, Closing
<1> QED
    BY <1>1, <1>2, <1>3

\* Delete(T) ends what was live in T, and nothing else.
LEMMA Deleted ==
    ASSUME SessionsInv, NEW T, T \subseteq Token, Sessions!Delete(T)
    PROVE  /\ session' \in [Token -> Expiry] /\ ended' \subseteq Token
           /\ \A t \in Token : Sessions!Live(t)' => Sessions!Live(t) /\ t \notin T /\ t \notin ended' \ ended
           /\ \A t \in ended' : t \in ended \/ Sessions!Live(t)
<1>1. session \in [Token -> Expiry] /\ ended \subseteq Token
    BY SessionsTypes DEF SessionsInv
<1>2. session' = [t \in Token |-> IF t \in T THEN Sessions!None ELSE session[t]]
      /\ ended' = ended \cup {t \in T : Sessions!Live(t)}
    BY DEF Sessions!Delete
<1>3. session' \in [Token -> Expiry] /\ ended' \subseteq Token
    BY <1>1, <1>2 DEF Expiry
<1>4. \A t \in Token : Sessions!Live(t)' => Sessions!Live(t) /\ t \notin T
    BY <1>2 DEF Sessions!Live
<1> QED
    BY <1>2, <1>3, <1>4

-----------------------------------------------------------------------------
LEMMA BootStep ==
    ASSUME Sessions!SNumbers, SessionsInv, NEW b \in Boot,
           Sessions!ReadOperator(b) \/ Sessions!CreateOperator(b) \/ Sessions!ResetPassword(b) \/ Sessions!RevokeSessions(b)
             \/ Sessions!Reactivate(b) \/ Sessions!BootFails(b)
    PROVE  SessionsInv'
<1>1. /\ boot \in [Boot -> BootType] /\ user \in Sessions!User /\ rotations \in Nat /\ revoked \in Nat
      /\ boot[b] \in BootType /\ configured[b] \in Password /\ faults \in Nat
      /\ Sessions!NoUser \in Sessions!User
    BY SessionsTypes, Idles, SessionsNumbers DEF SessionsInv
<1>2. CASE Sessions!ReadOperator(b)
    <2>1. boot' = [boot EXCEPT ![b].pc = "read", ![b].seen = user]
        BY <1>2 DEF Sessions!ReadOperator
    <2>2. /\ boot' \in [Boot -> BootType] /\ \A c \in Boot : boot'[c].reset = boot[c].reset
          /\ \A c \in Boot : boot'[c].seen = IF c = b THEN user ELSE boot[c].seen
        BY <1>1, <2>1 DEF BootType
    <2>3. Sessions!TypeOK' /\ SeenStays'
        BY <1>2, <2>2, SessionsTypes, SessionsTypesNext DEF Sessions!ReadOperator,
                                                            Sessions!history, SessionsInv,
                                                            SeenStays
    <2>4. Closing
        BY <1>2, <2>2 DEF Sessions!ReadOperator, Sessions!history, Closing, Sessions!Live
    <2> QED
        BY <2>3, <2>4, ClosingKeeps DEF SessionsInv
<1>3. CASE Sessions!CreateOperator(b) \/ Sessions!Reactivate(b) \/ Sessions!BootFails(b)
    <2>1. boot' = [boot EXCEPT ![b].pc = "up"]
        BY <1>3 DEF Sessions!CreateOperator, Sessions!Reactivate, Sessions!BootFails
    <2>2. /\ boot' \in [Boot -> BootType] /\ \A c \in Boot : boot'[c].reset = boot[c].reset
          /\ \A c \in Boot : boot'[c].seen = boot[c].seen
        BY <1>1, <2>1 DEF BootType
    <2>3. user' \in Sessions!User /\ (user # Sessions!NoUser => user' # Sessions!NoUser)
        <3>1. CASE Sessions!CreateOperator(b)
            BY <1>1, <3>1 DEF Sessions!CreateOperator, Sessions!User
        <3>2. CASE Sessions!Reactivate(b)
            <4>1. user \in [password : Password, active : BOOLEAN]
                BY <1>1, <3>2 DEF Sessions!Reactivate, SessionsInv, SeenStays, Sessions!User
            <4>2. [user EXCEPT !.active = TRUE] \in [password : Password, active : BOOLEAN]
                BY <4>1
            <4>3. [user EXCEPT !.active = TRUE] # Sessions!NoUser
                BY <4>1 DEF Sessions!NoUser
            <4> QED
                BY <1>1, <3>2, <4>2, <4>3 DEF Sessions!Reactivate, Sessions!User
        <3>3. CASE Sessions!BootFails(b)
            BY <1>1, <3>3 DEF Sessions!BootFails
        <3> QED
            BY <1>3, <3>1, <3>2, <3>3
    <2>4. faults' \in Nat /\ UNCHANGED <<now, session, login, request, throttle, Sessions!history>>
        BY <1>1, <1>3 DEF Sessions!CreateOperator, Sessions!Reactivate, Sessions!BootFails,
                          Sessions!Fault
    <2>5. Sessions!TypeOK' /\ SeenStays'
        BY <2>2, <2>3, <2>4, SessionsTypes, SessionsTypesNext
           DEF Sessions!history, SessionsInv, SeenStays
    <2>6. Closing
        BY <2>2, <2>4 DEF Sessions!history, Closing, Sessions!Live
    <2> QED
        BY <2>5, <2>6, ClosingKeeps DEF SessionsInv
<1>4. CASE Sessions!ResetPassword(b)
    <2>1. /\ boot' = [boot EXCEPT ![b].pc = "reset", ![b].reset = rotations + 1]
          /\ user' = [user EXCEPT !.password = configured[b]]
          /\ rotations' = rotations + 1
          /\ UNCHANGED <<now, session, login, request, throttle, revoked, opened, ended, faults>>
        BY <1>4 DEF Sessions!ResetPassword
    <2>2. /\ boot' \in [Boot -> BootType]
          /\ \A c \in Boot : boot'[c].seen = boot[c].seen
                             /\ boot'[c].reset = IF c = b THEN rotations + 1 ELSE boot[c].reset
        <3> DEFINE n == rotations + 1
        <3>1. n \in Nat /\ boot' = [boot EXCEPT ![b].pc = "reset", ![b].reset = n]
            BY <1>1, <2>1
        <3> HIDE DEF n
        <3>2. /\ boot' \in [Boot -> BootType]
              /\ \A c \in Boot : boot'[c].seen = boot[c].seen
                                  /\ boot'[c].reset = IF c = b THEN n ELSE boot[c].reset
            BY <1>1, <3>1 DEF BootType
        <3> QED
            BY <3>2 DEF n
    <2>3. user' \in [password : Password, active : BOOLEAN] /\ user' # Sessions!NoUser
        <3>1. user \in [password : Password, active : BOOLEAN]
            BY <1>1, <1>4 DEF Sessions!ResetPassword, SessionsInv, SeenStays, Sessions!User
        <3>2. user # Sessions!NoUser
            BY <1>1, <1>4 DEF Sessions!ResetPassword, SessionsInv, SeenStays
        <3> QED
            BY <1>1, <2>1, <3>1, <3>2, SessionsNumbers DEF Sessions!NoUser
    <2>4. Sessions!TypeOK'
        BY <1>1, <2>1, <2>2, <2>3, SessionsTypes, SessionsTypesNext
           DEF SessionsInv, Sessions!User
    <2>5. SeenStays'
        BY <2>3 DEF SeenStays
    <2>6. Spent' /\ Sessions!RevokedStaysRevoked'
        BY <2>1 DEF SessionsInv, Spent, Sessions!RevokedStaysRevoked, Sessions!Live
    <2>7. Counted'
        <3>1. \A c \in Boot : boot[c].reset \in Nat
            BY <1>1 DEF BootType
        <3> QED
            BY <1>1, <2>1, <2>2, <3>1 DEF SessionsInv, Counted
    <2> QED
        BY <2>4, <2>5, <2>6, <2>7 DEF SessionsInv
<1>5. CASE Sessions!RevokeSessions(b)
    <2>1. /\ Sessions!Delete(Sessions!ofTheOperator)
          /\ revoked' = IF boot[b].reset > revoked THEN boot[b].reset ELSE revoked
          /\ boot' = [boot EXCEPT ![b].pc = "up"]
          /\ UNCHANGED <<now, user, login, request, throttle, rotations, opened, faults>>
        BY <1>5 DEF Sessions!RevokeSessions
    <2>2. /\ boot' \in [Boot -> BootType] /\ boot[b].reset \in Nat
          /\ \A c \in Boot : boot'[c].seen = boot[c].seen /\ boot'[c].reset = boot[c].reset
        BY <1>1, <2>1 DEF BootType
    <2>3. /\ session' \in [Token -> Expiry] /\ ended' \subseteq Token
          /\ \A t \in Token : Sessions!Live(t)' => Sessions!Live(t) /\ t \notin Sessions!ofTheOperator
          /\ \A t \in ended' : t \in ended \/ Sessions!Live(t)
        BY <2>1, Deleted DEF Sessions!ofTheOperator
    <2>4. Sessions!TypeOK' /\ SeenStays'
        BY <1>1, <2>1, <2>2, <2>3, SessionsTypes, SessionsTypesNext
           DEF SessionsInv, SeenStays
    <2>5. \A t \in Token : ~Sessions!Live(t)'
        BY <2>3 DEF Sessions!ofTheOperator
    <2>6. Spent' /\ Sessions!RevokedStaysRevoked'
        BY <2>1, <2>3, <2>5 DEF SessionsInv, Spent, Sessions!RevokedStaysRevoked
    <2>7. Counted'
        BY <1>1, <2>1, <2>2 DEF SessionsInv, Counted
    <2> QED
        BY <2>4, <2>6, <2>7 DEF SessionsInv
<1> QED
    BY <1>2, <1>3, <1>4, <1>5

LEMMA LoginStep ==
    ASSUME Sessions!SNumbers, SessionsInv, NEW t \in Token,
           Sessions!TryLogin(t) \/ Sessions!authenticate(t) \/ Sessions!recordFailure(t) \/ Sessions!createSession(t)
    PROVE  SessionsInv'
<1>1. /\ login \in [Token -> LoginType] /\ login[t] \in LoginType /\ throttle \in ThrottleType
      /\ now \in 0..MaxTime /\ now \in Nat /\ login[t].at \in 0..MaxTime
    BY SessionsTypes, SessionsNumbers DEF SessionsInv, LoginType
<1>2. ASSUME login[t].pc # "done", NEW l \in LoginType, login' = [login EXCEPT ![t] = l],
             throttle' \in ThrottleType,
             UNCHANGED <<now, user, session, boot, request, Sessions!history, faults>>
      PROVE  SessionsInv'
    <2>1. Sessions!TypeOK' /\ SeenStays'
        BY <1>1, <1>2, SessionsTypes, SessionsTypesNext DEF SessionsInv, SeenStays,
                                                            Sessions!history
    <2>2. Closing
        BY <1>1, <1>2 DEF Closing, Sessions!history, Sessions!Live
    <2> QED
        BY <2>1, <2>2, ClosingKeeps DEF SessionsInv
<1>3. CASE Sessions!TryLogin(t)
    BY <1>1, <1>2, <1>3, Idles DEF Sessions!TryLogin
<1>4. CASE Sessions!authenticate(t)
    <2>1. PICK password \in Password :
             login' = [login EXCEPT ![t] = IF user.password = password /\ user.active
                                           THEN Sessions!Login("right", 0) ELSE [@ EXCEPT !.pc = "wrong"]]
        BY <1>4 DEF Sessions!authenticate
    <2>2. [login[t] EXCEPT !.pc = "wrong"] \in LoginType /\ Sessions!Login("right", 0) \in LoginType
        BY <1>1, Idles DEF LoginType
    <2>3. PICK l \in LoginType : login' = [login EXCEPT ![t] = l]
        BY <1>1, <2>1, <2>2
    <2> QED
        BY <1>1, <1>2, <1>4, <2>3 DEF Sessions!authenticate
<1>5. CASE Sessions!recordFailure(t)
    <2>1. throttle' \in ThrottleType
        BY <1>1, <1>5, SessionsNumbers DEF Sessions!recordFailure, ThrottleType
    <2> QED
        BY <1>2, <1>5, <2>1, Idles DEF Sessions!recordFailure
<1>6. CASE Sessions!createSession(t)
    <2>1. /\ login[t].pc = "right" /\ login' = [login EXCEPT ![t] = Sessions!Login("done", 0)]
          /\ session' = [session EXCEPT ![t] = now + SessionTtl]
          /\ opened' = [opened EXCEPT ![t] = rotations]
          /\ throttle' = [failures |-> 0, resetAt |-> 0]
          /\ UNCHANGED <<now, user, boot, request, rotations, revoked, ended, faults>>
        BY <1>6 DEF Sessions!createSession
    <2>2. now + SessionTtl \in Expiry /\ throttle' \in ThrottleType /\ Sessions!Login("done", 0) \in LoginType
          /\ Sessions!Login("done", 0).pc = "done"
        BY <1>1, <2>1, SessionsNumbers, Idles DEF Expiry, ThrottleType
    <2>3. session \in [Token -> Expiry] /\ opened \in [Token -> Nat] /\ rotations \in Nat /\ revoked \in Nat
        BY SessionsTypes DEF SessionsInv
    <2>4. Sessions!TypeOK' /\ SeenStays'
        <3>1. session' \in [Token -> Expiry] /\ opened' \in [Token -> Nat] /\ login' \in [Token -> LoginType]
            BY <1>1, <2>1, <2>2, <2>3
        <3> QED
            BY <2>1, <2>2, <3>1, SessionsTypes, SessionsTypesNext DEF SessionsInv, SeenStays
    <2>5. ~Sessions!Live(t) /\ t \notin ended /\ revoked <= rotations
        BY <2>1 DEF SessionsInv, Spent, Counted
    <2>6. \A u \in Token \ {t} : /\ Sessions!Live(u)' <=> Sessions!Live(u)
                                 /\ opened'[u] = opened[u] /\ login'[u] = login[u]
        BY <1>1, <2>1, <2>3 DEF Sessions!Live
    <2>7. opened'[t] = rotations /\ login'[t].pc = "done"
        BY <1>1, <2>1, <2>2, <2>3
    <2>8. Spent'
        BY <2>1, <2>6, <2>7 DEF SessionsInv, Spent
    <2>9. Sessions!RevokedStaysRevoked'
        BY <2>1, <2>3, <2>5, <2>6, <2>7 DEF SessionsInv, Sessions!RevokedStaysRevoked
    <2>10. Counted'
        BY <2>1 DEF SessionsInv, Counted
    <2> QED
        BY <2>4, <2>8, <2>9, <2>10 DEF SessionsInv
<1> QED
    BY <1>3, <1>4, <1>5, <1>6

LEMMA SweepExpiredStep ==
    ASSUME Sessions!SNumbers, SessionsInv, Sessions!sweepExpiredSessions
    PROVE  SessionsInv'
<1>1. /\ Sessions!Delete({t \in Token : Sessions!Live(t) /\ session[t] < now})
      /\ UNCHANGED <<now, user, boot, login, request, throttle, rotations, revoked, opened, faults>>
    BY DEF Sessions!sweepExpiredSessions
<1>2. /\ session' \in [Token -> Expiry] /\ ended' \subseteq Token
      /\ \A t \in Token : Sessions!Live(t)' => Sessions!Live(t) /\ t \notin ended' \ ended
      /\ \A t \in ended' : t \in ended \/ Sessions!Live(t)
    <2>1. {t \in Token : Sessions!Live(t) /\ session[t] < now} \subseteq Token
        OBVIOUS
    <2> QED
        BY <1>1, <2>1, Deleted
<1>3. Sessions!TypeOK' /\ SeenStays'
    BY <1>1, <1>2, SessionsTypes, SessionsTypesNext DEF SessionsInv, SeenStays
<1>4. Closing
    BY <1>1, <1>2 DEF Closing
<1> QED
    BY <1>3, <1>4, ClosingKeeps DEF SessionsInv

LEMMA RequestStep ==
    ASSUME Sessions!SNumbers, SessionsInv, NEW r \in Cookie,
           Sessions!Slide(r) \/ Sessions!RevokeOne(r) \/ \E t \in Token : Sessions!resolveSession(r, t)
    PROVE  SessionsInv'
<1>1. /\ request \in [Cookie -> CookieType] /\ request[r] \in CookieType /\ request[r].token \in Token
      /\ session \in [Token -> Expiry] /\ now \in 0..MaxTime
    BY SessionsTypes DEF SessionsInv, CookieType
<1>2. CASE \E t \in Token : Sessions!resolveSession(r, t)
    <2>1. PICK t \in Token : Sessions!resolveSession(r, t)
        BY <1>2
    <2>2. [pc |-> IF user.active THEN "slide" ELSE "reject", token |-> t, expiry |-> session[t]]
             \in CookieType
        <3>1. session[t] \in Nat
            BY <1>1, <2>1, SessionsNumbers DEF Sessions!resolveSession, Sessions!Live,
                                               Expiry
        <3> QED
            BY <3>1 DEF CookieType
    <2>3. request' \in [Cookie -> CookieType]
          /\ UNCHANGED <<now, user, session, boot, login, throttle, Sessions!history, faults>>
        BY <1>1, <2>1, <2>2 DEF Sessions!resolveSession
    <2>4. Sessions!TypeOK' /\ SeenStays'
        BY <2>3, SessionsTypes, SessionsTypesNext DEF SessionsInv, SeenStays,
                                                      Sessions!history
    <2>5. Closing
        BY <2>3 DEF Closing, Sessions!history, Sessions!Live
    <2> QED
        BY <2>4, <2>5, ClosingKeeps DEF SessionsInv
<1>3. CASE Sessions!Slide(r)
    <2> DEFINE t == request[r].token
    <2>1. /\ session' = session \/ session' = Sessions!slid(t)
          /\ \/ request' = [request EXCEPT ![r] = Sessions!IdleRequest]
             \/ request' = [request EXCEPT ![r].pc = "revoke", ![r].expiry = Sessions!None]
          /\ UNCHANGED <<now, user, boot, login, throttle, Sessions!history, faults>>
        BY <1>3 DEF Sessions!Slide
    <2>2. request' \in [Cookie -> CookieType]
        BY <1>1, <2>1, Idles DEF CookieType
    <2>3. session' \in [Token -> Expiry] /\ \A u \in Token : Sessions!Live(u)' => Sessions!Live(u)
        BY <1>1, <2>1, SessionsNumbers DEF Sessions!slid, Sessions!Live, Expiry
    <2>4. Sessions!TypeOK' /\ SeenStays'
        BY <2>1, <2>2, <2>3, SessionsTypes, SessionsTypesNext
           DEF SessionsInv, SeenStays, Sessions!history
    <2>5. Closing
        BY <2>1, <2>3 DEF Closing, Sessions!history
    <2> QED
        BY <2>4, <2>5, ClosingKeeps DEF SessionsInv
<1>4. CASE Sessions!RevokeOne(r)
    <2>1. /\ Sessions!Delete({request[r].token}) /\ request' = [request EXCEPT ![r] = Sessions!IdleRequest]
          /\ UNCHANGED <<now, user, boot, login, throttle, rotations, revoked, opened, faults>>
        BY <1>4 DEF Sessions!RevokeOne
    <2>2. /\ session' \in [Token -> Expiry] /\ ended' \subseteq Token
          /\ \A t \in Token : Sessions!Live(t)' => Sessions!Live(t) /\ t \notin ended' \ ended
          /\ \A t \in ended' : t \in ended \/ Sessions!Live(t)
        <3>1. {request[r].token} \subseteq Token
            BY <1>1
        <3> QED
            BY <2>1, <3>1, Deleted
    <2>3. request' \in [Cookie -> CookieType]
        BY <1>1, <2>1, Idles
    <2>4. Sessions!TypeOK' /\ SeenStays'
        BY <2>1, <2>2, <2>3, SessionsTypes, SessionsTypesNext DEF SessionsInv, SeenStays
    <2>5. Closing
        BY <2>1, <2>2 DEF Closing
    <2> QED
        BY <2>4, <2>5, ClosingKeeps DEF SessionsInv
<1> QED
    BY <1>2, <1>3, <1>4

LEMMA SessionsOther ==
    ASSUME Sessions!SNumbers, SessionsInv, Sessions!Tick \/ Sessions!Deactivate \/ UNCHANGED Sessions!vars
    PROVE  SessionsInv'
<1>1. user' \in Sessions!User /\ (user # Sessions!NoUser => user' # Sessions!NoUser)
    <2>1. user \in Sessions!User
        BY SessionsTypes DEF SessionsInv
    <2>2. CASE Sessions!Deactivate
        <3>1. user \in [password : Password, active : BOOLEAN] /\ user # Sessions!NoUser
            BY <2>1, <2>2 DEF Sessions!Deactivate, Sessions!User
        <3>2. user' = [user EXCEPT !.active = FALSE]
            BY <2>2 DEF Sessions!Deactivate
        <3>3. user' \in [password : Password, active : BOOLEAN]
            BY <3>1, <3>2
        <3>4. user' # Sessions!NoUser
            BY <3>1, <3>2, SessionsNumbers DEF Sessions!NoUser
        <3> QED
            BY <3>3, <3>4 DEF Sessions!User
    <2> QED
        BY <2>1, <2>2 DEF Sessions!Tick, Sessions!vars
<1>2. now' \in 0..MaxTime /\ faults' \in Nat
    BY SessionsTypes, SessionsNumbers DEF SessionsInv, Sessions!Tick, Sessions!Deactivate,
                                          Sessions!Fault, Sessions!vars
<1>3. UNCHANGED <<session, boot, login, request, throttle, Sessions!history>>
    BY DEF Sessions!Tick, Sessions!Deactivate, Sessions!vars
<1>4. Sessions!TypeOK' /\ SeenStays'
    BY <1>1, <1>2, <1>3, SessionsTypes, SessionsTypesNext DEF SessionsInv, SeenStays,
                                                              Sessions!history
<1>5. Closing
    BY <1>3 DEF Closing, Sessions!history, Sessions!Live
<1> QED
    BY <1>4, <1>5, ClosingKeeps DEF SessionsInv

-----------------------------------------------------------------------------
\* Types, and what the property rests on, are kept by every step.
LEMMA SessionsStep ==
    ASSUME Sessions!SNumbers, SessionsInv, [Sessions!Next]_(Sessions!vars)
    PROVE  SessionsInv'
BY BootStep, LoginStep, SweepExpiredStep, RequestStep, SessionsOther DEF Sessions!Next

LEMMA SessionsHold == ASSUME Sessions!SNumbers PROVE Sessions!Spec => []SessionsInv
<1>1. Sessions!Init => SessionsInv
    BY SessionsInit
<1>2. SessionsInv /\ [Sessions!Next]_(Sessions!vars) => SessionsInv'
    BY SessionsStep
<1> QED
    BY <1>1, <1>2, PTL DEF Sessions!Spec

\* Rows, requests, logins and boots keep their types; the operator's row is never lost.
THEOREM SessionsTyped == ASSUME Sessions!SNumbers PROVE Sessions!Spec => []Sessions!TypeOK
<1>1. SessionsInv => Sessions!TypeOK
    BY DEF SessionsInv
<1> QED
    BY <1>1, SessionsHold, PTL

\* However many requests slide it forward, logins overlap it and processes start at once,
\* what a logout, an expiry, a deactivation or a rotated password has ended stays ended.
THEOREM EndedForGood == ASSUME Sessions!SNumbers PROVE Sessions!Spec => []Sessions!RevokedStaysRevoked
<1>1. SessionsInv => Sessions!RevokedStaysRevoked
    BY DEF SessionsInv
<1> QED
    BY <1>1, SessionsHold, PTL

=============================================================================
