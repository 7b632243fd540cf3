---------------------------- MODULE ConsoleProofs ----------------------------
(***************************************************************************)
(* MerchantConsole for any requests, field values and lengths of the       *)
(* trail: whatever races, the audit trail accounts for the merchant's row. *)
(***************************************************************************)
EXTENDS MerchantConsole, TLAPS

Value == Url \cup BOOLEAN \cup Nat
Image == UNION {[S -> Value] : S \in SUBSET Field}
Action == {"create", "patch", "api-key", "webhook-secret", "deactivate", "delete", "audit", "denied"}
Entry == [action : Action, before : Image, after : Image]
Op == Mutation \cup Payment \cup {Route("none")}
RequestType == [pc : {"idle", "begun", "locked", "insert", "audit", "denied"}, op : Op,
                before : Row \cup {Absent}]

Typed ==
    /\ client \in Row \cup {Absent} /\ locked \subseteq Request
    /\ request \in [Request -> RequestType]
    /\ trail \in Seq(Entry) /\ payments \in Nat /\ faults \in Nat

\* One transaction at a time holds the row, and what it read under the lock is the row.
Held ==
    /\ \A r, q \in locked : r = q
    /\ \A r \in Request :
          /\ request[r].pc \in {"begun", "locked"} => request[r].op \in Mutation
          /\ request[r].pc = "locked" =>
                r \in locked /\ client # Absent /\ request[r].before = client

\* The parts of the property.
Chained(t) ==
    \A j \in DOMAIN t : \A f \in DOMAIN t[j].before : \A i \in 1..(j - 1) :
        (f \in DOMAIN t[i].after /\ \A k \in (i + 1)..(j - 1) : f \notin DOMAIN t[k].after)
            => t[j].before[f] = t[i].after[f]
Tells(t, row) ==
    \A i \in DOMAIN t, f \in Field :
        (f \in DOMAIN t[i].after /\ \A j \in DOMAIN t : j > i => f \notin DOMAIN t[j].after)
            => row[f] = t[i].after[f]

Inv == Typed /\ Held /\ Chained(trail) /\ (client # Absent => Tells(trail, client))

LEMMA Explained == TrailExplains <=> Chained(trail) /\ (client # Absent => Tells(trail, client))
BY DEF TrailExplains, Records, Last, Chained, Tells

-----------------------------------------------------------------------------
LEMMA Mutations ==
    ASSUME NEW op \in Mutation
    PROVE  \/ op.route = "patch" /\ op.field = "url" /\ op.value \in Url
           \/ op.route = "patch" /\ op.field = "active" /\ op.value \in BOOLEAN
           \/ op.route \in {"api-key", "webhook-secret", "deactivate", "delete"}
BY DEF Mutation, Patch, Route

LEMMA Nothing == nothing \in Image /\ DOMAIN nothing = {}
BY DEF nothing, Image

LEMMA Images ==
    ASSUME NEW op \in Mutation, NEW row \in Row \cup {Absent}
    PROVE  /\ image(op, row) \in Image
           /\ \A f \in DOMAIN image(op, row) : f \in Field /\ row # Absent /\ image(op, row)[f] = row[f]
<1> DEFINE told == CASE op.route = "patch" -> {"url", "active"}
                     [] op.route = "api-key" -> {"key"}
                     [] op.route = "deactivate" -> {"active"}
                     [] op.route = "delete" -> {"url"}
                     [] OTHER -> {}
           fields == {g \in told : row # Absent}
<1>1. fields \subseteq Field /\ (row = Absent => fields = {})
    <2>1. told \subseteq Field
        BY Mutations DEF Field
    <2> QED
        BY <2>1
<1>2. image(op, row) = [f \in fields |-> row[f]]
    BY DEF image
<1> HIDE DEF fields, told
<1>3. \A f \in fields : row[f] \in Value
    BY <1>1 DEF Field, Row, Value
<1>4. [f \in fields |-> row[f]] \in [fields -> Value]
    BY <1>3
<1> QED
    BY <1>1, <1>2, <1>4 DEF Image

\* A mutation changes no field that its audit row does not tell.
LEMMA Told ==
    ASSUME NEW op \in Mutation, client \in Row, client' = updated(op)
    PROVE  /\ client' \in Row \cup {Absent}
           /\ client' # Absent =>
                 \A f \in Field : f \in DOMAIN image(op, client') \/ client'[f] = client[f]
<1>1. CASE op.route = "patch" /\ op.field = "url" /\ op.value \in Url
    <2>1. client' = [client EXCEPT !.url = op.value]
        BY <1>1 DEF updated
    <2>2. client' # Absent => image(op, client') = [f \in {"url", "active"} |-> client'[f]]
        BY <1>1 DEF image
    <2> QED
        BY <1>1, <2>1, <2>2 DEF Row, Field
<1>2. CASE op.route = "patch" /\ op.field = "active" /\ op.value \in BOOLEAN
    <2>1. client' = [client EXCEPT !.active = op.value]
        BY <1>2 DEF updated
    <2>2. client' # Absent => image(op, client') = [f \in {"url", "active"} |-> client'[f]]
        BY <1>2 DEF image
    <2> QED
        BY <1>2, <2>1, <2>2 DEF Row, Field
<1>3. CASE op.route = "api-key"
    <2>1. client' = [client EXCEPT !.key = @ + 1]
        BY <1>3 DEF updated
    <2>2. client' # Absent => image(op, client') = [f \in {"key"} |-> client'[f]]
        BY <1>3 DEF image
    <2> QED
        BY <1>3, <2>1, <2>2 DEF Row, Field
<1>4. CASE op.route = "deactivate"
    <2>1. client' = [client EXCEPT !.active = FALSE]
        BY <1>4 DEF updated
    <2>2. client' # Absent => image(op, client') = [f \in {"active"} |-> client'[f]]
        BY <1>4 DEF image
    <2> QED
        BY <1>4, <2>1, <2>2 DEF Row, Field
<1>5. CASE op.route = "delete"
    BY <1>5 DEF updated
<1>6. CASE op.route = "webhook-secret"
    BY <1>6 DEF updated
<1> QED
    BY <1>1, <1>2, <1>3, <1>4, <1>5, <1>6, Mutations

\* A row of the trail that saw the state the others left, and whose own image is the new one.
LEMMA Appended ==
    ASSUME NEW t \in Seq(Entry), NEW e \in Entry, Chained(t), NEW old, NEW new,
           (\A f \in DOMAIN e.before : f \in Field) /\ (DOMAIN e.before # {} => Tells(t, old)),
           \A f \in DOMAIN e.before : e.before[f] = old[f]
    PROVE  /\ Append(t, e) \in Seq(Entry) /\ Chained(Append(t, e))
           /\ (/\ \A f \in DOMAIN e.after : e.after[f] = new[f]
               /\ t = <<>> \/ (/\ Tells(t, old)
                               /\ \A f \in Field : f \in DOMAIN e.after \/ new[f] = old[f]))
              => Tells(Append(t, e), new)
<1> DEFINE u == Append(t, e)
           n == Len(t)
<1>1. /\ u \in Seq(Entry) /\ n \in Nat /\ DOMAIN u = 1..(n + 1) /\ DOMAIN t = 1..n
      /\ u[n + 1] = e /\ \A i \in 1..n : u[i] = t[i]
    OBVIOUS
<1> HIDE DEF u, n
<1>2. Chained(u)
    <2>1. SUFFICES ASSUME NEW j \in DOMAIN u, NEW f \in DOMAIN u[j].before, NEW i \in 1..(j - 1),
                          f \in DOMAIN u[i].after,
                          \A k \in (i + 1)..(j - 1) : f \notin DOMAIN u[k].after
                   PROVE  u[j].before[f] = u[i].after[f]
        BY DEF Chained
    <2>2. j \in 1..(n + 1) /\ i \in 1..n /\ \A k \in 1..(j - 1) : k \in 1..n /\ u[k] = t[k]
        BY <1>1, <2>1
    <2>3. CASE j = n + 1
        <3>1. u[j] = e /\ f \in Field /\ Tells(t, old) /\ e.before[f] = old[f]
            BY <1>1, <2>1, <2>3
        <3>2. \A k \in DOMAIN t : k > i => f \notin DOMAIN t[k].after
            BY <1>1, <2>1, <2>2, <2>3
        <3>3. old[f] = t[i].after[f]
            BY <1>1, <2>1, <2>2, <3>1, <3>2 DEF Tells
        <3> QED
            BY <2>2, <3>1, <3>3
    <2>4. CASE j # n + 1
        <3>1. j \in DOMAIN t /\ u[j] = t[j]
            BY <1>1, <2>2, <2>4
        <3>2. \A k \in (i + 1)..(j - 1) : f \notin DOMAIN t[k].after
            BY <2>1, <2>2
        <3>3. f \in DOMAIN t[j].before /\ i \in 1..(j - 1) /\ f \in DOMAIN t[i].after /\ u[i] = t[i]
            BY <2>1, <2>2, <3>1
        <3>4. t[j].before[f] = t[i].after[f]
            BY <3>1, <3>2, <3>3 DEF Chained
        <3> QED
            BY <3>1, <3>3, <3>4
    <2> QED
        BY <2>3, <2>4
<1>3. ASSUME \A f \in DOMAIN e.after : e.after[f] = new[f],
             t = <<>> \/ (/\ Tells(t, old)
                          /\ \A f \in Field : f \in DOMAIN e.after \/ new[f] = old[f])
      PROVE  Tells(u, new)
    <2>1. SUFFICES ASSUME NEW i \in DOMAIN u, NEW f \in Field, f \in DOMAIN u[i].after,
                          \A j \in DOMAIN u : j > i => f \notin DOMAIN u[j].after
                   PROVE  new[f] = u[i].after[f]
        BY DEF Tells
    <2>2. CASE i = n + 1
        BY <1>1, <1>3, <2>1, <2>2
    <2>3. CASE i # n + 1
        <3>1. i \in DOMAIN t /\ u[i] = t[i] /\ f \notin DOMAIN e.after
            BY <1>1, <2>1, <2>3
        <3>2. t # <<>>
            BY <3>1
        <3>3. \A j \in DOMAIN t : j > i => f \notin DOMAIN t[j].after
            BY <1>1, <2>1
        <3>4. old[f] = t[i].after[f]
            BY <1>3, <2>1, <3>1, <3>2, <3>3 DEF Tells
        <3> QED
            BY <1>3, <3>1, <3>2, <3>4
    <2> QED
        BY <2>2, <2>3
<1> QED
    BY <1>1, <1>2, <1>3 DEF u

-----------------------------------------------------------------------------
LEMMA Ops ==
    /\ \A op \in Mutation : op.route \in Action
    /\ Idle \in RequestType /\ Mutation \subseteq Op /\ Payment \subseteq Op
    /\ Idle.pc = "idle"
BY DEF Op, Mutation, Patch, Payment, Route, Idle, RequestType, Action

LEMMA InitInv == ASSUME Init PROVE Inv
<1>1. Typed
    <2>1. client \in Row \cup {Absent}
        <3>1. client = Absent \/ client \in [url : Url, active : {TRUE}, key : {0}]
            BY DEF Init
        <3>2. ASSUME NEW row \in [url : Url, active : {TRUE}, key : {0}] PROVE row \in Row
            <4>1. row.active \in {TRUE} /\ row.key = 0 /\ row.url \in Url
                OBVIOUS
            <4>2. row = [url |-> row.url, active |-> row.active, key |-> row.key]
                OBVIOUS
            <4> QED
                <5>1. row.active \in BOOLEAN
                    <6>1. {TRUE} \subseteq BOOLEAN
                        OBVIOUS
                    <6> QED
                        BY <4>1, <6>1
                <5> QED
                    BY <4>1, <4>2, <5>1 DEF Row
        <3> QED
            BY <3>1, <3>2
    <2> QED
        BY <2>1, Ops DEF Init, Typed
<1>2. Held
    BY Ops DEF Init, Held
<1>3. Chained(trail) /\ Tells(trail, client)
    BY DEF Init, Chained, Tells
<1> QED
    BY <1>1, <1>2, <1>3 DEF Inv

\* One request goes on, and those that wait under the lock still do.
LEMMA Moved ==
    ASSUME Inv, NEW r \in Request, NEW q \in RequestType, request' = [request EXCEPT ![r] = q],
           q.pc \in {"begun", "locked"} => q.op \in Mutation
    PROVE  /\ request' \in [Request -> RequestType] /\ request'[r] = q
           /\ \A s \in Request \ {r} : request'[s] = request[s]
           /\ \A s \in Request : request'[s].pc \in {"begun", "locked"} => request'[s].op \in Mutation
BY DEF Inv, Typed, Held

\* A step that leaves the row alone, and takes no lock.
LEMMA QuietStep ==
    ASSUME Inv, NEW r \in Request, NEW q \in RequestType, request' = [request EXCEPT ![r] = q],
           q.pc \in {"begun", "locked"} => q.op \in Mutation, q.pc # "locked",
           locked' = locked \ {r} \/ (locked' = locked /\ request[r].pc # "locked"),
           client' = client, payments' \in Nat, faults' \in Nat,
           \/ trail' = trail
           \/ /\ request[r].pc \in Action
              /\ trail' = Append(trail, [action |-> request[r].pc, before |-> nothing, after |-> nothing])
    PROVE  Inv'
<1>1. Typed /\ Held /\ Chained(trail) /\ (client # Absent => Tells(trail, client))
    BY DEF Inv
<1>2. trail' \in Seq(Entry) /\ Chained(trail') /\ (client # Absent => Tells(trail', client))
    <2>1. CASE trail' = trail
        BY <1>1, <2>1 DEF Typed
    <2>2. CASE /\ request[r].pc \in Action
               /\ trail' = Append(trail, [action |-> request[r].pc, before |-> nothing, after |-> nothing])
        <3> DEFINE e == [action |-> request[r].pc, before |-> nothing, after |-> nothing]
        <3>2. e \in Entry /\ e.before = nothing /\ e.after = nothing
            BY <2>2, Nothing DEF Entry
        <3>3. trail \in Seq(Entry) /\ trail' = Append(trail, e)
            BY <1>1, <2>2 DEF Typed
        <3> HIDE DEF e
        <3>4. /\ \A f \in DOMAIN e.before : f \in Field
              /\ \A f \in DOMAIN e.before : e.before[f] = client[f]
              /\ \A f \in DOMAIN e.after : e.after[f] = client[f]
              /\ DOMAIN e.before = {}
            BY <3>2, Nothing
        <3>5. Append(trail, e) \in Seq(Entry) /\ Chained(Append(trail, e))
            BY <1>1, <3>2, <3>3, <3>4, Appended
        <3>6. ASSUME client # Absent PROVE Tells(Append(trail, e), client)
            BY <1>1, <3>2, <3>3, <3>4, <3>6, Appended
        <3> QED
            BY <3>3, <3>5, <3>6
    <2> QED
        BY <2>1, <2>2
<1>3. /\ request' \in [Request -> RequestType] /\ request'[r] = q
      /\ \A s \in Request \ {r} : request'[s] = request[s]
      /\ \A s \in Request : request'[s].pc \in {"begun", "locked"} => request'[s].op \in Mutation
    BY Moved
<1>4. Typed'
    BY <1>1, <1>2, <1>3 DEF Typed
<1>5. Held'
    BY <1>1, <1>3 DEF Held, Typed
<1> QED
    BY <1>2, <1>4, <1>5 DEF Inv, Chained, Tells

LEMMA LockStep == ASSUME Inv, NEW r \in Request, Lock(r) PROVE Inv'
<1>1. Typed /\ Held /\ request[r] \in RequestType /\ request[r].op \in Mutation /\ locked = {}
    BY DEF Inv, Typed, Lock, Held, free
<1>2. CASE client = Absent
    BY <1>1, <1>2, Ops, QuietStep DEF Lock, Ends, Typed
<1>3. CASE client # Absent
    <2> DEFINE q == [pc |-> "locked", op |-> request[r].op, before |-> client]
    <2>1. q \in RequestType /\ q.pc = "locked" /\ q.op \in Mutation /\ q.before = client
        BY <1>1 DEF Typed, RequestType
    <2>2. request' = [request EXCEPT ![r] = q]
        BY <1>1, <1>3 DEF Lock, Typed, RequestType
    <2>3. locked' = {r} /\ UNCHANGED <<client, trail, payments, faults>>
        BY <1>1, <1>3 DEF Lock
    <2> HIDE DEF q
    <2>4. /\ request' \in [Request -> RequestType] /\ request'[r] = q
          /\ \A s \in Request \ {r} : request'[s] = request[s]
          /\ \A s \in Request : request'[s].pc \in {"begun", "locked"} => request'[s].op \in Mutation
        BY <2>1, <2>2, Moved
    <2>5. \A s \in Request \ {r} : request[s].pc # "locked"
        BY <1>1 DEF Held
    <2>6. Held'
        BY <1>3, <2>1, <2>3, <2>4, <2>5 DEF Held
    <2>7. Typed'
        BY <1>1, <2>3, <2>4 DEF Typed
    <2> QED
        BY <2>3, <2>6, <2>7 DEF Inv, Chained, Tells
<1> QED
    BY <1>2, <1>3

LEMMA CommitStep == ASSUME Inv, NEW r \in Request, Commit(r) PROVE Inv'
<1> DEFINE op == request[r].op
           e == [action |-> action(r), before |-> image(op, client), after |-> image(op, client')]
<1>1. /\ Typed /\ Held /\ Chained(trail) /\ op \in Mutation
      /\ r \in locked /\ client # Absent /\ request[r].before = client
      /\ client \in Row /\ Tells(trail, client) /\ trail \in Seq(Entry)
    BY DEF Inv, Commit, Held, Typed
<1>2. /\ client' = updated(op) /\ trail' = Append(trail, e)
      /\ locked' = locked \ {r} /\ request' = [request EXCEPT ![r] = Idle]
      /\ UNCHANGED <<payments, faults>>
    BY <1>1 DEF Commit, recordAudit, Ends
<1>3. /\ client' \in Row \cup {Absent}
      /\ client' # Absent =>
            \A f \in Field : f \in DOMAIN image(op, client') \/ client'[f] = client[f]
    BY <1>1, <1>2, Told
<1>4. /\ image(op, client) \in Image /\ image(op, client') \in Image
      /\ \A f \in DOMAIN image(op, client) : f \in Field /\ image(op, client)[f] = client[f]
      /\ \A f \in DOMAIN image(op, client') : image(op, client')[f] = client'[f]
    BY <1>1, <1>3, Images
<1>5. action(r) \in Action
    BY <1>1, Ops DEF action, Action
<1>6. e \in Entry /\ e.before = image(op, client) /\ e.after = image(op, client')
    BY <1>4, <1>5 DEF Entry
<1> HIDE DEF e
<1>7. trail' \in Seq(Entry) /\ Chained(trail') /\ (client' # Absent => Tells(trail', client'))
    <2>1. /\ \A f \in DOMAIN e.before : f \in Field
          /\ \A f \in DOMAIN e.before : e.before[f] = client[f]
          /\ \A f \in DOMAIN e.after : e.after[f] = client'[f]
        BY <1>4, <1>6
    <2>2. client' # Absent => \A f \in Field : f \in DOMAIN e.after \/ client'[f] = client[f]
        BY <1>3, <1>6
    <2>3. Append(trail, e) \in Seq(Entry) /\ Chained(Append(trail, e))
        BY <1>1, <1>6, <2>1, Appended
    <2>4. ASSUME client' # Absent PROVE Tells(Append(trail, e), client')
        BY <1>1, <1>6, <2>1, <2>2, <2>4, Appended
    <2> QED
        BY <1>2, <2>3, <2>4
<1>8. /\ request' \in [Request -> RequestType] /\ request'[r].pc = "idle"
      /\ \A s \in Request \ {r} : request'[s] = request[s]
      /\ \A s \in Request : request'[s].pc \in {"begun", "locked"} => request'[s].op \in Mutation
    BY <1>2, Ops, Moved
<1>9. Typed'
    BY <1>1, <1>2, <1>3, <1>7, <1>8 DEF Typed
<1>10. Held'
    BY <1>1, <1>2, <1>8 DEF Held, Typed
<1> QED
    BY <1>7, <1>9, <1>10 DEF Inv, Chained, Tells

LEMMA CreateStep == ASSUME Inv, NEW url \in Url, CreateMerchant(url) PROVE Inv'
<1> DEFINE new == [url |-> url, key |-> 1]
           e == [action |-> "create", before |-> nothing, after |-> new]
<1>1. /\ Typed /\ Held /\ Chained(trail) /\ client = Absent /\ trail = <<>>
      /\ client' = [url |-> url, active |-> TRUE, key |-> 1] /\ trail' = Append(trail, e)
      /\ UNCHANGED <<locked, request, payments, faults>>
    BY DEF Inv, CreateMerchant, recordAudit
<1>2. new \in Image /\ \A f \in DOMAIN new : new[f] = client'[f]
    <2>1. {"url", "key"} \subseteq Field /\ new \in [{"url", "key"} -> Value]
        BY DEF Field, Value
    <2> QED
        BY <1>1, <2>1 DEF Image
<1>3. e \in Entry /\ e.before = nothing /\ e.after = new
    BY <1>2, Nothing DEF Entry, Action
<1>4. client' \in Row /\ trail \in Seq(Entry)
    BY <1>1 DEF Row, Typed
<1> HIDE DEF e, new
<1>5. /\ \A f \in DOMAIN e.before : f \in Field
      /\ \A f \in DOMAIN e.before : e.before[f] = client[f]
      /\ DOMAIN e.before = {}
    BY <1>3, Nothing
<1>6. trail' \in Seq(Entry) /\ Chained(trail') /\ Tells(trail', client')
    BY <1>1, <1>2, <1>3, <1>4, <1>5, Appended
<1>7. Typed' /\ Held'
    BY <1>1, <1>4, <1>6 DEF Typed, Held
<1> QED
    BY <1>6, <1>7 DEF Inv, Chained, Tells

LEMMA OtherStep ==
    ASSUME Inv, NEW r \in Request,
           \/ \E op \in Mutation : Begin(r, op)
           \/ \E op \in Payment : ReadMerchant(r, op)
           \/ DeleteRefused(r) \/ Rollback(r) \/ InsertPayment(r) \/ recordDetachedAudit(r)
    PROVE  Inv'
<1>1. /\ request[r] \in RequestType /\ client \in Row \cup {Absent}
      /\ request \in [Request -> RequestType] /\ payments \in Nat /\ faults \in Nat
    BY DEF Inv, Typed
<1>2. ASSUME NEW op \in Mutation, Begin(r, op) PROVE Inv'
    <2> DEFINE q == [pc |-> "begun", op |-> op, before |-> Absent]
    <2>1. q \in RequestType /\ q.pc = "begun" /\ q.op \in Mutation
        BY Ops DEF RequestType
    <2>2. request' = [request EXCEPT ![r] = q] /\ request[r].pc = "idle"
          /\ UNCHANGED <<client, locked, trail, payments, faults>>
        BY <1>2 DEF Begin
    <2> HIDE DEF q
    <2> QED
        BY <1>1, <2>1, <2>2, QuietStep
<1>3. ASSUME NEW op \in Payment, ReadMerchant(r, op) PROVE Inv'
    <2> DEFINE q == [pc |-> IF client.active THEN "insert" ELSE "denied", op |-> op, before |-> client]
    <2>1. q \in RequestType /\ q.pc \in {"insert", "denied"}
        BY <1>1, Ops DEF RequestType
    <2>2. request' = [request EXCEPT ![r] = q] /\ request[r].pc = "idle"
          /\ UNCHANGED <<client, locked, trail, payments, faults>>
        BY <1>3 DEF ReadMerchant
    <2> HIDE DEF q
    <2> QED
        BY <1>1, <2>1, <2>2, QuietStep
<1>4. CASE DeleteRefused(r) \/ Rollback(r)
    <2>1. /\ request' = [request EXCEPT ![r] = Idle] /\ locked' = locked \ {r}
          /\ UNCHANGED <<client, trail, payments>> /\ faults' \in Nat
        BY <1>1, <1>4 DEF DeleteRefused, Rollback, Ends, Fault
    <2> QED
        BY <1>1, <2>1, Ops, QuietStep
<1>5. CASE InsertPayment(r)
    <2>1. /\ UNCHANGED <<client, locked, trail, faults>> /\ payments' \in Nat
          /\ request[r].pc = "insert"
        BY <1>1, <1>5 DEF InsertPayment
    <2>2. CASE request' = [request EXCEPT ![r] = Idle]
        BY <1>1, <2>1, <2>2, Ops, QuietStep
    <2>3. CASE request' = [request EXCEPT ![r].pc = "audit"]
        <3> DEFINE q == [request[r] EXCEPT !.pc = "audit"]
        <3>1. q \in RequestType /\ q.pc = "audit" /\ request' = [request EXCEPT ![r] = q]
            BY <1>1, <2>3 DEF RequestType
        <3> HIDE DEF q
        <3> QED
            BY <1>1, <2>1, <3>1, QuietStep
    <2> QED
        BY <1>5, <2>2, <2>3 DEF InsertPayment, Ends, Becomes
<1>6. CASE recordDetachedAudit(r)
    <2>1. /\ UNCHANGED <<client, locked, payments>> /\ request[r].pc # "locked"
          /\ request' = [request EXCEPT ![r] = Idle] /\ faults' \in Nat
          /\ \/ trail' = trail
             \/ /\ request[r].pc \in Action
                /\ trail' = Append(trail, [action |-> request[r].pc, before |-> nothing,
                                           after |-> nothing])
        BY <1>1, <1>6 DEF recordDetachedAudit, Ends, Fault, recordAudit, Action
    <2> QED
        BY <1>1, <2>1, Ops, QuietStep
<1> QED
    BY <1>2, <1>3, <1>4, <1>5, <1>6

-----------------------------------------------------------------------------
LEMMA Steps == ASSUME Inv, [Next]_vars PROVE Inv'
<1>1. CASE UNCHANGED vars
    BY <1>1 DEF vars, Inv, Typed, Held, Chained, Tells
<1>2. ASSUME NEW r \in Request, Step(r) PROVE Inv'
    BY <1>2, LockStep, CommitStep, OtherStep DEF Step
<1> QED
    BY <1>1, <1>2, CreateStep DEF Next

LEMMA InvTyped == ASSUME Inv PROVE TypeOK
<1>1. ASSUME NEW i \in DOMAIN trail PROVE \A im \in {trail[i].before, trail[i].after} : DOMAIN im \subseteq Field
    <2>1. trail[i] \in Entry
        BY DEF Inv, Typed
    <2> QED
        BY <2>1 DEF Entry, Image
<1> QED
    BY <1>1 DEF Inv, Typed, TypeOK, RequestType, Op

LEMMA InvExplains == ASSUME Inv PROVE TrailExplains
BY Explained DEF Inv

LEMMA Invariance == Spec => []Inv
BY InitInv, Steps, PTL DEF Spec

\* The row, the requests and the images of the audit trail keep their types.
THEOREM TypeCorrect == Spec => []TypeOK
BY InvTyped, Invariance, PTL

\* However mutations of a merchant, payments and failures overlap, each audit row saw the
\* state the rows before it left, and the last of a field tells what the row holds.
THEOREM TrailAccounts == Spec => []TrailExplains
BY InvExplains, Invariance, PTL

=============================================================================
