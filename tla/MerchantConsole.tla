--------------------------- MODULE MerchantConsole ---------------------------
(***************************************************************************)
(* What the console does to one merchant (api/admin-write, services/audit) *)
(* beside the requests that create payments for it (api/routes, api/auth). *)
(* A mutation is a transaction: it locks the row, changes it and writes an *)
(* audit row with what it saw before and after, or it leaves nothing.      *)
(***************************************************************************)
EXTENDS Integers, Sequences

CONSTANTS
    Request,     \* requests in progress
    Url,         \* values of the fields an operator edits, the webhook URL for all
    Absent,      \* no row
    MaxTrail,    \* bound: audit rows
    MaxPayments, \* bound: payments of the merchant
    MaxFaults    \* bound: transactions and statements that fail

VARIABLES
    client,      \* the row of the merchant
    locked,      \* requests whose transaction holds the lock of that row
    request,
    trail,       \* admin_audit_log, in the order of commit
    payments,    \* how many payments reference the merchant
    faults

vars == <<client, locked, request, trail, payments, faults>>

Row == [url : Url, active : BOOLEAN, key : Nat]
Field == {"url", "active", "key"}

\* A change of one field, or the name of a route whose body says nothing more.
Patch == {[route |-> "patch", field |-> "url", value |-> u] : u \in Url}
            \cup {[route |-> "patch", field |-> "active", value |-> b] : b \in BOOLEAN}
Route(name) == [route |-> name, field |-> "none", value |-> 0]
Mutation == Patch \cup {Route(n) : n \in {"api-key", "webhook-secret", "deactivate", "delete"}}
Payment == {Route("payments"), Route("api")}
Idle == [pc |-> "idle", op |-> Route("none"), before |-> Absent]

TypeOK ==
    /\ client \in Row \cup {Absent}
    /\ locked \subseteq Request
    /\ request \in [Request -> [pc : {"idle", "begun", "locked", "insert", "audit", "denied"},
                                op : Mutation \cup Payment \cup {Route("none")},
                                before : Row \cup {Absent}]]
    /\ \A i \in DOMAIN trail : \A image \in {trail[i].before, trail[i].after} :
          DOMAIN image \subseteq Field
    /\ payments \in Nat
    /\ faults \in Nat

\* No merchant yet, or one that scripts/seed has created.
Init ==
    /\ client \in {Absent} \cup [url : Url, active : {TRUE}, key : {0}]
    /\ locked = {}
    /\ request = [r \in Request |-> Idle]
    /\ trail = <<>>
    /\ payments = 0
    /\ faults = 0

Fault == faults < MaxFaults /\ faults' = faults + 1

Becomes(r, pc) == request' = [request EXCEPT ![r].pc = pc]
Ends(r) == request' = [request EXCEPT ![r] = Idle]

nothing == [f \in {} |-> 0]
recordAudit(action, before, after) ==
    trail' = Append(trail, [action |-> action, before |-> before, after |-> after])

-----------------------------------------------------------------------------
(* Mutations of the merchant. *)

\* POST /clients: the row and its audit row are one transaction.
CreateMerchant(url) ==
    /\ client = Absent /\ trail = <<>>
    /\ client' = [url |-> url, active |-> TRUE, key |-> 1]
    /\ recordAudit("create", nothing, [url |-> url, key |-> 1])
    /\ UNCHANGED <<locked, request, payments, faults>>

\* A request whose body passes its schema opens a transaction.
Begin(r, op) ==
    /\ request[r].pc = "idle"
    /\ Len(trail) < MaxTrail
    /\ request' = [request EXCEPT ![r] = [pc |-> "begun", op |-> op, before |-> Absent]]
    /\ UNCHANGED <<client, locked, trail, payments, faults>>

\* Mutant: the select takes no lock.
withoutWaiting == TRUE

free == locked = {}

\* SELECT ... FOR UPDATE waits for the row, and for no row it is a 404.
Lock(r) ==
    /\ request[r].pc = "begun"
    /\ free
    /\ IF client = Absent
       THEN Ends(r) /\ UNCHANGED locked
       ELSE /\ request' = [request EXCEPT ![r].pc = "locked", ![r].before = client]
            /\ locked' = locked \cup {r}
    /\ UNCHANGED <<client, trail, payments, faults>>

updated(op) ==
    CASE op.route = "patch" -> [client EXCEPT ![op.field] = op.value]
      [] op.route = "api-key" -> [client EXCEPT !.key = @ + 1]
      [] op.route = "deactivate" -> [client EXCEPT !.active = FALSE]
      [] op.route = "delete" -> Absent
      [] OTHER -> client

\* What the audit row of a route says of a row, or its action implies: never the secret,
\* nor the key itself.
image(op, row) ==
    LET told == CASE op.route = "patch" -> {"url", "active"}
                  [] op.route = "api-key" -> {"key"}
                  [] op.route = "deactivate" -> {"active"}
                  [] op.route = "delete" -> {"url"}
                  [] OTHER -> {}
    IN  [f \in {g \in told : row # Absent} |-> row[f]]

action(r) ==
    LET op == request[r].op
        deactivating == op = [route |-> "patch", field |-> "active", value |-> FALSE]
                            /\ request[r].before.active
    IN  IF deactivating THEN "deactivate" ELSE op.route

inUse(op) == op.route = "delete" /\ payments > 0

Commit(r) ==
    LET op == request[r].op
    IN  /\ request[r].pc = "locked"
        /\ ~inUse(op)
        /\ client' = updated(op)
        /\ recordAudit(action(r), image(op, request[r].before), image(op, client'))
        /\ locked' = locked \ {r}
        /\ Ends(r)
        /\ UNCHANGED <<payments, faults>>

\* The foreign keys refuse the delete: all is rolled back, and the answer is a 409.
DeleteRefused(r) ==
    /\ request[r].pc = "locked"
    /\ inUse(request[r].op)
    /\ locked' = locked \ {r}
    /\ Ends(r)
    /\ UNCHANGED <<client, trail, payments, faults>>

\* Any statement of the transaction fails, the audit row's as well.
Rollback(r) ==
    /\ request[r].pc \in {"begun", "locked"}
    /\ Fault
    /\ locked' = locked \ {r}
    /\ Ends(r)
    /\ UNCHANGED <<client, trail, payments>>

-----------------------------------------------------------------------------
(* Payments, of the merchant's own or the console's making. *)

\* The merchant is read: by its api key, or for the console by its id.
ReadMerchant(r, op) ==
    /\ request[r].pc = "idle"
    /\ Len(trail) < MaxTrail /\ payments < MaxPayments
    /\ client # Absent
    /\ client.active \/ op = Route("payments")
    /\ request' = [request EXCEPT ![r] =
                      [pc |-> IF client.active THEN "insert" ELSE "denied", op |-> op,
                       before |-> client]]
    /\ UNCHANGED <<client, locked, trail, payments, faults>>

\* The insert of createPayment waits for a mutation's lock, and fails without its merchant.
InsertPayment(r) ==
    /\ request[r].pc = "insert"
    /\ free
    /\ IF client = Absent
       THEN Ends(r) /\ UNCHANGED payments
       ELSE /\ payments' = payments + 1
            /\ IF request[r].op = Route("payments") THEN Becomes(r, "audit") ELSE Ends(r)
    /\ UNCHANGED <<client, locked, trail, faults>>

\* recordDetachedAudit: of a payment made, or of one denied; its failure is swallowed.
recordDetachedAudit(r) ==
    /\ request[r].pc \in {"audit", "denied"}
    /\ \/ recordAudit(request[r].pc, nothing, nothing) /\ UNCHANGED faults
       \/ Fault /\ UNCHANGED trail
    /\ Ends(r)
    /\ UNCHANGED <<client, locked, payments>>

-----------------------------------------------------------------------------
Step(r) ==
    \/ \E op \in Mutation : Begin(r, op)
    \/ \E op \in Payment : ReadMerchant(r, op)
    \/ Lock(r) \/ Commit(r) \/ DeleteRefused(r) \/ Rollback(r)
    \/ InsertPayment(r) \/ recordDetachedAudit(r)

Next == (\E url \in Url : CreateMerchant(url)) \/ \E r \in Request : Step(r)

Spec == Init /\ [][Next]_vars

-----------------------------------------------------------------------------
Records(i, f) == f \in DOMAIN trail[i].after
Last(i, f) == Records(i, f) /\ \A j \in DOMAIN trail : j > i => ~Records(j, f)

\* The audit trail accounts for the merchant: whatever mutations race, fail or are
\* refused, each row saw the state the rows before it left, and the last is the row's.
TrailExplains ==
    /\ \A j \in DOMAIN trail : \A f \in DOMAIN trail[j].before : \A i \in 1..(j - 1) :
          (Records(i, f) /\ \A k \in (i + 1)..(j - 1) : ~Records(k, f))
              => trail[j].before[f] = trail[i].after[f]
    /\ client # Absent =>
          \A i \in DOMAIN trail, f \in Field : Last(i, f) => client[f] = trail[i].after[f]

=============================================================================
