----------------------------- MODULE Onboarding -----------------------------
(***************************************************************************)
(* How endpoints come to be. An ABA starts an enrollment; a user approves  *)
(* or denies it through the management API; the ABA consumes the approved  *)
(* enrollment and receives its credentials. An HC asks for a registration  *)
(* challenge and redeems it. The user's decisions are management mutations *)
(* (executeManagementMutation): an idempotency record is reserved in a     *)
(* transaction of its own, a second transaction holds the mutation, its    *)
(* audit event and the completion of the record, and a third records a     *)
(* failure. A request may stop between any two of them, and a client that  *)
(* was not answered sends the same Idempotency-Key again.                  *)
(*                                                                         *)
(* What becomes of an endpoint afterwards is modelled in Credentials and   *)
(* SessionStore. A wrong user code fails like an unknown enrollment, a bad *)
(* proof or device code like a request that was never sent.                *)
(***************************************************************************)
EXTENDS Integers, FiniteSets

CONSTANTS Enrollments, Challenges, Users, Keys, Requests,
          KeyOf,          \* the signing key behind an enrollment or a challenge
          EnrollmentTTL, ChallengeTTL,
          MaxRecords, MaxTime,   \* bounds: idempotency records, the clock
          None

ASSUME OnboardingAssumption ==
    /\ Enrollments \cap Challenges = {} /\ None \notin Users
    /\ {EnrollmentTTL, ChallengeTTL} \subseteq Nat \ {0}
    /\ {MaxRecords, MaxTime} \subseteq Nat

VARIABLES
    now,
    enrollment,   \* enrollmentRow: status, owner and expiry
    challenge,    \* hcRegistrationChallengeRow
    endpoints,    \* the endpoint rows: where they come from, owner, signing key
    record,       \* idempotencyRow, by actor, operation and key
    audit,        \* the audit events of management mutations
    req,          \* the handlers in progress
    told          \* the outcomes that management requests were answered with

rows == <<enrollment, challenge, endpoints, record, audit>>
vars == <<now, rows, req, told>>

Operations == {"approve", "deny"}
Origins == Enrollments \cup Challenges
Scopes == Users \X Operations \X Keys
Idle == [at |-> "idle", user |-> None, op |-> "approve", key |-> None, on |-> None, now |-> 0]
NoRecord == [status |-> "NONE", on |-> None, result |-> "none"]
NoRow == [status |-> "NONE", owner |-> None, expires |-> 0]
Scope(r) == <<req[r].user, req[r].op, req[r].key>>

Init ==
    /\ now = 0
    /\ enrollment = [e \in Enrollments |-> NoRow]
    /\ challenge = [h \in Challenges |-> NoRow]
    /\ endpoints = {} /\ audit = {} /\ told = {}
    /\ record = [s \in Scopes |-> NoRecord]
    /\ req = [r \in Requests |-> Idle]

-----------------------------------------------------------------------------
(* CreateEnrollment. *)
NewEnrollment == [status |-> "PENDING", owner |-> None, expires |-> now + EnrollmentTTL]

(* Service.Start *)
Start(e) ==
    /\ enrollment[e] = NoRow
    /\ enrollment' = [enrollment EXCEPT ![e] = NewEnrollment]
    /\ UNCHANGED <<now, challenge, endpoints, record, audit, req, told>>

(* Variant: a stored answer is returned to any request with its key. *)
SameRequestAny(s, e) == TRUE

(* The request hash that is stored with the key. *)
SameRequest(s, e) == record[s].on = e

Replayable(s) == record[s].status = "COMPLETED"

(* ReserveIdempotency: insert, or read what is there. A completed record is *)
(* replayed; one that is in progress is refused, before and after it has    *)
(* expired, and so is another request with the same key.                    *)
Reserve(r, u, op, k, e) ==
    LET s == <<u, op, k>> IN
    /\ req[r] = Idle
    /\ \/ /\ record[s] = NoRecord /\ Cardinality({t \in Scopes : record[t] # NoRecord}) < MaxRecords
          /\ record' = [record EXCEPT ![s] = [status |-> "IN_PROGRESS", on |-> e, result |-> "none"]]
          /\ req' = [req EXCEPT ![r] = [at |-> "execute", user |-> u, op |-> op, key |-> k,
                                        on |-> e, now |-> now]]
          /\ UNCHANGED told
       \/ /\ Replayable(s) /\ SameRequest(s, e)
          /\ told' = told \cup {[scope |-> s, on |-> e, result |-> record[s].result]}
          /\ UNCHANGED <<record, req>>
    /\ UNCHANGED <<now, enrollment, challenge, endpoints, audit>>

(* Enrollment.Approve and Deny. Only approval looks at the expiry. *)
Approved(row, u) == [row EXCEPT !.status = "APPROVED", !.owner = u]

Denied(row, u) == [row EXCEPT !.status = "DENIED", !.owner = u]

(* decideEnrollment reads the row under its lock. *)
Decidable(r) ==
    LET row == enrollment[req[r].on] IN
    /\ row.status = "PENDING"
    /\ req[r].op = "approve" => req[r].now < row.expires

Decide(r) ==
    LET e == req[r].on  u == req[r].user IN
    enrollment' = [enrollment EXCEPT ![e] = IF req[r].op = "approve"
                                            THEN Approved(@, u) ELSE Denied(@, u)]

(* CompleteIdempotency, in the transaction of its caller. *)
Complete(r, result) ==
    /\ record[Scope(r)].status = "IN_PROGRESS"
    /\ record' = [record EXCEPT ![Scope(r)].status = "COMPLETED", ![Scope(r)].result = result]

(* AppendAudit. *)
AppendAudit(r, result) ==
    audit' = audit \cup {[scope |-> Scope(r), on |-> req[r].on, result |-> result]}

Answer(r, result) ==
    /\ told' = told \cup {[scope |-> Scope(r), on |-> req[r].on, result |-> result]}
    /\ req' = [req EXCEPT ![r] = Idle]

(* Variant: the record is completed after the transaction, if at all. *)
ExecuteUnrecorded(r) ==
    /\ req[r].at = "execute" /\ Decidable(r)
    /\ Decide(r) /\ AppendAudit(r, "success")
    /\ Complete(r, "success") \/ UNCHANGED record
    /\ Answer(r, "success")
    /\ UNCHANGED <<now, challenge, endpoints>>

(* The mutation, its audit event and the completed record commit together. *)
Execute(r) ==
    /\ req[r].at = "execute" /\ Decidable(r)
    /\ Decide(r) /\ AppendAudit(r, "success") /\ Complete(r, "success")
    /\ Answer(r, "success")
    /\ UNCHANGED <<now, challenge, endpoints>>

(* The mutation is refused, or the database fails it; nothing is written yet. *)
ExecuteFails(r) ==
    /\ req[r].at = "execute"
    /\ req' = [req EXCEPT ![r].at = "fail"]
    /\ UNCHANGED <<now, rows, told>>

(* finalizeManagementMutationFailure: the failure is final for this key. *)
FinalizeFailure(r) ==
    /\ req[r].at = "fail"
    /\ AppendAudit(r, "failure") /\ Complete(r, "failure")
    /\ Answer(r, "failure")
    /\ UNCHANGED <<now, enrollment, challenge, endpoints>>

-----------------------------------------------------------------------------
(* GetEnrollmentByDeviceCode shows a row past its expiry as EXPIRED, and *)
(* stores nothing.                                                       *)
Shown(e) ==
    IF enrollment[e].status \notin {"NONE", "CONSUMED"} /\ now >= enrollment[e].expires
    THEN "EXPIRED" ELSE enrollment[e].status

(* Service.Consume *)
BeginConsume(r, e) ==
    /\ req[r] = Idle
    /\ Shown(e) = "APPROVED"
    /\ req' = [req EXCEPT ![r] = [Idle EXCEPT !.at = "consume", !.user = enrollment[e].owner,
                                              !.on = e, !.now = now]]
    /\ UNCHANGED <<now, rows, told>>

(* The unique index on owner and signing key. *)
Insertable(u, o) == \A p \in endpoints : p.owner # u \/ p.key # KeyOf[o]

Endpoint(u, o) == [origin |-> o, owner |-> u, key |-> KeyOf[o]]

(* What ConsumeABAEnrollment checks under the row lock. *)
Consumable(r) ==
    LET row == enrollment[req[r].on] IN
    row.status = "APPROVED" /\ row.owner = req[r].user /\ req[r].now < row.expires

(* Enrollment.Consume *)
Spent(row) == [row EXCEPT !.status = "CONSUMED"]

(* ConsumeABAEnrollment: endpoint, credentials and consumption, or nothing. *)
ConsumeEnrollment(r) ==
    LET e == req[r].on  u == req[r].user IN
    /\ req[r].at = "consume"
    /\ IF Consumable(r) /\ Insertable(u, e)
       THEN /\ endpoints' = endpoints \cup {Endpoint(u, e)}
            /\ enrollment' = [enrollment EXCEPT ![e] = Spent(@)]
       ELSE UNCHANGED <<endpoints, enrollment>>
    /\ req' = [req EXCEPT ![r] = Idle]
    /\ UNCHANGED <<now, challenge, record, audit, told>>

-----------------------------------------------------------------------------
(* CreateHCRegistrationChallenge. *)
NewChallenge(u) == [status |-> "PENDING", owner |-> u, expires |-> now + ChallengeTTL]

IssueChallenge(h, u) ==
    /\ challenge[h] = NoRow
    /\ challenge' = [challenge EXCEPT ![h] = NewChallenge(u)]
    /\ UNCHANGED <<now, enrollment, endpoints, record, audit, req, told>>

(* Service.Register verifies the proof without reading the challenge. *)
BeginRegister(r, h, u) ==
    /\ req[r] = Idle /\ challenge[h] # NoRow
    /\ req' = [req EXCEPT ![r] = [Idle EXCEPT !.at = "register", !.user = u, !.on = h, !.now = now]]
    /\ UNCHANGED <<now, rows, told>>

(* What ConsumeHCRegistrationChallenge checks under the row lock. *)
Redeemable(r) ==
    LET row == challenge[req[r].on] IN
    row.owner = req[r].user /\ row.status = "PENDING" /\ req[r].now < row.expires

(* Variant: the challenge stays consumed when the endpoint cannot be created. *)
RegisterInTwo(r) ==
    LET h == req[r].on  u == req[r].user IN
    /\ req[r].at = "register"
    /\ IF Redeemable(r)
       THEN /\ challenge' = [challenge EXCEPT ![h].status = "CONSUMED"]
            /\ endpoints' = endpoints \cup (IF Insertable(u, h) THEN {Endpoint(u, h)} ELSE {})
       ELSE UNCHANGED <<endpoints, challenge>>
    /\ req' = [req EXCEPT ![r] = Idle]
    /\ UNCHANGED <<now, enrollment, record, audit, told>>

(* The challenge is consumed before the endpoint is inserted, in one transaction. *)
Register(r) ==
    LET h == req[r].on  u == req[r].user IN
    /\ req[r].at = "register"
    /\ IF Redeemable(r) /\ Insertable(u, h)
       THEN /\ challenge' = [challenge EXCEPT ![h].status = "CONSUMED"]
            /\ endpoints' = endpoints \cup {Endpoint(u, h)}
       ELSE UNCHANGED <<endpoints, challenge>>
    /\ req' = [req EXCEPT ![r] = Idle]
    /\ UNCHANGED <<now, enrollment, record, audit, told>>

(* The request is cancelled, the database unavailable or the process gone. *)
Abort(r) ==
    /\ req[r] # Idle
    /\ req' = [req EXCEPT ![r] = Idle]
    /\ UNCHANGED <<now, rows, told>>

Tick ==
    /\ now < MaxTime /\ now' = now + 1
    /\ UNCHANGED <<rows, req, told>>

(* What the gateway accepts from a device, and the management API from the HC's user. *)
EnrollmentRequest(r, e) == Start(e) \/ BeginConsume(r, e)

RegistrationRequest(r, h, u) == IssueChallenge(h, u) \/ BeginRegister(r, h, u)

Next ==
    \/ \E r \in Requests :
        \/ \E u \in Users, op \in Operations, k \in Keys, e \in Enrollments : Reserve(r, u, op, k, e)
        \/ \E e \in Enrollments : EnrollmentRequest(r, e)
        \/ \E h \in Challenges, u \in Users : RegistrationRequest(r, h, u)
        \/ Execute(r) \/ ExecuteFails(r) \/ FinalizeFailure(r)
        \/ ConsumeEnrollment(r) \/ Register(r) \/ Abort(r)
    \/ Tick

Spec == Init /\ [][Next]_vars

-----------------------------------------------------------------------------
Results == {"success", "failure"}
Outcomes == [scope : Scopes, on : Enrollments, result : Results]

(* Every variable holds rows, requests and outcomes of its type. *)
TypeOK ==
    /\ now \in 0 .. MaxTime
    /\ enrollment \in [Enrollments -> [status : {"NONE", "PENDING", "APPROVED", "DENIED", "CONSUMED"},
                                       owner : Users \cup {None}, expires : Nat]]
    /\ challenge \in [Challenges -> [status : {"NONE", "PENDING", "CONSUMED"},
                                     owner : Users \cup {None}, expires : Nat]]
    /\ endpoints \subseteq {Endpoint(u, o) : u \in Users, o \in Origins}
    /\ record \in [Scopes -> [status : {"NONE", "IN_PROGRESS", "COMPLETED"}, on : Enrollments \cup {None},
                              result : Results \cup {"none"}]]
    /\ audit \subseteq Outcomes /\ told \subseteq Outcomes
    /\ \A r \in Requests :
        \/ req[r] = Idle
        \/ req[r].at \in {"execute", "fail"} /\ Scope(r) \in Scopes /\ req[r].on \in Enrollments
        \/ req[r].at = "consume" /\ req[r].user \in Users /\ req[r].on \in Enrollments
        \/ req[r].at = "register" /\ req[r].user \in Users /\ req[r].on \in Challenges

(***************************************************************************)
(* Endpoints and what they were made from correspond one to one: a         *)
(* consumed enrollment or challenge has exactly one endpoint, which        *)
(* belongs to the user who approved the enrollment or asked for the        *)
(* challenge, every endpoint has a consumed origin, and no user has two    *)
(* endpoints with one signing key. Duplicated and concurrent consumptions, *)
(* expiry and failed inserts leave no half of the pair behind.             *)
(***************************************************************************)
Consumed(o) ==
    \/ o \in Enrollments /\ enrollment[o].status = "CONSUMED"
    \/ o \in Challenges /\ challenge[o].status = "CONSUMED"

OwnerOf(o) == IF o \in Enrollments THEN enrollment[o].owner ELSE challenge[o].owner

OneEndpointEach ==
    /\ \A o \in Origins : Consumed(o) <=> \E p \in endpoints : p.origin = o
    /\ \A p \in endpoints : p.owner = OwnerOf(p.origin)
    /\ \A p, q \in endpoints : (p.origin = q.origin \/ (p.owner = q.owner /\ p.key = q.key)) => p = q

(***************************************************************************)
(* The audit trail, the idempotency records and the enrollments agree: a   *)
(* record is completed exactly when its one audit event exists, with the   *)
(* same result; an enrollment is decided exactly when one record says so,  *)
(* and it then is what the user of that record decided. Whatever is        *)
(* retried, refused or cut short, no decision is lost, made twice, made    *)
(* for someone else or overturned, also while the ABA consumes it.         *)
(***************************************************************************)
Decided(e) == enrollment[e].status \notin {"NONE", "PENDING"}

Success(s, e) == record[s].status = "COMPLETED" /\ record[s].on = e /\ record[s].result = "success"

Stands(s, e) ==
    /\ enrollment[e].owner = s[1]
    /\ enrollment[e].status \in IF s[2] = "approve" THEN {"APPROVED", "CONSUMED"} ELSE {"DENIED"}

Accounted ==
    /\ \A s \in Scopes : \A o \in Outcomes : o.scope = s =>
        (o \in audit <=> /\ record[s].status = "COMPLETED"
                         /\ o.on = record[s].on /\ o.result = record[s].result)
    /\ \A e \in Enrollments : Decided(e) => \E s \in Scopes : Success(s, e)
    /\ \A e \in Enrollments : \A s, t \in Scopes : Success(s, e) /\ Success(t, e) => s = t
    /\ \A e \in Enrollments : \A s \in Scopes : Success(s, e) => Stands(s, e)

(***************************************************************************)
(* What a user was told is true and stays true: all answers to one key are *)
(* the same, and a success is the decision that stands for the enrollment  *)
(* the request named (ReserveIdempotency replays what was stored).         *)
(***************************************************************************)
ToldTrue ==
    /\ \A a, b \in told : a.scope = b.scope => a = b
    /\ \A a \in told : a.result = "success" => Stands(a.scope, a.on)
=============================================================================
