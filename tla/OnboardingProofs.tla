-------------------------- MODULE OnboardingProofs --------------------------
(***************************************************************************)
(* Onboarding: for every set of users, enrollments, challenges, keys and   *)
(* requests, endpoints and their origins correspond one to one, and        *)
(* decisions, idempotency records, audit events and answers agree. Neither *)
(* is inductive alone: that a request still in progress names the          *)
(* enrollment its record was reserved for, and that an answer is a         *)
(* completed record, must be carried along.                                *)
(***************************************************************************)
EXTENDS Onboarding, TLAPS

EnrollmentRows == [status : {"NONE", "PENDING", "APPROVED", "DENIED", "CONSUMED"},
                   owner : Users \cup {None}, expires : Nat]
ChallengeRows == [status : {"NONE", "PENDING", "CONSUMED"}, owner : Users \cup {None}, expires : Nat]
Records == [status : {"NONE", "IN_PROGRESS", "COMPLETED"}, on : Enrollments \cup {None},
            result : Results \cup {"none"}]
Handlers == [at : {"idle", "execute", "fail", "consume", "register"}, user : Users \cup {None},
             op : Operations, key : Keys \cup {None}, on : Origins \cup {None}, now : Nat]

(* What a handler in progress works on. *)
Proper(r) ==
    \/ req[r] = Idle
    \/ req[r].at \in {"execute", "fail"} /\ Scope(r) \in Scopes /\ req[r].on \in Enrollments
    \/ req[r].at = "consume" /\ req[r].user \in Users /\ req[r].on \in Enrollments
    \/ req[r].at = "register" /\ req[r].user \in Users /\ req[r].on \in Challenges

Tables ==
    /\ now \in 0 .. MaxTime
    /\ enrollment \in [Enrollments -> EnrollmentRows]
    /\ challenge \in [Challenges -> ChallengeRows]
    /\ endpoints \subseteq {Endpoint(u, o) : u \in Users, o \in Origins}
    /\ record \in [Scopes -> Records]
    /\ audit \subseteq Outcomes /\ told \subseteq Outcomes

Typed ==
    /\ Tables
    /\ req \in [Requests -> Handlers]
    /\ \A r \in Requests : Proper(r)

(* A request that is being executed works on the enrollment its key was reserved for. *)
Reserved ==
    \A r \in Requests : req[r].at \in {"execute", "fail"} =>
        record[Scope(r)].status # "NONE" /\ record[Scope(r)].on = req[r].on

(* Every answer is a completed record. *)
Answered ==
    \A a \in told : /\ record[a.scope].status = "COMPLETED"
                    /\ record[a.scope].on = a.on /\ record[a.scope].result = a.result

(* A completed record has a result. *)
Settled ==
    \A s \in Scopes : record[s].status = "COMPLETED" => record[s].result \in Results

OInv == Typed /\ OneEndpointEach /\ Accounted /\ Reserved /\ Answered /\ Settled

(* The types of the proof are those that TLC checks. *)
LEMMA TypedIsTypeOK == Typed => TypeOK
  BY DEF Typed, Tables, TypeOK, EnrollmentRows, ChallengeRows, Records, Proper

(* The tables are empty and no request runs. *)
LEMMA OInvInit == Init => OInv
  <1> SUFFICES ASSUME Init PROVE OInv
    BY Zenon
  <1>1. Tables
    <2>1. NoRow \in EnrollmentRows /\ NoRow \in ChallengeRows
      BY Zenon DEF NoRow, EnrollmentRows, ChallengeRows
    <2>2. NoRecord \in Records
      BY Zenon DEF NoRecord, Records
    <2> QED BY <2>1, <2>2, OnboardingAssumption DEF Init, Tables
  <1>2. Idle \in Handlers
    BY Zenon DEF Idle, Handlers, Operations
  <1>3. Typed
    BY <1>1, <1>2, Zenon DEF Init, Typed, Proper
  <1>4. \A e \in Enrollments : enrollment[e] = NoRow
    BY Zenon DEF Init
  <1>5. \A h \in Challenges : challenge[h] = NoRow
    BY Zenon DEF Init
  <1>6. OneEndpointEach
    BY <1>4, <1>5, Zenon DEF Init, OneEndpointEach, Consumed, NoRow
  <1>7. \A s \in Scopes : record[s].status = "NONE"
    BY Zenon DEF Init, NoRecord
  <1>8. Accounted
    BY <1>4, <1>7, Zenon DEF Init, Accounted, Decided, Success, NoRow
  <1>9. Reserved
    BY Zenon DEF Init, Reserved, Idle
  <1>10. Answered
    BY Zenon DEF Init, Answered
  <1>11. Settled
    BY <1>7, Zenon DEF Settled
  <1> QED BY <1>3, <1>6, <1>8, <1>9, <1>10, <1>11 DEF OInv

(* What depends on the rows alone survives every step that leaves them. *)
LEMMA RowsKept ==
  ASSUME OInv, UNCHANGED <<rows, told>>, now' \in 0 .. MaxTime
  PROVE  Tables' /\ OneEndpointEach' /\ Accounted' /\ Answered' /\ Settled'
  <1>0. UNCHANGED <<enrollment, challenge, endpoints, record, audit, told>>
    BY Zenon DEF rows
  <1>1. Tables'
    BY <1>0 DEF OInv, Typed, Tables
  <1>2. OneEndpointEach'
    BY <1>0, Zenon DEF OInv, OneEndpointEach, Consumed, OwnerOf
  <1>3. Accounted'
    BY <1>0 DEF OInv, Accounted, Decided, Success, Stands
  <1>4. Answered' /\ Settled'
    BY <1>0, Zenon DEF OInv, Answered, Settled
  <1> QED BY <1>1, <1>2, <1>3, <1>4

(* A handler that returns leaves the others as they are, and no step that  *)
(* keeps what the records were reserved for disturbs them.                 *)
LEMMA Returns ==
  ASSUME Typed, Reserved, NEW r \in Requests, req' = [req EXCEPT ![r] = Idle],
         \A s \in Scopes : record[s].status # "NONE" =>
            record'[s].status # "NONE" /\ record'[s].on = record[s].on
  PROVE  /\ req' \in [Requests -> Handlers]
         /\ \A q \in Requests : Proper(q)'
         /\ Reserved'
  <1>1. Idle \in Handlers /\ Idle.at = "idle"
    BY Zenon DEF Idle, Handlers, Operations
  <1>2. req'[r] = Idle /\ \A q \in Requests \ {r} : req'[q] = req[q]
    BY Zenon DEF Typed
  <1>3. req' \in [Requests -> Handlers]
    BY <1>1, Zenon DEF Typed
  <1>4. ASSUME NEW q \in Requests PROVE Proper(q)'
    BY <1>2, Zenon DEF Typed, Proper, Scope
  <1>5. ASSUME NEW q \in Requests, req'[q].at \in {"execute", "fail"}
        PROVE  record'[Scope(q)'].status # "NONE" /\ record'[Scope(q)'].on = req'[q].on
    <2>1. q # r /\ req'[q] = req[q]
      BY <1>1, <1>2, <1>5, Zenon
    <2>2. Scope(q)' = Scope(q) /\ Scope(q) \in Scopes
      BY <2>1, <1>1, <1>5, Zenon DEF Scope, Typed, Proper
    <2>3. record[Scope(q)].status # "NONE" /\ record[Scope(q)].on = req[q].on
      BY <2>1, <1>5, Zenon DEF Reserved
    <2> QED BY <2>1, <2>2, <2>3
  <1> QED BY <1>3, <1>4, <1>5 DEF Reserved

(* A handler that begins or goes on leaves the others as they are too. *)
LEMMA Proceeds ==
  ASSUME Typed, Reserved, NEW r \in Requests, NEW h \in Handlers,
         req' = [req EXCEPT ![r] = h], UNCHANGED record,
         Proper(r)',
         h.at \in {"execute", "fail"} => record[Scope(r)'].status # "NONE" /\ record[Scope(r)'].on = h.on
  PROVE  /\ req' \in [Requests -> Handlers]
         /\ \A q \in Requests : Proper(q)'
         /\ Reserved'
  <1>2. req'[r] = h /\ \A q \in Requests \ {r} : req'[q] = req[q]
    BY Zenon DEF Typed
  <1>3. req' \in [Requests -> Handlers]
    BY Zenon DEF Typed
  <1>4. ASSUME NEW q \in Requests PROVE Proper(q)'
    BY <1>2, Zenon DEF Typed, Proper, Scope
  <1>5. ASSUME NEW q \in Requests, req'[q].at \in {"execute", "fail"}
        PROVE  record'[Scope(q)'].status # "NONE" /\ record'[Scope(q)'].on = req'[q].on
    <2>1. CASE q = r
      BY <2>1, <1>2, <1>5, Zenon
    <2>2. CASE q # r
      <3>1. Scope(q)' = Scope(q) /\ req'[q] = req[q]
        BY <2>2, <1>2, Zenon DEF Scope
      <3> QED BY <3>1, <1>5 DEF Reserved
    <2> QED BY <2>1, <2>2
  <1> QED BY <1>3, <1>4, <1>5 DEF Reserved

(* Handlers that begin, fail or are cut short, and the clock, write no row. *)
LEMMA NoRowStep ==
  ASSUME OInv, NEW r \in Requests,
         \/ Tick \/ Abort(r) \/ ExecuteFails(r)
         \/ \E e \in Enrollments : BeginConsume(r, e)
         \/ \E h \in Challenges, u \in Users : BeginRegister(r, h, u)
  PROVE  OInv'
  <1>0. Typed /\ Reserved /\ now \in Nat
    BY OnboardingAssumption DEF OInv, Typed, Tables
  <1>e. UNCHANGED <<rows, told>> /\ (now' = now \/ (now < MaxTime /\ now' = now + 1))
    BY Zenon DEF Tick, Abort, ExecuteFails, BeginConsume, BeginRegister
  <1>a. UNCHANGED <<rows, told>> /\ now' \in 0 .. MaxTime
    BY <1>e, <1>0, OnboardingAssumption DEF Typed, Tables
  <1>b. UNCHANGED record
    BY <1>a, Zenon DEF rows
  <1>c. Tables' /\ OneEndpointEach' /\ Accounted' /\ Answered' /\ Settled'
    BY <1>a, RowsKept, Zenon
  <1>d. SUFFICES /\ req' \in [Requests -> Handlers]
                 /\ \A q \in Requests : Proper(q)'
                 /\ Reserved'
    BY <1>c, Zenon DEF OInv, Typed
  <1>1. CASE Tick
    BY <1>0, <1>1, <1>b, Zenon DEF Tick, Typed, Proper, Scope, Reserved
  <1>2. CASE Abort(r)
    BY <1>0, <1>2, <1>b, Returns, Zenon DEF Abort
  <1>3. CASE ExecuteFails(r)
    <2> DEFINE h == [req[r] EXCEPT !.at = "fail"]
    <2>1. req[r] \in Handlers /\ req[r].at = "execute" /\ req' = [req EXCEPT ![r] = h]
      BY <1>0, <1>3, Zenon DEF ExecuteFails, Typed
    <2>2. h \in Handlers /\ h.at = "fail" /\ h.on = req[r].on /\ h.user = req[r].user
          /\ h.op = req[r].op /\ h.key = req[r].key
      BY <2>1, Zenon DEF Handlers
    <2>3. req'[r] = h
      BY <2>1, <1>0, Zenon DEF Typed
    <2>4. Scope(r)' = Scope(r)
      BY <2>2, <2>3, Zenon DEF Scope
    <2>5. Scope(r) \in Scopes /\ req[r].on \in Enrollments
      BY <1>0, <2>1 DEF Typed, Proper, Idle
    <2>6. Proper(r)'
      BY <2>2, <2>3, <2>4, <2>5, Zenon DEF Proper
    <2>7. record[Scope(r)'].status # "NONE" /\ record[Scope(r)'].on = h.on
      BY <1>0, <2>1, <2>2, <2>4, Zenon DEF Reserved
    <2> HIDE DEF h
    <2> QED BY <1>0, <1>b, <2>1, <2>2, <2>6, <2>7, Proceeds, Zenon
  <1>4. ASSUME NEW e \in Enrollments, BeginConsume(r, e)
        PROVE  /\ req' \in [Requests -> Handlers]
               /\ \A q \in Requests : Proper(q)'
               /\ Reserved'
    <2> DEFINE h == [Idle EXCEPT !.at = "consume", !.user = enrollment[e].owner, !.on = e, !.now = now]
    <2>1. req' = [req EXCEPT ![r] = h] /\ enrollment[e].status = "APPROVED"
      BY <1>4, Zenon DEF BeginConsume, Shown
    <2>2. PICK s \in Scopes : Stands(s, e)
      BY <2>1, Zenon DEF OInv, Accounted, Decided
    <2>3. enrollment[e].owner \in Users
      BY <2>2, Zenon DEF Stands, Scopes
    <2>4. h \in Handlers /\ h.at = "consume" /\ h.user \in Users /\ h.on = e
      BY <2>3, <1>0, Zenon DEF Handlers, Idle, Operations, Origins
    <2>5. req'[r] = h
      BY <2>1, <1>0, Zenon DEF Typed
    <2>6. Proper(r)'
      BY <2>4, <2>5, Zenon DEF Proper
    <2> HIDE DEF h
    <2> QED BY <1>0, <1>b, <2>1, <2>4, <2>6, Proceeds, Zenon
  <1>5. ASSUME NEW c \in Challenges, NEW u \in Users, BeginRegister(r, c, u)
        PROVE  /\ req' \in [Requests -> Handlers]
               /\ \A q \in Requests : Proper(q)'
               /\ Reserved'
    <2> DEFINE h == [Idle EXCEPT !.at = "register", !.user = u, !.on = c, !.now = now]
    <2>1. req' = [req EXCEPT ![r] = h]
      BY <1>5, Zenon DEF BeginRegister
    <2>4. h \in Handlers /\ h.at = "register" /\ h.user \in Users /\ h.on = c
      BY <1>0, Zenon DEF Handlers, Idle, Operations, Origins
    <2>5. req'[r] = h
      BY <2>1, <1>0, Zenon DEF Typed
    <2>6. Proper(r)'
      BY <2>4, <2>5, Zenon DEF Proper
    <2> HIDE DEF h
    <2> QED BY <1>0, <1>b, <2>1, <2>4, <2>6, Proceeds, Zenon
  <1> QED BY <1>1, <1>2, <1>3, <1>4, <1>5

(* A new enrollment or challenge is neither decided nor consumed. *)
LEMMA NewRowStep ==
  ASSUME OInv,
         \/ \E e \in Enrollments : Start(e)
         \/ \E h \in Challenges, u \in Users : IssueChallenge(h, u)
  PROVE  OInv'
  <1>0. Typed /\ now \in Nat /\ EnrollmentTTL \in Nat /\ ChallengeTTL \in Nat
    BY OnboardingAssumption DEF OInv, Typed, Tables
  <1>1. ASSUME NEW e \in Enrollments, Start(e) PROVE OInv'
    <2>1. /\ enrollment[e].status = "NONE" /\ enrollment'[e].status = "PENDING"
          /\ \A d \in Enrollments \ {e} : enrollment'[d] = enrollment[d]
          /\ UNCHANGED <<now, challenge, endpoints, record, audit, req, told>>
      BY <1>0, <1>1 DEF Start, NoRow, NewEnrollment, Typed, Tables
    <2>2. NewEnrollment \in EnrollmentRows
      BY <1>0 DEF NewEnrollment, EnrollmentRows
    <2>3. Typed'
      BY <1>0, <1>1, <2>1, <2>2 DEF Start, Typed, Tables, Proper, Scope
    <2>4. OneEndpointEach'
      <3>1. \A o \in Origins : Consumed(o)' <=> Consumed(o)
        BY <2>1, Zenon DEF Consumed, Origins
      <3>2. \A p \in endpoints : p.origin \in Origins /\ p.origin # e
        <4>1. \A p \in endpoints : p.origin \in Origins
          BY <1>0 DEF Typed, Tables, Endpoint
        <4>2. ~ Consumed(e)
          BY <2>1, OnboardingAssumption, Zenon DEF Consumed
        <4> QED BY <4>1, <4>2 DEF OInv, OneEndpointEach
      <3>3. \A p \in endpoints : OwnerOf(p.origin)' = OwnerOf(p.origin)
        BY <2>1, <3>2, Zenon DEF OwnerOf, Origins
      <3> QED BY <2>1, <3>1, <3>3 DEF OInv, OneEndpointEach
    <2>5. Accounted'
      <3>1. \A s \in Scopes, d \in Enrollments : Success(s, d)' <=> Success(s, d)
        BY <2>1, Zenon DEF Success
      <3>2. \A d \in Enrollments : Decided(d)' <=> Decided(d)
        BY <2>1, Zenon DEF Decided
      <3>3. \A s \in Scopes : ~ Success(s, e)
        <4>1. \A s \in Scopes : ~ Stands(s, e)
          BY <2>1, Zenon DEF Stands
        <4> QED BY <4>1 DEF OInv, Accounted
      <3>4. \A s \in Scopes, d \in Enrollments \ {e} : Stands(s, d)' <=> Stands(s, d)
        BY <2>1, Zenon DEF Stands
      <3> QED BY <2>1, <3>1, <3>2, <3>3, <3>4 DEF OInv, Accounted
    <2>6. Reserved' /\ Answered' /\ Settled'
      BY <2>1, Zenon DEF OInv, Reserved, Answered, Settled, Scope
    <2> QED BY <2>3, <2>4, <2>5, <2>6 DEF OInv
  <1>2. ASSUME NEW h \in Challenges, NEW u \in Users, IssueChallenge(h, u) PROVE OInv'
    <2>1. /\ challenge[h].status = "NONE" /\ challenge'[h].status = "PENDING"
          /\ \A d \in Challenges \ {h} : challenge'[d] = challenge[d]
          /\ UNCHANGED <<now, enrollment, endpoints, record, audit, req, told>>
      BY <1>0, <1>2 DEF IssueChallenge, NoRow, NewChallenge, Typed, Tables
    <2>2. NewChallenge(u) \in ChallengeRows
      BY <1>0 DEF NewChallenge, ChallengeRows
    <2>3. Typed'
      BY <1>0, <1>2, <2>1, <2>2 DEF IssueChallenge, Typed, Tables, Proper, Scope
    <2>4. OneEndpointEach'
      <3>1. \A o \in Origins : Consumed(o)' <=> Consumed(o)
        BY <2>1, Zenon DEF Consumed, Origins
      <3>2. \A p \in endpoints : p.origin \in Origins /\ p.origin # h
        <4>1. \A p \in endpoints : p.origin \in Origins
          BY <1>0 DEF Typed, Tables, Endpoint
        <4>2. ~ Consumed(h)
          BY <2>1, OnboardingAssumption, Zenon DEF Consumed
        <4> QED BY <4>1, <4>2 DEF OInv, OneEndpointEach
      <3>3. \A p \in endpoints : OwnerOf(p.origin)' = OwnerOf(p.origin)
        BY <2>1, <3>2, Zenon DEF OwnerOf, Origins
      <3> QED BY <2>1, <3>1, <3>3 DEF OInv, OneEndpointEach
    <2>5. Accounted'
      BY <2>1 DEF OInv, Accounted, Success, Decided, Stands
    <2>6. Reserved' /\ Answered' /\ Settled'
      BY <2>1, Zenon DEF OInv, Reserved, Answered, Settled, Scope
    <2> QED BY <2>3, <2>4, <2>5, <2>6 DEF OInv
  <1> QED BY <1>1, <1>2

(* A key is reserved once; a second request with it is told what is stored. *)
LEMMA ReserveStep ==
  ASSUME OInv, NEW r \in Requests, NEW u \in Users, NEW op \in Operations, NEW k \in Keys,
         NEW e \in Enrollments, Reserve(r, u, op, k, e)
  PROVE  OInv'
  <1> DEFINE s == <<u, op, k>>
  <1>0. Typed /\ Reserved /\ s \in Scopes /\ now \in Nat
    BY OnboardingAssumption DEF OInv, Typed, Tables, Scopes
  <1>1. UNCHANGED <<now, enrollment, challenge, endpoints, audit>>
    BY Zenon DEF Reserve
  <1>2. OneEndpointEach'
    BY <1>1, Zenon DEF OInv, OneEndpointEach, Consumed, OwnerOf
  <1>3. CASE record[s] = NoRecord /\ UNCHANGED told
             /\ record' = [record EXCEPT ![s] = [status |-> "IN_PROGRESS", on |-> e, result |-> "none"]]
             /\ req' = [req EXCEPT ![r] = [at |-> "execute", user |-> u, op |-> op, key |-> k,
                                           on |-> e, now |-> now]]
    <2> DEFINE h == [at |-> "execute", user |-> u, op |-> op, key |-> k, on |-> e, now |-> now]
               n == [status |-> "IN_PROGRESS", on |-> e, result |-> "none"]
    <2>1. h \in Handlers /\ h.at = "execute" /\ h.on = e /\ <<h.user, h.op, h.key>> = s
      BY <1>0, Zenon DEF Handlers, Origins
    <2>2. n \in Records /\ n.status = "IN_PROGRESS" /\ n.on = e
      BY Zenon DEF Records
    <2>3. req'[r] = h /\ req' \in [Requests -> Handlers] /\ \A q \in Requests \ {r} : req'[q] = req[q]
      BY <1>0, <1>3, <2>1, Zenon DEF Typed
    <2>4. record'[s] = n /\ record' \in [Scopes -> Records] /\ \A t \in Scopes \ {s} : record'[t] = record[t]
      BY <1>0, <1>3, <2>2 DEF Typed, Tables
    <2>5. record[s].status = "NONE"
      BY <1>3 DEF NoRecord
    <2> HIDE DEF h, n
    <2>6. ASSUME NEW q \in Requests PROVE Proper(q)'
      BY <1>0, <2>1, <2>3, Zenon DEF Typed, Proper, Scope
    <2>7. Typed'
      BY <1>0, <1>1, <1>3, <2>3, <2>4, <2>6 DEF Typed, Tables
    <2>8. Reserved'
      <3> SUFFICES ASSUME NEW q \in Requests, req'[q].at \in {"execute", "fail"}
                   PROVE  record'[Scope(q)'].status # "NONE" /\ record'[Scope(q)'].on = req'[q].on
        BY Zenon DEF Reserved
      <3>1. CASE q = r
        <4>1. Scope(q)' = s
          BY <3>1, <2>1, <2>3, Zenon DEF Scope
        <4> QED BY <3>1, <4>1, <2>1, <2>2, <2>3, <2>4
      <3>2. CASE q # r
        <4>1. req'[q] = req[q] /\ Scope(q)' = Scope(q)
          BY <3>2, <2>3, Zenon DEF Scope
        <4>2. record[Scope(q)].status # "NONE" /\ record[Scope(q)].on = req[q].on
          BY <1>0, <4>1, Zenon DEF Reserved
        <4>3. Scope(q) \in Scopes
          BY <1>0, <4>1 DEF Typed, Proper, Idle
        <4> QED BY <4>1, <4>2, <4>3, <2>4, <2>5
      <3> QED BY <3>1, <3>2
    <2>9. \A t \in Scopes : record[t].status = "COMPLETED" <=> record'[t].status = "COMPLETED"
      BY <2>2, <2>4, <2>5, Zenon
    <2>10. \A t \in Scopes : record[t].status = "COMPLETED" => record'[t] = record[t]
      BY <2>4, <2>5, Zenon
    <2>11. \A t \in Scopes, d \in Enrollments : Success(t, d)' <=> Success(t, d)
      BY <2>9, <2>10, Zenon DEF Success
    <2>12. Accounted'
      <3>1. ASSUME NEW t \in Scopes, NEW o \in Outcomes, o.scope = t
            PROVE  o \in audit' <=> /\ record'[t].status = "COMPLETED"
                                    /\ o.on = record'[t].on /\ o.result = record'[t].result
        BY <1>1, <2>9, <2>10, <3>1 DEF OInv, Accounted
      <3>2. \A d \in Enrollments : (Decided(d)' <=> Decided(d)) /\ \A t \in Scopes : Stands(t, d)' <=> Stands(t, d)
        BY <1>1, Zenon DEF Decided, Stands
      <3> QED BY <3>1, <3>2, <2>11 DEF OInv, Accounted
    <2>13. Answered'
      <3>1. \A a \in told : a.scope \in Scopes
        BY <1>0 DEF Typed, Tables, Outcomes
      <3> QED BY <1>3, <3>1, <2>9, <2>10 DEF OInv, Answered
    <2>14. Settled'
      BY <2>9, <2>10, Zenon DEF OInv, Settled
    <2> QED BY <1>2, <2>7, <2>8, <2>12, <2>13, <2>14 DEF OInv
  <1>4. CASE Replayable(s) /\ SameRequest(s, e) /\ UNCHANGED <<record, req>>
             /\ told' = told \cup {[scope |-> s, on |-> e, result |-> record[s].result]}
    <2> DEFINE a == [scope |-> s, on |-> e, result |-> record[s].result]
    <2>1. record[s].status = "COMPLETED" /\ record[s].on = e /\ record[s].result \in Results
      BY <1>0, <1>4, Zenon DEF Replayable, SameRequest, OInv, Settled
    <2>2. a \in Outcomes /\ a.scope = s /\ a.on = e /\ a.result = record[s].result
      BY <1>0, <2>1, Zenon DEF Outcomes
    <2> HIDE DEF a
    <2>3. Typed'
      BY <1>0, <1>1, <1>4, <2>2 DEF Typed, Tables, Proper, Scope, a
    <2>4. Answered'
      <3>1. told' = told \cup {a}
        BY <1>4, Zenon DEF a
      <3> QED BY <1>4, <2>1, <2>2, <3>1 DEF OInv, Answered
    <2>5. Accounted'
      BY <1>1, <1>4 DEF OInv, Accounted, Success, Decided, Stands
    <2>6. Reserved' /\ Settled'
      BY <1>4, Zenon DEF OInv, Reserved, Settled, Scope
    <2> QED BY <1>2, <2>3, <2>4, <2>5, <2>6 DEF OInv
  <1> QED BY <1>3, <1>4 DEF Reserve

(* The audit trail is the set of completed records. *)
AuditIsRecords ==
    \A s \in Scopes : \A o \in Outcomes : o.scope = s =>
        (o \in audit <=> /\ record[s].status = "COMPLETED"
                         /\ o.on = record[s].on /\ o.result = record[s].result)

(* Completion, audit event and answer of one request: only its own record  *)
(* changes, and the three agree on it.                                     *)
LEMMA Completes ==
  ASSUME OInv, NEW r \in Requests, req[r].at \in {"execute", "fail"}, NEW result \in Results,
         Complete(r, result), AppendAudit(r, result), Answer(r, result)
  PROVE  /\ record' \in [Scopes -> Records] /\ audit' \subseteq Outcomes /\ told' \subseteq Outcomes
         /\ req' \in [Requests -> Handlers] /\ (\A q \in Requests : Proper(q)')
         /\ Reserved' /\ Answered' /\ Settled' /\ AuditIsRecords'
         /\ Scope(r) \in Scopes /\ req[r].on \in Enrollments
         /\ \A t \in Scopes : \A d \in Enrollments :
                Success(t, d)' <=> Success(t, d) \/ (t = Scope(r) /\ d = req[r].on /\ result = "success")
  <1> DEFINE s == Scope(r)
             e == req[r].on
             a == [scope |-> s, on |-> e, result |-> result]
  <1>0. Typed /\ Reserved /\ Answered /\ Settled /\ AuditIsRecords
    BY Zenon DEF OInv, Accounted, AuditIsRecords
  <1>1. s \in Scopes /\ e \in Enrollments
    BY <1>0 DEF Typed, Proper, Idle
  <1>2. record[s] \in Records /\ record[s].status = "IN_PROGRESS" /\ record[s].on = e
    BY <1>0, <1>1 DEF Complete, Reserved, Typed, Tables
  <1>3. /\ record' \in [Scopes -> Records]
        /\ record'[s].status = "COMPLETED" /\ record'[s].on = e /\ record'[s].result = result
        /\ \A t \in Scopes \ {s} : record'[t] = record[t]
    <2> DEFINE m == [record EXCEPT ![s].status = "COMPLETED"]
    <2>1. record' = [m EXCEPT ![s].result = result]
      BY Zenon DEF Complete
    <2>2. /\ m \in [Scopes -> Records]
          /\ m[s].status = "COMPLETED" /\ m[s].on = e
          /\ \A t \in Scopes \ {s} : m[t] = record[t]
      <3> HIDE DEF s, e
      <3> QED BY <1>0, <1>1, <1>2 DEF Typed, Tables, Records
    <2>3. m[s] \in Records
      BY <1>1, <2>2, Zenon
    <2> HIDE DEF m, s, e
    <2> QED BY <1>1, <2>1, <2>2, <2>3 DEF Records
  <1>4. a \in Outcomes /\ a.scope = s /\ a.on = e /\ a.result = result
    BY <1>1, Zenon DEF Outcomes
  <1>5. audit' = audit \cup {a} /\ told' = told \cup {a} /\ req' = [req EXCEPT ![r] = Idle]
    BY Zenon DEF AppendAudit, Answer
  <1>6. \A o \in Outcomes : o.scope = s /\ o.on = e /\ o.result = result => o = a
    BY DEF Outcomes
  <1>7. audit \subseteq Outcomes /\ told \subseteq Outcomes
    BY <1>0 DEF Typed, Tables
  <1> HIDE DEF s, e, a
  <1>8. audit' \subseteq Outcomes /\ told' \subseteq Outcomes
    BY <1>4, <1>5, <1>7, Zenon
  <1>9. /\ req' \in [Requests -> Handlers] /\ (\A q \in Requests : Proper(q)')
        /\ Reserved'
    <2>1. \A t \in Scopes : record[t].status # "NONE" =>
            record'[t].status # "NONE" /\ record'[t].on = record[t].on
      BY <1>2, <1>3, Zenon
    <2> QED BY <1>0, <1>5, <2>1, Returns, Zenon
  <1>10. Answered'
    <2>1. \A b \in told : b.scope \in Scopes \ {s}
      <3>1. \A b \in told : b.scope \in Scopes
        BY <1>7, Zenon DEF Outcomes
      <3> QED BY <1>0, <1>2, <3>1 DEF Answered
    <2> QED BY <1>0, <1>3, <1>4, <1>5, <2>1 DEF Answered
  <1>11. Settled'
    BY <1>0, <1>3, Zenon DEF Settled
  <1>12. AuditIsRecords'
    <2> SUFFICES ASSUME NEW t \in Scopes, NEW o \in Outcomes, o.scope = t
                 PROVE  o \in audit' <=> /\ record'[t].status = "COMPLETED"
                                         /\ o.on = record'[t].on /\ o.result = record'[t].result
      BY Zenon DEF AuditIsRecords
    <2>1. CASE t = s
      <3>1. o \notin audit
        BY <1>0, <1>1, <1>2, <2>1, Zenon DEF AuditIsRecords
      <3> QED BY <1>3, <1>4, <1>5, <1>6, <2>1, <3>1
    <2>2. CASE t # s
      BY <1>0, <1>3, <1>4, <1>5, <2>2 DEF AuditIsRecords
    <2> QED BY <2>1, <2>2
  <1>13. ASSUME NEW t \in Scopes, NEW d \in Enrollments
         PROVE  Success(t, d)' <=> Success(t, d) \/ (t = s /\ d = e /\ result = "success")
    <2>1. CASE t = s
      BY <1>2, <1>3, <2>1, Zenon DEF Success
    <2>2. CASE t # s
      BY <1>3, <2>2, Zenon DEF Success
    <2> QED BY <2>1, <2>2
  <1> QED BY <1>1, <1>3, <1>8, <1>9, <1>10, <1>11, <1>12, <1>13 DEF s, e

(* A decision: the enrollment was pending, so no earlier success names it. *)
LEMMA ExecuteStep ==
  ASSUME OInv, NEW r \in Requests, Execute(r)
  PROVE  OInv'
  <1> DEFINE s == Scope(r)
             e == req[r].on
  <1>0. Typed /\ OneEndpointEach /\ "success" \in Results
    BY Zenon DEF OInv, Results
  <1>1. /\ req[r].at \in {"execute", "fail"} /\ Complete(r, "success") /\ AppendAudit(r, "success")
        /\ Answer(r, "success") /\ Decidable(r) /\ Decide(r) /\ UNCHANGED <<now, challenge, endpoints>>
    BY Zenon DEF Execute
  <1>2. /\ record' \in [Scopes -> Records] /\ audit' \subseteq Outcomes /\ told' \subseteq Outcomes
        /\ req' \in [Requests -> Handlers] /\ (\A q \in Requests : Proper(q)')
        /\ Reserved' /\ Answered' /\ Settled' /\ AuditIsRecords'
        /\ s \in Scopes /\ e \in Enrollments
        /\ \A t \in Scopes : \A d \in Enrollments :
               Success(t, d)' <=> Success(t, d) \/ (t = s /\ d = e)
    BY <1>0, <1>1, Completes, Zenon
  <1>3. s[1] = req[r].user /\ s[2] = req[r].op /\ s[1] \in Users /\ req[r].op \in Operations
    BY <1>2, Zenon DEF Scope, Scopes
  <1>4. enrollment[e] \in EnrollmentRows /\ enrollment[e].status = "PENDING"
    BY <1>0, <1>1, <1>2 DEF Decidable, Typed, Tables
  <1>5. /\ enrollment' \in [Enrollments -> EnrollmentRows]
        /\ \A d \in Enrollments \ {e} : enrollment'[d] = enrollment[d]
        /\ enrollment'[e].owner = s[1]
        /\ enrollment'[e].status = IF s[2] = "approve" THEN "APPROVED" ELSE "DENIED"
    <2>1. /\ Approved(enrollment[e], s[1]) \in EnrollmentRows
          /\ Denied(enrollment[e], s[1]) \in EnrollmentRows
          /\ Approved(enrollment[e], s[1]).owner = s[1]
          /\ Denied(enrollment[e], s[1]).owner = s[1]
          /\ Approved(enrollment[e], s[1]).status = "APPROVED"
          /\ Denied(enrollment[e], s[1]).status = "DENIED"
      BY <1>3, <1>4, Zenon DEF Approved, Denied, EnrollmentRows
    <2>2. enrollment' = [enrollment EXCEPT ![e] = IF s[2] = "approve" THEN Approved(enrollment[e], s[1])
                                                  ELSE Denied(enrollment[e], s[1])]
      BY <1>1, <1>3, Zenon DEF Decide
    <2> HIDE DEF s, e
    <2> QED BY <1>0, <1>2, <2>1, <2>2 DEF Typed, Tables
  <1> HIDE DEF s, e
  <1>6. Typed'
    BY <1>0, <1>1, <1>2, <1>5 DEF Typed, Tables
  <1>7. OneEndpointEach'
    <2>1. \A o \in Origins : Consumed(o)' <=> Consumed(o)
      BY <1>1, <1>4, <1>5, Zenon DEF Consumed, Origins
    <2>2. \A p \in endpoints : p.origin \in Origins /\ p.origin # e
      <3>1. \A p \in endpoints : p.origin \in Origins
        BY <1>0 DEF Typed, Tables, Endpoint
      <3>2. ~ Consumed(e)
        BY <1>2, <1>4, OnboardingAssumption, Zenon DEF Consumed
      <3> QED BY <1>0, <3>1, <3>2 DEF OneEndpointEach
    <2>3. \A p \in endpoints : OwnerOf(p.origin)' = OwnerOf(p.origin)
      BY <1>1, <1>5, <2>2, Zenon DEF OwnerOf, Origins
    <2> QED BY <1>0, <1>1, <2>1, <2>3 DEF OneEndpointEach
  <1>8. Accounted'
    <2>1. \A t \in Scopes : ~ Success(t, e)
      <3>1. \A t \in Scopes : ~ Stands(t, e)
        BY <1>4, Zenon DEF Stands
      <3> QED BY <1>2, <3>1 DEF OInv, Accounted
    <2>2. \A d \in Enrollments : Decided(d)' => \E t \in Scopes : Success(t, d)'
      <3> SUFFICES ASSUME NEW d \in Enrollments, Decided(d)' PROVE \E t \in Scopes : Success(t, d)'
        BY Zenon
      <3>1. CASE d = e
        BY <1>2, <3>1, Zenon
      <3>2. CASE d # e
        <4>1. Decided(d)
          BY <1>5, <3>2, Zenon DEF Decided
        <4> QED BY <1>2, <4>1 DEF OInv, Accounted
      <3> QED BY <3>1, <3>2
    <2>3. \A d \in Enrollments : \A t, q \in Scopes : Success(t, d)' /\ Success(q, d)' => t = q
      BY <1>2, <2>1 DEF OInv, Accounted
    <2>4. \A d \in Enrollments : \A t \in Scopes : Success(t, d)' => Stands(t, d)'
      <3> SUFFICES ASSUME NEW d \in Enrollments, NEW t \in Scopes, Success(t, d)' PROVE Stands(t, d)'
        BY Zenon
      <3>1. CASE d = e
        <4>1. t = s
          BY <1>2, <2>1, <3>1, Zenon
        <4> QED BY <1>5, <3>1, <4>1 DEF Stands
      <3>2. CASE d # e
        <4>1. Stands(t, d)
          BY <1>2, <3>2, Zenon DEF OInv, Accounted
        <4> QED BY <1>5, <3>2, <4>1 DEF Stands
      <3> QED BY <3>1, <3>2
    <2> QED BY <1>2, <2>2, <2>3, <2>4 DEF Accounted, AuditIsRecords
  <1> QED BY <1>2, <1>6, <1>7, <1>8 DEF OInv

(* A final failure decides nothing. *)
LEMMA FailureStep ==
  ASSUME OInv, NEW r \in Requests, FinalizeFailure(r)
  PROVE  OInv'
  <1>0. Typed /\ "failure" \in Results
    BY Zenon DEF OInv, Results
  <1>1. /\ req[r].at \in {"execute", "fail"} /\ Complete(r, "failure") /\ AppendAudit(r, "failure")
        /\ Answer(r, "failure") /\ UNCHANGED <<now, enrollment, challenge, endpoints>>
    BY Zenon DEF FinalizeFailure
  <1>2. /\ record' \in [Scopes -> Records] /\ audit' \subseteq Outcomes /\ told' \subseteq Outcomes
        /\ req' \in [Requests -> Handlers] /\ (\A q \in Requests : Proper(q)')
        /\ Reserved' /\ Answered' /\ Settled' /\ AuditIsRecords'
        /\ \A t \in Scopes : \A d \in Enrollments : Success(t, d)' <=> Success(t, d)
    BY <1>0, <1>1, Completes, Zenon
  <1>3. Typed'
    BY <1>0, <1>1, <1>2 DEF Typed, Tables
  <1>4. OneEndpointEach'
    BY <1>1, Zenon DEF OInv, OneEndpointEach, Consumed, OwnerOf
  <1>5. Accounted'
    <2>1. \A d \in Enrollments : (Decided(d)' <=> Decided(d)) /\ \A t \in Scopes : Stands(t, d)' <=> Stands(t, d)
      BY <1>1, Zenon DEF Decided, Stands
    <2> QED BY <1>2, <2>1 DEF OInv, Accounted, AuditIsRecords
  <1> QED BY <1>2, <1>3, <1>4, <1>5 DEF OInv

(* The endpoint of an origin that was not consumed is the only one of it. *)
LEMMA NewEndpoint ==
  ASSUME Typed, OneEndpointEach, NEW u \in Users, NEW o \in Origins, Insertable(u, o),
         ~ Consumed(o), endpoints' = endpoints \cup {Endpoint(u, o)},
         OwnerOf(o)' = u, Consumed(o)',
         \A c \in Origins \ {o} : (Consumed(c)' <=> Consumed(c)) /\ OwnerOf(c)' = OwnerOf(c)
  PROVE  /\ OneEndpointEach'
         /\ endpoints' \subseteq {Endpoint(v, c) : v \in Users, c \in Origins}
  <1> DEFINE n == Endpoint(u, o)
  <1>1. n.origin = o /\ n.owner = u /\ n.key = KeyOf[o]
    BY Zenon DEF Endpoint
  <1>2. \A p \in endpoints : p.origin \in Origins
    BY DEF Typed, Tables, Endpoint
  <1>3. \A p \in endpoints : p.origin # o
    BY Zenon DEF OneEndpointEach
  <1>4. endpoints' \subseteq {Endpoint(v, c) : v \in Users, c \in Origins}
    BY DEF Typed, Tables
  <1>5. \A p \in endpoints : ~ (p.owner = n.owner /\ p.key = n.key)
    BY <1>1, Zenon DEF Insertable
  <1>9. endpoints' = endpoints \cup {n}
    BY Zenon
  <1> HIDE DEF n
  <1>6. \A c \in Origins : Consumed(c)' <=> \E p \in endpoints' : p.origin = c
    BY <1>1, <1>3, <1>9, Zenon DEF OneEndpointEach
  <1>7. \A p \in endpoints' : p.owner = OwnerOf(p.origin)'
    BY <1>1, <1>2, <1>3, <1>9 DEF OneEndpointEach
  <1>8. \A p, q \in endpoints' : (p.origin = q.origin \/ (p.owner = q.owner /\ p.key = q.key)) => p = q
    BY <1>1, <1>3, <1>5, <1>9, Zenon DEF OneEndpointEach
  <1> QED BY <1>4, <1>6, <1>7, <1>8 DEF OneEndpointEach

(* Consumption spends what was approved, for the user who approved it. *)
LEMMA ConsumeStep ==
  ASSUME OInv, NEW r \in Requests, ConsumeEnrollment(r)
  PROVE  OInv'
  <1>0. Typed /\ Reserved /\ OneEndpointEach /\ UNCHANGED <<now, challenge, record, audit, told>>
        /\ req' = [req EXCEPT ![r] = Idle]
    BY Zenon DEF OInv, ConsumeEnrollment
  <1>1. /\ req' \in [Requests -> Handlers] /\ (\A q \in Requests : Proper(q)')
        /\ Reserved'
    BY <1>0, Returns, Zenon
  <1>2. PICK e \in Enrollments, u \in Users : e = req[r].on /\ u = req[r].user
    BY <1>0 DEF ConsumeEnrollment, Typed, Proper, Idle
  <1>3. Answered' /\ Settled'
    BY <1>0, Zenon DEF OInv, Answered, Settled
  <1>4. CASE UNCHANGED <<endpoints, enrollment>>
    <2>1. UNCHANGED <<rows, told>> /\ now' \in 0 .. MaxTime
      BY <1>0, <1>4 DEF rows, Typed, Tables
    <2> QED BY <1>1, <1>3, <2>1, RowsKept DEF OInv, Typed
  <1>5. CASE /\ Consumable(r) /\ Insertable(u, e)
             /\ endpoints' = endpoints \cup {Endpoint(u, e)}
             /\ enrollment' = [enrollment EXCEPT ![e] = Spent(@)]
    <2>1. enrollment[e] \in EnrollmentRows /\ enrollment[e].status = "APPROVED" /\ enrollment[e].owner = u
      BY <1>0, <1>2, <1>5 DEF Consumable, Typed, Tables
    <2>2. Spent(enrollment[e]) \in EnrollmentRows /\ Spent(enrollment[e]).status = "CONSUMED"
          /\ Spent(enrollment[e]).owner = u
      BY <2>1, Zenon DEF Spent, EnrollmentRows
    <2>3. /\ enrollment' \in [Enrollments -> EnrollmentRows]
          /\ enrollment'[e].status = "CONSUMED" /\ enrollment'[e].owner = u
          /\ \A d \in Enrollments \ {e} : enrollment'[d] = enrollment[d]
      BY <1>0, <1>2, <1>5, <2>2 DEF Typed, Tables
    <2>9. e \in Origins /\ e \notin Challenges /\ Origins = Enrollments \cup Challenges
      BY <1>2, OnboardingAssumption, Zenon DEF Origins
    <2>4. e \in Origins /\ ~ Consumed(e) /\ Consumed(e)' /\ OwnerOf(e)' = u
      BY <1>2, <2>1, <2>3, <2>9, Zenon DEF Consumed, OwnerOf
    <2>5. \A c \in Origins \ {e} : (Consumed(c)' <=> Consumed(c)) /\ OwnerOf(c)' = OwnerOf(c)
      <3> SUFFICES ASSUME NEW c \in Origins, c # e
                   PROVE  (Consumed(c)' <=> Consumed(c)) /\ OwnerOf(c)' = OwnerOf(c)
        BY Zenon
      <3>1. c \in Enrollments => enrollment'[c] = enrollment[c]
        BY <2>3, Zenon
      <3>2. c \in Enrollments \/ c \in Challenges
        BY <2>9, Zenon
      <3> QED BY <1>0, <3>1, <3>2 DEF Consumed, OwnerOf
    <2>6. OneEndpointEach' /\ endpoints' \subseteq {Endpoint(v, c) : v \in Users, c \in Origins}
      BY <1>0, <1>2, <1>5, <2>4, <2>5, NewEndpoint
    <2>7. Typed'
      BY <1>0, <1>1, <2>3, <2>6 DEF Typed, Tables
    <2>8. Accounted'
      <3>1. \A s \in Scopes, d \in Enrollments : Success(s, d)' <=> Success(s, d)
        BY <1>0, Zenon DEF Success
      <3>2. \A d \in Enrollments : Decided(d)' <=> Decided(d)
        BY <2>1, <2>3, Zenon DEF Decided
      <3>3. \A s \in Scopes, d \in Enrollments : Stands(s, d) => Stands(s, d)'
        BY <2>1, <2>3, Zenon DEF Stands
      <3>4. AuditIsRecords'
        BY <1>0, Zenon DEF OInv, Accounted, AuditIsRecords
      <3> QED BY <3>1, <3>2, <3>3, <3>4 DEF OInv, Accounted, AuditIsRecords
    <2> QED BY <1>1, <1>3, <2>6, <2>7, <2>8 DEF OInv
  <1> QED BY <1>2, <1>4, <1>5 DEF ConsumeEnrollment

(* A registration redeems a challenge of the same user, once. *)
LEMMA RegisterStep ==
  ASSUME OInv, NEW r \in Requests, Register(r)
  PROVE  OInv'
  <1>0. Typed /\ Reserved /\ OneEndpointEach /\ UNCHANGED <<now, enrollment, record, audit, told>>
        /\ req' = [req EXCEPT ![r] = Idle]
    BY Zenon DEF OInv, Register
  <1>1. /\ req' \in [Requests -> Handlers] /\ (\A q \in Requests : Proper(q)')
        /\ Reserved'
    BY <1>0, Returns, Zenon
  <1>2. PICK h \in Challenges, u \in Users : h = req[r].on /\ u = req[r].user
    BY <1>0 DEF Register, Typed, Proper, Idle
  <1>3. Answered' /\ Settled' /\ Accounted'
    BY <1>0 DEF OInv, Answered, Settled, Accounted, Success, Decided, Stands
  <1>4. CASE UNCHANGED <<endpoints, challenge>>
    <2>1. UNCHANGED <<rows, told>> /\ now' \in 0 .. MaxTime
      BY <1>0, <1>4 DEF rows, Typed, Tables
    <2> QED BY <1>1, <1>3, <2>1, RowsKept DEF OInv, Typed
  <1>5. CASE /\ Redeemable(r) /\ Insertable(u, h)
             /\ challenge' = [challenge EXCEPT ![h].status = "CONSUMED"]
             /\ endpoints' = endpoints \cup {Endpoint(u, h)}
    <2>1. challenge[h] \in ChallengeRows /\ challenge[h].status = "PENDING" /\ challenge[h].owner = u
      BY <1>0, <1>2, <1>5 DEF Redeemable, Typed, Tables
    <2>3. /\ challenge' \in [Challenges -> ChallengeRows]
          /\ challenge'[h].status = "CONSUMED" /\ challenge'[h].owner = u
          /\ \A d \in Challenges \ {h} : challenge'[d] = challenge[d]
      BY <1>0, <1>2, <1>5, <2>1 DEF Typed, Tables, ChallengeRows
    <2>9. h \in Origins /\ h \notin Enrollments /\ Origins = Enrollments \cup Challenges
      BY <1>2, OnboardingAssumption, Zenon DEF Origins
    <2>4. h \in Origins /\ ~ Consumed(h) /\ Consumed(h)' /\ OwnerOf(h)' = u
      BY <1>2, <2>1, <2>3, <2>9, Zenon DEF Consumed, OwnerOf
    <2>5. \A c \in Origins \ {h} : (Consumed(c)' <=> Consumed(c)) /\ OwnerOf(c)' = OwnerOf(c)
      <3> SUFFICES ASSUME NEW c \in Origins, c # h
                   PROVE  (Consumed(c)' <=> Consumed(c)) /\ OwnerOf(c)' = OwnerOf(c)
        BY Zenon
      <3>1. c \in Challenges => challenge'[c] = challenge[c]
        BY <2>3, Zenon
      <3>2. c \in Enrollments \/ c \in Challenges
        BY <2>9, Zenon
      <3> QED BY <1>0, <3>1, <3>2 DEF Consumed, OwnerOf
    <2>6. OneEndpointEach' /\ endpoints' \subseteq {Endpoint(v, c) : v \in Users, c \in Origins}
      BY <1>0, <1>2, <1>5, <2>4, <2>5, NewEndpoint
    <2>7. Typed'
      BY <1>0, <1>1, <2>3, <2>6 DEF Typed, Tables
    <2> QED BY <1>1, <1>3, <2>6, <2>7 DEF OInv
  <1> QED BY <1>2, <1>4, <1>5 DEF Register

(* Every step preserves the invariant. *)
LEMMA OInvStep == OInv /\ [Next]_vars => OInv'
  <1> SUFFICES ASSUME OInv, [Next]_vars PROVE OInv'
    BY Zenon
  <1>1. ASSUME NEW r \in Requests,
               \/ \E u \in Users, op \in Operations, k \in Keys, e \in Enrollments : Reserve(r, u, op, k, e)
               \/ Execute(r) \/ FinalizeFailure(r) \/ ConsumeEnrollment(r) \/ Register(r)
        PROVE  OInv'
    BY <1>1, ReserveStep, ExecuteStep, FailureStep, ConsumeStep, RegisterStep, Zenon
  <1>2. ASSUME NEW r \in Requests, NEW e \in Enrollments, EnrollmentRequest(r, e) PROVE OInv'
    BY <1>2, NoRowStep, NewRowStep, Zenon DEF EnrollmentRequest
  <1>3. ASSUME NEW r \in Requests, NEW h \in Challenges, NEW u \in Users, RegistrationRequest(r, h, u)
        PROVE  OInv'
    BY <1>3, NoRowStep, NewRowStep, Zenon DEF RegistrationRequest
  <1>4. ASSUME NEW r \in Requests, ExecuteFails(r) \/ Abort(r) PROVE OInv'
    BY <1>4, NoRowStep, Zenon
  <1>5. CASE Tick \/ UNCHANGED vars
    <2>1. UNCHANGED <<rows, told, req>> /\ (now' = now \/ (now < MaxTime /\ now' = now + 1))
      BY <1>5, Zenon DEF Tick, vars
    <2>2. now' \in 0 .. MaxTime
      BY <2>1, OnboardingAssumption DEF OInv, Typed, Tables
    <2>3. UNCHANGED record
      BY <2>1, Zenon DEF rows
    <2>4. req' \in [Requests -> Handlers] /\ (\A q \in Requests : Proper(q)') /\ Reserved'
      BY <2>1, <2>3, Zenon DEF OInv, Typed, Proper, Scope, Reserved
    <2> QED BY <2>1, <2>2, <2>4, RowsKept DEF OInv, Typed
  <1> QED BY <1>1, <1>2, <1>3, <1>4, <1>5 DEF Next

(* The invariant holds throughout. *)
THEOREM OnboardingInvariance == Spec => []OInv
  BY OInvInit, OInvStep, PTL DEF Spec

(* Every variable keeps its type, for every instance. *)
THEOREM OnboardingTypeCorrect == Spec => []TypeOK
  <1>1. OInv => TypeOK
    BY TypedIsTypeOK, Zenon DEF OInv
  <1> QED BY <1>1, OnboardingInvariance, PTL

(* However consumptions and registrations are repeated or interleaved, each *)
(* consumed enrollment or challenge has exactly one endpoint, of the right  *)
(* user, and each endpoint one consumed origin.                             *)
THEOREM EndpointsHaveOneOrigin == Spec => []OneEndpointEach
  <1>1. OInv => OneEndpointEach
    BY Zenon DEF OInv
  <1> QED BY <1>1, OnboardingInvariance, PTL

(* However a management mutation is retried, refused or cut short, decisions, *)
(* idempotency records and audit events agree.                                *)
THEOREM DecisionsAreAccounted == Spec => []Accounted
  <1>1. OInv => Accounted
    BY Zenon DEF OInv
  <1> QED BY <1>1, OnboardingInvariance, PTL

(* No answer to a management request is ever contradicted by a later answer *)
(* to the same key or by the enrollment.                                    *)
THEOREM AnswersStayTrue == Spec => []ToldTrue
  <1>1. OInv => ToldTrue
    <2> SUFFICES ASSUME OInv PROVE ToldTrue
      BY Zenon
    <2>1. told \subseteq Outcomes
      BY DEF OInv, Typed, Tables
    <2>2. \A a \in told : a.scope \in Scopes /\ a.on \in Enrollments
      BY <2>1, Zenon DEF Outcomes
    <2>3. \A a, b \in told : a.scope = b.scope => a.on = b.on /\ a.result = b.result
      BY Zenon DEF OInv, Answered
    <2>4. \A a, b \in told : a.scope = b.scope => a = b
      BY <2>1, <2>3 DEF Outcomes
    <2>5. \A a \in told : a.result = "success" => Success(a.scope, a.on)
      BY Zenon DEF OInv, Answered, Success
    <2>6. \A a \in told : a.result = "success" => Stands(a.scope, a.on)
      BY <2>2, <2>5, Zenon DEF OInv, Accounted
    <2> QED BY <2>4, <2>6 DEF ToldTrue
  <1> QED BY <1>1, OnboardingInvariance, PTL
=============================================================================
