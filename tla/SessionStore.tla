---------------------------- MODULE SessionStore ----------------------------
(***************************************************************************)
(* The Platform's durable session state and the database transactions that *)
(* change it: src/platform/internal/harness/store, driven by the gateway   *)
(* handlers (src/platform/internal/harness/gateway) and the owner's        *)
(* management handlers.                                                    *)
(*                                                                         *)
(* A transaction runs at READ COMMITTED, the default of the PostgreSQL     *)
(* deployment.  It reads without a lock, takes row locks one at a time,    *)
(* checks each row when it has the lock, and writes when it commits.  What *)
(* the model does not repeat at commit is protected by the lock alone.     *)
(*                                                                         *)
(* Every id of Sessions is the id one create request draws, so its route   *)
(* (AbaOf, HcOf) is fixed.  The gateway only ever accepts key generation 1 *)
(* (ready_packet.go:220 and :300).                                         *)
(***************************************************************************)
EXTENDS Naturals, Sequences, FiniteSets

CONSTANTS
    Sessions,   \* session ids, ordered as the database orders them
    ABAs, HCs,  \* endpoint ids of the two roles
    AbaOf, HcOf,\* the route of each session
    Directions, \* directions of traffic, of HC_TO_ABA and ABA_TO_HC
    Tx,         \* database connections that can run a transaction
    MaxActive,  \* maxActiveSessionsPerABA
    MaxSeq,     \* bound: frame sequences are 1..MaxSeq
    Contents    \* what distinguishes two frames sent for one sequence

ASSUME RouteAssumption ==
    /\ Sessions \subseteq Nat /\ IsFiniteSet(Sessions)
    /\ Sessions # {} /\ Contents # {}
    /\ ABAs \cap HCs = {}
    /\ Sessions \cap (ABAs \cup HCs) = {}
    /\ AbaOf \in [Sessions -> ABAs]
    /\ HcOf \in [Sessions -> HCs]
    /\ "HC_TO_ABA" \in Directions /\ Directions \subseteq {"HC_TO_ABA", "ABA_TO_HC"}
    /\ MaxActive \in Nat /\ MaxSeq \in Nat

VARIABLES
    endpoint,   \* endpoint -> status
    credential, \* endpoint -> status of its credentials and tickets
    session,    \* session -> [status, generation]
    package,    \* session -> status of its generation 1 key package
    frame,      \* <<session, direction, sequence>> -> [status, content]
    cursor,     \* <<session, direction>> -> highest contiguous ACK
    tunnel,     \* session -> progress of its OpenTunnelRequest
    tx          \* connection -> the transaction it runs

vars == <<endpoint, credential, session, package, frame, cursor, tunnel, tx>>

Endpoints == ABAs \cup HCs
Rows == Sessions \cup Endpoints
Seqs == 1 .. MaxSeq
Slots == Sessions \X Directions \X Seqs

EndpointStatus == {"ACTIVE", "SUSPENDED", "REVOKED"}
LiveStatus == {"CREATING", "WAITING_KEY", "ACTIVE", "REKEY_REQUIRED", "UNCERTAIN"}
EndedStatus == {"CLOSED", "ABA_REVOKED", "FAILED"}
SessionStatus == LiveStatus \cup EndedStatus \cup {"NONE"}
PackageStatus == {"NONE", "PENDING", "ACKNOWLEDGED", "REVOKED"}
FrameStatus == {"NONE", "STORED", "RECEIVER_ACKED", "CONFLICT"}
Ops == {"idle", "create", "open", "reject", "fail", "putkey", "ackkey", "frame",
        "ack", "uncertain", "close", "suspend", "resume", "revoke"}

Sender(s, d) == IF d = "HC_TO_ABA" THEN HcOf[s] ELSE AbaOf[s]
Receiver(s, d) == IF d = "HC_TO_ABA" THEN AbaOf[s] ELSE HcOf[s]

(***************************************************************************)
(* Transactions.  plan is the order in which the code locks rows, got how  *)
(* many of them it has, ready whether its last reads, if any, succeeded.   *)
(***************************************************************************)
Job(op, s, plan) ==
    [op |-> op, s |-> s, e |-> AbaOf[s], d |-> "HC_TO_ABA", q |-> 0,
     c |-> CHOOSE c \in Contents : TRUE, r |-> {},
     plan |-> plan, got |-> 0, ready |-> FALSE]

Idle == Job("idle", CHOOSE s \in Sessions : TRUE, <<>>)

IsIdle(t) == tx[t].op = "idle"
Held(t) == {tx[t].plan[i] : i \in 1 .. tx[t].got}
Waiting(t) == tx[t].got < Len(tx[t].plan)
Want(t) == tx[t].plan[tx[t].got + 1]
Free(t, row) == \A u \in Tx \ {t} : row \notin Held(u)

(* Packets of one endpoint are handled one at a time, under its lane mutex. *)
Lane(job) ==
    CASE job.op \in {"open", "reject", "putkey", "uncertain"} -> {AbaOf[job.s]}
      [] job.op = "ackkey" -> {HcOf[job.s]}
      [] job.op = "frame" -> {Sender(job.s, job.d)}
      [] job.op = "ack" -> {Receiver(job.s, job.d)}
      [] OTHER -> {}

(* The connection re-reads its endpoint and credential before each packet. *)
Authenticated(e) == endpoint[e] = "ACTIVE" /\ credential[e] = "ACTIVE"

Begin(t, job) ==
    /\ IsIdle(t)
    /\ \A u \in Tx : Lane(job) \cap Lane(tx[u]) = {}
    /\ tx' = [tx EXCEPT ![t] = job]
    /\ UNCHANGED <<endpoint, credential, session, package, frame, cursor>>

(***************************************************************************)
(* The handlers, up to the transaction: unlocked reads and their checks.   *)
(***************************************************************************)
(* Variant: the count runs without locking the endpoints. *)
BeginCreateUnlocked(t, s) ==
    /\ Authenticated(HcOf[s])
    /\ session[s].status = "NONE"
    /\ \A u \in Tx : ~(tx[u].op = "create" /\ tx[u].s = s)
    /\ Begin(t, Job("create", s, <<>>))
    /\ UNCHANGED tunnel

(* Variant: the HC is locked before the ABA. *)
BeginCreateInverted(t, s) ==
    /\ Authenticated(HcOf[s])
    /\ session[s].status = "NONE"
    /\ \A u \in Tx : ~(tx[u].op = "create" /\ tx[u].s = s)
    /\ Begin(t, Job("create", s, <<HcOf[s], AbaOf[s]>>))
    /\ UNCHANGED tunnel

BeginCreate(t, s) ==
    /\ Authenticated(HcOf[s])
    /\ session[s].status = "NONE"
    /\ \A u \in Tx : ~(tx[u].op = "create" /\ tx[u].s = s)
    /\ Begin(t, Job("create", s, <<AbaOf[s], HcOf[s]>>))
    /\ UNCHANGED tunnel

SendOpenTunnel(s) ==
    /\ tunnel[s] = "unsent"
    /\ tunnel' = [tunnel EXCEPT ![s] = "sent"]
    /\ UNCHANGED <<endpoint, credential, session, package, frame, cursor, tx>>

(* The request could not be queued for the ABA: the handler fails the session. *)
BeginFail(t, s) ==
    /\ tunnel[s] = "unsent"
    /\ Begin(t, Job("fail", s, <<s>>))
    /\ tunnel' = [tunnel EXCEPT ![s] = "none"]

BeginOpenResult(t, s, op) ==
    /\ tunnel[s] = "sent"
    /\ Authenticated(AbaOf[s])
    /\ session[s].status = "CREATING"
    /\ Begin(t, Job(op, s, <<s>>))
    /\ UNCHANGED tunnel

BeginPutKey(t, s) ==
    /\ Authenticated(AbaOf[s])
    /\ session[s].status = "WAITING_KEY"
    /\ Begin(t, Job("putkey", s, <<s, AbaOf[s], HcOf[s]>>))
    /\ UNCHANGED tunnel

(* Variant: the recipient is locked before the session. *)
BeginAckKeyInverted(t, s) ==
    /\ Authenticated(HcOf[s])
    /\ package[s] # "NONE"
    /\ Begin(t, Job("ackkey", s, <<HcOf[s], s>>))
    /\ UNCHANGED tunnel

(* Variant: the session is not locked. *)
BeginAckKeyUnlocked(t, s) ==
    /\ Authenticated(HcOf[s])
    /\ package[s] # "NONE"
    /\ Begin(t, Job("ackkey", s, <<HcOf[s]>>))
    /\ UNCHANGED tunnel

BeginAckKey(t, s) ==
    /\ Authenticated(HcOf[s])
    /\ package[s] # "NONE"
    /\ Begin(t, Job("ackkey", s, <<s, HcOf[s]>>))
    /\ UNCHANGED tunnel

(* Variant: the gateway's unlocked read of the session is trusted. *)
BeginFrameUnfenced(t, s, d, q, c) ==
    /\ Authenticated(Sender(s, d))
    /\ session[s].status = "ACTIVE" /\ session[s].generation = 1
    /\ Begin(t, [Job("frame", s, <<AbaOf[s], HcOf[s]>>)
                   EXCEPT !.d = d, !.q = q, !.c = c])
    /\ UNCHANGED tunnel

BeginFrame(t, s, d, q, c) ==
    /\ Authenticated(Sender(s, d))
    /\ session[s].status = "ACTIVE" /\ session[s].generation = 1
    /\ Begin(t, [Job("frame", s, <<s, AbaOf[s], HcOf[s]>>)
                   EXCEPT !.d = d, !.q = q, !.c = c])
    /\ UNCHANGED tunnel

(* q is the highest contiguous sequence, r the sequences its ranges cover. *)
BeginAck(t, s, d, q, r) ==
    /\ Authenticated(Receiver(s, d))
    /\ session[s].status = "ACTIVE" /\ session[s].generation = 1
    /\ q > 0 \/ r # {}
    /\ \A x \in r : x > q
    /\ Begin(t, [Job("ack", s, <<>>) EXCEPT !.d = d, !.q = q, !.r = r])
    /\ UNCHANGED tunnel

BeginUncertain(t, s) ==
    /\ Authenticated(AbaOf[s])
    /\ session[s].status = "ACTIVE"
    /\ \E q \in Seqs : frame[<<s, "HC_TO_ABA", q>>].status # "NONE"
    /\ Begin(t, Job("uncertain", s, <<s>>))
    /\ UNCHANGED tunnel

BeginClose(t, s) ==
    /\ session[s].status # "NONE"
    /\ Begin(t, Job("close", s, <<s>>))
    /\ UNCHANGED tunnel

BeginEndpointAction(t, e, op) ==
    /\ Begin(t, [Idle EXCEPT !.op = op, !.e = e, !.plan = <<e>>])
    /\ UNCHANGED tunnel

(* SELECT ... ORDER BY id FOR UPDATE sees the sessions committed when it starts. *)
SessionsOf(e) ==
    {s \in Sessions : session[s].status # "NONE" /\ e \in {AbaOf[s], HcOf[s]}}

InOrder(S) ==
    {p \in [1 .. Cardinality(S) -> S] : \A i, j \in DOMAIN p : i < j => p[i] < p[j]}

BeginRevoke(t, e) ==
    \E p \in InOrder(SessionsOf(e)) :
        /\ Begin(t, [Idle EXCEPT !.op = "revoke", !.e = e, !.plan = Append(p, e)])
        /\ UNCHANGED tunnel

(***************************************************************************)
(* What a transaction checks: on each row when it has locked it, then what *)
(* it reads with all its locks held.                                       *)
(***************************************************************************)
MoveFrom ==
    [open |-> {"CREATING"},
     reject |-> {"CREATING", "WAITING_KEY", "REKEY_REQUIRED", "FAILED"},
     fail |-> {"CREATING", "WAITING_KEY", "REKEY_REQUIRED", "FAILED"},
     uncertain |-> {"ACTIVE"},
     close |-> LiveStatus \cup {"FAILED", "CLOSED"}]

MoveTo ==
    [open |-> "WAITING_KEY", reject |-> "FAILED", fail |-> "FAILED",
     uncertain |-> "UNCERTAIN", close |-> "CLOSED"]

Admits(job, row) ==
    /\ job.op \in DOMAIN MoveFrom => session[job.s].status \in MoveFrom[job.op]
    /\ job.op = "putkey" /\ row = job.s =>
          session[job.s].status = "WAITING_KEY" /\ session[job.s].generation = 0
    /\ job.op = "frame" /\ row = job.s =>
          session[job.s].status = "ACTIVE" /\ session[job.s].generation = 1
    /\ job.op \in {"putkey", "ackkey", "frame"} /\ row # job.s => endpoint[row] = "ACTIVE"
    /\ job.op = "suspend" => endpoint[row] = "ACTIVE"
    /\ job.op = "resume" => endpoint[row] = "SUSPENDED"

LiveSessions(a) == {s \in Sessions : AbaOf[s] = a /\ session[s].status \in LiveStatus}

CanActivate(s) ==
    \/ session[s].status = "ACTIVE" /\ session[s].generation = 1
    \/ session[s].status \in {"WAITING_KEY", "REKEY_REQUIRED"} /\ session[s].generation < 1

Verified(job) ==
    /\ job.op = "create" =>
          /\ endpoint[AbaOf[job.s]] = "ACTIVE" /\ endpoint[HcOf[job.s]] = "ACTIVE"
          /\ Cardinality(LiveSessions(AbaOf[job.s])) < MaxActive
    /\ job.op = "putkey" => credential[AbaOf[job.s]] = "ACTIVE"
    /\ job.op = "frame" => credential[Sender(job.s, job.d)] = "ACTIVE"
    /\ job.op = "ackkey" =>
          package[job.s] \in {"PENDING", "ACKNOWLEDGED"} /\ CanActivate(job.s)

Acquire(t) ==
    /\ Waiting(t)
    /\ Free(t, Want(t))
    /\ Admits(tx[t], Want(t))
    /\ tx' = [tx EXCEPT ![t].got = @ + 1]
    /\ UNCHANGED <<endpoint, credential, session, package, frame, cursor, tunnel>>

LastReads(t) == tx[t].op \in {"create", "putkey", "ackkey", "frame"} /\ ~tx[t].ready

Verify(t) ==
    /\ ~Waiting(t) /\ LastReads(t)
    /\ Verified(tx[t])
    /\ tx' = [tx EXCEPT ![t].ready = TRUE]
    /\ UNCHANGED <<endpoint, credential, session, package, frame, cursor, tunnel>>

(* A check failed: the transaction rolls back and releases its locks. *)
Refuse(t) ==
    /\ \/ Waiting(t) /\ Free(t, Want(t)) /\ ~Admits(tx[t], Want(t))
       \/ ~Waiting(t) /\ LastReads(t) /\ ~Verified(tx[t])
    /\ tx' = [tx EXCEPT ![t] = Idle]
    /\ UNCHANGED <<endpoint, credential, session, package, frame, cursor, tunnel>>

(* A timestamp or signature check failed, the request was cancelled, the   *)
(* database returned an error, or the Platform stopped.                    *)
Abort(t) ==
    /\ ~IsIdle(t)
    /\ tx' = [tx EXCEPT ![t] = Idle]
    /\ UNCHANGED <<endpoint, credential, session, package, frame, cursor, tunnel>>

(***************************************************************************)
(* Commits: the writes become visible and the locks are released.          *)
(***************************************************************************)
Finish(t, ops) ==
    /\ tx[t].op \in ops /\ ~Waiting(t) /\ ~LastReads(t)
    /\ tx' = [tx EXCEPT ![t] = Idle]

CommitCreate(t) ==
    /\ Finish(t, {"create"})
    /\ session' = [session EXCEPT ![tx[t].s].status = "CREATING"]
    /\ tunnel' = [tunnel EXCEPT ![tx[t].s] = "unsent"]
    /\ UNCHANGED <<endpoint, credential, package, frame, cursor>>

CommitMove(t) ==
    /\ Finish(t, DOMAIN MoveTo)
    /\ session' = [session EXCEPT ![tx[t].s].status = MoveTo[tx[t].op]]
    /\ UNCHANGED <<endpoint, credential, package, frame, cursor, tunnel>>

(* A duplicate or a different package for the generation changes nothing. *)
CommitPutKey(t) ==
    /\ Finish(t, {"putkey"})
    /\ package' = [package EXCEPT ![tx[t].s] = IF @ = "NONE" THEN "PENDING" ELSE @]
    /\ UNCHANGED <<endpoint, credential, session, frame, cursor, tunnel>>

CommitAckKey(t) ==
    /\ Finish(t, {"ackkey"})
    /\ package' = [package EXCEPT ![tx[t].s] = "ACKNOWLEDGED"]
    /\ session' = [session EXCEPT ![tx[t].s] = [status |-> "ACTIVE", generation |-> 1]]
    /\ UNCHANGED <<endpoint, credential, frame, cursor, tunnel>>

(* Variant: the insert overwrites the stored frame. *)
StoreFrameUpsert(old, c) == [status |-> "STORED", content |-> c]

StoreFrame(old, c) ==
    IF old.status = "NONE" THEN [status |-> "STORED", content |-> c]
    ELSE IF old.content = c THEN old
    ELSE [old EXCEPT !.status = "CONFLICT"]

CommitFrame(t) ==
    /\ Finish(t, {"frame"})
    /\ frame' = [frame EXCEPT ![<<tx[t].s, tx[t].d, tx[t].q>>] = StoreFrame(@, tx[t].c)]
    /\ UNCHANGED <<endpoint, credential, session, package, cursor, tunnel>>

MarkAcknowledged(old) ==
    IF old.status = "STORED" THEN [old EXCEPT !.status = "RECEIVER_ACKED"] ELSE old

(* Variant: the last cursor received wins. *)
CommitAckLastWins(t) ==
    /\ Finish(t, {"ack"})
    /\ cursor' = [cursor EXCEPT ![<<tx[t].s, tx[t].d>>] = tx[t].q]
    /\ UNCHANGED <<endpoint, credential, session, package, frame, tunnel>>

(* A cursor behind the stored one is ignored, its ranges included. *)
CommitAck(t) ==
    /\ Finish(t, {"ack"})
    /\ LET s == tx[t].s
           d == tx[t].d
           acked == (1 .. tx[t].q) \cup tx[t].r
       IN IF tx[t].q < cursor[<<s, d>>]
          THEN UNCHANGED <<cursor, frame>>
          ELSE /\ cursor' = [cursor EXCEPT ![<<s, d>>] = tx[t].q]
               /\ frame' = [k \in Slots |-> IF k[1] = s /\ k[2] = d /\ k[3] \in acked
                                            THEN MarkAcknowledged(frame[k])
                                            ELSE frame[k]]
    /\ UNCHANGED <<endpoint, credential, session, package, tunnel>>

CommitEndpointAction(t) ==
    /\ Finish(t, {"suspend", "resume"})
    /\ endpoint' = [endpoint EXCEPT ![tx[t].e] =
                      IF tx[t].op = "suspend" THEN "SUSPENDED" ELSE "ACTIVE"]
    /\ UNCHANGED <<credential, session, package, frame, cursor, tunnel>>

(* Variant: the cascade rewrites every locked session, ended ones included. *)
CommitRevokeEnded(t) ==
    /\ Finish(t, {"revoke"})
    /\ endpoint' = [endpoint EXCEPT ![tx[t].e] = "REVOKED"]
    /\ credential' = [credential EXCEPT ![tx[t].e] = "REVOKED"]
    /\ session' = [s \in Sessions |->
                      IF s \in Held(t)
                      THEN [session[s] EXCEPT !.status =
                              IF tx[t].e \in ABAs THEN "ABA_REVOKED" ELSE "REKEY_REQUIRED"]
                      ELSE session[s]]
    /\ UNCHANGED <<package, frame, cursor, tunnel>>

(* Variant: the cascade withdraws the key packages and leaves the sessions. *)
CommitRevokePackagesOnly(t) ==
    /\ Finish(t, {"revoke"})
    /\ endpoint' = [endpoint EXCEPT ![tx[t].e] = "REVOKED"]
    /\ credential' = [credential EXCEPT ![tx[t].e] = "REVOKED"]
    /\ package' = [s \in Sessions |-> IF s \in Held(t) /\ package[s] # "NONE"
                                       THEN "REVOKED" ELSE package[s]]
    /\ UNCHANGED <<session, frame, cursor, tunnel>>

(* The cascade reaches the sessions the transaction locked when it began. *)
CommitRevoke(t) ==
    /\ Finish(t, {"revoke"})
    /\ LET e == tx[t].e
           locked == Sessions \cap Held(t)
           status == IF e \in ABAs THEN "ABA_REVOKED" ELSE "REKEY_REQUIRED"
       IN /\ endpoint' = [endpoint EXCEPT ![e] = "REVOKED"]
          /\ credential' = [credential EXCEPT ![e] = "REVOKED"]
          /\ package' = [s \in Sessions |-> IF s \in locked /\ package[s] # "NONE"
                                            THEN "REVOKED" ELSE package[s]]
          /\ session' = [s \in Sessions |->
                           IF s \in locked /\ session[s].status \notin EndedStatus
                           THEN [session[s] EXCEPT !.status = status]
                           ELSE session[s]]
    /\ UNCHANGED <<frame, cursor, tunnel>>

Commit(t) ==
    \/ CommitCreate(t) \/ CommitMove(t) \/ CommitPutKey(t) \/ CommitAckKey(t)
    \/ CommitFrame(t) \/ CommitAck(t) \/ CommitEndpointAction(t) \/ CommitRevoke(t)

Advance(t) == Acquire(t) \/ Verify(t) \/ Refuse(t) \/ Commit(t)

Init ==
    /\ endpoint = [e \in Endpoints |-> "ACTIVE"]
    /\ credential = [e \in Endpoints |-> "ACTIVE"]
    /\ session = [s \in Sessions |-> [status |-> "NONE", generation |-> 0]]
    /\ package = [s \in Sessions |-> "NONE"]
    /\ frame = [k \in Slots |-> [status |-> "NONE", content |-> Idle.c]]
    /\ cursor = [k \in Sessions \X Directions |-> 0]
    /\ tunnel = [s \in Sessions |-> "none"]
    /\ tx = [t \in Tx |-> Idle]

BeginSomething(t) ==
    \/ \E s \in Sessions :
          \/ BeginCreate(t, s) \/ BeginFail(t, s)
          \/ \E op \in {"open", "reject"} : BeginOpenResult(t, s, op)
          \/ BeginPutKey(t, s) \/ BeginAckKey(t, s)
          \/ BeginUncertain(t, s) \/ BeginClose(t, s)
          \/ \E d \in Directions, q \in Seqs, c \in Contents : BeginFrame(t, s, d, q, c)
          \/ \E d \in Directions, q \in 0 .. MaxSeq, r \in SUBSET Seqs : BeginAck(t, s, d, q, r)
    \/ \E e \in Endpoints :
          \/ \E op \in {"suspend", "resume"} : BeginEndpointAction(t, e, op)
          \/ BeginRevoke(t, e)

Next ==
    \/ \E t \in Tx : BeginSomething(t) \/ Advance(t) \/ Abort(t)
    \/ \E s \in Sessions : SendOpenTunnel(s)

Spec == Init /\ [][Next]_vars

(* The database grants queued row locks in turn, and a handler keeps running. *)
Fairness == \A t \in Tx : SF_vars(Advance(t))

FairSpec == Spec /\ Fairness

-----------------------------------------------------------------------------
(* Every row, cursor and transaction has the shape its table or handler gives it. *)
TypeOK ==
    /\ endpoint \in [Endpoints -> EndpointStatus]
    /\ credential \in [Endpoints -> {"ACTIVE", "REVOKED"}]
    /\ session \in [Sessions -> [status : SessionStatus, generation : {0, 1}]]
    /\ package \in [Sessions -> PackageStatus]
    /\ frame \in [Slots -> [status : FrameStatus, content : Contents]]
    /\ cursor \in [Sessions \X Directions -> 0 .. MaxSeq]
    /\ tunnel \in [Sessions -> {"none", "unsent", "sent"}]
    /\ tx \in [Tx -> [op : Ops, s : Sessions, e : Endpoints, d : Directions,
                      q : 0 .. MaxSeq, c : Contents, r : SUBSET Seqs,
                      plan : Seq(Rows), got : Nat, ready : BOOLEAN]]

(* What a transaction checked on a row it locked, and what it read last,    *)
(* stays true until it ends: no other transaction commits a change to it    *)
(* (the FOR UPDATE locks every handler takes before it checks).             *)
LocksProtect ==
    \A t \in Tx :
        /\ \A i \in 1 .. tx[t].got : Admits(tx[t], tx[t].plan[i])
        /\ tx[t].ready => Verified(tx[t])

FrameAuthorizedStep ==
    \A k \in Slots : frame[k].status = "NONE" /\ frame'[k].status # "NONE" =>
       /\ session[k[1]].status = "ACTIVE"
       /\ endpoint[AbaOf[k[1]]] = "ACTIVE" /\ endpoint[HcOf[k[1]]] = "ACTIVE"
       /\ credential[Sender(k[1], k[2])] = "ACTIVE"

(* A frame becomes durable only while its session is ACTIVE, both endpoints *)
(* are ACTIVE and the sender's credential is ACTIVE, although the handler   *)
(* checked each of them earlier: no close or revocation commits in between  *)
(* (PutAuthorizedEndpointFrame).                                            *)
FrameAuthorized == [][FrameAuthorizedStep]_vars

(* No ABA ever has more than MaxActive sessions that are not ended, however *)
(* many create requests count concurrently (authorizeAndCreateEndpointSession). *)
SessionLimit == \A a \in ABAs : Cardinality(LiveSessions(a)) <= MaxActive

(* A session that carries traffic has an acknowledged key package that no   *)
(* revocation cascade has withdrawn (AcknowledgeAndActivateSessionKeyPackage *)
(* and RevokeEndpointForOwner).                                             *)
TrafficHasKey ==
    \A s \in Sessions : session[s].status \in {"ACTIVE", "UNCERTAIN"} =>
        session[s].generation = 1 /\ package[s] = "ACKNOWLEDGED"

NoResurrectionStep ==
    /\ \A s \in Sessions :
          /\ session[s].status \in EndedStatus => session'[s].status \in EndedStatus
          /\ session[s].status \in {"CLOSED", "ABA_REVOKED"} =>
                session'[s].status = session[s].status
          /\ session'[s].generation >= session[s].generation
    /\ \A e \in Endpoints : endpoint[e] = "REVOKED" => endpoint'[e] = "REVOKED"

(* An ended session never becomes live again, its key generation never goes *)
(* back, and a revoked endpoint stays revoked, whichever transactions race. *)
NoResurrection == [][NoResurrectionStep]_vars

AckMonotoneStep ==
    /\ \A k \in Sessions \X Directions : cursor'[k] >= cursor[k]
    /\ \A k \in Slots : frame[k].status = "RECEIVER_ACKED" =>
          frame'[k].status # "STORED"

(* The platform's ACK cursor of a direction never moves back, and a frame   *)
(* that was acknowledged is never offered for replay again (AdvanceAck).    *)
AckMonotone == [][AckMonotoneStep]_vars

FrameImmutableStep ==
    \A k \in Slots : frame[k].status # "NONE" =>
       /\ frame'[k].content = frame[k].content
       /\ frame[k].status = "CONFLICT" => frame'[k].status = "CONFLICT"

(* A stored frame keeps its content, and a slot in conflict stays out of    *)
(* replay: neither a second frame for it nor an ACK changes that            *)
(* (putAuthorizedFrameRow, markAcknowledgedFrames).                         *)
FrameImmutable == [][FrameImmutableStep]_vars

Before(r1, r2) ==
    \/ r1 \in Sessions /\ r2 \in Sessions /\ r1 < r2
    \/ r1 \in Sessions /\ r2 \in Endpoints
    \/ r1 \in ABAs /\ r2 \in HCs

(* Along a chain of transactions waiting for one another the awaited rows   *)
(* strictly ascend (sessions by id, then the ABA, then the HC), so the chain *)
(* never closes into a deadlock (the Session -> Endpoint lock order).       *)
OrderedWaits ==
    \A t, u \in Tx : Waiting(t) /\ Waiting(u) /\ Want(t) \in Held(u) =>
        Before(Want(t), Want(u))

(* Every transaction that begins comes to an end: again and again each      *)
(* database connection is free for the next one (the lock order and the     *)
(* rollback of whatever a check refuses).                                   *)
TxFinishes == \A t \in Tx : []<>IsIdle(t)

(* Revoking an ABA ends its sessions (RevokeEndpointForOwner's cascade). *)
RevokedAbaHasNoLiveSession ==
    \A s \in Sessions : endpoint[AbaOf[s]] = "REVOKED" => session[s].status \notin LiveStatus
=============================================================================
