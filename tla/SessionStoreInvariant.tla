----------------------- MODULE SessionStoreInvariant ------------------------
(***************************************************************************)
(* Type correctness of SessionStore and its inductive invariant, for every *)
(* set of sessions, endpoints and concurrent transactions.  The invariant  *)
(* says what each kind of transaction locks and in which order (Planned),  *)
(* that row locks are exclusive (Exclusive), which rows exist (RowsExist), *)
(* and that whatever a transaction checked under its locks is still true   *)
(* (LocksProtect).                                                         *)
(***************************************************************************)
EXTENDS SessionStore, FiniteSetTheorems, TLAPS

(* Type correctness. *)
JobType ==
    [op : Ops, s : Sessions, e : Endpoints, d : Directions, q : 0 .. MaxSeq,
     c : Contents, r : SUBSET Seqs, plan : Seq(Rows), got : Nat, ready : BOOLEAN]

Data == <<endpoint, credential, session, package, frame, cursor>>

(* Every handler starts its transaction with a well-formed job. *)
LEMMA JobTyped ==
    ASSUME NEW op \in Ops, NEW s \in Sessions, NEW plan \in Seq(Rows)
    PROVE  Job(op, s, plan) \in JobType
  <1>1. (CHOOSE c \in Contents : TRUE) \in Contents
    BY RouteAssumption, Zenon
  <1>2. AbaOf[s] \in Endpoints
    BY RouteAssumption, Zenon DEF Endpoints
  <1>3. 0 \in 0 .. MaxSeq
    BY RouteAssumption
  <1>. QED
    BY <1>1, <1>2, <1>3, RouteAssumption, Zenon DEF Job, JobType

(* A connection without a transaction is well formed. *)
LEMMA IdleTyped == Idle \in JobType
  <1>1. (CHOOSE s \in Sessions : TRUE) \in Sessions
    BY RouteAssumption, Zenon
  <1>2. <<>> \in Seq(Rows)
    OBVIOUS
  <1>. QED
    BY <1>1, <1>2, JobTyped, ZenonT(30) DEF Idle, Ops

(* The rows of a session's route can be locked. *)
LEMMA RouteRows ==
    ASSUME NEW s \in Sessions
    PROVE  /\ s \in Rows /\ AbaOf[s] \in Rows /\ HcOf[s] \in Rows
           /\ AbaOf[s] \in Endpoints /\ HcOf[s] \in Endpoints
           /\ <<s>> \in Seq(Rows) /\ <<AbaOf[s], HcOf[s]>> \in Seq(Rows)
           /\ <<s, HcOf[s]>> \in Seq(Rows) /\ <<s, AbaOf[s], HcOf[s]>> \in Seq(Rows)
  BY RouteAssumption DEF Rows, Endpoints

(* The sessions a revocation locks, and the endpoint after them, form a plan. *)
LEMMA RevokePlan ==
    ASSUME NEW e \in Endpoints, NEW p \in InOrder(SessionsOf(e))
    PROVE  /\ Append(p, e) \in Seq(Rows)
           /\ Len(Append(p, e)) = Len(p) + 1 /\ Len(p) \in Nat
           /\ Append(p, e)[Len(p) + 1] = e
           /\ \A i \in 1 .. Len(p) : Append(p, e)[i] \in SessionsOf(e)
           /\ \A i, j \in 1 .. Len(p) : i < j => Append(p, e)[i] < Append(p, e)[j]
  <1>1. IsFiniteSet(SessionsOf(e))
    BY RouteAssumption, FS_Subset, Zenon DEF SessionsOf
  <1>2. Cardinality(SessionsOf(e)) \in Nat
    BY <1>1, FS_CardinalityType, Zenon
  <1>3. p \in Seq(SessionsOf(e))
    BY <1>2 DEF InOrder
  <1>4. SessionsOf(e) \subseteq Rows /\ e \in Rows
    BY Zenon DEF SessionsOf, Rows
  <1>5. p \in Seq(Rows)
    BY <1>3, <1>4
  <1>6. Len(p) = Cardinality(SessionsOf(e)) /\ DOMAIN p = 1 .. Len(p)
    BY <1>2, <1>3 DEF InOrder
  <1>7. \A i \in 1 .. Len(p) : Append(p, e)[i] = p[i]
    BY <1>5, <1>4
  <1>8. \A i, j \in 1 .. Len(p) : i < j => p[i] < p[j]
    BY <1>6, Zenon DEF InOrder
  <1>. QED
    BY <1>3, <1>4, <1>5, <1>6, <1>7, <1>8

(* Starting a transaction with a well-formed job keeps the types. *)
LEMMA BeginTyped ==
    ASSUME TypeOK, NEW t \in Tx, NEW job \in JobType, Begin(t, job),
           tunnel' \in [Sessions -> {"none", "unsent", "sent"}]
    PROVE  TypeOK'
  BY Zenon DEF TypeOK, Begin, JobType

(* The empty database and the idle transactions have their types. *)
LEMMA TypeInit == Init => TypeOK
  <1>. SUFFICES ASSUME Init PROVE TypeOK
    BY Zenon
  <1>1. Idle.c \in Contents
    BY IdleTyped, Zenon DEF JobType
  <1>. QED
    BY <1>1, IdleTyped, RouteAssumption
    DEF Init, TypeOK, JobType, EndpointStatus, SessionStatus, PackageStatus, FrameStatus

(* A Begin action fills in a job of the right type and leaves the tables alone. *)
LEMMA TypeBegin ==
    ASSUME TypeOK, NEW t \in Tx, BeginSomething(t)
    PROVE  TypeOK'
  <1>1. ASSUME NEW s \in Sessions, BeginCreate(t, s) PROVE TypeOK'
    BY <1>1, BeginTyped, JobTyped, RouteRows, ZenonT(30) DEF BeginCreate, Ops, TypeOK
  <1>2. ASSUME NEW s \in Sessions, BeginFail(t, s) PROVE TypeOK'
    BY <1>2, BeginTyped, JobTyped, RouteRows, ZenonT(30) DEF BeginFail, Ops, TypeOK
  <1>3. ASSUME NEW s \in Sessions, NEW op \in {"open", "reject"}, BeginOpenResult(t, s, op)
        PROVE  TypeOK'
    BY <1>3, BeginTyped, JobTyped, RouteRows, ZenonT(30) DEF BeginOpenResult, Ops, TypeOK
  <1>4. ASSUME NEW s \in Sessions, BeginPutKey(t, s) PROVE TypeOK'
    BY <1>4, BeginTyped, JobTyped, RouteRows, ZenonT(30) DEF BeginPutKey, Ops, TypeOK
  <1>5. ASSUME NEW s \in Sessions, BeginAckKey(t, s) PROVE TypeOK'
    BY <1>5, BeginTyped, JobTyped, RouteRows, ZenonT(30) DEF BeginAckKey, Ops, TypeOK
  <1>6. ASSUME NEW s \in Sessions, BeginUncertain(t, s) PROVE TypeOK'
    BY <1>6, BeginTyped, JobTyped, RouteRows, ZenonT(30) DEF BeginUncertain, Ops, TypeOK
  <1>7. ASSUME NEW s \in Sessions, BeginClose(t, s) PROVE TypeOK'
    BY <1>7, BeginTyped, JobTyped, RouteRows, ZenonT(30) DEF BeginClose, Ops, TypeOK
  <1>8. ASSUME NEW s \in Sessions, NEW d \in Directions, NEW q \in Seqs, NEW c \in Contents,
               BeginFrame(t, s, d, q, c)
        PROVE  TypeOK'
    <2>1. Job("frame", s, <<s, AbaOf[s], HcOf[s]>>) \in JobType
      BY JobTyped, RouteRows, ZenonT(30) DEF Ops
    <2>2. q \in 0 .. MaxSeq
      BY RouteAssumption DEF Seqs
    <2>3. [Job("frame", s, <<s, AbaOf[s], HcOf[s]>>) EXCEPT !.d = d, !.q = q, !.c = c] \in JobType
      BY <2>1, <2>2, ZenonT(30) DEF JobType
    <2>. QED
      BY <1>8, <2>3, BeginTyped, Zenon DEF BeginFrame, TypeOK
  <1>9. ASSUME NEW s \in Sessions, NEW d \in Directions, NEW q \in 0 .. MaxSeq,
               NEW r \in SUBSET Seqs, BeginAck(t, s, d, q, r)
        PROVE  TypeOK'
    <2>. <<>> \in Seq(Rows) /\ "ack" \in Ops
      BY DEF Ops
    <2>1. Job("ack", s, <<>>) \in JobType
      BY JobTyped, ZenonT(30)
    <2>2. [Job("ack", s, <<>>) EXCEPT !.d = d, !.q = q, !.r = r] \in JobType
      BY <2>1, ZenonT(30) DEF JobType
    <2>. QED
      BY <1>9, <2>2, BeginTyped, ZenonT(30) DEF BeginAck, TypeOK
  <1>10. ASSUME NEW e \in Endpoints, NEW op \in {"suspend", "resume"}, BeginEndpointAction(t, e, op)
         PROVE  TypeOK'
    <2>. <<e>> \in Seq(Rows) /\ op \in Ops
      BY DEF Rows, Ops
    <2>1. [Idle EXCEPT !.op = op, !.e = e, !.plan = <<e>>] \in JobType
      BY IdleTyped, ZenonT(30) DEF JobType
    <2>. QED
      BY <1>10, <2>1, BeginTyped, Zenon DEF BeginEndpointAction, TypeOK
  <1>11. ASSUME NEW e \in Endpoints, BeginRevoke(t, e) PROVE TypeOK'
    <2>1. PICK p \in InOrder(SessionsOf(e)) :
            /\ Begin(t, [Idle EXCEPT !.op = "revoke", !.e = e, !.plan = Append(p, e)])
            /\ UNCHANGED tunnel
      BY <1>11, ZenonT(30) DEF BeginRevoke
    <2>2. [Idle EXCEPT !.op = "revoke", !.e = e, !.plan = Append(p, e)] \in JobType
      BY IdleTyped, RevokePlan, ZenonT(30) DEF JobType, Ops
    <2>. QED
      BY <2>1, <2>2, BeginTyped, Zenon DEF TypeOK
  <1>. QED
    BY <1>1, <1>2, <1>3, <1>4, <1>5, <1>6, <1>7, <1>8, <1>9, <1>10, <1>11, Zenon DEF BeginSomething

(* Locking, reading, rolling back and committing keep the types. *)
LEMMA TypeAdvance ==
    ASSUME TypeOK, NEW t \in Tx, Advance(t) \/ Abort(t)
    PROVE  TypeOK'
  <1>. USE DEF TypeOK
  <1>1. tx \in [Tx -> JobType]
    BY Zenon DEF JobType
  <1>2. tx' = [tx EXCEPT ![t] = Idle] => tx' \in [Tx -> JobType]
    BY <1>1, IdleTyped
  <1>a. \A row \in [status : SessionStatus, generation : {0, 1}], v \in SessionStatus :
          [row EXCEPT !.status = v] \in [status : SessionStatus, generation : {0, 1}]
    BY ZenonT(30)
  <1>b. tx[t] \in JobType
    BY <1>1, Zenon
  <1>c. tx[t].s \in Sessions /\ tx[t].e \in Endpoints /\ tx[t].d \in Directions
        /\ tx[t].q \in 0 .. MaxSeq /\ tx[t].c \in Contents
    BY <1>b, Zenon DEF JobType
  <1>3. CASE Acquire(t)
    <2>0. tx[t].got + 1 \in Nat
      BY <1>b DEF JobType
    <2>1. [tx[t] EXCEPT !.got = tx[t].got + 1] \in JobType
      BY <1>b, <2>0, ZenonT(30) DEF JobType
    <2>2. tx' = [tx EXCEPT ![t] = [tx[t] EXCEPT !.got = tx[t].got + 1]]
      BY <1>3, Zenon DEF Acquire
    <2>3. tx' \in [Tx -> JobType]
      BY <1>1, <2>1, <2>2, Zenon
    <2>. QED
      BY <1>3, <2>3, ZenonT(30) DEF Acquire, JobType
  <1>4. CASE Verify(t)
    <2>1. [tx[t] EXCEPT !.ready = TRUE] \in JobType
      BY <1>b, ZenonT(30) DEF JobType
    <2>2. tx' \in [Tx -> JobType]
      BY <1>1, <1>4, <2>1, Zenon DEF Verify
    <2>. QED
      BY <1>4, <2>2, ZenonT(30) DEF Verify, JobType
  <1>5. CASE Refuse(t) \/ Abort(t)
    BY <1>2, <1>5, Zenon DEF Refuse, Abort, JobType
  <1>6. CASE CommitCreate(t)
    <2>1. "CREATING" \in SessionStatus
      BY Zenon DEF SessionStatus, LiveStatus
    <2>2. session' \in [Sessions -> [status : SessionStatus, generation : {0, 1}]]
      BY <1>6, <1>a, <1>c, <2>1, Zenon DEF CommitCreate
    <2>. QED
      BY <1>2, <1>6, <2>2, <1>c, Zenon DEF CommitCreate, Finish, JobType
  <1>7. CASE CommitMove(t)
    <2>1. MoveTo[tx[t].op] \in SessionStatus
      BY <1>7 DEF CommitMove, Finish, MoveTo, SessionStatus, LiveStatus, EndedStatus
    <2>2. session' \in [Sessions -> [status : SessionStatus, generation : {0, 1}]]
      BY <1>7, <1>a, <1>c, <2>1, Zenon DEF CommitMove
    <2>. QED
      BY <1>2, <1>7, <2>2, Zenon DEF CommitMove, Finish, JobType
  <1>8. CASE CommitPutKey(t)
    BY <1>2, <1>8, Zenon DEF CommitPutKey, Finish, JobType, PackageStatus
  <1>9. CASE CommitAckKey(t)
    BY <1>2, <1>9, Zenon DEF CommitAckKey, Finish, JobType, PackageStatus, SessionStatus, LiveStatus
  <1>10. CASE CommitFrame(t)
    <2>1. \A old \in [status : FrameStatus, content : Contents] :
            StoreFrame(old, tx[t].c) \in [status : FrameStatus, content : Contents]
      BY ZenonT(30) DEF StoreFrame, FrameStatus
    <2>. QED
      BY <1>2, <1>10, <2>1, ZenonT(30) DEF CommitFrame, Finish, JobType
  <1>11. CASE CommitAck(t)
    <2>1. \A old \in [status : FrameStatus, content : Contents] :
            MarkAcknowledged(old) \in [status : FrameStatus, content : Contents]
      BY ZenonT(30) DEF MarkAcknowledged, FrameStatus
    <2>2. cursor' \in [Sessions \X Directions -> 0 .. MaxSeq]
      BY <1>11, <1>c, ZenonT(30) DEF CommitAck
    <2>3. frame' \in [Slots -> [status : FrameStatus, content : Contents]]
      <3>1. CASE UNCHANGED frame
        BY <3>1, Zenon
      <3>2. ASSUME NEW A, frame' = [k \in Slots |-> IF k[1] = tx[t].s /\ k[2] = tx[t].d /\ k[3] \in A
                                                    THEN MarkAcknowledged(frame[k]) ELSE frame[k]]
            PROVE  frame' \in [Slots -> [status : FrameStatus, content : Contents]]
        <4>1. frame \in [Slots -> [status : FrameStatus, content : Contents]]
          BY Zenon
        <4>. QED
          BY <2>1, <3>2, <4>1, Zenon
      <3>. QED
        BY <1>11, <3>1, <3>2, ZenonT(30) DEF CommitAck
    <2>. QED
      BY <1>2, <1>11, <2>2, <2>3, Zenon DEF CommitAck, Finish, JobType
  <1>12. CASE CommitEndpointAction(t)
    BY <1>2, <1>12, Zenon DEF CommitEndpointAction, Finish, JobType, EndpointStatus
  <1>13. CASE CommitRevoke(t)
    <2>1. "ABA_REVOKED" \in SessionStatus /\ "REKEY_REQUIRED" \in SessionStatus
      BY Zenon DEF SessionStatus, LiveStatus, EndedStatus
    <2>2. session' \in [Sessions -> [status : SessionStatus, generation : {0, 1}]]
      BY <1>13, <1>a, <2>1, Zenon DEF CommitRevoke
    <2>3. package' \in [Sessions -> PackageStatus]
      BY <1>13, Zenon DEF CommitRevoke, PackageStatus
    <2>4. endpoint' \in [Endpoints -> EndpointStatus]
          /\ credential' \in [Endpoints -> {"ACTIVE", "REVOKED"}]
      BY <1>13, <1>c, Zenon DEF CommitRevoke, EndpointStatus
    <2>. QED
      BY <1>2, <1>13, <2>2, <2>3, <2>4, Zenon DEF CommitRevoke, Finish, JobType
  <1>. QED
    BY <1>3, <1>4, <1>5, <1>6, <1>7, <1>8, <1>9, <1>10, <1>11, <1>12, <1>13, Zenon
    DEF Advance, Commit

(* No step of any transaction takes a variable out of its type. *)
LEMMA TypeStep == TypeOK /\ [Next]_vars => TypeOK'
  <1>. SUFFICES ASSUME TypeOK, [Next]_vars PROVE TypeOK'
    BY Zenon
  <1>1. ASSUME NEW s \in Sessions, SendOpenTunnel(s) PROVE TypeOK'
    BY <1>1, Zenon DEF SendOpenTunnel, TypeOK
  <1>2. CASE UNCHANGED vars
    BY <1>2, Zenon DEF vars, TypeOK
  <1>. QED
    BY <1>1, <1>2, TypeBegin, TypeAdvance, Zenon DEF Next

(* The Platform's rows and transactions keep their shape in every behaviour. *)
THEOREM TypeCorrect == Spec => []TypeOK
  BY TypeInit, TypeStep, PTL DEF Spec

-----------------------------------------------------------------------------
(* The rows each handler locks, in the order its code takes them. *)
PlanOf(job) ==
    /\ job.op \in {"idle", "ack"} => job.plan = <<>>
    /\ job.op = "create" => job.plan = <<AbaOf[job.s], HcOf[job.s]>>
    /\ job.op \in DOMAIN MoveFrom => job.plan = <<job.s>>
    /\ job.op \in {"putkey", "frame"} => job.plan = <<job.s, AbaOf[job.s], HcOf[job.s]>>
    /\ job.op = "ackkey" => job.plan = <<job.s, HcOf[job.s]>>
    /\ job.op \in {"suspend", "resume"} => job.plan = <<job.e>>
    /\ job.op = "revoke" =>
          /\ Len(job.plan) >= 1
          /\ job.plan[Len(job.plan)] = job.e
          /\ \A i \in 1 .. Len(job.plan) - 1 :
                job.plan[i] \in Sessions /\ job.e \in {AbaOf[job.plan[i]], HcOf[job.plan[i]]}

WellPlanned(job) ==
    /\ PlanOf(job)
    /\ job.got <= Len(job.plan)
    /\ job.ready => job.got = Len(job.plan)
    /\ \A i, j \in 1 .. Len(job.plan) : i < j => Before(job.plan[i], job.plan[j])

Planned == \A t \in Tx : WellPlanned(tx[t])

Exclusive == \A t, u \in Tx : t # u => Held(t) \cap Held(u) = {}

RowsExist ==
    /\ \A t \in Tx : \A i \in 1 .. Len(tx[t].plan) :
          tx[t].plan[i] \in Sessions => session[tx[t].plan[i]].status # "NONE"
    /\ \A t \in Tx : tx[t].op = "create" => session[tx[t].s].status = "NONE"
    /\ \A t, u \in Tx :
          t # u /\ tx[t].op = "create" /\ tx[u].op = "create" => tx[t].s # tx[u].s
    /\ \A s \in Sessions :
          tunnel[s] # "none" \/ package[s] # "NONE" => session[s].status # "NONE"

IInv == TypeOK /\ Planned /\ Exclusive /\ RowsExist /\ LocksProtect

(* The rows a transaction holds are rows of its plan. *)
LEMMA HeldInPlan ==
    ASSUME TypeOK, Planned, NEW t \in Tx
    PROVE  /\ tx[t] \in JobType
           /\ tx[t].got \in Nat /\ Len(tx[t].plan) \in Nat /\ tx[t].got <= Len(tx[t].plan)
           /\ \A i \in 1 .. tx[t].got : i \in 1 .. Len(tx[t].plan) /\ tx[t].plan[i] \in Held(t)
           /\ Held(t) \subseteq Rows
  <1>1. tx[t] \in JobType
    BY Zenon DEF TypeOK, JobType
  <1>2. tx[t].got \in Nat /\ tx[t].plan \in Seq(Rows) /\ Len(tx[t].plan) \in Nat
    BY <1>1 DEF JobType
  <1>3. tx[t].got <= Len(tx[t].plan)
    BY Zenon DEF Planned, WellPlanned
  <1>4. \A i \in 1 .. tx[t].got : i \in 1 .. Len(tx[t].plan) /\ tx[t].plan[i] \in Rows
    BY <1>2, <1>3
  <1>. QED
    BY <1>1, <1>2, <1>3, <1>4, Zenon DEF Held

(* A transaction that waits for no row holds every row of its plan. *)
LEMMA AllHeld ==
    ASSUME TypeOK, Planned, NEW t \in Tx, ~Waiting(t)
    PROVE  tx[t].got = Len(tx[t].plan) /\ \A i \in 1 .. Len(tx[t].plan) : tx[t].plan[i] \in Held(t)
  BY HeldInPlan DEF Waiting

(* What each kind of transaction holds once it waits for no row. *)
LEMMA HoldsRoute ==
    ASSUME TypeOK, Planned, NEW t \in Tx, tx[t].got = Len(tx[t].plan)
    PROVE  /\ tx[t].op \in {"create", "putkey", "frame"} =>
                 AbaOf[tx[t].s] \in Held(t) /\ HcOf[tx[t].s] \in Held(t)
           /\ tx[t].op \in {"putkey", "frame", "ackkey"} => tx[t].s \in Held(t)
           /\ tx[t].op \in DOMAIN MoveFrom => tx[t].s \in Held(t)
           /\ tx[t].op \in {"suspend", "resume", "revoke"} => tx[t].e \in Held(t)
  <1>0. DOMAIN MoveFrom = {"open", "reject", "fail", "uncertain", "close"}
    BY Zenon DEF MoveFrom
  <1>1. PlanOf(tx[t]) /\ Len(tx[t].plan) \in Nat
    BY HeldInPlan, Zenon DEF Planned, WellPlanned
  <1>2. \A i \in 1 .. Len(tx[t].plan) : tx[t].plan[i] \in Held(t)
    BY HeldInPlan, Zenon
  <1>3. CASE tx[t].op = "create"
    <2>0. tx[t].plan = <<AbaOf[tx[t].s], HcOf[tx[t].s]>>
      BY <1>1, <1>3, Zenon DEF PlanOf
    <2>1. /\ Len(tx[t].plan) = 2 /\ tx[t].plan[1] = AbaOf[tx[t].s] /\ tx[t].plan[2] = HcOf[tx[t].s]
      BY <2>0
    <2>. QED
      BY <1>2, <1>3, <2>1, <1>0
  <1>4. CASE tx[t].op \in {"putkey", "frame"}
    <2>0. tx[t].plan = <<tx[t].s, AbaOf[tx[t].s], HcOf[tx[t].s]>>
      BY <1>1, <1>4, Zenon DEF PlanOf
    <2>1. /\ Len(tx[t].plan) = 3 /\ tx[t].plan[1] = tx[t].s
          /\ tx[t].plan[2] = AbaOf[tx[t].s] /\ tx[t].plan[3] = HcOf[tx[t].s]
      BY <2>0
    <2>. QED
      BY <1>2, <1>4, <2>1, <1>0
  <1>5. CASE tx[t].op = "ackkey"
    <2>0. tx[t].plan = <<tx[t].s, HcOf[tx[t].s]>>
      BY <1>1, <1>5, Zenon DEF PlanOf
    <2>1. Len(tx[t].plan) = 2 /\ tx[t].plan[1] = tx[t].s
      BY <2>0
    <2>. QED
      BY <1>2, <1>5, <2>1, <1>0
  <1>6. CASE tx[t].op \in DOMAIN MoveFrom
    <2>0. tx[t].plan = <<tx[t].s>>
      BY <1>1, <1>6, Zenon DEF PlanOf
    <2>1. Len(tx[t].plan) = 1 /\ tx[t].plan[1] = tx[t].s
      BY <2>0
    <2>. QED
      BY <1>2, <1>6, <2>1, <1>0
  <1>7. CASE tx[t].op \in {"suspend", "resume"}
    <2>0. tx[t].plan = <<tx[t].e>>
      BY <1>1, <1>7, Zenon DEF PlanOf
    <2>1. Len(tx[t].plan) = 1 /\ tx[t].plan[1] = tx[t].e
      BY <2>0
    <2>. QED
      BY <1>2, <1>7, <2>1, <1>0
  <1>8. CASE tx[t].op = "revoke"
    <2>1. Len(tx[t].plan) >= 1 /\ tx[t].plan[Len(tx[t].plan)] = tx[t].e
      BY <1>1, <1>8, Zenon DEF PlanOf
    <2>. QED
      BY <1>1, <1>2, <1>8, <2>1, <1>0
  <1>. QED
    BY <1>3, <1>4, <1>5, <1>6, <1>7, <1>8, Zenon

(* The awaited rows ascend because every plan ascends. *)
LEMMA WaitsAscend == TypeOK /\ Planned => OrderedWaits
  <1>. SUFFICES ASSUME TypeOK, Planned, NEW t \in Tx, NEW u \in Tx,
                       Waiting(t), Waiting(u), Want(t) \in Held(u)
                PROVE  Before(Want(t), Want(u))
    BY Zenon DEF OrderedWaits
  <1>1. PICK i \in 1 .. tx[u].got : Want(t) = tx[u].plan[i]
    BY Zenon DEF Held
  <1>2. /\ i \in 1 .. Len(tx[u].plan) /\ tx[u].got + 1 \in 1 .. Len(tx[u].plan)
        /\ i < tx[u].got + 1
    BY HeldInPlan DEF Waiting
  <1>3. Before(tx[u].plan[i], tx[u].plan[tx[u].got + 1])
    BY <1>2, Zenon DEF Planned, WellPlanned
  <1>. QED
    BY <1>1, <1>3, Zenon DEF Want

(* Initially nobody holds or waits for a row and no row exists. *)
LEMMA IInvInit == Init => IInv
  <1>. SUFFICES ASSUME Init PROVE IInv
    BY Zenon
  <1>1. TypeOK
    BY TypeInit, Zenon
  <1>2. \A t \in Tx : /\ tx[t].op = "idle" /\ tx[t].plan = <<>>
                      /\ tx[t].got = 0 /\ tx[t].ready = FALSE
    BY Zenon DEF Init, Idle, Job
  <1>3. \A t \in Tx : Held(t) = {}
    BY <1>2 DEF Held
  <1>4. Planned
    BY <1>2, SMTT(60) DEF Planned, WellPlanned, PlanOf, MoveFrom
  <1>5. Exclusive /\ LocksProtect
    BY <1>2, <1>3 DEF Exclusive, LocksProtect
  <1>6. RowsExist
    BY <1>2 DEF RowsExist, Init
  <1>. QED
    BY <1>1, <1>4, <1>5, <1>6, Zenon DEF IInv

Startable(job) ==
    /\ job.got = 0 /\ job.ready = FALSE /\ PlanOf(job)
    /\ \A i, j \in 1 .. Len(job.plan) : i < j => Before(job.plan[i], job.plan[j])
    /\ \A i \in 1 .. Len(job.plan) :
          job.plan[i] \in Sessions => session[job.plan[i]].status # "NONE"
    /\ job.op = "create" => /\ session[job.s].status = "NONE"
                            /\ \A u \in Tx : ~(tx[u].op = "create" /\ tx[u].s = job.s)

(* A transaction may begin with any ascending plan over rows that exist. *)
LEMMA BeginInv ==
    ASSUME IInv, NEW t \in Tx, NEW job \in JobType, Begin(t, job), TypeOK',
           Startable(job),
           \A s \in Sessions : tunnel'[s] # "none" => tunnel[s] # "none"
    PROVE  IInv'
  <1>. USE DEF Startable
  <1>1. tx'[t] = job /\ \A u \in Tx : u # t => tx'[u] = tx[u]
    BY Zenon DEF Begin, IInv, TypeOK
  <1>2. UNCHANGED <<endpoint, credential, session, package>>
    BY Zenon DEF Begin
  <1>3. Held(t)' = {}
    BY <1>1 DEF Held
  <1>4. \A u \in Tx : u # t => Held(u)' = Held(u)
    BY <1>1 DEF Held
  <1>5. Planned'
    <2>1. Len(job.plan) \in Nat
      BY DEF JobType
    <2>2. WellPlanned(job)
      BY <2>1 DEF WellPlanned
    <2>. QED
      BY <1>1, <2>2, Zenon DEF IInv, Planned
  <1>6. Exclusive'
    BY <1>3, <1>4, Zenon DEF IInv, Exclusive
  <1>7. RowsExist'
    BY <1>1, <1>2, SMTT(60) DEF IInv, RowsExist
  <1>8. LocksProtect'
    <2>1. \A u \in Tx : u # t =>
            /\ \A i \in 1 .. tx'[u].got : Admits(tx'[u], tx'[u].plan[i])
            /\ tx'[u].ready => Verified(tx'[u])
      BY <1>1, Zenon DEF IInv, LocksProtect
    <2>2. /\ \A i \in 1 .. tx'[t].got : Admits(tx'[t], tx'[t].plan[i])
          /\ tx'[t].ready => Verified(tx'[t])
      BY <1>1
    <2>3. \A u \in Tx : \A row : Admits(tx'[u], row) => Admits(tx[u], row)'
      BY <1>2, SMTT(60) DEF Admits
    <2>4. \A u \in Tx : Verified(tx'[u]) => Verified(tx[u])'
      BY <1>2, SMTT(60) DEF Verified, LiveSessions, CanActivate
    <2>. QED
      BY <2>1, <2>2, <2>3, <2>4, Zenon DEF LocksProtect
  <1>. QED
    BY <1>5, <1>6, <1>7, <1>8, Zenon DEF IInv

(* A route's rows ascend: the session, then the ABA, then the HC. *)
LEMMA RouteAscends ==
    ASSUME NEW s \in Sessions
    PROVE  /\ Before(s, AbaOf[s]) /\ Before(s, HcOf[s]) /\ Before(AbaOf[s], HcOf[s])
           /\ AbaOf[s] \notin Sessions /\ HcOf[s] \notin Sessions
  BY RouteAssumption, Zenon DEF Before, Endpoints

(* Every handler begins with a plan that satisfies the invariant. *)
LEMMA IInvBegin ==
    ASSUME IInv, NEW t \in Tx, BeginSomething(t)
    PROVE  IInv'
  <1>. TypeOK /\ TypeOK'
    BY TypeBegin, Zenon DEF IInv
  <1>1. ASSUME NEW s \in Sessions, BeginCreate(t, s) PROVE IInv'
    <2>. DEFINE job == Job("create", s, <<AbaOf[s], HcOf[s]>>)
    <2>1. job \in JobType
      BY JobTyped, RouteRows, ZenonT(30) DEF Ops
    <2>2. /\ job.op = "create" /\ job.s = s /\ job.plan = <<AbaOf[s], HcOf[s]>>
          /\ job.got = 0 /\ job.ready = FALSE
      BY Zenon DEF Job
    <2>3. PlanOf(job)
      BY <2>2, Zenon DEF PlanOf, MoveFrom
    <2>4. Begin(t, job) /\ UNCHANGED tunnel
      BY <1>1, Zenon DEF BeginCreate
    <2>. HIDE DEF job
    <2>5. Startable(job)
      BY <1>1, <2>2, <2>3, RouteAscends, SMTT(60) DEF BeginCreate, Startable
    <2>. QED
      BY <2>1, <2>4, <2>5, BeginInv, Zenon
  <1>2. ASSUME NEW s \in Sessions, NEW op \in DOMAIN MoveFrom,
               session[s].status # "NONE", Begin(t, Job(op, s, <<s>>)),
               \A z \in Sessions : tunnel'[z] # "none" => tunnel[z] # "none"
        PROVE  IInv'
    <2>. DEFINE job == Job(op, s, <<s>>)
    <2>1. op \in Ops /\ op # "create"
      BY Zenon DEF Ops, MoveFrom
    <2>2. job \in JobType
      BY <2>1, JobTyped, RouteRows, ZenonT(30)
    <2>3. job.op = op /\ job.s = s /\ job.plan = <<s>> /\ job.got = 0 /\ job.ready = FALSE
      BY Zenon DEF Job
    <2>4. PlanOf(job)
      BY <2>3, Zenon DEF PlanOf, MoveFrom
    <2>5. Begin(t, job)
      BY <1>2, Zenon
    <2>. HIDE DEF job
    <2>6. Startable(job)
      BY <1>2, <2>1, <2>3, <2>4 DEF Startable
    <2>. QED
      BY <1>2, <2>2, <2>5, <2>6, BeginInv, Zenon
  <1>3. ASSUME NEW s \in Sessions, BeginFail(t, s) PROVE IInv'
    <2>1. session[s].status # "NONE"
      BY <1>3, Zenon DEF BeginFail, IInv, RowsExist
    <2>2. \A z \in Sessions : tunnel'[z] # "none" => tunnel[z] # "none"
      BY <1>3, Zenon DEF BeginFail, TypeOK
    <2>3. "fail" \in DOMAIN MoveFrom
      BY Zenon DEF MoveFrom
    <2>. QED
      BY <1>2, <1>3, <2>1, <2>2, <2>3, Zenon DEF BeginFail
  <1>4. ASSUME NEW s \in Sessions, NEW op \in {"open", "reject"}, BeginOpenResult(t, s, op)
        PROVE  IInv'
    <2>1. op \in DOMAIN MoveFrom
      BY Zenon DEF MoveFrom
    <2>. QED
      BY <1>2, <1>4, <2>1, Zenon DEF BeginOpenResult
  <1>5. ASSUME NEW s \in Sessions, BeginUncertain(t, s) \/ BeginClose(t, s) PROVE IInv'
    <2>1. "uncertain" \in DOMAIN MoveFrom /\ "close" \in DOMAIN MoveFrom
      BY Zenon DEF MoveFrom
    <2>. QED
      BY <1>2, <1>5, <2>1, Zenon DEF BeginUncertain, BeginClose
  <1>6. ASSUME NEW s \in Sessions, BeginPutKey(t, s) PROVE IInv'
    <2>. DEFINE job == Job("putkey", s, <<s, AbaOf[s], HcOf[s]>>)
    <2>1. job \in JobType
      BY JobTyped, RouteRows, ZenonT(30) DEF Ops
    <2>2. /\ job.op = "putkey" /\ job.s = s /\ job.plan = <<s, AbaOf[s], HcOf[s]>>
          /\ job.got = 0 /\ job.ready = FALSE
      BY Zenon DEF Job
    <2>3. PlanOf(job)
      BY <2>2, Zenon DEF PlanOf, MoveFrom
    <2>4. Begin(t, job) /\ UNCHANGED tunnel
      BY <1>6, Zenon DEF BeginPutKey
    <2>. HIDE DEF job
    <2>5. Startable(job)
      BY <1>6, <2>2, <2>3, RouteAscends DEF BeginPutKey, Startable
    <2>. QED
      BY <2>1, <2>4, <2>5, BeginInv, Zenon
  <1>7. ASSUME NEW s \in Sessions, BeginAckKey(t, s) PROVE IInv'
    <2>. DEFINE job == Job("ackkey", s, <<s, HcOf[s]>>)
    <2>1. job \in JobType
      BY JobTyped, RouteRows, ZenonT(30) DEF Ops
    <2>2. /\ job.op = "ackkey" /\ job.s = s /\ job.plan = <<s, HcOf[s]>>
          /\ job.got = 0 /\ job.ready = FALSE
      BY Zenon DEF Job
    <2>3. PlanOf(job)
      BY <2>2, Zenon DEF PlanOf, MoveFrom
    <2>4. session[s].status # "NONE"
      BY <1>7, Zenon DEF BeginAckKey, IInv, RowsExist
    <2>5. Begin(t, job) /\ UNCHANGED tunnel
      BY <1>7, Zenon DEF BeginAckKey
    <2>. HIDE DEF job
    <2>6. Startable(job)
      BY <2>2, <2>3, <2>4, RouteAscends, SMTT(60) DEF Startable
    <2>. QED
      BY <2>1, <2>5, <2>6, BeginInv, Zenon
  <1>8. ASSUME NEW s \in Sessions, NEW d \in Directions, NEW q \in Seqs, NEW c \in Contents,
               BeginFrame(t, s, d, q, c)
        PROVE  IInv'
    <2>. DEFINE job == [Job("frame", s, <<s, AbaOf[s], HcOf[s]>>) EXCEPT !.d = d, !.q = q, !.c = c]
    <2>1. Job("frame", s, <<s, AbaOf[s], HcOf[s]>>) \in JobType
      BY JobTyped, RouteRows, ZenonT(30) DEF Ops
    <2>2. q \in 0 .. MaxSeq
      BY RouteAssumption DEF Seqs
    <2>3. job \in JobType
      BY <2>1, <2>2, ZenonT(30) DEF JobType
    <2>4. /\ job.op = "frame" /\ job.s = s /\ job.plan = <<s, AbaOf[s], HcOf[s]>>
          /\ job.got = 0 /\ job.ready = FALSE
      BY Zenon DEF Job
    <2>5. PlanOf(job)
      BY <2>4 DEF PlanOf, MoveFrom
    <2>6. Begin(t, job) /\ UNCHANGED tunnel
      BY <1>8, Zenon DEF BeginFrame
    <2>. HIDE DEF job
    <2>7. Startable(job)
      BY <1>8, <2>4, <2>5, RouteAscends DEF BeginFrame, Startable
    <2>. QED
      BY <2>3, <2>6, <2>7, BeginInv, Zenon
  <1>9. ASSUME NEW s \in Sessions, NEW d \in Directions, NEW q \in 0 .. MaxSeq,
               NEW r \in SUBSET Seqs, BeginAck(t, s, d, q, r)
        PROVE  IInv'
    <2>. DEFINE job == [Job("ack", s, <<>>) EXCEPT !.d = d, !.q = q, !.r = r]
    <2>. <<>> \in Seq(Rows) /\ "ack" \in Ops
      BY DEF Ops
    <2>1. Job("ack", s, <<>>) \in JobType
      BY JobTyped, ZenonT(30)
    <2>2. job \in JobType
      BY <2>1, ZenonT(30) DEF JobType
    <2>3. job.op = "ack" /\ job.plan = <<>> /\ job.got = 0 /\ job.ready = FALSE
      BY Zenon DEF Job
    <2>4. PlanOf(job)
      BY <2>3 DEF PlanOf, MoveFrom
    <2>5. Begin(t, job) /\ UNCHANGED tunnel
      BY <1>9, Zenon DEF BeginAck
    <2>. HIDE DEF job
    <2>6. Startable(job)
      BY <2>3, <2>4 DEF Startable
    <2>. QED
      BY <2>2, <2>5, <2>6, BeginInv, Zenon
  <1>10. ASSUME NEW e \in Endpoints, NEW op \in {"suspend", "resume"}, BeginEndpointAction(t, e, op)
         PROVE  IInv'
    <2>. DEFINE job == [Idle EXCEPT !.op = op, !.e = e, !.plan = <<e>>]
    <2>. <<e>> \in Seq(Rows) /\ op \in Ops
      BY DEF Rows, Ops
    <2>1. job \in JobType
      BY IdleTyped, ZenonT(30) DEF JobType
    <2>2. job.op = op /\ job.e = e /\ job.plan = <<e>> /\ job.got = 0 /\ job.ready = FALSE
      BY Zenon DEF Idle, Job
    <2>3. PlanOf(job)
      BY <2>2 DEF PlanOf, MoveFrom
    <2>4. e \notin Sessions
      BY RouteAssumption, Zenon DEF Endpoints
    <2>5. Begin(t, job) /\ UNCHANGED tunnel
      BY <1>10, Zenon DEF BeginEndpointAction
    <2>. HIDE DEF job
    <2>6. Startable(job)
      BY <2>2, <2>3, <2>4 DEF Startable
    <2>. QED
      BY <2>1, <2>5, <2>6, BeginInv, Zenon
  <1>11. ASSUME NEW e \in Endpoints, BeginRevoke(t, e) PROVE IInv'
    <2>1. PICK p \in InOrder(SessionsOf(e)) :
            /\ Begin(t, [Idle EXCEPT !.op = "revoke", !.e = e, !.plan = Append(p, e)])
            /\ UNCHANGED tunnel
      BY <1>11, ZenonT(30) DEF BeginRevoke
    <2>. DEFINE job == [Idle EXCEPT !.op = "revoke", !.e = e, !.plan = Append(p, e)]
                n == Len(p)
    <2>2. job \in JobType
      BY IdleTyped, RevokePlan, ZenonT(30) DEF JobType, Ops
    <2>3. job.op = "revoke" /\ job.e = e /\ job.plan = Append(p, e) /\ job.got = 0 /\ job.ready = FALSE
      BY Zenon DEF Idle, Job
    <2>4. e \notin Sessions
      BY RouteAssumption, Zenon DEF Endpoints
    <2>5. /\ n \in Nat /\ Len(job.plan) = n + 1 /\ job.plan[n + 1] = e
          /\ \A i \in 1 .. n : /\ job.plan[i] \in Sessions /\ session[job.plan[i]].status # "NONE"
                               /\ e \in {AbaOf[job.plan[i]], HcOf[job.plan[i]]}
          /\ \A i, j \in 1 .. n : i < j => job.plan[i] < job.plan[j]
      BY <2>3, RevokePlan DEF SessionsOf
    <2>. HIDE DEF job, n
    <2>6. PlanOf(job)
      BY <2>3, <2>5, SMTT(60) DEF PlanOf, MoveFrom
    <2>7. ASSUME NEW i \in 1 .. Len(job.plan), NEW j \in 1 .. Len(job.plan), i < j
          PROVE  Before(job.plan[i], job.plan[j])
      <3>1. i \in 1 .. n /\ (j \in 1 .. n \/ j = n + 1)
        BY <2>5, <2>7, SMTT(60)
      <3>. QED
        BY <2>5, <2>7, <3>1, Zenon DEF Before
    <2>8. ASSUME NEW i \in 1 .. Len(job.plan), job.plan[i] \in Sessions
          PROVE  session[job.plan[i]].status # "NONE"
      <3>1. i \in 1 .. n \/ i = n + 1
        BY <2>5
      <3>. QED
        BY <2>4, <2>5, <2>8, <3>1, Zenon
    <2>9. Startable(job)
      BY <2>3, <2>6, <2>7, <2>8, Zenon DEF Startable
    <2>. QED
      BY <2>1, <2>2, <2>9, BeginInv, Zenon DEF job
  <1>. QED
    BY <1>1, <1>3, <1>4, <1>5, <1>6, <1>7, <1>8, <1>9, <1>10, <1>11, Zenon DEF BeginSomething

-----------------------------------------------------------------------------
(* Taking one more free lock and checking its row keeps the invariant. *)
LEMMA IInvAcquire ==
    ASSUME IInv, NEW t \in Tx, Acquire(t)
    PROVE  IInv'
  <1>. TypeOK /\ TypeOK' /\ Planned
    BY TypeAdvance, Zenon DEF IInv, Advance
  <1>. DEFINE g == tx[t].got
  <1>1. /\ tx[t] \in JobType /\ g \in Nat /\ Len(tx[t].plan) \in Nat /\ g < Len(tx[t].plan)
    BY HeldInPlan, Zenon DEF Acquire, Waiting
  <1>2. /\ tx'[t].op = tx[t].op /\ tx'[t].s = tx[t].s /\ tx'[t].d = tx[t].d /\ tx'[t].e = tx[t].e
        /\ tx'[t].plan = tx[t].plan /\ tx'[t].ready = tx[t].ready /\ tx'[t].got = g + 1
    BY <1>1, Zenon DEF Acquire, TypeOK, JobType
  <1>3. \A u \in Tx : u # t => tx'[u] = tx[u]
    BY Zenon DEF Acquire, TypeOK
  <1>4. UNCHANGED <<endpoint, credential, session, package, tunnel>>
    BY Zenon DEF Acquire
  <1>5. tx[t].ready = FALSE
    BY <1>1 DEF Planned, WellPlanned, JobType
  <1>. HIDE DEF g
  <1>6. Held(t)' = Held(t) \cup {Want(t)}
    <2>1. 1 .. g + 1 = (1 .. g) \cup {g + 1}
      BY <1>1
    <2>. QED
      BY <1>2, <2>1, Zenon DEF Held, Want, g
  <1>7. \A u \in Tx : u # t => Held(u)' = Held(u)
    BY <1>3, Zenon DEF Held
  <1>8. Planned'
    <2>1. WellPlanned(tx[t])
      BY Zenon DEF Planned
    <2>2. WellPlanned(tx'[t])
      <3>1. PlanOf(tx'[t])
        BY <1>2, <2>1, Zenon DEF WellPlanned, PlanOf
      <3>. QED
        BY <1>1, <1>2, <1>5, <2>1, <3>1, SMTT(60) DEF WellPlanned
    <2>. QED
      BY <1>3, <2>2, Zenon DEF Planned
  <1>9. Exclusive'
    BY <1>6, <1>7 DEF IInv, Exclusive, Acquire, Free
  <1>10. RowsExist'
    <2>1. \A u \in Tx : tx'[u].op = tx[u].op /\ tx'[u].s = tx[u].s /\ tx'[u].plan = tx[u].plan
      BY <1>2, <1>3, Zenon
    <2>. QED
      BY <1>4, <2>1, SMTT(60) DEF IInv, RowsExist
  <1>11. LocksProtect'
    <2>1. \A i \in 1 .. g + 1 : Admits(tx[t], tx[t].plan[i])
      <3>1. \A i \in 1 .. g + 1 : i \in 1 .. g \/ i = g + 1
        BY <1>1
      <3>2. \A i \in 1 .. g : Admits(tx[t], tx[t].plan[i])
        BY Zenon DEF IInv, LocksProtect, g
      <3>3. Admits(tx[t], tx[t].plan[g + 1])
        BY Zenon DEF Acquire, Want, g
      <3>. QED
        BY <3>1, <3>2, <3>3, Zenon
    <2>2. \A row : Admits(tx[t], row) => Admits(tx[t], row)'
      BY <1>2, <1>4, Zenon DEF Admits
    <2>3. \A u \in Tx : \A row : u # t /\ Admits(tx[u], row) => Admits(tx[u], row)'
      BY <1>3, <1>4, SMTT(60) DEF Admits
    <2>4. \A u \in Tx : u # t /\ Verified(tx[u]) => Verified(tx[u])'
      BY <1>3, <1>4, ZenonT(60) DEF Verified, LiveSessions, CanActivate
    <2>5. ASSUME NEW u \in Tx
          PROVE  (/\ \A i \in 1 .. tx[u].got : Admits(tx[u], tx[u].plan[i])
                  /\ tx[u].ready => Verified(tx[u]))'
      <3>1. CASE u = t
        BY <1>2, <1>5, <2>1, <2>2, <3>1, Zenon
      <3>2. CASE u # t
        BY <1>3, <2>3, <2>4, <3>2, Zenon DEF IInv, LocksProtect
      <3>. QED
        BY <3>1, <3>2, Zenon
    <2>. QED
      BY <2>5, Zenon DEF LocksProtect
  <1>. QED
    BY <1>8, <1>9, <1>10, <1>11, Zenon DEF IInv

(* Reading the last conditions with all locks held keeps the invariant. *)
LEMMA IInvVerify ==
    ASSUME IInv, NEW t \in Tx, Verify(t)
    PROVE  IInv'
  <1>. TypeOK /\ TypeOK' /\ Planned
    BY TypeAdvance, Zenon DEF IInv, Advance
  <1>1. /\ tx'[t].op = tx[t].op /\ tx'[t].s = tx[t].s /\ tx'[t].d = tx[t].d /\ tx'[t].e = tx[t].e
        /\ tx'[t].plan = tx[t].plan /\ tx'[t].got = tx[t].got
    BY DEF Verify, TypeOK
  <1>2. \A u \in Tx : u # t => tx'[u] = tx[u]
    BY Zenon DEF Verify, TypeOK
  <1>3. UNCHANGED <<endpoint, credential, session, package, tunnel>>
    BY Zenon DEF Verify
  <1>4. tx[t].got = Len(tx[t].plan)
    BY AllHeld, Zenon DEF Verify
  <1>5. \A u \in Tx : Held(u)' = Held(u)
    BY <1>1, <1>2, Zenon DEF Held
  <1>6. \A u \in Tx : /\ tx'[u].op = tx[u].op /\ tx'[u].s = tx[u].s /\ tx'[u].d = tx[u].d
                      /\ tx'[u].e = tx[u].e /\ tx'[u].plan = tx[u].plan /\ tx'[u].got = tx[u].got
    BY <1>1, <1>2, Zenon
  <1>7. Planned'
    <2>1. WellPlanned(tx[t])
      BY Zenon DEF Planned
    <2>2. PlanOf(tx'[t])
      BY <1>1, <2>1, Zenon DEF WellPlanned, PlanOf
    <2>3. WellPlanned(tx'[t])
      BY <1>1, <1>4, <2>1, <2>2, Zenon DEF WellPlanned
    <2>. QED
      BY <1>2, <2>3, Zenon DEF Planned
  <1>8. Exclusive'
    BY <1>5, Zenon DEF IInv, Exclusive
  <1>9. RowsExist'
    BY <1>3, <1>6, SMTT(60) DEF IInv, RowsExist
  <1>10. LocksProtect'
    <2>1. \A u \in Tx : \A row : Admits(tx[u], row) => Admits(tx[u], row)'
      BY <1>3, <1>6, SMTT(60) DEF Admits
    <2>0. \A u \in Tx : LiveSessions(AbaOf[tx[u].s])' = LiveSessions(AbaOf[tx[u].s])
      BY <1>3, <1>6, Zenon DEF LiveSessions
    <2>2. \A u \in Tx : Verified(tx[u]) => Verified(tx[u])'
      BY <1>3, <1>6, <2>0, SMTT(60) DEF Verified, CanActivate
    <2>3. Verified(tx[t])
      BY Zenon DEF Verify
    <2>4. \A u \in Tx : u # t => tx'[u].ready = tx[u].ready
      BY <1>2, Zenon
    <2>. QED
      BY <1>6, <2>1, <2>2, <2>3, <2>4, Zenon DEF IInv, LocksProtect
  <1>. QED
    BY <1>7, <1>8, <1>9, <1>10, Zenon DEF IInv

(* What a transaction may change when it ends: rows it holds, and the row  *)
(* a create inserts while it holds the row's ABA.                          *)
Inserts(t, s) == tx[t].op = "create" /\ s = tx[t].s

WritesHeldRows(t) ==
    /\ \A s \in Sessions : s \notin Held(t) /\ ~Inserts(t, s) =>
          session'[s] = session[s] /\ package'[s] = package[s]
    /\ \A e \in Endpoints : e \notin Held(t) =>
          endpoint'[e] = endpoint[e] /\ credential'[e] = credential[e]
    /\ \A s \in Sessions : session'[s].status \in LiveStatus =>
          session[s].status \in LiveStatus \/ (Inserts(t, s) /\ AbaOf[s] \in Held(t))
    /\ \A s \in Sessions : session[s].status # "NONE" => session'[s].status # "NONE"
    /\ \A s \in Sessions :
          tunnel'[s] # "none" \/ package'[s] # "NONE" => session'[s].status # "NONE"

(* A transaction that ends leaves alone every row another one holds, so    *)
(* what the other one checked is still true.                               *)
LEMMA OthersProtected ==
    ASSUME IInv, NEW t \in Tx, WritesHeldRows(t), NEW u \in Tx, u # t, tx'[u] = tx[u]
    PROVE  (/\ \A i \in 1 .. tx[u].got : Admits(tx[u], tx[u].plan[i])
            /\ tx[u].ready => Verified(tx[u]))'
  <1>. TypeOK /\ Planned
    BY Zenon DEF IInv
  <1>1. tx[u] \in JobType /\ tx[t] \in JobType
    BY HeldInPlan, Zenon
  <1>2. tx[u].s \in Sessions /\ tx[u].d \in Directions
    BY <1>1, Zenon DEF JobType
  <1>3. ASSUME NEW row \in Held(u)
        PROVE  /\ row \in Sessions => session'[row] = session[row] /\ package'[row] = package[row]
               /\ row \in Endpoints => endpoint'[row] = endpoint[row] /\ credential'[row] = credential[row]
    <2>1. row \notin Held(t)
      BY Zenon DEF IInv, Exclusive
    <2>2. PICK i \in 1 .. tx[u].got : row = tx[u].plan[i]
      BY Zenon DEF Held
    <2>3. i \in 1 .. Len(tx[u].plan)
      BY HeldInPlan, Zenon
    <2>4. row \in Sessions => ~Inserts(t, row)
      BY <2>2, <2>3, Zenon DEF IInv, RowsExist, Inserts
    <2>. QED
      BY <2>1, <2>4, Zenon DEF WritesHeldRows
  <1>4. ASSUME NEW i \in 1 .. tx[u].got PROVE Admits(tx[u], tx[u].plan[i])'
    <2>. DEFINE row == tx[u].plan[i]
    <2>1. row \in Held(u) /\ row \in Rows /\ i \in 1 .. Len(tx[u].plan)
      BY HeldInPlan, Zenon
    <2>2. Admits(tx[u], row)
      BY Zenon DEF IInv, LocksProtect
    <2>3. PlanOf(tx[u])
      BY Zenon DEF Planned, WellPlanned
    <2>4. tx[u].op \in DOMAIN MoveFrom => row = tx[u].s
      BY <2>1, <2>3, SMTT(60) DEF PlanOf
    <2>5. tx[u].op \in {"putkey", "frame", "ackkey"} /\ row # tx[u].s => row \in Endpoints
      BY <1>2, <2>1, <2>3, RouteRows, SMTT(60) DEF PlanOf
    <2>6. tx[u].op \in {"suspend", "resume"} => row \in Endpoints
      BY <1>1, <2>1, <2>3, SMTT(60) DEF PlanOf, JobType
    <2>7. row' = row
      BY Zenon
    <2>. HIDE DEF row
    <2>8. Admits(tx[u], row)'
      BY <1>2, <1>3, <2>1, <2>2, <2>4, <2>5, <2>6, <2>7, SMTT(60) DEF Admits
    <2>. QED
      BY <2>8, Zenon DEF row
  <1>5. ASSUME tx[u].ready PROVE Verified(tx[u])'
    <2>. DEFINE s == tx[u].s
    <2>1. Verified(tx[u])
      BY <1>5, Zenon DEF IInv, LocksProtect
    <2>2. tx[u].got = Len(tx[u].plan)
      BY <1>5, Zenon DEF Planned, WellPlanned
    <2>3. /\ tx[u].op = "create" => AbaOf[s] \in Held(u) /\ HcOf[s] \in Held(u)
          /\ tx[u].op \in {"putkey", "frame"} =>
                s \in Held(u) /\ AbaOf[s] \in Held(u) /\ HcOf[s] \in Held(u)
          /\ tx[u].op = "ackkey" => s \in Held(u)
      BY <2>2, HoldsRoute, Zenon
    <2>4. s \in Sessions /\ AbaOf[s] \in Endpoints /\ HcOf[s] \in Endpoints /\ s' = s
      BY <1>2, RouteRows, Zenon
    <2>5. Sender(s, tx[u].d) \in {AbaOf[s], HcOf[s]}
      BY Zenon DEF Sender
    <2>. HIDE DEF s
    <2>6. ASSUME tx[u].op = "create"
          PROVE  Cardinality(LiveSessions(AbaOf[s]))' < MaxActive
      <3>1. Cardinality(LiveSessions(AbaOf[s])) < MaxActive
        BY <2>1, <2>6, Zenon DEF Verified, s
      <3>2. AbaOf[s] \notin Held(t)
        BY <2>3, <2>6, Zenon DEF IInv, Exclusive
      <3>3. LiveSessions(AbaOf[s])' \subseteq LiveSessions(AbaOf[s])
        BY <2>4, <3>2, Zenon DEF LiveSessions, WritesHeldRows
      <3>4. IsFiniteSet(LiveSessions(AbaOf[s]))
        BY RouteAssumption, FS_Subset, Zenon DEF LiveSessions
      <3>5. /\ IsFiniteSet(LiveSessions(AbaOf[s])')
            /\ Cardinality(LiveSessions(AbaOf[s])') <= Cardinality(LiveSessions(AbaOf[s]))
        BY <3>3, <3>4, FS_Subset, Zenon
      <3>6. /\ Cardinality(LiveSessions(AbaOf[s])') \in Nat
            /\ Cardinality(LiveSessions(AbaOf[s])) \in Nat
        BY <3>4, <3>5, FS_CardinalityType, Zenon
      <3>. QED
        BY <3>1, <3>5, <3>6, RouteAssumption
    <2>7. tx[u].op = "create" => endpoint'[AbaOf[s]] = "ACTIVE" /\ endpoint'[HcOf[s]] = "ACTIVE"
      BY <1>3, <2>1, <2>3, <2>4, Zenon DEF Verified, s
    <2>8. tx[u].op = "putkey" => credential'[AbaOf[s]] = "ACTIVE"
      BY <1>3, <2>1, <2>3, <2>4, Zenon DEF Verified, s
    <2>9. tx[u].op = "frame" => credential'[Sender(s, tx[u].d)] = "ACTIVE"
      BY <1>3, <2>1, <2>3, <2>4, <2>5, Zenon DEF Verified, s
    <2>10. tx[u].op = "ackkey" => package'[s] \in {"PENDING", "ACKNOWLEDGED"} /\ CanActivate(s)'
      BY <1>3, <2>1, <2>3, <2>4, Zenon DEF Verified, CanActivate, s
    <2>. QED
      BY <2>4, <2>6, <2>7, <2>8, <2>9, <2>10, Zenon DEF Verified, s
  <1>. QED
    BY <1>4, <1>5, Zenon

(* A transaction that ends keeps the invariant. *)
LEMMA EndInv ==
    ASSUME IInv, TypeOK', NEW t \in Tx, tx' = [tx EXCEPT ![t] = Idle], WritesHeldRows(t)
    PROVE  IInv'
  <1>. TypeOK /\ Planned
    BY Zenon DEF IInv
  <1>1. tx'[t] = Idle /\ \A u \in Tx : u # t => tx'[u] = tx[u]
    BY Zenon DEF TypeOK
  <1>2. Idle.op = "idle" /\ Idle.plan = <<>> /\ Idle.got = 0 /\ Idle.ready = FALSE
    BY Zenon DEF Idle, Job
  <1>3. Held(t)' = {}
    BY <1>1, <1>2 DEF Held
  <1>4. \A u \in Tx : u # t => Held(u)' = Held(u)
    BY <1>1, Zenon DEF Held
  <1>5. Planned'
    <2>1. PlanOf(Idle)
      BY <1>2, Zenon DEF PlanOf, MoveFrom
    <2>2. WellPlanned(Idle)
      BY <1>2, <2>1 DEF WellPlanned
    <2>. QED
      BY <1>1, <2>2, Zenon DEF Planned
  <1>6. Exclusive'
    BY <1>3, <1>4, Zenon DEF IInv, Exclusive
  <1>7. RowsExist'
    <2>1. \A u \in Tx : \A i \in 1 .. Len(tx'[u].plan) :
            tx'[u].plan[i] \in Sessions => session'[tx'[u].plan[i]].status # "NONE"
      BY <1>1, <1>2, SMTT(60) DEF IInv, RowsExist, WritesHeldRows
    <2>2. ASSUME NEW u \in Tx, tx'[u].op = "create" PROVE session'[tx'[u].s].status = "NONE"
      <3>1. u # t /\ tx'[u] = tx[u] /\ tx[u].s \in Sessions /\ session[tx[u].s].status = "NONE"
        BY <1>1, <1>2, <2>2, HeldInPlan, Zenon DEF IInv, RowsExist, JobType
      <3>2. ~Inserts(t, tx[u].s)
        BY <2>2, <3>1, Zenon DEF IInv, RowsExist, Inserts
      <3>3. tx[u].s \notin Held(t)
        BY <3>1, HeldInPlan, Zenon DEF Held, IInv, RowsExist
      <3>. QED
        BY <3>1, <3>2, <3>3 DEF WritesHeldRows
    <2>3. \A u, v \in Tx : u # v /\ tx'[u].op = "create" /\ tx'[v].op = "create" => tx'[u].s # tx'[v].s
      BY <1>1, <1>2, SMTT(60) DEF IInv, RowsExist
    <2>. QED
      BY <2>1, <2>2, <2>3, Zenon DEF RowsExist, WritesHeldRows
  <1>8. LocksProtect'
    <2>1. ASSUME NEW u \in Tx
          PROVE  (/\ \A i \in 1 .. tx[u].got : Admits(tx[u], tx[u].plan[i])
                  /\ tx[u].ready => Verified(tx[u]))'
      <3>1. CASE u = t
        BY <1>1, <1>2, <3>1
      <3>2. CASE u # t
        BY <1>1, <3>2, OthersProtected, Zenon
      <3>. QED
        BY <3>1, <3>2, Zenon
    <2>. QED
      BY <2>1, Zenon DEF LocksProtect
  <1>. QED
    BY <1>5, <1>6, <1>7, <1>8, Zenon DEF IInv

(* What a commit may rely on: its locks, its checks and its last reads. *)
LEMMA CommitKnows ==
    ASSUME IInv, NEW t \in Tx, NEW ops, Finish(t, ops)
    PROVE  /\ tx[t] \in JobType /\ tx[t].s \in Sessions /\ tx[t].e \in Endpoints
           /\ tx[t].got = Len(tx[t].plan)
           /\ \A row \in Held(t) : Admits(tx[t], row)
           /\ \A row \in Held(t) \cap Sessions : session[row].status # "NONE"
           /\ tx[t].op \in {"create", "putkey", "ackkey", "frame"} => Verified(tx[t])
           /\ tx' = [tx EXCEPT ![t] = Idle]
  <1>. TypeOK /\ Planned
    BY Zenon DEF IInv
  <1>1. tx[t] \in JobType /\ tx[t].s \in Sessions /\ tx[t].e \in Endpoints
    BY HeldInPlan, Zenon DEF JobType
  <1>2. tx[t].got = Len(tx[t].plan)
    BY AllHeld, Zenon DEF Finish
  <1>3. \A row \in Held(t) : Admits(tx[t], row)
    BY Zenon DEF IInv, LocksProtect, Held
  <1>4. \A row \in Held(t) \cap Sessions : session[row].status # "NONE"
    BY HeldInPlan, Zenon DEF IInv, RowsExist, Held
  <1>5. tx[t].op \in {"create", "putkey", "ackkey", "frame"} => Verified(tx[t])
    BY Zenon DEF Finish, LastReads, IInv, LocksProtect
  <1>. QED
    BY <1>1, <1>2, <1>3, <1>4, <1>5, Zenon DEF Finish

(* Every commit writes only rows the transaction holds. *)
LEMMA CommitWritesHeldRows ==
    ASSUME IInv, NEW t \in Tx, Commit(t)
    PROVE  WritesHeldRows(t) /\ tx' = [tx EXCEPT ![t] = Idle]
  <1>. TypeOK /\ Planned /\ RowsExist
    BY Zenon DEF IInv
  <1>1. CASE CommitCreate(t)
    <2>1. tx[t].s \in Sessions /\ tx[t].op = "create" /\ AbaOf[tx[t].s] \in Held(t)
          /\ tx' = [tx EXCEPT ![t] = Idle]
      BY <1>1, CommitKnows, HoldsRoute, ZenonT(30) DEF CommitCreate, Finish
    <2>2. UNCHANGED <<endpoint, credential, package>>
      BY <1>1, Zenon DEF CommitCreate
    <2>3. /\ session'[tx[t].s].status = "CREATING" /\ tunnel'[tx[t].s] = "unsent"
          /\ \A s \in Sessions : s # tx[t].s => session'[s] = session[s] /\ tunnel'[s] = tunnel[s]
      BY <1>1, <2>1 DEF CommitCreate, TypeOK
    <2>. QED
      BY <2>1, <2>2, <2>3 DEF WritesHeldRows, Inserts, RowsExist
  <1>2. CASE CommitMove(t)
    <2>0. DOMAIN MoveTo = DOMAIN MoveFrom
      BY Zenon DEF MoveTo, MoveFrom
    <2>1. /\ tx[t].s \in Sessions /\ tx[t].op \in DOMAIN MoveFrom /\ tx[t].s \in Held(t)
          /\ Admits(tx[t], tx[t].s) /\ tx' = [tx EXCEPT ![t] = Idle]
      BY <1>2, <2>0, CommitKnows, HoldsRoute, ZenonT(30) DEF CommitMove, Finish
    <2>2. UNCHANGED <<endpoint, credential, package, tunnel>>
      BY <1>2, Zenon DEF CommitMove
    <2>3. /\ session'[tx[t].s].status = MoveTo[tx[t].op]
          /\ \A s \in Sessions : s # tx[t].s => session'[s] = session[s]
      BY <1>2, <2>1 DEF CommitMove, TypeOK
    <2>4. /\ MoveTo[tx[t].op] # "NONE"
          /\ MoveTo[tx[t].op] \in LiveStatus => session[tx[t].s].status \in LiveStatus
      BY <2>1, SMTT(60) DEF Admits, MoveFrom, MoveTo, LiveStatus
    <2>. QED
      BY <2>1, <2>2, <2>3, <2>4, Zenon DEF WritesHeldRows, RowsExist
  <1>3. CASE CommitPutKey(t)
    <2>1. /\ tx[t].s \in Sessions /\ tx[t].s \in Held(t) /\ session[tx[t].s].status # "NONE"
          /\ tx' = [tx EXCEPT ![t] = Idle]
      BY <1>3, CommitKnows, HoldsRoute, ZenonT(30) DEF CommitPutKey, Finish
    <2>2. UNCHANGED <<endpoint, credential, session, tunnel>>
      BY <1>3, Zenon DEF CommitPutKey
    <2>3. \A s \in Sessions : s # tx[t].s => package'[s] = package[s]
      BY <1>3, Zenon DEF CommitPutKey, TypeOK
    <2>. QED
      BY <2>1, <2>2, <2>3, Zenon DEF WritesHeldRows, RowsExist
  <1>4. CASE CommitAckKey(t)
    <2>1. /\ tx[t].s \in Sessions /\ tx[t].s \in Held(t) /\ Verified(tx[t])
          /\ tx[t].op = "ackkey" /\ tx' = [tx EXCEPT ![t] = Idle]
      BY <1>4, CommitKnows, HoldsRoute, ZenonT(30) DEF CommitAckKey, Finish
    <2>2. UNCHANGED <<endpoint, credential, tunnel>>
      BY <1>4, Zenon DEF CommitAckKey
    <2>3. /\ session'[tx[t].s].status = "ACTIVE"
          /\ \A s \in Sessions : s # tx[t].s => session'[s] = session[s] /\ package'[s] = package[s]
      BY <1>4, <2>1, Zenon DEF CommitAckKey, TypeOK
    <2>4. session[tx[t].s].status \in LiveStatus
      BY <2>1, Zenon DEF Verified, CanActivate, LiveStatus
    <2>. QED
      BY <2>1, <2>2, <2>3, <2>4, SMTT(60) DEF WritesHeldRows, RowsExist
  <1>5. CASE CommitFrame(t) \/ CommitAck(t)
    <2>1. UNCHANGED <<endpoint, credential, session, package, tunnel>> /\ tx' = [tx EXCEPT ![t] = Idle]
      BY <1>5, Zenon DEF CommitFrame, CommitAck, Finish
    <2>. QED
      BY <2>1, Zenon DEF WritesHeldRows, RowsExist
  <1>6. CASE CommitEndpointAction(t)
    <2>1. tx[t].e \in Held(t) /\ tx' = [tx EXCEPT ![t] = Idle]
      BY <1>6, CommitKnows, HoldsRoute, ZenonT(30) DEF CommitEndpointAction, Finish
    <2>2. UNCHANGED <<credential, session, package, tunnel>>
      BY <1>6, Zenon DEF CommitEndpointAction
    <2>3. \A e \in Endpoints : e # tx[t].e => endpoint'[e] = endpoint[e]
      BY <1>6, Zenon DEF CommitEndpointAction, TypeOK
    <2>. QED
      BY <2>1, <2>2, <2>3, Zenon DEF WritesHeldRows, RowsExist
  <1>7. CASE CommitRevoke(t)
    <2>1. /\ tx[t].e \in Held(t) /\ tx' = [tx EXCEPT ![t] = Idle]
          /\ \A s \in Held(t) \cap Sessions : session[s].status # "NONE"
      BY <1>7, CommitKnows, HoldsRoute, ZenonT(30) DEF CommitRevoke, Finish
    <2>2. UNCHANGED tunnel
      BY <1>7, Zenon DEF CommitRevoke
    <2>3. \A e \in Endpoints : e # tx[t].e => endpoint'[e] = endpoint[e] /\ credential'[e] = credential[e]
      BY <1>7, Zenon DEF CommitRevoke, TypeOK
    <2>4. \A s \in Sessions :
            /\ s \notin Held(t) => session'[s] = session[s] /\ package'[s] = package[s]
            /\ session'[s].status \in {session[s].status, "ABA_REVOKED", "REKEY_REQUIRED"}
            /\ session[s].status \in EndedStatus => session'[s].status = session[s].status
            /\ package'[s] # "NONE" => package[s] # "NONE"
      BY <1>7 DEF CommitRevoke, TypeOK
    <2>5. \A s \in Sessions : session[s].status \in SessionStatus
      BY Zenon DEF TypeOK
    <2>6. ASSUME NEW s \in Sessions, session'[s].status \in LiveStatus
          PROVE  session[s].status \in LiveStatus
      BY <2>1, <2>4, <2>5, <2>6, Zenon DEF SessionStatus, LiveStatus, EndedStatus
    <2>. QED
      BY <2>1, <2>2, <2>3, <2>4, <2>6, SMTT(60) DEF WritesHeldRows, RowsExist
  <1>. QED
    BY <1>1, <1>2, <1>3, <1>4, <1>5, <1>6, <1>7, Zenon DEF Commit

(* A step that leaves the tables and the transactions alone keeps every check *)
(* a transaction has made (SendOpenTunnel, stuttering).                        *)
LEMMA StillProtected ==
    ASSUME LocksProtect, UNCHANGED <<endpoint, credential, session, package, tx>>
    PROVE  LocksProtect'
  <1>1. \A u \in Tx : \A row : Admits(tx[u], row) => Admits(tx[u], row)'
    BY SMTT(60) DEF Admits
  <1>2. \A u \in Tx : LiveSessions(AbaOf[tx[u].s])' = LiveSessions(AbaOf[tx[u].s])
    BY Zenon DEF LiveSessions
  <1>3. \A u \in Tx : Verified(tx[u]) => Verified(tx[u])'
    <2>1. \A s : CanActivate(s) => CanActivate(s)'
      BY Zenon DEF CanActivate
    <2>. QED
      BY <1>2, <2>1, ZenonT(30) DEF Verified
  <1>. QED
    BY <1>1, <1>3, Zenon DEF LocksProtect

(* The inductive step: one case for each kind of action of a transaction. *)
LEMMA IInvStep == IInv /\ [Next]_vars => IInv'
  <1>. SUFFICES ASSUME IInv, [Next]_vars PROVE IInv'
    BY Zenon
  <1>. TypeOK /\ TypeOK' /\ RowsExist
    BY TypeStep, Zenon DEF IInv
  <1>1. ASSUME NEW t \in Tx, Refuse(t) \/ Abort(t) PROVE IInv'
    <2>1. tx' = [tx EXCEPT ![t] = Idle]
      BY <1>1, Zenon DEF Refuse, Abort
    <2>2. WritesHeldRows(t)
      BY <1>1, Zenon DEF Refuse, Abort, WritesHeldRows, RowsExist
    <2>. QED
      BY <2>1, <2>2, EndInv, ZenonT(30)
  <1>2. ASSUME NEW t \in Tx, Commit(t) PROVE IInv'
    BY <1>2, CommitWritesHeldRows, EndInv, Zenon
  <1>3. ASSUME NEW s \in Sessions, SendOpenTunnel(s) PROVE IInv'
    <2>1. UNCHANGED <<endpoint, credential, session, package, tx>>
      BY <1>3, Zenon DEF SendOpenTunnel
    <2>2. \A z \in Sessions : tunnel'[z] # "none" => tunnel[z] # "none"
      BY <1>3, Zenon DEF SendOpenTunnel, TypeOK
    <2>3. Planned' /\ Exclusive'
      BY <2>1, SMTT(60) DEF IInv, Planned, Exclusive, Held
    <2>4. RowsExist'
      BY <2>1, <2>2, Zenon DEF RowsExist
    <2>5. LocksProtect'
      BY <2>1, StillProtected, Zenon DEF IInv
    <2>. QED
      BY <2>3, <2>4, <2>5, Zenon DEF IInv
  <1>4. CASE UNCHANGED vars
    <2>1. Planned' /\ Exclusive'
      <3>1. tx' = tx
        BY <1>4, Zenon DEF vars
      <3>2. Planned'
        BY <3>1 DEF IInv, Planned
      <3>3. \A t \in Tx : Held(t)' = Held(t)
        BY <3>1 DEF Held
      <3>4. Exclusive'
        BY <3>3, Zenon DEF IInv, Exclusive
      <3>. QED
        BY <3>2, <3>4
    <2>2. RowsExist'
      BY <1>4, Zenon DEF vars, RowsExist
    <2>3. LocksProtect'
      BY <1>4, StillProtected, Zenon DEF vars, IInv
    <2>. QED
      BY <2>1, <2>2, <2>3, Zenon DEF IInv
  <1>. QED
    BY <1>1, <1>2, <1>3, <1>4, IInvBegin, IInvAcquire, IInvVerify, Zenon DEF Next, Advance
=============================================================================
