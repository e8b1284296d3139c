------------------------- MODULE SessionStoreProofs -------------------------
(***************************************************************************)
(* What the Platform promises about its session rows, from the inductive   *)
(* invariant: one lemma on a step for each property, then the theorems.    *)
(***************************************************************************)
EXTENDS SessionStoreInvariant, WellFoundedInduction

(* The steps of one lemma for each property. *)

(* A step that changes a session or a frame is a commit. *)
LEMMA OnlyCommitsWrite ==
    ASSUME [Next]_vars
    PROVE  UNCHANGED <<endpoint, session, package, frame, cursor>> \/ \E t \in Tx : Commit(t)
  <1>1. ASSUME NEW t \in Tx, BeginSomething(t)
        PROVE  UNCHANGED <<endpoint, session, package, frame, cursor>>
    <2>1. ASSUME NEW job, Begin(t, job) PROVE UNCHANGED <<endpoint, session, package, frame, cursor>>
      BY <2>1, Zenon DEF Begin
    <2>2. ASSUME NEW s \in Sessions,
                 \/ BeginCreate(t, s) \/ BeginFail(t, s) \/ BeginPutKey(t, s) \/ BeginAckKey(t, s)
                 \/ BeginUncertain(t, s) \/ BeginClose(t, s)
          PROVE  UNCHANGED <<endpoint, session, package, frame, cursor>>
      BY <2>1, <2>2, Zenon DEF BeginCreate, BeginFail, BeginPutKey, BeginAckKey, BeginUncertain, BeginClose
    <2>3. ASSUME NEW s, NEW op, BeginOpenResult(t, s, op) \/ BeginEndpointAction(t, s, op)
          PROVE  UNCHANGED <<endpoint, session, package, frame, cursor>>
      BY <2>1, <2>3, Zenon DEF BeginOpenResult, BeginEndpointAction
    <2>4. ASSUME NEW s, NEW d, NEW q, NEW c, BeginFrame(t, s, d, q, c) \/ BeginAck(t, s, d, q, c)
          PROVE  UNCHANGED <<endpoint, session, package, frame, cursor>>
      BY <2>1, <2>4, Zenon DEF BeginFrame, BeginAck
    <2>5. ASSUME NEW e, BeginRevoke(t, e)
          PROVE  UNCHANGED <<endpoint, session, package, frame, cursor>>
      BY <2>1, <2>5, Zenon DEF BeginRevoke
    <2>. QED
      BY <1>1, <2>2, <2>3, <2>4, <2>5, Zenon DEF BeginSomething
  <1>2. ASSUME NEW t \in Tx, Acquire(t) \/ Verify(t) \/ Refuse(t) \/ Abort(t)
        PROVE  UNCHANGED <<endpoint, session, package, frame, cursor>>
    BY <1>2, Zenon DEF Acquire, Verify, Refuse, Abort
  <1>3. ASSUME NEW s \in Sessions, SendOpenTunnel(s)
        PROVE  UNCHANGED <<endpoint, session, package, frame, cursor>>
    BY <1>3, Zenon DEF SendOpenTunnel
  <1>4. UNCHANGED vars => UNCHANGED <<endpoint, session, package, frame, cursor>>
    BY Zenon DEF vars
  <1>. QED
    BY <1>1, <1>2, <1>3, <1>4, Zenon DEF Next, Advance

(* A frame is stored only by CommitFrame, whose route is locked and verified   *)
(* (PutAuthorizedFrame): the session is ACTIVE and both endpoints may use it.  *)
LEMMA AuthorizedStep ==
    ASSUME IInv, [Next]_vars
    PROVE  FrameAuthorizedStep
  <1>. TypeOK /\ Planned
    BY Zenon DEF IInv
  <1>1. CASE UNCHANGED frame
    BY <1>1, Zenon DEF FrameAuthorizedStep
  <1>2. ASSUME NEW t \in Tx, CommitFrame(t) PROVE FrameAuthorizedStep
    <2>. DEFINE s == tx[t].s
    <2>1. /\ tx[t].op = "frame" /\ s \in Sessions /\ Verified(tx[t])
          /\ s \in Held(t) /\ AbaOf[s] \in Held(t) /\ HcOf[s] \in Held(t)
          /\ Admits(tx[t], s) /\ Admits(tx[t], AbaOf[s]) /\ Admits(tx[t], HcOf[s])
      BY <1>2, CommitKnows, HoldsRoute, ZenonT(30) DEF CommitFrame, Finish
    <2>2. AbaOf[s] # s /\ HcOf[s] # s
      BY <2>1, RouteAscends, Zenon
    <2>3. /\ session[s].status = "ACTIVE" /\ endpoint[AbaOf[s]] = "ACTIVE" /\ endpoint[HcOf[s]] = "ACTIVE"
          /\ credential[Sender(s, tx[t].d)] = "ACTIVE"
      BY <2>1, <2>2, Zenon DEF Admits, Verified
    <2>4. \A k \in Slots : k # <<s, tx[t].d, tx[t].q>> => frame'[k] = frame[k]
      BY <1>2, Zenon DEF CommitFrame, TypeOK
    <2>5. \A k \in Slots : k = <<s, tx[t].d, tx[t].q>> => k[1] = s /\ k[2] = tx[t].d
      OBVIOUS
    <2>. HIDE DEF s
    <2>. QED
      BY <2>3, <2>4, <2>5, Zenon DEF FrameAuthorizedStep
  <1>3. ASSUME NEW t \in Tx, CommitAck(t) PROVE FrameAuthorizedStep
    <2>1. \A k \in Slots : frame'[k].status = "NONE" \/ frame[k].status # "NONE"
      BY <1>3, ZenonT(30) DEF CommitAck, MarkAcknowledged, TypeOK
    <2>. QED
      BY <2>1, Zenon DEF FrameAuthorizedStep
  <1>4. ASSUME NEW t \in Tx, Commit(t), ~CommitFrame(t), ~CommitAck(t) PROVE UNCHANGED frame
    BY <1>4, Zenon DEF Commit, CommitCreate, CommitMove, CommitPutKey, CommitAckKey,
                CommitEndpointAction, CommitRevoke
  <1>. QED
    BY <1>1, <1>2, <1>3, <1>4, OnlyCommitsWrite, Zenon

(* Only CommitCreate makes a session live, while it holds the ABA's row and has *)
(* counted its live sessions under that lock (authorizeAndCreateEndpointSession). *)
LEMMA LimitStep ==
    ASSUME IInv, SessionLimit, [Next]_vars
    PROVE  SessionLimit'
  <1>. TypeOK /\ Planned
    BY Zenon DEF IInv
  <1>. SUFFICES ASSUME NEW a \in ABAs PROVE Cardinality(LiveSessions(a)') <= MaxActive
    BY Zenon DEF SessionLimit
  <1>1. /\ IsFiniteSet(LiveSessions(a)) /\ Cardinality(LiveSessions(a)) \in Nat
        /\ Cardinality(LiveSessions(a)) <= MaxActive /\ MaxActive \in Nat
    BY RouteAssumption, FS_Subset, FS_CardinalityType, Zenon DEF LiveSessions, SessionLimit
  <1>2. ASSUME LiveSessions(a)' \subseteq LiveSessions(a)
        PROVE  Cardinality(LiveSessions(a)') <= MaxActive
    <2>1. /\ IsFiniteSet(LiveSessions(a)')
          /\ Cardinality(LiveSessions(a)') <= Cardinality(LiveSessions(a))
      BY <1>1, <1>2, FS_Subset, Zenon
    <2>2. Cardinality(LiveSessions(a)') \in Nat
      BY <2>1, FS_CardinalityType, Zenon
    <2>. QED
      BY <1>1, <2>1, <2>2
  <1>3. CASE UNCHANGED session
    BY <1>2, <1>3, Zenon DEF LiveSessions
  <1>4. ASSUME NEW t \in Tx, Commit(t), tx[t].op # "create"
        PROVE  Cardinality(LiveSessions(a)') <= MaxActive
    <2>1. \A s \in Sessions : session'[s].status \in LiveStatus => session[s].status \in LiveStatus
      BY <1>4, CommitWritesHeldRows, Zenon DEF WritesHeldRows, Inserts
    <2>. QED
      BY <1>2, <2>1, Zenon DEF LiveSessions
  <1>5. ASSUME NEW t \in Tx, Commit(t), tx[t].op = "create"
        PROVE  Cardinality(LiveSessions(a)') <= MaxActive
    <2>. DEFINE s == tx[t].s
    <2>1. CommitCreate(t)
      BY <1>5, Zenon DEF Commit, CommitMove, CommitPutKey, CommitAckKey, CommitFrame, CommitAck,
                  CommitEndpointAction, CommitRevoke, Finish, MoveTo
    <2>2. s \in Sessions /\ Cardinality(LiveSessions(AbaOf[s])) < MaxActive
      BY <1>5, <2>1, CommitKnows, Zenon DEF CommitCreate, Verified
    <2>3. \A z \in Sessions : z # s => session'[z] = session[z]
      BY <2>1, Zenon DEF CommitCreate, TypeOK
    <2>. HIDE DEF s
    <2>4. CASE a # AbaOf[s]
      BY <1>2, <2>3, <2>4, Zenon DEF LiveSessions
    <2>5. CASE a = AbaOf[s]
      <3>1. LiveSessions(a)' \subseteq LiveSessions(a) \cup {s}
        BY <2>3, Zenon DEF LiveSessions
      <3>2. /\ IsFiniteSet(LiveSessions(a) \cup {s})
            /\ Cardinality(LiveSessions(a) \cup {s}) <= Cardinality(LiveSessions(a)) + 1
        <4>1. /\ IsFiniteSet(LiveSessions(a) \cup {s})
              /\ Cardinality(LiveSessions(a) \cup {s}) =
                   IF s \in LiveSessions(a) THEN Cardinality(LiveSessions(a))
                   ELSE Cardinality(LiveSessions(a)) + 1
          BY <1>1, FS_AddElement, Zenon
        <4>. QED
          BY <1>1, <4>1
      <3>3. /\ IsFiniteSet(LiveSessions(a)')
            /\ Cardinality(LiveSessions(a)') <= Cardinality(LiveSessions(a) \cup {s})
        BY <3>1, <3>2, FS_Subset, Zenon
      <3>4. Cardinality(LiveSessions(a)') \in Nat /\ Cardinality(LiveSessions(a) \cup {s}) \in Nat
        BY <3>2, <3>3, FS_CardinalityType, Zenon
      <3>. QED
        BY <1>1, <2>2, <2>5, <3>2, <3>3, <3>4
    <2>. QED
      BY <2>4, <2>5, Zenon
  <1>. QED
    BY <1>3, <1>4, <1>5, OnlyCommitsWrite, Zenon

(* A session becomes ACTIVE only through the acknowledged key package, and the  *)
(* package outlives every later change (AcknowledgeAndActivate).               *)
LEMMA KeyStep ==
    ASSUME IInv, TrafficHasKey, [Next]_vars
    PROVE  TrafficHasKey'
  <1>. TypeOK /\ Planned
    BY Zenon DEF IInv
  <1>. SUFFICES ASSUME NEW s \in Sessions, session'[s].status \in {"ACTIVE", "UNCERTAIN"}
                PROVE  session'[s].generation = 1 /\ package'[s] = "ACKNOWLEDGED"
    BY Zenon DEF TrafficHasKey
  <1>1. CASE session'[s] = session[s] /\ package'[s] = package[s]
    BY <1>1, Zenon DEF TrafficHasKey
  <1>2. ASSUME NEW t \in Tx, CommitCreate(t)
        PROVE  session'[s] = session[s] /\ package'[s] = package[s]
    BY <1>2 DEF CommitCreate, TypeOK
  <1>3. ASSUME NEW t \in Tx, CommitMove(t)
        PROVE  session'[s].generation = 1 /\ package'[s] = "ACKNOWLEDGED"
    <2>1. CASE s # tx[t].s
      BY <1>1, <1>3, <2>1, Zenon DEF CommitMove, TypeOK
    <2>2. CASE s = tx[t].s
      <3>1. /\ tx[t].op \in DOMAIN MoveTo /\ Admits(tx[t], s)
            /\ session'[s].status = MoveTo[tx[t].op]
            /\ session'[s].generation = session[s].generation /\ UNCHANGED package
        <4>1. DOMAIN MoveTo = DOMAIN MoveFrom
          BY Zenon DEF MoveTo, MoveFrom
        <4>2. tx[t].op \in DOMAIN MoveTo /\ Admits(tx[t], s)
          BY <1>3, <2>2, <4>1, CommitKnows, HoldsRoute, ZenonT(30) DEF CommitMove, Finish
        <4>. QED
          BY <1>3, <2>2, <4>2 DEF CommitMove, TypeOK
      <3>2. session[s].status = "ACTIVE"
        BY <2>2, <3>1, SMTT(60) DEF Admits, MoveTo, MoveFrom
      <3>. QED
        BY <3>1, <3>2, Zenon DEF TrafficHasKey
    <2>. QED
      BY <2>1, <2>2, Zenon
  <1>4. ASSUME NEW t \in Tx, CommitPutKey(t)
        PROVE  session'[s].generation = 1 /\ package'[s] = "ACKNOWLEDGED"
    <2>1. session'[s] = session[s] /\ (package[s] # "NONE" => package'[s] = package[s])
      BY <1>4, Zenon DEF CommitPutKey, TypeOK
    <2>. QED
      BY <2>1, Zenon DEF TrafficHasKey
  <1>5. ASSUME NEW t \in Tx, CommitAckKey(t)
        PROVE  session'[s].generation = 1 /\ package'[s] = "ACKNOWLEDGED"
    <2>1. CASE s # tx[t].s
      BY <1>1, <1>5, <2>1, Zenon DEF CommitAckKey, TypeOK
    <2>2. CASE s = tx[t].s
      BY <1>5, <2>2, Zenon DEF CommitAckKey, TypeOK
    <2>. QED
      BY <2>1, <2>2, Zenon
  <1>6. ASSUME NEW t \in Tx, CommitRevoke(t)
        PROVE  session'[s] = session[s] /\ package'[s] = package[s]
    <2>1. \/ s \notin Held(t) /\ session'[s] = session[s] /\ package'[s] = package[s]
          \/ session'[s].status \in {"ABA_REVOKED", "REKEY_REQUIRED"}
          \/ session[s].status \in EndedStatus /\ session'[s] = session[s]
      BY <1>6 DEF CommitRevoke, TypeOK
    <2>. QED
      BY <2>1, Zenon DEF EndedStatus
  <1>7. ASSUME NEW t \in Tx, CommitFrame(t) \/ CommitAck(t) \/ CommitEndpointAction(t)
        PROVE  session'[s] = session[s] /\ package'[s] = package[s]
    BY <1>7, Zenon DEF CommitFrame, CommitAck, CommitEndpointAction
  <1>. QED
    BY <1>1, <1>2, <1>3, <1>4, <1>5, <1>6, <1>7, OnlyCommitsWrite, Zenon DEF Commit

(* Every move of a session's status is one its row lock admits, and none starts *)
(* from CLOSED or ABA_REVOKED (domain/state.go, move).                         *)
LEMMA ResurrectionStep ==
    ASSUME IInv, [Next]_vars
    PROVE  NoResurrectionStep
  <1>. TypeOK /\ Planned /\ RowsExist
    BY Zenon DEF IInv
  <1>a. \A s \in Sessions : session[s].generation \in {0, 1}
    BY Zenon DEF TypeOK
  <1>1. CASE UNCHANGED <<endpoint, session>>
    BY <1>1, <1>a DEF NoResurrectionStep
  <1>2. ASSUME NEW t \in Tx, CommitCreate(t) PROVE NoResurrectionStep
    <2>1. tx[t].s \in Sessions /\ session[tx[t].s].status = "NONE" /\ UNCHANGED endpoint
      BY <1>2, CommitKnows, ZenonT(30) DEF CommitCreate, Finish, RowsExist
    <2>2. \A s \in Sessions : /\ session'[s].generation = session[s].generation
                              /\ s # tx[t].s => session'[s] = session[s]
      BY <1>2 DEF CommitCreate, TypeOK
    <2>. QED
      BY <1>a, <2>1, <2>2 DEF NoResurrectionStep, EndedStatus
  <1>3. ASSUME NEW t \in Tx, CommitMove(t) PROVE NoResurrectionStep
    <2>0. DOMAIN MoveTo = DOMAIN MoveFrom
      BY Zenon DEF MoveTo, MoveFrom
    <2>1. /\ tx[t].op \in DOMAIN MoveTo /\ tx[t].s \in Sessions /\ Admits(tx[t], tx[t].s)
          /\ UNCHANGED endpoint
      BY <1>3, <2>0, CommitKnows, HoldsRoute, ZenonT(30) DEF CommitMove, Finish
    <2>2. \A s \in Sessions : /\ session'[s].generation = session[s].generation
                              /\ s # tx[t].s => session'[s] = session[s]
      BY <1>3 DEF CommitMove, TypeOK
    <2>3. session'[tx[t].s].status = MoveTo[tx[t].op]
      BY <1>3, <2>1 DEF CommitMove, TypeOK
    <2>4. LET old == session[tx[t].s].status
              new == session'[tx[t].s].status
          IN  /\ old \in EndedStatus => new \in EndedStatus
              /\ old \in {"CLOSED", "ABA_REVOKED"} => new = old
      BY <2>1, <2>3, SMTT(60) DEF Admits, MoveFrom, MoveTo, EndedStatus, LiveStatus
    <2>. QED
      BY <1>a, <2>1, <2>2, <2>4, SMTT(60) DEF NoResurrectionStep
  <1>4. ASSUME NEW t \in Tx, CommitAckKey(t) PROVE NoResurrectionStep
    <2>1. /\ tx[t].s \in Sessions /\ session[tx[t].s].status \notin EndedStatus
          /\ UNCHANGED endpoint
      BY <1>4, CommitKnows, ZenonT(30) DEF CommitAckKey, Finish, Verified, CanActivate, EndedStatus
    <2>2. \A s \in Sessions : IF s = tx[t].s THEN session'[s].generation = 1
                              ELSE session'[s] = session[s]
      BY <1>4, Zenon DEF CommitAckKey, TypeOK
    <2>. QED
      BY <1>a, <2>1, <2>2 DEF NoResurrectionStep, EndedStatus
  <1>5. ASSUME NEW t \in Tx, CommitEndpointAction(t) PROVE NoResurrectionStep
    <2>1. tx[t].e \in Endpoints /\ Admits(tx[t], tx[t].e) /\ UNCHANGED session
          /\ tx[t].op \in {"suspend", "resume"}
      BY <1>5, CommitKnows, HoldsRoute, ZenonT(30) DEF CommitEndpointAction, Finish
    <2>2. endpoint[tx[t].e] # "REVOKED"
      BY <2>1, Zenon DEF Admits
    <2>3. \A e \in Endpoints : e # tx[t].e => endpoint'[e] = endpoint[e]
      BY <1>5, Zenon DEF CommitEndpointAction, TypeOK
    <2>. QED
      BY <1>a, <2>1, <2>2, <2>3, SMTT(60) DEF NoResurrectionStep
  <1>6. ASSUME NEW t \in Tx, CommitRevoke(t) PROVE NoResurrectionStep
    <2>1. \A s \in Sessions :
            /\ session'[s].generation = session[s].generation
            /\ session[s].status \in EndedStatus => session'[s] = session[s]
      BY <1>6 DEF CommitRevoke, TypeOK
    <2>2. \A e \in Endpoints : endpoint[e] = "REVOKED" => endpoint'[e] = "REVOKED"
      BY <1>6, Zenon DEF CommitRevoke, TypeOK
    <2>. QED
      BY <1>a, <2>1, <2>2 DEF NoResurrectionStep, EndedStatus
  <1>7. ASSUME NEW t \in Tx, CommitPutKey(t) \/ CommitFrame(t) \/ CommitAck(t)
        PROVE  UNCHANGED <<endpoint, session>>
    BY <1>7, Zenon DEF CommitPutKey, CommitFrame, CommitAck
  <1>. QED
    BY <1>1, <1>2, <1>3, <1>4, <1>5, <1>6, <1>7, OnlyCommitsWrite, Zenon DEF Commit

(* The frame and cursor tables change only as an ACK or a stored frame does     *)
(* (advanceAckOnce, putAuthorizedFrameRow).                                    *)
LEMMA FrameTableStep ==
    ASSUME TypeOK, [Next]_vars
    PROVE  AckMonotoneStep /\ FrameImmutableStep
  <1>. /\ \A k \in Sessions \X Directions : cursor[k] \in Nat
       /\ \A k \in Slots : frame[k] \in [status : FrameStatus, content : Contents]
    BY RouteAssumption, SMTT(60) DEF TypeOK
  <1>1. CASE UNCHANGED <<frame, cursor>>
    BY <1>1, SMTT(60) DEF AckMonotoneStep, FrameImmutableStep
  <1>2. ASSUME NEW t \in Tx, CommitFrame(t) PROVE AckMonotoneStep /\ FrameImmutableStep
    <2>1. \A k \in Slots : frame'[k] = frame[k] \/ frame'[k] = StoreFrame(frame[k], tx[t].c)
      BY <1>2, ZenonT(30) DEF CommitFrame, TypeOK
    <2>2. \A old \in [status : FrameStatus, content : Contents] :
            old.status # "NONE" =>
              /\ StoreFrame(old, tx[t].c).content = old.content
              /\ StoreFrame(old, tx[t].c).status \in {old.status, "CONFLICT"}
      BY Zenon DEF StoreFrame
    <2>3. UNCHANGED cursor
      BY <1>2, Zenon DEF CommitFrame
    <2>. QED
      BY <2>1, <2>2, <2>3 DEF AckMonotoneStep, FrameImmutableStep
  <1>3. ASSUME NEW t \in Tx, CommitAck(t) PROVE AckMonotoneStep /\ FrameImmutableStep
    <2>1. \A k \in Slots : frame'[k] = frame[k] \/ frame'[k] = MarkAcknowledged(frame[k])
      BY <1>3, Zenon DEF CommitAck, TypeOK
    <2>2. \A old \in [status : FrameStatus, content : Contents] :
            /\ MarkAcknowledged(old).content = old.content
            /\ old.status # "STORED" => MarkAcknowledged(old) = old
      BY Zenon DEF MarkAcknowledged
    <2>3. tx[t].q \in Nat
      BY RouteAssumption, SMTT(60) DEF TypeOK
    <2>4. ASSUME NEW k \in Sessions \X Directions PROVE cursor'[k] >= cursor[k]
      <3>1. cursor'[k] = cursor[k] \/ (cursor'[k] = tx[t].q /\ ~(tx[t].q < cursor[k]))
        BY <1>3, ZenonT(30) DEF CommitAck, TypeOK
      <3>. QED
        BY <2>3, <3>1
    <2>. QED
      BY <2>1, <2>2, <2>4, Zenon DEF AckMonotoneStep, FrameImmutableStep
  <1>4. ASSUME NEW t \in Tx, Commit(t), ~CommitFrame(t), ~CommitAck(t) PROVE UNCHANGED <<frame, cursor>>
    BY <1>4, Zenon DEF Commit, CommitCreate, CommitMove, CommitPutKey, CommitAckKey,
                CommitEndpointAction, CommitRevoke
  <1>. QED
    BY <1>1, <1>2, <1>3, <1>4, OnlyCommitsWrite, Zenon

-----------------------------------------------------------------------------
(* The invariant holds in every reachable state. *)
THEOREM Invariance == Spec => []IInv
  BY IInvInit, IInvStep, PTL DEF Spec

(* What a transaction checked under its row locks stays true until it ends, *)
(* for any number of concurrent handlers.                                   *)
THEOREM LocksAreEnough == Spec => []LocksProtect
  <1>1. IInv => LocksProtect
    BY Zenon DEF IInv
  <1>. QED
    BY <1>1, Invariance, PTL

(* The lock order of the handlers excludes deadlock: along a chain of       *)
(* transactions waiting for one another the awaited rows strictly ascend.   *)
THEOREM NoDeadlock == Spec => []OrderedWaits
  <1>1. IInv => OrderedWaits
    BY WaitsAscend, Zenon DEF IInv
  <1>. QED
    BY <1>1, Invariance, PTL

(* A set of session ids has a greatest one: a smallest set without one       *)
(* would, less any of its members, still be without one.                    *)
LEMMA LastSession ==
    ASSUME NEW S \in SUBSET Sessions, S # {}
    PROVE  \E m \in S : \A k \in S : k <= m
  <1> DEFINE Last(R) == \E m \in R : \A k \in R : k <= m
             T == {n \in Nat : \E R \in SUBSET Sessions : R # {} /\ Cardinality(R) = n /\ ~Last(R)}
  <1>1. ASSUME NEW R \in SUBSET Sessions
        PROVE  IsFiniteSet(R) /\ Cardinality(R) \in Nat
    <2>1. IsFiniteSet(R)
      BY RouteAssumption, FS_Subset, Zenon
    <2>. QED
      BY <2>1, FS_CardinalityType, Zenon
  <1>2. SUFFICES ASSUME T # {} PROVE FALSE
    BY <1>1
  <1>3. PICK n \in T : \A k \in T : ~(<<k, n>> \in OpToRel(<, Nat))
    BY <1>2, WFMin, NatLessThanWellFounded, Zenon
  <1>4. PICK R \in SUBSET Sessions : R # {} /\ Cardinality(R) = n /\ ~Last(R)
    BY Zenon
  <1>5. PICK r \in R : TRUE
    BY <1>4
  <1> DEFINE Q == R \ {r}
  <1>6. Q \in SUBSET Sessions /\ IsFiniteSet(R) /\ Cardinality(R) \in Nat
    BY <1>1
  <1>7. Cardinality(Q) = n - 1 /\ Cardinality(Q) \in Nat /\ n \in Nat
    BY <1>1, <1>4, <1>5, <1>6, FS_RemoveElement
  <1>8. Cardinality(Q) \notin T
    <2>1. Cardinality(Q) < n
      BY <1>7
    <2>. QED
      BY <1>3, <1>7, <2>1, Zenon DEF OpToRel
  <1>9. \A k \in R : k \in Nat
    BY RouteAssumption
  <1>10. CASE Q = {}
    <2>1. \A k \in R : k <= r
      BY <1>9, <1>10
    <2>. QED
      BY <1>4, <1>5, <2>1
  <1>11. CASE Q # {}
    <2>1. Last(Q)
      BY <1>6, <1>7, <1>8, <1>11, Zenon
    <2>2. PICK m \in Q : \A k \in Q : k <= m
      BY <2>1
    <2>3. CASE r <= m
      <3>1. \A k \in R : k <= m
        BY <2>2, <2>3
      <3>. QED
        BY <1>4, <2>2, <3>1
    <2>4. CASE ~(r <= m)
      <3>1. \A k \in R : k <= r
        BY <1>5, <1>9, <2>2, <2>4
      <3>. QED
        BY <1>4, <1>5, <3>1
    <2>. QED
      BY <2>3, <2>4
  <1>. QED
    BY <1>10, <1>11

(* Among the transactions W, one waits for a row that none of W holds. *)
SomeoneIsNotBlocked(W) == \E t \in W : \A u \in W : Want(t) \notin Held(u)

(* What a transaction waits for is the row of a session or an endpoint. *)
LEMMA WantsRow ==
    ASSUME TypeOK, Planned, NEW t \in Tx, Waiting(t)
    PROVE  Want(t) \in Rows
  <1>1. tx[t] \in JobType
    BY HeldInPlan, Zenon
  <1>2. tx[t].plan \in Seq(Rows) /\ tx[t].got \in Nat
    BY <1>1 DEF JobType
  <1>3. tx[t].got + 1 \in 1 .. Len(tx[t].plan)
    BY <1>2 DEF Waiting
  <1>. QED
    BY <1>2, <1>3 DEF Want

(* What OrderedWaits is for: of any transactions that wait, the one with    *)
(* the last awaited row is blocked by none of the others.                   *)
LEMMA LastIsNotBlocked ==
    ASSUME TypeOK, Planned, OrderedWaits,
           NEW W \in SUBSET Tx, W # {}, \A t \in W : Waiting(t)
    PROVE  SomeoneIsNotBlocked(W)
  <1>1. \A t \in W : Want(t) \in Sessions \/ Want(t) \in ABAs \/ Want(t) \in HCs
    BY WantsRow DEF Rows, Endpoints
  <1>2. \A t, u \in W : Want(t) \in Held(u) => Before(Want(t), Want(u))
    BY Zenon DEF OrderedWaits
  <1>3. CASE \E t \in W : Want(t) \in HCs
    <2>1. PICK t \in W : Want(t) \in HCs
      BY <1>3
    <2>2. \A r : ~Before(Want(t), r)
      BY <2>1, RouteAssumption DEF Before
    <2>. QED
      BY <1>2, <2>2, Zenon DEF SomeoneIsNotBlocked
  <1>4. CASE (\A t \in W : Want(t) \notin HCs) /\ \E t \in W : Want(t) \in ABAs
    <2>1. PICK t \in W : Want(t) \in ABAs
      BY <1>4
    <2>2. \A u \in W : ~Before(Want(t), Want(u))
      BY <1>4, <2>1, RouteAssumption DEF Before
    <2>. QED
      BY <1>2, <2>2, Zenon DEF SomeoneIsNotBlocked
  <1>5. CASE \A t \in W : Want(t) \in Sessions
    <2> DEFINE S == {Want(t) : t \in W}
    <2>1. S \in SUBSET Sessions /\ S # {}
      BY <1>5
    <2>2. PICK m \in S : \A k \in S : k <= m
      BY <2>1, LastSession, Zenon
    <2>3. PICK t \in W : Want(t) = m
      BY <2>2
    <2>4. \A u \in W : Want(u) \in Nat /\ Want(u) <= m
      BY <1>5, <2>2, RouteAssumption, Zenon
    <2>5. \A u \in W : ~Before(Want(t), Want(u))
      BY <1>5, <2>3, <2>4, RouteAssumption DEF Before, Endpoints
    <2>. QED
      BY <1>2, <2>5, Zenon DEF SomeoneIsNotBlocked
  <1>. QED
    BY <1>1, <1>3, <1>4, <1>5, Zenon

(* The handlers never deadlock on row locks: whichever transactions wait,   *)
(* however many, one of them waits for a row that none of the others (nor   *)
(* itself) holds, so no cycle of SELECT ... FOR UPDATE statements (the      *)
(* clause.Locking reads of the store) ever closes.                          *)
THEOREM NoWaitCycle ==
    Spec => [](\A W \in SUBSET Tx :
                  W # {} /\ (\A t \in W : Waiting(t)) => SomeoneIsNotBlocked(W))
  <1>1. IInv => \A W \in SUBSET Tx :
                   W # {} /\ (\A t \in W : Waiting(t)) => SomeoneIsNotBlocked(W)
    BY WaitsAscend, LastIsNotBlocked, Zenon DEF IInv
  <1>. QED
    BY <1>1, Invariance, PTL

(* PutAuthorizedEndpointFrame stores a frame only while session, endpoints  *)
(* and sender credential are ACTIVE.                                        *)
THEOREM FramesAreAuthorized == Spec => FrameAuthorized
  <1>1. IInv /\ [Next]_vars => [FrameAuthorizedStep]_vars
    BY AuthorizedStep, Zenon
  <1>. QED
    BY <1>1, Invariance, PTL DEF Spec, FrameAuthorized

(* Concurrent create requests never exceed an ABA's session limit. *)
THEOREM LimitHolds == Spec => []SessionLimit
  <1>1. Init => SessionLimit
    <2>. SUFFICES ASSUME Init, NEW a \in ABAs PROVE Cardinality(LiveSessions(a)) <= MaxActive
      BY Zenon DEF SessionLimit
    <2>1. LiveSessions(a) = {}
      BY Zenon DEF Init, LiveSessions, LiveStatus
    <2>. QED
      BY <2>1, FS_EmptySet, RouteAssumption
  <1>2. IInv /\ SessionLimit /\ [Next]_vars => SessionLimit'
    BY LimitStep, Zenon
  <1>. QED
    BY <1>1, <1>2, Invariance, PTL DEF Spec

(* A session that carries traffic has an acknowledged, unrevoked key package. *)
THEOREM TrafficIsKeyed == Spec => []TrafficHasKey
  <1>1. Init => TrafficHasKey
    BY DEF Init, TrafficHasKey
  <1>2. IInv /\ TrafficHasKey /\ [Next]_vars => TrafficHasKey'
    BY KeyStep, Zenon
  <1>. QED
    BY <1>1, <1>2, Invariance, PTL DEF Spec

(* Ended sessions stay ended and revoked endpoints stay revoked. *)
THEOREM EndedStaysEnded == Spec => NoResurrection
  <1>1. IInv /\ [Next]_vars => [NoResurrectionStep]_vars
    BY ResurrectionStep, Zenon
  <1>. QED
    BY <1>1, Invariance, PTL DEF Spec, NoResurrection

(* ACK cursors never move back and acknowledged frames leave replay for good. *)
THEOREM AcksAreMonotone == Spec => AckMonotone
  <1>1. TypeOK /\ [Next]_vars => [AckMonotoneStep]_vars
    BY FrameTableStep, Zenon
  <1>. QED
    BY <1>1, TypeCorrect, PTL DEF Spec, AckMonotone

(* Neither a second frame nor an ACK changes what a slot stores. *)
THEOREM FramesAreImmutable == Spec => FrameImmutable
  <1>1. TypeOK /\ [Next]_vars => [FrameImmutableStep]_vars
    BY FrameTableStep, Zenon
  <1>. QED
    BY <1>1, TypeCorrect, PTL DEF Spec, FrameImmutable
=============================================================================
