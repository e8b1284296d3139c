# TLA+ verification of the harness platform

The repository connects a person's browser to an agent on their own machine:

    HC (browser)  <->  Platform (Go: gateway + store + management)  <->  ABA (Rust)  <->  ACP Agent

An HC (harness client) opens a session with an ABA (the bridge beside the Agent).
The two exchange encrypted frames, which the Platform stores, forwards and replays
without reading them. The Platform also enrolls ABAs, registers HCs, rotates their
credentials and lets the owner suspend, revoke and close.

This directory models the stateful parts of that system in TLA+. TLC checks every
module on a small instance; TLAPS proves every safety property of the passing runs
for every value of the constants. `PROJECT.json` maps each definition to the lines
it translates, and lists the runs, hazards, findings and theorems.

## Parts and modules

| part | code | module | proofs |
|---|---|---|---|
| session store | `platform/internal/harness/store` | `SessionStore` | `SessionStoreInvariant`, `SessionStoreProofs` |
| ABA relay and journal | `aba/src/journal.rs`, `aba/src/gateway` | `AbaRelay`, refining `Dispatch` | `AbaRelayProofs` |
| gateway connections | `gateway/connection_directory.go`, `websocket.go` | `Connections` | `ConnectionsProofs` |
| credentials, tickets, DPoP | `gateway/server.go`, `store/refresh.go`, `store/gateway_identity.go`, `dpop` | `Credentials` | `CredentialsProofs` |
| onboarding and management mutations | `enrollment`, `registration`, `modules/harness/mutation_*.go`, `store/idempotency.go` | `Onboarding` | `OnboardingProofs` |
| delivery of frames to the HC | `gateway/frame.go`, `gateway/resume.go`, `hc/web/src/remote` | `Delivery` | `DeliveryProofs` |
| gateway trust and pinning | `gateway/trust*.go`, `cmd/harness-gateway`, `aba/src/gateway/trust.rs` | `TrustState` | `TrustStateProofs` |

`Delivery` composes the ends of the others for one session: the journal of
`AbaRelay`, the frame rows of `SessionStore` and the queues of `Connections`,
each reduced to what the others see of it. `MC<Module>` instantiates a module for
TLC. A definition headed *Variant* is a plausible mistake in the definition that
follows it; it is used to confirm that a property notices the mistake.

### SessionStore

State: the status of endpoints and credentials, of sessions and their key package,
the frame rows, the ACK cursors, and the transactions in progress. A transaction
begins with its handler's checks outside the database transaction, takes row locks
one at a time in the order of the code (its *plan*), checks each row when it has
the lock, and writes when it commits. What the code does not read again at commit
is not checked again in the model either: only the lock protects it. `Begin*`
are the handlers of the gateway and of the owner, `Acquire`, `Verify` and `Refuse`
the steps inside the transaction, `Commit*` its writes, and `Abort` a request that
is cancelled anywhere.

Isolation is READ COMMITTED, the default of the PostgreSQL deployment; SQLite,
which has one writer, allows fewer behaviours. The code never assigns the statuses
DRAINING, DELIVERED, ROUTED and EXPIRED, and no caller outside tests exists for
RevokeEndpoint, PutFrame, PutEndpointFrame, CreateSession, ListSessionKeyPackages
and the repository's own ApproveEnrollment and ConsumeEnrollment; they are left out.

### AbaRelay and Dispatch

State: the process (up, connected, sessions in memory, the handler that runs and
how far it came), the journal on disk, and histories of what was given to the
Agent, sealed and sent. One thread runs one handler at a time; a handler makes
several durable writes and the process may stop between any two. A journal update
rewrites and renames the file, so it is one atomic step. Restart runs
`recover_uncertain`. `Dispatch` is the promise: a message is recorded, then
started, then answered or uncertain, once each.

The capacity of the journal is counted in records. Refusals that change nothing
are omitted where no state distinguishes them; control sequence numbers are left
to `Connections`; the HC acknowledges only what it received; a connection may
break after any prefix of a handler's packets.

### Connections

State: the generation row, the lane of an endpoint with its mutex and current
connection, and for each connection its handler, writer, queue, byte count and
control numbering. `Challenge` to `Handler` follow one WebSocket from handshake to
deferred cleanup; `SendControl` and `Forward` start a send, whose reservation,
enqueueing and giving back are separate steps because they take no lane mutex.
`Restart` forgets everything but the generation row; a restart before any
connection was opened would change nothing and is left out. `ControlInOrder` counts
the control packets of a queue from the last one written; `BytesAccounted` equates
the byte count with the packets queued plus the sends between reserving and
enqueueing.

### Credentials

State: the rows of one endpoint (endpoint, access and refresh credentials by
generation, nonce, replay rows, tickets), the requests in progress, and what the
client holds. No lock is held between a handler's statements, so requests
interleave between any two of them. The client may retry, send duplicates, lose
responses, and have a clock that runs ahead.

A revocation is a READ COMMITTED transaction of two steps: `RevokeTickets` chooses
the tickets its update finds (`marked`), `Revoke` commits all its updates; `Rollback`
undoes it. A ticket inserted between the two steps (`late`) is not among the marked
ones. A WebSocket is `challenged` when its ticket has been consumed and `ready` when
`MarkEndpointSeen` has found the endpoint ACTIVE; this update needs the endpoint's
row and waits for a revocation in progress.

`GetEndpointCredential`'s two reads are one step. The count and the insert of the
replay limit are one step; under PostgreSQL concurrent requests may overshoot the
limit by their number, which no property depends on. A request is assumed not to
outlast `MaxStall < FutureSkew`: the server's 15 s timeouts against a skew of 30 s.
The EXPIRED ticket update is rolled back with its transaction and has no effect.

### Onboarding

State: enrollments, HC challenges, endpoints, idempotency records, audit events,
requests in progress, and what users were told. A management mutation is three
transactions (reserve; mutate, audit and complete; record a failure), and a request
may stop between any two. `KeyOf` conflates the signing and the KEM key of a
device. A wrong user code fails like an unknown enrollment. EXPIRED is never
stored for an enrollment: expiry is compared when it is read.

### Delivery

State: the frames of one session in the ABA journal, in the gateway's rows, in the
two connections and in the HC's durable conversation. A connection is in order
and lossless while it lasts and loses its content when it ends. `PutFrame` and
`Forward` are the gateway's two steps for a frame, `Resume` and `ReplayFrame` the
reading and the sending of a replay, `Receive` the HC's whole handler, in which
saving precedes acknowledging. Received ranges are left out, since nothing is
decided by them.

The HC's connection (`hc`) is *restoring* from `bind` or a lost authorization until
`reconcile` finds the session in order; packets are then retained in a bounded
`buffer`, whose overflow ends the connection. It is *resuming* while `flush` hands
them over, until `resume` has sent its cursor, then *live*; *ended* is a conversation
that `observe` found terminal. `halted` is what stops a conversation: a reservation
left by a message that was being sent, a fault in memory, a durable block. With one
of them `resume` asks for nothing, and with the last two `receive` drops every frame.

A session ends in two ways. `CloseSession` commits and sends one
`CloseTunnelRequest`, which a connected ABA may or may not get; on it the ABA removes
the session and its records (`AbaClose`). `EndSession` is a revocation or failure, of
which the ABA is not told. `AbaRestart` loses the sessions in memory (`held`) and
keeps the journal, whose records nothing then repeats.

### TrustState

State: the signer file, the gateway processes of the node (loading, written,
serving with a cached manifest), and each client's pin and attempt to connect. The
clients are ABAs, whose loop tries again by itself, and HCs, whose user may.
`Load`, `WriteTrustState` and `Listen` are the steps of a start, between any two of
which the process may end. `Ask` reads the clock before the manifest mutex is
taken, as `trustManifest` does; the three `Answer*` actions are the branches of
`currentTrustManifest`. A client verifies and pins, then meets the challenge of
whichever process serves by then.

Starts do not overlap, which is what "owns a local signer file for the
single-node MVP" (`trust_store.go:29`) asks for; an earlier process may still serve,
and then the new one cannot bind the address. Clients' clocks agree with the
gateway's. A loss of power that undoes the rename (the directory is not synced) is
not modelled.

## Runs

Every instance is small, and each bound is chosen so that the races named can
happen; the theorems below remove the bounds for the safety properties.
Deadlock is not checked where a behaviour ends because a bound is used up.

| run | instance | what it shows |
|---|---|---|
| `lifecycle` | 2 sessions of one ABA, limit 1, 2 transactions, no frames | `SessionLimit`: concurrent creates never exceed the limit. `OrderedWaits`: chains of waiting transactions follow the lock order, so none closes. `NoResurrection`: no race of close, failure and revocation revives anything. |
| `traffic` | 1 session, 2 contents for one sequence, 2 transactions, fair | `LocksProtect`: what was checked under a lock holds at commit. `FrameAuthorized`, `TrafficHasKey`: a frame or an activation never slips past a close or revocation. `AckMonotone`, `FrameImmutable`: duplicates and stale ACKs change nothing. `TxFinishes`: every transaction ends. |
| `relay` | 1 session, 3 frames each way, journal of 4 records, broken connections, fair | `GivenOnce`, `NoOrphanDispatch`, `UncertaintyIsRemembered`, `SealedOnce`, `SentIsKept`, refinement `ImplementsDispatch`, and `DispatchResolves`, through crashes at every write. |
| `connections` | 2 connections of one endpoint, 2 HTTP handlers, queue of 1, 3 byte units, 1 restart, fair | `Fenced`, `LaneKept`: one connection acts for an endpoint. `ControlInOrder`: control packets are numbered without gap. `BytesAccounted`: reserved bytes are given back. `ClosedEnds`: a closed or replaced connection ends. |
| `credentials_family` | 2 concurrent refreshes, 4 nonces, 3 generations, 2 proofs signed by time 1 or one proof followed to time 4 | `Lineage`: one line of descent. `RevokedIsDead`: a revoked family stays so. `ProofOnce`, `NonceOnce`: nothing is accepted twice, up to the edges of the clock windows. |
| `credentials_tickets` | refresh, ticket, session and WebSocket requests, 2 generations, 2 tickets | `TicketOnce`: concurrent openings use a ticket once. `RevokedNeverReady`: after a revocation no WebSocket becomes ready, and no ticket is consumed but one inserted in the middle of the revocation. |
| `onboarding` | 2 enrollments and 1 challenge with one key, 2 users, 1 Idempotency-Key, 2 requests | `OneEndpointEach`: endpoints and their origins correspond. `Accounted`: records, audit events and decisions agree after any interruption. `ToldTrue`: answers are never contradicted. |
| `delivery` | 3 frames (one less for each of: an ended session, a stopped conversation, an ABA that lost the session, a frame too old), queue of 1, replay of 2, buffer of 1, 1 outside loss or restart, fair | `AppliedInOrder`; `GivenUpIsApplied`: only a close discards what the HC has not saved; `NothingSlips`: every stored frame after the cursor of a live conversation is still accounted for; `Delivered`: a live conversation catches up, but for the cases below. |
| `trust` | 2 processes, 1 ABA and 1 HC, 2 revisions, 2 key pairs, manifests of 3 ticks, fair | `TrustContinues`: no crash makes a gateway contradict a pin. `RefusalsHaveReasons`: clients refuse for two known reasons only. `Connects`: the connect loop of an ABA does not try for ever. |
| `revokerace` | as `lifecycle` | violated: finding 1 |
| `relay_uncertain` | 1 session, 1 frame each way, fair | violated: finding 2 |
| `connections_late` | as `connections` | violated: finding 3 |

Why these bounds: two concurrent actors are what each of the races needs, since
every lock, lane, row or record is contended by pairs. Three frames are the least
with a gap, an overtaking live copy and a replay cut at its limit of two; `Explored`
in `MCDelivery` trades the last of them for each trouble. A replay row of the family
run expires at 4, one step after the last request that accepts its proof by age, so
time 4 is the edge of the window; `RaceTime` bounds how long a second proof is signed
beside it, and the theorem `ProofsAreUsedOnce` has neither bound. Two tickets are one
that a revocation marks and one inserted behind it. Two
contents of one sequence are what a conflict needs; several sequences are covered
by the theorems. Two revisions and two key pairs include a crash before the first
write and a restart after it; one tick less than the lifetime of a manifest is what
separates refreshing in time from refreshing at expiry.

### Fairness

Except for `DispatchResolves`, the liveness properties say that something is so again
and again (`[]<>`): a database connection is free, no connection is closed without
having ended, the HC has caught up. Whatever begins then ends, since what began and
never ended would from then on never be at rest.

* `SessionStore`: strong fairness of each transaction's next step. The database
  grants a lock that becomes free again and again, and Go's scheduler runs the
  handler. Nothing obliges a client to begin anything.
* `AbaRelay`: weak fairness of the handler that runs, of restart (the process is
  supervised) and of reconnecting (`run` loops); strong fairness of a reply sent on
  a connection that survives it, and of the Agent answering or failing.
* `Connections`: strong fairness of each connection's handler (a Go mutex does not
  starve its waiters) and weak fairness of the senders in progress.
* `Delivery`: weak fairness of the gateway's steps, of the HC receiving and
  acknowledging on a connection it has, and of connecting by an ABA process that has
  the session (`run` loops). Nothing is assumed of the HC's connections, which its
  user opens (`GatewaySetup.tsx` connects when it is mounted and by its button), of
  restoring a conversation, which the Platform may refuse, nor of an ABA process that
  has ended, whose sessions are lost.
* `TrustState`: for ABAs only, weak fairness of asking and of opening the WebSocket,
  and strong fairness of an answer and of its verification, which an attempt that
  times out interrupts and `run` repeats. Signing may fail now and then but not always.
  Nothing is assumed of HCs, which do not retry by themselves.

## Findings

1. **A session created during a revocation escapes it** (`revokerace`).
   `RevokeEndpointForOwner` reads the sessions before it locks the endpoint, and its
   cascade reaches only those. `docs/product/MVP-PRD.md:247` says revoking an ABA
   closes its sessions.
2. **A dispatch made uncertain by a crash is never reported** (`relay_uncertain`).
   The sessions died with the process, so there is nobody to report for.
   `docs/architecture/PROTOCOL.md:587` promises an explicit status.
3. **A late lower generation can become current** (`connections_late`), once the
   newer connection has ended, since `activate` compares with the current
   connection only. `docs/roadmap/verification/2026-09-05-session-control.md:12`
   says it cannot.

Observations that no run states as a property:

* A full journal ends the ABA process, where `docs/architecture/ABA.md:510` promises
  that the control channel stays open.
* A second, different frame for an acknowledged sequence turns its row into
  CONFLICT (`authorized_frame.go:176`).
* A request that stops after reserving its Idempotency-Key blocks the key for good:
  an expired IN_PROGRESS record is refused, not replaced.
* A frame older than five minutes that the ABA must repeat ends its connection every
  time; a replay larger than the queue ends the connection it repairs; a live copy
  lost on a full queue returns only with a later gap or reconnect; an ABA that was
  restarted keeps frames in its journal that nothing sends.
* `Delivered` excuses six cases: the session is not ACTIVE; the conversation is not
  live, since nothing makes the HC connect or the Platform confirm its authorization;
  it is stopped by a reservation, a fault or a block; the gateway withheld the last
  frame (a full queue or the limit of a replay), so that no later one shows the gap;
  a frame has not reached the gateway and the ABA has lost the session from memory;
  or it has not and a frame too old is repeated before it.
* A close discards the frames in the journal that the HC has not applied, and the
  `CloseTunnelRequest` is sent once (`session_close.go:97`), so an ABA that is offline
  keeps the session and its records. `GivenUpIsApplied` excuses the first.
* A ticket inserted while `RevokeEndpointForOwner` is between its update of the
  tickets and its commit stays ISSUED: the insert locks nothing of the endpoint. Its
  WebSocket is challenged and then closed, since `MarkEndpointSeen` requires an ACTIVE
  endpoint. `docs/architecture/SECURITY.md:725` and `docs/product/PRD.md:504` say
  that a revocation makes the tickets invalid; `RevokedNeverReady` states what holds.
* A gateway restarted between the manifest an ABA fetched and the challenge it meets
  answers with a higher revision. The resulting error is not retried
  (`client.rs:413`), so the ABA process ends, although `aba/README.md:18` promises a
  reconnect that retains its state. This is the `mismatch` of `RefusalsHaveReasons`.
* After a failed refresh, the retry time may lie beyond the expiry of the cached
  manifest, which is then served expired until the retry (`server.go:188-194`). This
  is the `refused` case of the same property.

## Proofs

All theorems hold for every value of the constants that satisfies the named
assumption of the module; TLC evaluates each assumption on its instance. Only the
constants' types, the finiteness of the sets that are counted, the order of the clock
windows (`MaxStall < FutureSkew`; `RefreshInterval + Timeout <= TTL`) and the
disjointness of identifiers are assumed.

* **SessionStore.** `IInv` is the type invariant (`TypeCorrect`) with *Planned* (a transaction's
  locks are a prefix of its plan, which ascends), *Exclusive* (no row is held
  twice), *RowsExist* and `LocksProtect`. Plans are needed because `LocksProtect`
  is about checks of rows that another transaction writes: mutual exclusion on the
  plan is what keeps them true. From it follow `LocksAreEnough`, `NoDeadlock`, its
  consequence `NoWaitCycle` (of any set of waiting transactions, the one whose awaited
  row is last is blocked by none of the set), `FramesAreAuthorized`, `LimitHolds` (the count is read under the lock of the
  ABA), `TrafficIsKeyed`, and the action properties `EndedStaysEnded`,
  `AcksAreMonotone` and `FramesAreImmutable`.
* **AbaRelay.** `RInv` relates, for each stage of the running handler, memory,
  journal and histories: a message given to the Agent is started or resolved in the
  journal; the reserved sequence bounds all that were sealed; a packet sent is
  recorded. It gives `AtMostOnce`, `SequencesAreFresh`, `SentFramesAreKept`,
  `NoDispatchIsOrphaned`, `UncertaintyIsKept` and, with the mapping of journal states,
  `RelayImplementsDispatch`: every step is a step of `Dispatch` or a stutter.
* **Connections.** `CInv` has two halves. For the lane: the current connection of an
  endpoint was activated and is not yet removed, deferred calls run in order, and the
  writer starts after activation; this is what `Fenced` needs to survive a
  replacement and the removal of a replaced connection. For the senders: whoever
  numbers a control packet holds `controlMu` and has the next number, and the holder
  of `controlMu` is such a sender; without this two senders could take one number, and
  `ControlInOrder` is not inductive. `BytesAccounted` is proved from lemmas on how a
  queue's count and the number of reserving sends change when a packet is added or
  taken. It gives `DirectoryFenced`, `DirectoryLaneKept`, `DirectoryControlInOrder`,
  `DirectoryBytesAccounted` and `DirectoryTypeOK`, for any numbers of connections, endpoints,
  HTTP handlers and any capacities.
* **Credentials.** The invariant adds to the properties that requests in progress
  saw what they claim, that generations have no gap, that an accepted proof has its
  replay row or is past the time it could be accepted (here `MaxStall <
  FutureSkew` is used), that exchanged nonces and consumed tickets are no longer
  current, and *Overtaken*: a revocation in progress has marked every ISSUED ticket
  that was not inserted behind its update, and at a revoked endpoint only such a ticket
  is about to be consumed. It gives `OneLineOfDescent`,
  `RevocationIsFinal`, `ProofsAreUsedOnce`, `NoncesAreUsedOnce`, `TicketsAreUsedOnce`,
  `RevocationLocksOut` and `CredentialsTypeCorrect`.
* **Onboarding.** The properties are strengthened by: a request in progress names
  the enrollment its record was reserved for; every answer is a completed record; a
  completed success is the decision that stands. It gives `EndpointsHaveOneOrigin`,
  `DecisionsAreAccounted`, `AnswersStayTrue` and `OnboardingTypeCorrect`.
* **Delivery.** `DInv` says that cursors are ordered (what the gateway and the ABA
  gave up, what was acknowledged on the way, what the HC saved), that every cursor in
  flight is at most the HC's, and that a `CloseTunnelRequest` is on its way only for a
  closed session. It gives `FramesAreAppliedInOrder` and `NothingIsGivenUpEarly` for
  any number of frames and any capacities. `DeliveryTypeOK` needs that a request of
  kind `ack`, in flight or owed, names a frame. `NoFrameSlips` proves `NothingSlips`
  inductive relative to both: a replay answers a cursor that is not ahead of the HC's,
  so it covers every stored frame after it, and whatever the HC takes from the queue
  without applying it leads to a new `ResumeState` or a stop. The types of a replay
  rest on the existence of a sorted sequence for every set of sequence numbers, proved
  with the least counterexample.
* **TrustState.** `TInv` says that a starting process has the next revision of the
  file or wrote the last, that every pin and every manifest on its way has the
  file's keys and is not ahead of the process that serves and is behind the one that
  starts, and that a cached manifest outlives the request it answers unless a refresh
  failed. It gives `PinsStayGood`, `RefusalsAreExplained` and `TrustTypeCorrect`.

The type invariants of `SessionStore`, `AbaRelay`, `Onboarding` and `Delivery` are proved
rather than listed in a run.

Model-checked only: the liveness properties `TxFinishes`, `DispatchResolves`,
`ClosedEnds`, `Delivered` and `Connects`, since the prover does not treat fairness. The
properties of the runs that end in a violation are false of the code.

## Not modelled

* **The HC's outbox**: the sending half of the direction HC to ABA. Its receiving
  half is in `AbaRelay`, its rows are in `SessionStore`.
* **The idempotency record around suspension, revocation and close**: the same code
  as for the enrollment decisions, which `Onboarding` has.
* **The control outbox** (`store/control_outbox.go`): nothing outside tests uses it.
* **Authorization of the management API and its migration, schemas, row mapping,
  projections, route registration, configuration, generated wire code, the user
  interfaces**: no protocol state of their own.
* **Transcripts and cryptography**: a signature is assumed to verify for its signer
  and content only; a random identifier is new.
* **The Agent process and its pipes**: `AbaRelay` has what the relay sees of them.
* **The in-memory DPoP replay cache and the ephemeral trust bundle**: the deployed
  gateway uses neither.

## Running

In this directory, `tlc -config <cfg> <MC module>` repeats a run (no run takes
much more than three minutes with two workers), and `tlapm <module>` checks the proofs of a
module (the longest takes about eleven minutes).
