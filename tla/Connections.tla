----------------------------- MODULE Connections -----------------------------
(***************************************************************************)
(* The gateway's connection directory and the goroutines around it: one    *)
(* WebSocket handler and one writer per connection, and the HTTP handlers  *)
(* that send control packets (gateway/connection_directory.go and          *)
(* gateway/websocket.go). An endpoint has a lane, whose mutex serializes   *)
(* activation, removal and the handling of packets; sending takes no lane  *)
(* mutex. The connection generation is a database row and survives a       *)
(* restart of the gateway; everything else is memory.                      *)
(*                                                                         *)
(* Tickets, nonces and credentials are modelled in Credentials; here an    *)
(* endpoint is `active' until it is revoked, suspended or its credential   *)
(* rotated. What a packet does to the store is modelled in SessionStore.   *)
(***************************************************************************)
EXTENDS Integers, Sequences, FiniteSets

CONSTANTS Endpoints, Conns, EndpointOf, Workers,
          ChanCap,      \* maxInflightFrames
          ByteLimit,    \* maxConnectionQueueBytes, in units of a control packet
          MaxSends,     \* bound: packets the behaviour may try to send
          MaxRestarts,  \* bound: restarts of the gateway
          None

ASSUME ConnectionsAssumption ==
    /\ EndpointOf \in [Conns -> Endpoints]
    /\ ChanCap \in Nat \ {0} /\ ByteLimit \in Nat \ {0}
    /\ MaxSends \in Nat /\ MaxRestarts \in Nat
    /\ Conns \cap Workers = {} /\ None \notin Conns \cup Workers
    /\ IsFiniteSet(Conns) /\ IsFiniteSet(Workers)

VARIABLES
    generation,   \* the generation row of an endpoint
    active,       \* the endpoint and its credential are ACTIVE
    pc,           \* where the WebSocket handler of a connection is
    gen,          \* activeConnection.generation
    current,      \* connectionLane.current
    lane,         \* holder of connectionLane.mu
    replaced,     \* the connection a new one has replaced and must close
    done,         \* activeConnection.done is closed, and with it the socket
    writer,       \* the runWriter goroutine
    queue,        \* activeConnection.outbound
    bytes,        \* activeConnection.queuedBytes
    control,      \* activeConnection.controlSequence
    controlMu,    \* holder of activeConnection.controlMu
    written,      \* the last control sequence written to the socket
    op,           \* the send a goroutine is carrying out
    sends, restarts

dirVars == <<generation, active, current, lane, replaced>>
connVars == <<pc, gen>>
queueVars == <<writer, queue, bytes, written>>
sendVars == <<control, controlMu, op, sends>>
vars == <<dirVars, connVars, done, queueVars, sendVars, restarts>>

Senders == Conns \cup Workers
Send(at, to, kind, n) == [at |-> at, to |-> to, kind |-> kind, n |-> n]
Idle == Send("idle", None, "none", 0)
Size(kind) == IF kind = "control" THEN 1 ELSE 2
E(c) == EndpointOf[c]
Activated(c) == pc[c] \notin {"new", "challenged", "ready", "refused"}

Init ==
    /\ generation = [e \in Endpoints |-> 0]
    /\ active = [e \in Endpoints |-> TRUE]
    /\ pc = [c \in Conns |-> "new"]
    /\ gen = [c \in Conns |-> 0]
    /\ current = [e \in Endpoints |-> None]
    /\ lane = [e \in Endpoints |-> None]
    /\ replaced = [c \in Conns |-> None]
    /\ done = [c \in Conns |-> FALSE]
    /\ writer = [c \in Conns |-> "none"]
    /\ queue = [c \in Conns |-> <<>>]
    /\ bytes = [c \in Conns |-> 0]
    /\ control = [c \in Conns |-> 0]
    /\ controlMu = [c \in Conns |-> None]
    /\ written = [c \in Conns |-> 0]
    /\ op = [p \in Senders |-> Idle]
    /\ sends = 0 /\ restarts = 0

-----------------------------------------------------------------------------
(* The life of a connection. *)

(* NextConnectionGeneration: one upsert, which returns the row it has written. *)
NextGeneration(e) == [generation EXCEPT ![e] = @ + 1]

(* The ticket is consumed and performChallenge allocates the generation; *)
(* whether the credential is still valid is not looked at again here.    *)
Challenge(c) ==
    /\ pc[c] = "new"
    /\ generation' = NextGeneration(E(c))
    /\ gen' = [gen EXCEPT ![c] = generation'[E(c)]]
    /\ pc' = [pc EXCEPT ![c] = "challenged"]
    /\ UNCHANGED <<active, current, lane, replaced, done, queueVars, sendVars, restarts>>

(* The challenge is answered and the endpoint marked as seen, or not: a    *)
(* late or wrong answer is refused, and so is an endpoint that is revoked  *)
(* or suspended; a credential rotated meanwhile is only noticed in Enter.  *)
Answer(c) ==
    /\ pc[c] = "challenged"
    /\ \E at \in {"ready", "refused"} : pc' = [pc EXCEPT ![c] = at]
    /\ UNCHANGED <<dirVars, gen, done, queueVars, sendVars, restarts>>

(* Variant: activation does not wait for the packet being handled. *)
ActivateUnlocked(c) ==
    /\ pc[c] = "ready"
    /\ LET old == current[E(c)] IN
       IF old # None /\ gen[old] >= gen[c]
       THEN /\ pc' = [pc EXCEPT ![c] = "refused"]
            /\ done' = [done EXCEPT ![c] = TRUE]
            /\ UNCHANGED <<current, replaced>>
       ELSE /\ pc' = [pc EXCEPT ![c] = "activated"]
            /\ current' = [current EXCEPT ![E(c)] = c]
            /\ replaced' = [replaced EXCEPT ![c] = old]
            /\ UNCHANGED done
    /\ UNCHANGED <<generation, active, lane, gen, queueVars, sendVars, restarts>>

Activate(c) ==
    /\ pc[c] = "ready" /\ lane[E(c)] = None
    /\ LET old == current[E(c)] IN
       IF old # None /\ gen[old] >= gen[c]
       THEN /\ pc' = [pc EXCEPT ![c] = "refused"]
            /\ done' = [done EXCEPT ![c] = TRUE]
            /\ UNCHANGED <<current, replaced>>
       ELSE /\ pc' = [pc EXCEPT ![c] = "activated"]
            /\ current' = [current EXCEPT ![E(c)] = c]
            /\ replaced' = [replaced EXCEPT ![c] = old]
            /\ UNCHANGED done
    /\ UNCHANGED <<generation, active, lane, gen, queueVars, sendVars, restarts>>

(* Variant: the connection that was replaced is left open. *)
StartForgetful(c) ==
    /\ pc[c] = "activated"
    /\ pc' = [pc EXCEPT ![c] = "reading"]
    /\ writer' = [writer EXCEPT ![c] = "running"]
    /\ UNCHANGED <<dirVars, gen, done, queue, bytes, written, sendVars, restarts>>

(* The connection that was replaced is closed and the writer is started. *)
Start(c) ==
    /\ pc[c] = "activated"
    /\ pc' = [pc EXCEPT ![c] = "reading"]
    /\ done' = [x \in Conns |-> done[x] \/ x = replaced[c]]
    /\ replaced' = [replaced EXCEPT ![c] = None]
    /\ writer' = [writer EXCEPT ![c] = "running"]
    /\ UNCHANGED <<generation, active, current, lane, gen, queue, bytes, written, sendVars, restarts>>

(* ReadMessage returns a packet or runs the pong handler; it fails once the socket is closed. *)
Read(c) ==
    /\ pc[c] = "reading" /\ ~done[c]
    /\ \/ pc' = [pc EXCEPT ![c] = "waiting"]
       \/ pc' = [pc EXCEPT ![c] = "closing"]
    /\ UNCHANGED <<dirVars, gen, done, queueVars, sendVars, restarts>>

ReadFails(c) ==
    /\ pc[c] = "reading" /\ done[c]
    /\ pc' = [pc EXCEPT ![c] = "closing"]
    /\ UNCHANGED <<dirVars, gen, done, queueVars, sendVars, restarts>>

(* withCurrent: the lane is held while the packet is handled, if the connection is current. *)
Enter(c) ==
    /\ pc[c] = "waiting" /\ lane[E(c)] = None
    /\ IF current[E(c)] = c /\ active[E(c)]
       THEN pc' = [pc EXCEPT ![c] = "handling"] /\ lane' = [lane EXCEPT ![E(c)] = c]
       ELSE pc' = [pc EXCEPT ![c] = "closing"] /\ UNCHANGED lane
    /\ UNCHANGED <<generation, active, current, replaced, gen, done, queueVars, sendVars, restarts>>

(* The handler has returned: the packet was accepted, or rejected and the connection ends. *)
Leave(c) ==
    /\ pc[c] = "handling" /\ op[c] = Idle
    /\ \E at \in {"reading", "closing"} : pc' = [pc EXCEPT ![c] = at]
    /\ lane' = [lane EXCEPT ![E(c)] = None]
    /\ UNCHANGED <<generation, active, current, replaced, gen, done, queueVars, sendVars, restarts>>

(* The deferred close, which does nothing the second time. *)
Close(c) ==
    /\ pc[c] = "closing"
    /\ pc' = [pc EXCEPT ![c] = "removing"]
    /\ done' = [done EXCEPT ![c] = TRUE]
    /\ UNCHANGED <<dirVars, gen, queueVars, sendVars, restarts>>

(* Variant: a connection that ends empties the lane, whoever is current. *)
RemoveLaneAny(c) ==
    /\ pc[c] = "removing" /\ lane[E(c)] = None
    /\ pc' = [pc EXCEPT ![c] = "ended"]
    /\ current' = [current EXCEPT ![E(c)] = None]
    /\ UNCHANGED <<generation, active, lane, replaced, gen, done, queueVars, sendVars, restarts>>

(* The deferred removal. *)
RemoveLane(c) ==
    /\ pc[c] = "removing" /\ lane[E(c)] = None
    /\ pc' = [pc EXCEPT ![c] = "ended"]
    /\ current' = [current EXCEPT ![E(c)] = IF @ = c THEN None ELSE @]
    /\ UNCHANGED <<generation, active, lane, replaced, gen, done, queueVars, sendVars, restarts>>

-----------------------------------------------------------------------------
(* Sending. A goroutine loads the current connection, without the lane     *)
(* mutex, and enqueues its packet there; a control packet is numbered      *)
(* under controlMu, which is held until the packet is queued or refused.   *)

(* A packet handler forwards to the peer, or replays to its own endpoint. *)
Forward(c, e) ==
    /\ pc[c] = "handling" /\ op[c] = Idle /\ current[e] # None
    /\ sends < MaxSends /\ sends' = sends + 1
    /\ op' = [op EXCEPT ![c] = Send("reserve", current[e], "forward", 0)]
    /\ UNCHANGED <<dirVars, connVars, done, queueVars, control, controlMu, restarts>>

(* An HTTP handler opens or closes a tunnel. *)
SendControl(w, e) ==
    /\ op[w] = Idle /\ current[e] # None
    /\ sends < MaxSends /\ sends' = sends + 1
    /\ op' = [op EXCEPT ![w] = Send("lock", current[e], "control", 0)]
    /\ UNCHANGED <<dirVars, connVars, done, queueVars, control, controlMu, restarts>>

(* Variant: the sequence is read before the mutex is taken. *)
NumberUnlocked(w) ==
    /\ op[w].at = "lock"
    /\ op' = [op EXCEPT ![w] = Send("reserve", op[w].to, "control", control[op[w].to] + 1)]
    /\ UNCHANGED <<dirVars, connVars, done, queueVars, control, controlMu, sends, restarts>>

Number(w) ==
    /\ op[w].at = "lock" /\ controlMu[op[w].to] = None
    /\ controlMu' = [controlMu EXCEPT ![op[w].to] = w]
    /\ op' = [op EXCEPT ![w] = Send("reserve", op[w].to, "control", control[op[w].to] + 1)]
    /\ UNCHANGED <<dirVars, connVars, done, queueVars, control, sends, restarts>>

(* The send is over; a control sequence is only consumed by a packet that was queued. *)
Finish(p, queued) ==
    LET c == op[p].to IN
    /\ op' = [op EXCEPT ![p] = Idle]
    /\ controlMu' = [controlMu EXCEPT ![c] = IF @ = p THEN None ELSE @]
    /\ control' = [control EXCEPT ![c] = IF queued /\ op[p].kind = "control" THEN op[p].n ELSE @]
    /\ UNCHANGED sends

(* Variant: the limit is compared with what was queued before this packet. *)
ReserveLate(p) ==
    LET c == op[p].to  n == Size(op[p].kind) IN
    /\ op[p].at = "reserve"
    /\ IF done[c] \/ bytes[c] > ByteLimit THEN Finish(p, FALSE) /\ UNCHANGED bytes
       ELSE /\ bytes' = [bytes EXCEPT ![c] = @ + n]
            /\ op' = [op EXCEPT ![p] = Send("put", c, op[p].kind, op[p].n)] /\ UNCHANGED <<control, controlMu, sends>>
    /\ UNCHANGED <<dirVars, connVars, done, writer, queue, written, restarts>>

(* enqueue: a connection that is closed refuses; the bytes are reserved before the packet is queued. *)
Reserve(p) ==
    LET c == op[p].to  n == Size(op[p].kind) IN
    /\ op[p].at = "reserve"
    /\ IF done[c] \/ bytes[c] + n > ByteLimit THEN Finish(p, FALSE) /\ UNCHANGED bytes
       ELSE /\ bytes' = [bytes EXCEPT ![c] = @ + n]
            /\ op' = [op EXCEPT ![p] = Send("put", c, op[p].kind, op[p].n)] /\ UNCHANGED <<control, controlMu, sends>>
    /\ UNCHANGED <<dirVars, connVars, done, writer, queue, written, restarts>>

(* Variant: a refused packet keeps its bytes. *)
PutLeaking(p) ==
    LET c == op[p].to IN
    /\ op[p].at = "put"
    /\ \/ /\ Len(queue[c]) < ChanCap
          /\ queue' = [queue EXCEPT ![c] = Append(@, [kind |-> op[p].kind, n |-> op[p].n])]
          /\ Finish(p, TRUE)
       \/ /\ done[c] \/ Len(queue[c]) = ChanCap
          /\ Finish(p, FALSE) /\ UNCHANGED queue
    /\ UNCHANGED <<dirVars, connVars, done, writer, bytes, written, restarts>>

(* enqueue: of the select's ready cases either may be taken. *)
Put(p) ==
    LET c == op[p].to IN
    /\ op[p].at = "put"
    /\ \/ /\ Len(queue[c]) < ChanCap
          /\ queue' = [queue EXCEPT ![c] = Append(@, [kind |-> op[p].kind, n |-> op[p].n])]
          /\ Finish(p, TRUE) /\ UNCHANGED bytes
       \/ /\ done[c] \/ Len(queue[c]) = ChanCap
          /\ bytes' = [bytes EXCEPT ![c] = @ - Size(op[p].kind)]
          /\ Finish(p, FALSE) /\ UNCHANGED queue
    /\ UNCHANGED <<dirVars, connVars, done, writer, written, restarts>>

(* runWriter takes a packet and writes it; a failed write closes the connection. *)
Write(c) ==
    /\ writer[c] = "running" /\ queue[c] # <<>>
    /\ LET p == Head(queue[c]) IN
       /\ queue' = [queue EXCEPT ![c] = Tail(@)]
       /\ bytes' = [bytes EXCEPT ![c] = @ - Size(p.kind)]
       /\ \/ /\ ~done[c]
             /\ written' = [written EXCEPT ![c] = IF p.kind = "control" THEN p.n ELSE @]
             /\ UNCHANGED <<done, writer>>
          \/ /\ done' = [done EXCEPT ![c] = TRUE]
             /\ writer' = [writer EXCEPT ![c] = "stopped"]
             /\ UNCHANGED written
    /\ UNCHANGED <<dirVars, connVars, sendVars, restarts>>

(* A ping fails, or the writer sees that the connection is closed. *)
StopWriter(c) ==
    /\ writer[c] = "running"
    /\ writer' = [writer EXCEPT ![c] = "stopped"]
    /\ done' = [done EXCEPT ![c] = TRUE]
    /\ UNCHANGED <<dirVars, connVars, queue, bytes, written, sendVars, restarts>>

-----------------------------------------------------------------------------
(* The endpoint is revoked or suspended, or its credential rotated. *)
Deactivate(e) ==
    /\ active[e]
    /\ active' = [active EXCEPT ![e] = FALSE]
    /\ UNCHANGED <<generation, current, lane, replaced, connVars, done, queueVars, sendVars, restarts>>

(* The gateway restarts: connections and lanes are gone, the row is not. Without *)
(* connections it has nothing to lose.                                           *)
Restart ==
    /\ \E c \in Conns : pc[c] # "new"
    /\ restarts < MaxRestarts /\ restarts' = restarts + 1
    /\ pc' = [c \in Conns |-> IF pc[c] = "new" THEN "new" ELSE IF Activated(c) THEN "ended" ELSE "refused"]
    /\ current' = [e \in Endpoints |-> None]
    /\ lane' = [e \in Endpoints |-> None]
    /\ replaced' = [c \in Conns |-> None]
    /\ done' = [c \in Conns |-> pc[c] # "new"]
    /\ writer' = [c \in Conns |-> "none"]
    /\ queue' = [c \in Conns |-> <<>>]
    /\ bytes' = [c \in Conns |-> 0]
    /\ control' = [c \in Conns |-> 0]
    /\ controlMu' = [c \in Conns |-> None]
    /\ written' = [c \in Conns |-> 0]
    /\ op' = [p \in Senders |-> Idle]
    /\ UNCHANGED <<generation, active, gen, sends>>

Handler(c) ==
    \/ Activate(c) \/ Start(c) \/ ReadFails(c) \/ Enter(c) \/ Leave(c) \/ Close(c) \/ RemoveLane(c)

Sender(p) == Number(p) \/ Reserve(p) \/ Put(p)

Next ==
    \/ \E c \in Conns : Challenge(c) \/ Answer(c) \/ Read(c) \/ Handler(c) \/ Write(c) \/ StopWriter(c)
    \/ \E c \in Conns, e \in Endpoints : Forward(c, e)
    \/ \E w \in Workers, e \in Endpoints : SendControl(w, e)
    \/ \E p \in Senders : Sender(p)
    \/ \E e \in Endpoints : Deactivate(e)
    \/ Restart

Spec == Init /\ [][Next]_vars

(* Some sender that can run does, and a Go mutex starves no waiter: a      *)
(* handler that can run again and again finally does.                      *)
Fairness ==
    /\ \A c \in Conns : SF_vars(Handler(c))
    /\ WF_vars(\E p \in Senders : Sender(p))

FairSpec == Spec /\ Fairness

-----------------------------------------------------------------------------
States == {"new", "challenged", "ready", "activated", "reading", "waiting",
           "handling", "closing", "removing", "ended", "refused"}
Kinds == {"control", "forward"}
Packets == [kind : Kinds, n : Nat]
Ops == [at : {"idle", "lock", "reserve", "put"}, to : Conns \cup {None},
        kind : Kinds \cup {"none"}, n : Nat]

(* Every variable holds a value of its Go type, and no channel exceeds its capacity. *)
TypeOK ==
    /\ generation \in [Endpoints -> Nat]
    /\ active \in [Endpoints -> BOOLEAN]
    /\ pc \in [Conns -> States] /\ gen \in [Conns -> Nat]
    /\ current \in [Endpoints -> Conns \cup {None}]
    /\ lane \in [Endpoints -> Conns \cup {None}]
    /\ replaced \in [Conns -> Conns \cup {None}]
    /\ done \in [Conns -> BOOLEAN]
    /\ writer \in [Conns -> {"none", "running", "stopped"}]
    /\ queue \in [Conns -> Seq(Packets)] /\ \A c \in Conns : Len(queue[c]) <= ChanCap
    /\ bytes \in [Conns -> 0 .. ByteLimit]
    /\ control \in [Conns -> Nat] /\ written \in [Conns -> Nat]
    /\ controlMu \in [Conns -> Senders \cup {None}]
    /\ op \in [Senders -> Ops]
    /\ sends \in 0 .. MaxSends /\ restarts \in 0 .. MaxRestarts

(***************************************************************************)
(* A packet is only handled for the connection that is current: while      *)
(* handleReadyPacket runs, no newer connection of the endpoint can become  *)
(* current and no other connection of the endpoint handles a packet        *)
(* (withCurrent and activate share the lane mutex).                        *)
(***************************************************************************)
Fenced ==
    \A c \in Conns : pc[c] = "handling" => current[E(c)] = c /\ lane[E(c)] = c

(***************************************************************************)
(* A connection only leaves its lane when it has itself closed, or for a   *)
(* newer generation: the late removal of a connection that was replaced    *)
(* never takes its successor offline.                                      *)
(***************************************************************************)
LaneKeptStep ==
    \A e \in Endpoints : \A c \in Conns :
        current[e] = c /\ current'[e] # c =>
            \/ restarts' # restarts
            \/ current'[e] = None /\ pc[c] = "removing" /\ done[c]
            \/ current'[e] # None /\ gen[current'[e]] > gen[c]

LaneKept == [][LaneKeptStep]_vars

Controls(q) == {i \in DOMAIN q : q[i].kind = "control"}

(* The control packets of q have the numbers after last up to given, in order. *)
NumberedOn(q, last, given) ==
    /\ last <= given
    /\ {q[i].n : i \in Controls(q)} = last + 1 .. given
    /\ \A i, j \in Controls(q) : i < j => q[i].n < q[j].n

(***************************************************************************)
(* The control packets of a connection reach the socket numbered 1, 2, 3,  *)
(* ... without a gap or a repetition, whichever handlers send them at the  *)
(* same time and whichever sends are refused: those in the queue go on     *)
(* from the last one written, in order, to the last number given. The      *)
(* receiver accepts nothing else (acceptInboundControlSequence is its      *)
(* counterpart).                                                           *)
(***************************************************************************)
ControlInOrder ==
    \A c \in Conns : writer[c] # "stopped" => NumberedOn(queue[c], written[c], control[c])

Count(q, kind) == Cardinality({i \in DOMAIN q : q[i].kind = kind})

Reserving(c, kind) == {p \in Senders : op[p].at = "put" /\ op[p].to = c /\ op[p].kind = kind}

Held(c, kind) == Count(queue[c], kind) + Cardinality(Reserving(c, kind))

(***************************************************************************)
(* queuedBytes is what is queued plus what a sender has reserved and not   *)
(* yet queued: refused and interrupted sends give their bytes back, so the *)
(* limit neither leaks nor is exceeded.                                    *)
(***************************************************************************)
BytesAccounted ==
    \A c \in Conns : bytes[c] = Held(c, "control") * Size("control") + Held(c, "forward") * Size("forward")

Superseded(c) ==
    Activated(c) /\ current[E(c)] # c

(***************************************************************************)
(* A connection that was closed, or replaced by a newer one, ends: its     *)
(* goroutine returns and the directory no longer holds it. Being closed,   *)
(* replaced or ended is final, so it is enough that again and again no     *)
(* connection is closed or replaced without having ended.                  *)
(***************************************************************************)
ClosedEnds ==
    []<>(\A c \in Conns : done[c] \/ Superseded(c) => pc[c] \in {"ended", "refused"} /\ current[E(c)] # c)

(***************************************************************************)
(* A connection of a lower generation than one the endpoint has already    *)
(* used never becomes current                                              *)
(* (docs/roadmap/verification/2026-09-05-session-control.md:12). The code  *)
(* compares with the connection that is current, and nothing is current    *)
(* once the newer one has ended.                                           *)
(***************************************************************************)
LateGenerationStaysOut ==
    [][\A c \in Conns : \A d \in Conns :
          ~Activated(c) /\ Activated(c)' /\ Activated(d) /\ E(c) = E(d) => gen[d] < gen[c]]_vars
=============================================================================
