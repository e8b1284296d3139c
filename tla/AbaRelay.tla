------------------------------ MODULE AbaRelay ------------------------------
(***************************************************************************)
(* The ABA between the Platform connection and its Agents: the sessions in *)
(* memory (src/aba/src/gateway/control.rs and control/duplex.rs), the      *)
(* journal on disk (src/aba/src/journal.rs) and the loop that drives them  *)
(* (src/aba/src/gateway/client.rs).                                        *)
(*                                                                         *)
(* One thread runs one handler at a time.  A handler makes several durable *)
(* writes; the process may stop between any two of them, and every error   *)
(* that is not a WebSocket error ends it (run, client.rs:125-128).  Memory *)
(* is then lost, so a session never outlives the process that opened it.   *)
(* A journal update writes the whole file and renames it (persist): it is  *)
(* one atomic step, and the copy in memory equals the file.                *)
(***************************************************************************)
EXTENDS Naturals, FiniteSets

CONSTANTS
    Sessions,   \* session ids; each is opened at most once
    MaxIn,      \* bound: HC frames of a session are 1..MaxIn
    MaxOut,     \* bound: ABA frames of a session are 1..MaxOut
    Capacity,   \* journal records that fit in max_bytes
    Drops       \* whether connections may break

ASSUME RelayAssumption ==
    /\ IsFiniteSet(Sessions) /\ Sessions # {} /\ Drops \in BOOLEAN
    /\ MaxIn \in Nat /\ MaxOut \in Nat /\ Capacity \in Nat

Ins == 1 .. MaxIn
Outs == 1 .. MaxOut
Messages == Sessions \X Ins
States == {"NONE", "RECEIVED", "DISPATCH_STARTED", "RESPONDED", "UNCERTAIN"}

Packets ==
    ({"ack"} \X Sessions \X Ins) \cup ({"uncertain"} \X Sessions \X Ins)
    \cup ({"frame"} \X Sessions \X Outs)

VARIABLES
    up,         \* the process runs
    connected,  \* it is READY on a Platform connection
    mem,        \* session -> LocalSession
    job,        \* the handler that runs, and how far it came
    inbound,    \* journal: <<session, sequence>> -> state
    reserved,   \* journal: session -> last_reserved_sequence
    outbound,   \* journal: session -> sequences of its unacknowledged frames
    life,       \* session -> "new", "opened" or "closed" by the Platform
    given,      \* <<session, sequence>> -> times the Agent was given it
    sealed,     \* <<session, out sequence>> -> frames sealed with it
    wire,       \* packets ever sent
    confirmed,  \* session -> out sequences the HC acknowledged
    reason      \* why the process last stopped

disk == <<inbound, reserved, outbound>>
history == <<given, sealed, wire, confirmed>>
vars == <<up, connected, mem, job, disk, life, history, reason>>

Absent ==
    [here |-> FALSE, active |-> FALSE, hc |-> 0, aba |-> 0,
     uncertain |-> FALSE, unsure |-> 0, pending |-> {}]

Job(at, s, q) == [at |-> at, s |-> s, q |-> q, mark |-> {}, packets |-> {}]

Idle == Job("idle", CHOOSE s \in Sessions : TRUE, 0)

Ready == up /\ connected /\ job.at = "idle"

Active(s) == mem[s].here /\ mem[s].active

Records ==
    Cardinality({m \in Messages : inbound[m] # "NONE"})
    + Cardinality({s \in Sessions : reserved[s] > 0})
    + Cardinality({k \in Sessions \X Outs : k[2] \in outbound[k[1]]})

Room == Records < Capacity

Stop(why) ==
    /\ up' = FALSE /\ connected' = FALSE
    /\ mem' = [s \in Sessions |-> Absent]
    /\ job' = Idle
    /\ reason' = why
    /\ UNCHANGED <<disk, life, history>>

Ack(s) == IF mem[s].hc > 0 THEN {<<"ack", s, mem[s].hc>>} ELSE {}
Frames(s) == {"frame"} \X {s} \X outbound[s]

(***************************************************************************)
(* Session control.                                                        *)
(***************************************************************************)
(* The policy admits the request and the Agent starts; a refusal changes    *)
(* nothing here.                                                            *)
OpenTunnel(s) ==
    /\ Ready
    /\ life[s] = "new"
    /\ life' = [life EXCEPT ![s] = "opened"]
    /\ mem' = [mem EXCEPT ![s] = [Absent EXCEPT !.here = TRUE]]
    /\ UNCHANGED <<up, connected, job, disk, history, reason>>

KeyPackageAck(s) ==
    /\ Ready
    /\ mem[s].here /\ ~mem[s].active
    /\ mem' = [mem EXCEPT ![s].active = TRUE]
    /\ UNCHANGED <<up, connected, job, disk, life, history, reason>>

(* A second acknowledgment, or one for a session lost with its process, is a *)
(* protocol error.                                                          *)
RefuseKeyPackageAck(s) ==
    /\ Ready
    /\ life[s] = "opened"
    /\ mem[s].here => mem[s].active
    /\ Stop("protocol")

CloseTunnel(s) ==
    /\ Ready
    /\ life[s] = "opened"
    /\ mem' = [mem EXCEPT ![s] = Absent]
    /\ job' = Job("close", s, 0)
    /\ UNCHANGED <<up, connected, disk, life, history, reason>>

CloseJournal ==
    /\ job.at = "close"
    /\ inbound' = [m \in Messages |-> IF m[1] = job.s THEN "NONE" ELSE inbound[m]]
    /\ reserved' = [reserved EXCEPT ![job.s] = 0]
    /\ outbound' = [outbound EXCEPT ![job.s] = {}]
    /\ life' = [life EXCEPT ![job.s] = "closed"]
    /\ job' = Idle
    /\ UNCHANGED <<up, connected, mem, history, reason>>

(***************************************************************************)
(* An encrypted frame from the HC.  It may be older than the five minutes  *)
(* the ABA tolerates, and it may differ from the frame recorded for its    *)
(* sequence.                                                               *)
(***************************************************************************)
Kinds == {"good", "altered", "stale"}

FrameRefused(s, q, kind) ==
    \/ ~Active(s)
    \/ mem[s].uncertain /\ q = mem[s].hc + 1
    \/ q > mem[s].hc + 1
    \/ kind = "stale"
    \/ kind = "altered" /\ inbound[<<s, q>>] # "NONE"

RefuseFrame(s, q, kind) ==
    /\ Ready
    /\ life[s] = "opened"
    /\ FrameRefused(s, q, kind)
    /\ Stop("protocol")

(* Variant: the frame is acknowledged, and its sequence consumed, first. *)
RecordFrameAckFirst(s, q) ==
    /\ Ready
    /\ ~FrameRefused(s, q, "good")
    /\ inbound[<<s, q>>] = "NONE" /\ Room
    /\ mem' = [mem EXCEPT ![s].hc = q]
    /\ job' = [Job("reply", s, q) EXCEPT !.packets = {<<"ack", s, q>>}]
    /\ UNCHANGED <<up, connected, disk, life, history, reason>>

RecordFrame(s, q) ==
    /\ Ready
    /\ ~FrameRefused(s, q, "good")
    /\ inbound[<<s, q>>] = "NONE" /\ Room
    /\ inbound' = [inbound EXCEPT ![<<s, q>>] = "RECEIVED"]
    /\ mem' = [mem EXCEPT ![s].hc = q]
    /\ job' = Job("recorded", s, q)
    /\ UNCHANGED <<up, connected, reserved, outbound, life, history, reason>>

(* Variant: a frame whose dispatch is unresolved is dispatched again. *)
DuplicateFrameRetry(s, q) ==
    /\ Ready
    /\ ~FrameRefused(s, q, "good")
    /\ inbound[<<s, q>>] # "NONE"
    /\ job' = [Job("started", s, q) EXCEPT !.packets = Ack(s)]
    /\ UNCHANGED <<up, connected, mem, disk, life, history, reason>>

DuplicateFrame(s, q) ==
    /\ Ready
    /\ ~FrameRefused(s, q, "good")
    /\ inbound[<<s, q>>] # "NONE"
    /\ job' = IF inbound[<<s, q>>] = "RECEIVED" THEN Job("recorded", s, q)
              ELSE [Job("reply", s, q) EXCEPT !.packets =
                      Ack(s) \cup (IF inbound[<<s, q>>] = "RESPONDED" THEN Frames(s) ELSE {})]
    /\ UNCHANGED <<up, connected, mem, disk, life, history, reason>>

StartDispatch ==
    /\ job.at = "recorded"
    /\ inbound' = [inbound EXCEPT ![<<job.s, job.q>>] = "DISPATCH_STARTED"]
    /\ job' = [job EXCEPT !.at = "started"]
    /\ UNCHANGED <<up, connected, mem, reserved, outbound, life, history, reason>>

(* The Agent's queue takes the message. *)
Submit ==
    /\ job.at = "started"
    /\ mem' = [mem EXCEPT ![job.s].pending = @ \cup {job.q}]
    /\ given' = [given EXCEPT ![<<job.s, job.q>>] = @ + 1]
    /\ job' = [job EXCEPT !.at = "reply", !.packets = Ack(job.s)]
    /\ UNCHANGED <<up, connected, disk, life, sealed, wire, confirmed, reason>>

(* Variant: the error is sent once and not remembered. *)
SubmitFailsForgotten ==
    /\ job.at = "started"
    /\ mem' = [mem EXCEPT ![job.s].pending = {}, ![job.s].uncertain = TRUE]
    /\ job' = [job EXCEPT !.at = "mark", !.mark = mem[job.s].pending \cup {job.q},
                          !.packets = Ack(job.s) \cup {<<"uncertain", job.s, job.q>>}]
    /\ UNCHANGED <<up, connected, disk, life, history, reason>>

(* The Agent's queue is full or gone: everything it still owed is uncertain, *)
(* and the HC is told about this message.                                   *)
SubmitFails ==
    /\ job.at = "started"
    /\ mem' = [mem EXCEPT ![job.s].pending = {}, ![job.s].uncertain = TRUE,
                          ![job.s].unsure = job.q]
    /\ job' = [job EXCEPT !.at = "mark", !.mark = mem[job.s].pending \cup {job.q},
                          !.packets = Ack(job.s) \cup {<<"uncertain", job.s, job.q>>}]
    /\ UNCHANGED <<up, connected, disk, life, history, reason>>

MarkUncertain ==
    /\ job.at = "mark"
    /\ \E q \in job.mark :
         /\ inbound' = [inbound EXCEPT ![<<job.s, q>>] = "UNCERTAIN"]
         /\ job' = [job EXCEPT !.mark = @ \ {q},
                               !.at = IF job.mark = {q} THEN "reply" ELSE "mark"]
    /\ UNCHANGED <<up, connected, mem, reserved, outbound, life, history, reason>>

(***************************************************************************)
(* What the Agent produced, found by poll.                                 *)
(***************************************************************************)
(* Variant: a session is passed over while the HC owes it an ACK. *)
PollsAcknowledged(s) == Ready /\ Active(s) /\ ~mem[s].uncertain /\ outbound[s] = {}

Polls(s) == Ready /\ Active(s) /\ ~mem[s].uncertain

(* A message that answers nothing (q = 0) or completes a dispatch is sealed; *)
(* the bound MaxOut limits how often.                                       *)
AgentMessage(s, q) ==
    /\ Polls(s)
    /\ q \in mem[s].pending \cup {0}
    /\ reserved[s] < MaxOut
    /\ job' = Job("reserve", s, q)
    /\ UNCHANGED <<up, connected, mem, disk, life, history, reason>>

(* A dispatch completes without a message: the Agent was only written to. *)
AgentWritten(s, q) ==
    /\ Polls(s)
    /\ q \in mem[s].pending
    /\ job' = Job("respond", s, q)
    /\ UNCHANGED <<up, connected, mem, disk, life, history, reason>>

(* The Agent failed or timed out: all it owed is marked, and the HC is told  *)
(* about the message marked last, if there was one.                         *)
AgentFails(s) ==
    /\ Polls(s)
    /\ \E q \in IF mem[s].pending = {} THEN {0} ELSE mem[s].pending :
         /\ mem' = [mem EXCEPT ![s].pending = {}, ![s].uncertain = TRUE, ![s].unsure = q]
         /\ job' = IF q = 0 THEN Idle
                   ELSE [Job("mark", s, q) EXCEPT !.mark = mem[s].pending,
                                                  !.packets = {<<"uncertain", s, q>>}]
    /\ UNCHANGED <<up, connected, disk, life, history, reason>>

(* Variant: the next sequence follows the frames still waiting for an ACK. *)
ReserveFromUnacknowledged ==
    /\ job.at = "reserve"
    /\ LET n == 1 + Cardinality(outbound[job.s])
       IN  /\ reserved' = [reserved EXCEPT ![job.s] = n]
           /\ mem' = [mem EXCEPT ![job.s].aba = n]
           /\ sealed' = [sealed EXCEPT ![<<job.s, n>>] = @ + 1]
    /\ job' = [job EXCEPT !.at = "record"]
    /\ UNCHANGED <<up, connected, inbound, outbound, life, given, wire, confirmed, reason>>

(* The sequence is made durable, then the frame is sealed with it. *)
Reserve ==
    /\ job.at = "reserve"
    /\ reserved[job.s] > 0 \/ Room
    /\ LET n == reserved[job.s] + 1
       IN  /\ reserved' = [reserved EXCEPT ![job.s] = n]
           /\ mem' = [mem EXCEPT ![job.s].aba = n]
           /\ sealed' = [sealed EXCEPT ![<<job.s, n>>] = @ + 1]
    /\ job' = [job EXCEPT !.at = "record"]
    /\ UNCHANGED <<up, connected, inbound, outbound, life, given, wire, confirmed, reason>>

(* Variant: the frame is sent without being recorded. *)
RecordOutboundSkipped ==
    /\ job.at = "record" /\ Room
    /\ job' = [job EXCEPT !.at = IF job.q = 0 THEN "reply" ELSE "respond",
                          !.packets = {<<"frame", job.s, mem[job.s].aba>>}]
    /\ UNCHANGED <<up, connected, mem, disk, life, history, reason>>

RecordOutbound ==
    /\ job.at = "record" /\ Room
    /\ outbound' = [outbound EXCEPT ![job.s] = @ \cup {mem[job.s].aba}]
    /\ job' = [job EXCEPT !.at = IF job.q = 0 THEN "reply" ELSE "respond",
                          !.packets = {<<"frame", job.s, mem[job.s].aba>>}]
    /\ UNCHANGED <<up, connected, mem, inbound, reserved, life, history, reason>>

MarkResponded ==
    /\ job.at = "respond"
    /\ inbound' = [inbound EXCEPT ![<<job.s, job.q>>] = "RESPONDED"]
    /\ mem' = [mem EXCEPT ![job.s].pending = @ \ {job.q}]
    /\ job' = [job EXCEPT !.at = "reply"]
    /\ UNCHANGED <<up, connected, reserved, outbound, life, history, reason>>

(***************************************************************************)
(* The connection.  A send that fails leaves the handler's later packets   *)
(* unsent and ends the connection.                                         *)
(***************************************************************************)
Reply ==
    /\ job.at = "reply"
    /\ \E part \in SUBSET job.packets :
         /\ Drops \/ part = job.packets
         /\ wire' = wire \cup part
         /\ connected' = (part = job.packets)
    /\ job' = Idle
    /\ UNCHANGED <<up, mem, disk, life, given, sealed, confirmed, reason>>

(* The HC acknowledges frames it received: all up to h, and those in more. *)
AckFrame(s, h, more) ==
    /\ Ready /\ Active(s)
    /\ (1 .. h) \cup more \subseteq {m \in Outs : <<"frame", s, m>> \in wire}
    /\ outbound' = [outbound EXCEPT ![s] = @ \ ((1 .. h) \cup more)]
    /\ confirmed' = [confirmed EXCEPT ![s] = @ \cup (1 .. h) \cup more]
    /\ UNCHANGED <<up, connected, mem, job, inbound, reserved, life, given, sealed, wire, reason>>

Disconnect ==
    /\ Drops /\ Ready
    /\ connected' = FALSE
    /\ UNCHANGED <<up, mem, job, disk, life, history, reason>>

(* begin_connection: every active session repeats its ACK, its uncertain     *)
(* error and its unacknowledged frames.                                     *)
Reconnect ==
    /\ up /\ ~connected /\ job.at = "idle"
    /\ connected' = TRUE
    /\ job' = [Idle EXCEPT !.at = "reply", !.packets =
                 UNION {Ack(s) \cup Frames(s)
                        \cup (IF mem[s].unsure > 0 THEN {<<"uncertain", s, mem[s].unsure>>} ELSE {})
                        : s \in {z \in Sessions : Active(z)}}]
    /\ UNCHANGED <<up, mem, disk, life, history, reason>>

(***************************************************************************)
(* The process.                                                            *)
(***************************************************************************)
(* A write that does not fit in the journal is an error like any other. *)
JournalFull ==
    /\ ~Room
    /\ job.at = "record" \/ (job.at = "reserve" /\ reserved[job.s] = 0)
    /\ Stop("capacity")

FrameDoesNotFit(s, q) ==
    /\ Ready /\ ~Room
    /\ ~FrameRefused(s, q, "good")
    /\ inbound[<<s, q>>] = "NONE"
    /\ Stop("capacity")

Crash == up /\ Stop("crash")

(* Variant: the journal is opened as it was left. *)
RestartUnrecovered ==
    /\ ~up
    /\ up' = TRUE
    /\ UNCHANGED <<connected, mem, job, disk, life, history, reason>>

Restart ==
    /\ ~up
    /\ up' = TRUE
    /\ inbound' = [m \in Messages |-> IF inbound[m] = "DISPATCH_STARTED" THEN "UNCERTAIN" ELSE inbound[m]]
    /\ UNCHANGED <<connected, mem, job, reserved, outbound, life, history, reason>>

Init ==
    /\ up = TRUE /\ connected = TRUE
    /\ mem = [s \in Sessions |-> Absent]
    /\ job = Idle
    /\ inbound = [m \in Messages |-> "NONE"]
    /\ reserved = [s \in Sessions |-> 0]
    /\ outbound = [s \in Sessions |-> {}]
    /\ life = [s \in Sessions |-> "new"]
    /\ given = [m \in Messages |-> 0]
    /\ sealed = [k \in Sessions \X Outs |-> 0]
    /\ wire = {}
    /\ confirmed = [s \in Sessions |-> {}]
    /\ reason = "none"

(* The steps of a handler that has begun. *)
Handler ==
    \/ CloseJournal \/ StartDispatch \/ Submit \/ SubmitFails \/ MarkUncertain
    \/ Reserve \/ RecordOutbound \/ MarkResponded \/ Reply \/ JournalFull

Agent(s) ==
    \/ \E q \in Ins : AgentMessage(s, q) \/ AgentWritten(s, q)
    \/ AgentFails(s)

Next ==
    \/ Handler \/ Disconnect \/ Reconnect \/ Crash \/ Restart
    \/ \E s \in Sessions :
         \/ OpenTunnel(s) \/ KeyPackageAck(s) \/ RefuseKeyPackageAck(s) \/ CloseTunnel(s)
         \/ \E q \in Ins :
              \/ RecordFrame(s, q) \/ DuplicateFrame(s, q) \/ FrameDoesNotFit(s, q)
              \/ \E kind \in Kinds : RefuseFrame(s, q, kind)
         \/ AgentMessage(s, 0) \/ Agent(s)
         \/ \E h \in 0 .. MaxOut, more \in SUBSET Outs : AckFrame(s, h, more)

Spec == Init /\ [][Next]_vars

(* A handler runs to its end, the process manager restarts the process, run   *)
(* reconnects for ever and not every connection breaks while it sends, and    *)
(* poll looks at every session in every round: an Agent answers, fails or     *)
(* times out.                                                                 *)
Fairness ==
    /\ WF_vars(Handler) /\ WF_vars(Restart) /\ WF_vars(Reconnect)
    /\ SF_vars(Reply /\ connected')
    /\ \A s \in Sessions : SF_vars(Agent(s))

FairSpec == Spec /\ Fairness

(***************************************************************************)
(* Properties.                                                             *)
(***************************************************************************)
LocalSession ==
    [here : BOOLEAN, active : BOOLEAN, hc : 0 .. MaxIn, aba : 0 .. MaxOut,
     uncertain : BOOLEAN, unsure : 0 .. MaxIn, pending : SUBSET Ins]

Stages == {"idle", "close", "recorded", "started", "mark", "reserve", "record", "respond", "reply"}

Jobs ==
    [at : Stages, s : Sessions, q : 0 .. MaxIn, mark : SUBSET Ins, packets : SUBSET Packets]

(* Every variable has its type, and no sequence passes its bound. *)
TypeOK ==
    /\ up \in BOOLEAN /\ connected \in BOOLEAN
    /\ mem \in [Sessions -> LocalSession]
    /\ job \in Jobs
    /\ inbound \in [Messages -> States]
    /\ reserved \in [Sessions -> 0 .. MaxOut]
    /\ outbound \in [Sessions -> SUBSET Outs]
    /\ life \in [Sessions -> {"new", "opened", "closed"}]
    /\ given \in [Messages -> Nat]
    /\ sealed \in [Sessions \X Outs -> Nat]
    /\ wire \in SUBSET Packets
    /\ confirmed \in [Sessions -> SUBSET Outs]
    /\ reason \in {"none", "protocol", "capacity", "crash"}

(* Whatever is replayed, and wherever the process stopped, the Agent is given *)
(* a message at most once (handle_encrypted_frame, recover_uncertain).       *)
GivenOnce == \A m \in Messages : given[m] <= 1

(* No two frames of a session are sealed with the same sequence, hence nonce, *)
(* even when the journal has dropped the acknowledged ones (seal_aba_frame,  *)
(* reserve_outbound_sequence).                                               *)
SealedOnce == \A k \in Sessions \X Outs : sealed[k] <= 1

(* A frame put on the wire can be replayed until the HC acknowledged it or    *)
(* the session was closed (record_outbound before send).                     *)
SentIsKept ==
    \A s \in Sessions, n \in Outs :
        <<"frame", s, n>> \in wire => n \in outbound[s] \cup confirmed[s] \/ life[s] = "closed"

(* Between two handlers the journal and the memory agree: the dispatches the  *)
(* journal calls started are those poll still waits for (pending_dispatches), *)
(* so none is left that nobody will resolve.                                 *)
NoOrphanDispatch ==
    up /\ job.at = "idle" =>
        \A s \in Sessions, q \in Ins :
            inbound[<<s, q>>] = "DISPATCH_STARTED" <=> q \in mem[s].pending

(* While the process lives, an uncertain message leaves its session with an   *)
(* error to repeat on every connection (uncertain_message_id).               *)
UncertaintyIsRemembered ==
    \A s \in Sessions, q \in Ins :
        mem[s].here /\ inbound[<<s, q>>] = "UNCERTAIN" => mem[s].uncertain /\ mem[s].unsure > 0

(* How far a message came, which are acknowledged and which were handed over, *)
(* as the HC would tell them.                                                *)
Phase ==
    [m \in Messages |->
        IF life[m[1]] = "closed" THEN "FORGOTTEN"
        ELSE IF inbound[m] = "NONE" THEN "UNSEEN" ELSE inbound[m]]

Acked == {m \in Messages : \E h \in Ins : m[2] <= h /\ <<"ack", m[1], h>> \in wire}

Handed == {m \in Messages : given[m] > 0}

D == INSTANCE Dispatch WITH phase <- Phase, acked <- Acked, given <- Handed

(* The journal refines what the ABA promises about dispatch: acknowledged     *)
(* only when recorded, handed over only when started, resolved only once.    *)
ImplementsDispatch == D!Spec

(* No dispatch stays started for ever: it is answered, found uncertain, or    *)
(* forgotten with its session (poll, recover_uncertain, close_session).      *)
DispatchResolves ==
    \A m \in Messages :
        inbound[m] = "DISPATCH_STARTED" ~> inbound[m] # "DISPATCH_STARTED"

(* docs/architecture/PROTOCOL.md:587: an UNCERTAIN message produces an explicit *)
(* status to the HC, unless its session is closed.  A process that stops again *)
(* and again is excused.                                                     *)
UncertainIsReported ==
    <>[]up => \A s \in Sessions, q \in Ins :
        inbound[<<s, q>>] = "UNCERTAIN" ~>
            life[s] = "closed" \/ \E m \in Ins : <<"uncertain", s, m>> \in wire
=============================================================================
