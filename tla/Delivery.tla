------------------------------ MODULE Delivery ------------------------------
(***************************************************************************)
(* The frames an ABA sends to an HC in one session, end to end: the ABA's  *)
(* journal, the gateway's store of encrypted frames, the two connections   *)
(* and the HC's durable cursor. A connection is lossless and in order      *)
(* while it lasts, and everything in it is lost when it ends. The gateway  *)
(* stores a frame, then forwards it to the HC's bounded queue without      *)
(* minding whether the HC is offline or the queue full; what is missing is *)
(* replayed when the HC asks for it with a ResumeState (gateway/resume.go, *)
(* gateway/frame.go, hc/web/src/remote/conversation-controller.ts).        *)
(*                                                                         *)
(* AbaRelay has the inside of the ABA, SessionStore the transactions,      *)
(* Connections the goroutines of a connection.                             *)
(***************************************************************************)
EXTENDS Integers, Sequences, FiniteSets

CONSTANTS
    Frames,       \* bound: frames the session sends
    QueueCap,     \* maxInflightFrames
    ReplayLimit,  \* maxReplayFrames
    BufferCap,    \* packets the HC retains while it restores its conversations
    WireCap,      \* bound: packets on their way from the HC
    MaxDrops,     \* bound: connections and processes lost for reasons outside the code
    MaxStale      \* bound: frames that grow older than five minutes

ASSUME DeliveryAssumption ==
    /\ Frames \in Nat /\ QueueCap \in Nat \ {0} /\ ReplayLimit \in Nat \ {0}
    /\ BufferCap \in Nat /\ WireCap \in Nat /\ MaxDrops \in Nat /\ MaxStale \in Nat

VARIABLES
    status,      \* the session: ACTIVE, CLOSED by its HC, or ENDED in another way
    sealed,      \* the last sequence the ABA has sealed
    journal,     \* frames the ABA keeps until they are acknowledged
    stale,       \* frames created more than five minutes ago
    held,        \* the ABA process has the session in memory
    aba,         \* the ABA is connected
    up,          \* its frames on their way to the gateway
    acks,        \* acknowledgments on their way to the ABA
    closing,     \* a CloseTunnelRequest is on its way to the ABA
    stored,      \* the gateway's frame rows
    acked,       \* its ACK cursor
    forwarding,  \* a frame that is stored and not yet forwarded, or 0
    hc,          \* the HC's connection
    queue,       \* frames on their way to the HC
    buffer,      \* frames the HC retains until its conversation is restored
    replay,      \* frames processResumeState has still to send
    requests,    \* packets on their way from the HC
    withheld,    \* frames the gateway did not send on the present connection
    inbound,     \* the HC's cursor, durable
    applied,     \* the frames its conversation consists of, durable
    owes,        \* the HC has applied a frame and not yet acknowledged it
    halted,      \* the conversation's reservation, fault or durable block
    drops

abaVars == <<sealed, journal, stale, held, aba, up, acks, closing>>
gatewayVars == <<status, stored, acked>>
lineVars == <<hc, queue, buffer, replay, requests, withheld>>
hcVars == <<inbound, applied, owes, halted>>
vars == <<abaVars, gatewayVars, forwarding, lineVars, hcVars, drops>>

Open == status = "ACTIVE"
Seqs == 1 .. Frames
Request(kind, h) == [kind |-> kind, h |-> h]
Connected == hc \in {"restoring", "resuming", "live"}
Stopped == halted \in {"fault", "blocked"}

Increasing(s) == \A i, j \in DOMAIN s : i < j => s[i] < s[j]
InOrder(S) == CHOOSE s \in [1 .. Cardinality(S) -> S] : Increasing(s)
FirstOf(s, n) == SubSeq(s, 1, IF Len(s) < n THEN Len(s) ELSE n)

Init ==
    /\ status = "ACTIVE" /\ sealed = 0 /\ journal = {} /\ stale = {}
    /\ held = TRUE /\ aba = TRUE /\ up = <<>> /\ acks = {} /\ closing = FALSE
    /\ stored = [n \in Seqs |-> "NONE"] /\ acked = 0 /\ forwarding = 0
    /\ hc = "off" /\ queue = <<>> /\ buffer = <<>> /\ replay = <<>>
    /\ requests = <<>> /\ withheld = {}
    /\ inbound = 0 /\ applied = <<>> /\ owes = FALSE /\ halted = "no"
    /\ drops = 0

-----------------------------------------------------------------------------
(* The ABA. *)

AbaEnds == aba' = FALSE /\ up' = <<>> /\ acks' = {} /\ closing' = FALSE

HcEnds ==
    /\ hc' = "off" /\ queue' = <<>> /\ buffer' = <<>> /\ replay' = <<>>
    /\ requests' = <<>> /\ withheld' = {}

(* A frame is recorded in the journal, then sent. *)
Seal ==
    /\ held /\ sealed < Frames
    /\ sealed' = sealed + 1
    /\ journal' = journal \cup {sealed'}
    /\ up' = IF aba THEN Append(up, sealed') ELSE up
    /\ UNCHANGED <<stale, held, aba, acks, closing, gatewayVars, forwarding, lineVars, hcVars, drops>>

(* Variant: nothing is repeated. *)
AbaConnectAfresh ==
    /\ ~aba
    /\ aba' = TRUE /\ up' = <<>>
    /\ UNCHANGED <<sealed, journal, stale, held, acks, closing, gatewayVars, forwarding, lineVars, hcVars, drops>>

(* begin_connection repeats every unacknowledged frame of a session in memory. *)
AbaConnect ==
    /\ ~aba
    /\ aba' = TRUE /\ up' = IF held THEN InOrder(journal) ELSE <<>>
    /\ UNCHANGED <<sealed, journal, stale, held, acks, closing, gatewayVars, forwarding, lineVars, hcVars, drops>>

(* handle_ack_frame; without the session it does nothing. *)
AbaAcknowledge(h) ==
    /\ h \in acks
    /\ acks' = acks \ {h}
    /\ journal' = IF held THEN journal \ (1 .. h) ELSE journal
    /\ UNCHANGED <<sealed, stale, held, aba, up, closing, gatewayVars, forwarding, lineVars, hcVars, drops>>

(* handle_close_tunnel: the session and all its records are removed. *)
AbaClose ==
    /\ closing
    /\ closing' = FALSE /\ held' = FALSE /\ journal' = {}
    /\ UNCHANGED <<sealed, stale, aba, up, acks, gatewayVars, forwarding, lineVars, hcVars, drops>>

Age(n) ==
    /\ n \in (1 .. sealed) \ stale /\ Cardinality(stale) < MaxStale
    /\ stale' = stale \cup {n}
    /\ UNCHANGED <<sealed, journal, held, aba, up, acks, closing, gatewayVars, forwarding, lineVars, hcVars, drops>>

-----------------------------------------------------------------------------
(* The gateway, handling the ABA's packets. *)

(* A frame of a session that is not ACTIVE, or an old one, ends the ABA's    *)
(* connection. A duplicate changes no row and is forwarded again.           *)
PutFrame ==
    /\ up # <<>> /\ forwarding = 0
    /\ LET n == Head(up) IN
       IF ~Open \/ n \in stale
       THEN AbaEnds /\ UNCHANGED <<stored, forwarding>>
       ELSE /\ up' = Tail(up)
            /\ stored' = [stored EXCEPT ![n] = IF @ = "NONE" THEN "STORED" ELSE @]
            /\ forwarding' = n
            /\ UNCHANGED <<aba, acks, closing>>
    /\ UNCHANGED <<sealed, journal, stale, held, status, acked, lineVars, hcVars, drops>>

(* The live copy is dropped when the HC is offline or its queue is full. *)
Forward ==
    /\ forwarding # 0
    /\ forwarding' = 0
    /\ IF hc # "off" /\ Len(queue) < QueueCap
       THEN queue' = Append(queue, forwarding) /\ UNCHANGED withheld
       ELSE withheld' = (IF hc = "off" THEN {} ELSE withheld \cup {forwarding}) /\ UNCHANGED queue
    /\ UNCHANGED <<abaVars, gatewayVars, hc, buffer, replay, requests, hcVars, drops>>

-----------------------------------------------------------------------------
(* The gateway, handling the HC's packets, one after the other. *)

(* ReplayEndpointFrames: the first of the frames after the cursor. *)
StoredAfter(h) == {n \in Seqs : n > h /\ stored[n] = "STORED"}
Missing(h) == FirstOf(InOrder(StoredAfter(h)), ReplayLimit)
InSeq(s) == {s[i] : i \in DOMAIN s}

Asked(kind) == requests # <<>> /\ replay = <<>> /\ Head(requests).kind = kind

(* processResumeState reads the missing frames; the limit may leave some out. *)
Resume ==
    /\ Asked("resume")
    /\ LET h == Head(requests).h IN
       /\ replay' = Missing(h)
       /\ withheld' = StoredAfter(h) \ InSeq(Missing(h))
    /\ requests' = Tail(requests)
    /\ UNCHANGED <<abaVars, gatewayVars, forwarding, hc, queue, buffer, hcVars, drops>>

(* Each is sent if the session is still ACTIVE; a full queue ends the connection. *)
ReplayFrame ==
    /\ replay # <<>>
    /\ IF Open /\ Len(queue) < QueueCap
       THEN /\ queue' = Append(queue, Head(replay)) /\ replay' = Tail(replay)
            /\ UNCHANGED <<hc, buffer, requests, withheld>>
       ELSE HcEnds
    /\ UNCHANGED <<abaVars, gatewayVars, forwarding, hcVars, drops>>

(* advanceAckOnce: an older cursor changes nothing. *)
AdvanceAck(h) ==
    IF h < acked THEN UNCHANGED <<acked, stored>>
    ELSE /\ acked' = h
         /\ stored' = [n \in Seqs |-> IF stored[n] = "STORED" /\ n <= h THEN "ACKED" ELSE stored[n]]

(* The ABA is told, unless it is offline or its queue is full. *)
Acknowledge ==
    /\ Asked("ack")
    /\ LET h == Head(requests).h IN
       IF ~Open THEN HcEnds /\ UNCHANGED <<acked, stored, acks>>
       ELSE /\ AdvanceAck(h)
            /\ \/ aba /\ acks' = acks \cup {h}
               \/ UNCHANGED acks
            /\ requests' = Tail(requests)
            /\ UNCHANGED <<hc, queue, buffer, replay, withheld>>
    /\ UNCHANGED <<status, sealed, journal, stale, held, aba, up, closing, forwarding, hcVars, drops>>

-----------------------------------------------------------------------------
(* The HC. *)

(* bind waits until earlier packets are handled; reconcile reads the session's status, *)
(* of which CLOSED is terminal for the HC and some others are.                         *)
HcConnect ==
    /\ hc = "off" /\ ~owes
    /\ \/ status # "CLOSED" /\ hc' = "restoring"
       \/ ~Open /\ hc' = "ended"
    /\ UNCHANGED <<abaVars, gatewayVars, forwarding, queue, buffer, replay, requests, withheld, hcVars, drops>>

(* Until the conversation is restored its packets are retained, and too many of them *)
(* end the connection; those of a stopped one may be dropped, now or when handed over. *)
Retain ==
    /\ hc = "restoring" /\ queue # <<>>
    /\ \/ /\ Len(buffer) < BufferCap
          /\ buffer' = Append(buffer, Head(queue)) /\ queue' = Tail(queue)
          /\ UNCHANGED <<hc, replay, requests, withheld>>
       \/ Len(buffer) = BufferCap /\ HcEnds
       \/ Stopped /\ queue' = Tail(queue) /\ UNCHANGED <<hc, buffer, replay, requests, withheld>>
    /\ UNCHANGED <<abaVars, gatewayVars, forwarding, hcVars, drops>>

(* reconcile finds the session and its ABA in order; flush hands the packets over. *)
Restored ==
    /\ hc = "restoring" /\ ~owes
    /\ hc' = "resuming"
    /\ UNCHANGED <<abaVars, gatewayVars, forwarding, queue, buffer, replay, requests, withheld, hcVars, drops>>

Halts == halted' \in {"fault", "blocked"}

(* The cursor, and the acknowledgment the gateway may have missed. *)
Asking ==
    LET asked == Append(requests, Request("resume", inbound)) IN
    IF inbound > 0 THEN Append(asked, Request("ack", inbound)) ELSE asked

(* resume, after the packets of flush: nothing with a reservation, a fault or a block; *)
(* an error, an expired key or an old request of the HC's own blocks the conversation. *)
HcResume ==
    /\ hc = "resuming" /\ buffer = <<>> /\ ~owes /\ Len(requests) < WireCap
    /\ hc' = "live"
    /\ \/ halted = "no" /\ requests' = Asking /\ UNCHANGED halted
       \/ halted = "no" /\ requests' \in {requests, Asking} /\ Halts
       \/ halted # "no" /\ UNCHANGED <<requests, halted>>
    /\ UNCHANGED <<abaVars, gatewayVars, forwarding, queue, buffer, replay, withheld, inbound, applied, owes, drops>>

(* refresh does not find the ABA ACTIVE, or the controller's own queue is full and a *)
(* packet is refused: packets are retained until a refresh restores the conversation. *)
Unauthorize ==
    /\ hc = "live"
    /\ hc' = "restoring"
    /\ queue' = queue \/ (queue # <<>> /\ queue' = Tail(queue))
    /\ UNCHANGED <<abaVars, gatewayVars, forwarding, buffer, replay, requests, withheld, hcVars, drops>>

(* refresh finds that the session has ended. *)
HcObserve ==
    /\ ~Open /\ Connected /\ ~owes
    /\ hc' = "ended" /\ buffer' = <<>>
    /\ UNCHANGED <<abaVars, gatewayVars, forwarding, queue, replay, requests, withheld, hcVars, drops>>

(* Another operation of the conversation fails (dispatch, persist), or the ABA reports *)
(* an uncertain result; what is saved later saves a fault as a block.                  *)
Block ==
    /\ Connected /\ ~owes /\ halted # "blocked"
    /\ Halts /\ halted' # halted
    /\ UNCHANGED <<abaVars, gatewayVars, forwarding, lineVars, inbound, applied, owes, drops>>

(* Variant: the frame is acknowledged first, and saving it fails. *)
ApplyEarly(n) ==
    /\ requests' = Append(requests, Request("ack", n))
    /\ owes' = TRUE
    /\ UNCHANGED <<inbound, applied, halted>>

(* The frame and the cursor are saved together; the acknowledgment comes after. *)
Apply(n) ==
    /\ inbound' = n
    /\ applied' = Append(applied, n)
    /\ owes' = TRUE
    /\ UNCHANGED <<requests, halted>>

(* Variant: the frames before it are taken to be on their way. *)
GapIgnored(n) ==
    UNCHANGED <<requests, hcVars>>

(* A frame after a gap is asked for again. *)
Gap(n) ==
    /\ requests' = Append(requests, Request("resume", inbound))
    /\ UNCHANGED hcVars

(* Variant: every frame not seen before is the next one. *)
IsNextAny(n) == n > inbound

IsNext(n) == n = inbound + 1

(* quarantine: the frame is not intact or cannot be saved. *)
Quarantine == Halts /\ UNCHANGED <<requests, inbound, applied, owes>>

(* The next packet of the conversation. *)
Take(n) ==
    \/ /\ hc = "resuming" /\ buffer # <<>> /\ n = Head(buffer)
       /\ buffer' = Tail(buffer) /\ UNCHANGED queue
    \/ /\ hc \in {"resuming", "live"} /\ queue # <<>> /\ n = Head(queue)
       /\ queue' = Tail(queue) /\ UNCHANGED buffer

(* receive: with a fault or a block the frame is dropped; a duplicate is acknowledged *)
(* again.                                                                             *)
Receive ==
    /\ ~owes /\ Len(requests) < WireCap
    /\ \E n \in Seqs :
          /\ Take(n)
          /\ \/ Stopped /\ UNCHANGED <<requests, hcVars>>
             \/ ~Stopped /\ IsNext(n) /\ Apply(n)
             \/ ~Stopped /\ n > inbound /\ ~IsNext(n) /\ Gap(n)
             \/ ~Stopped /\ n <= inbound /\ owes' = TRUE /\ UNCHANGED <<requests, inbound, applied, halted>>
             \/ ~Stopped /\ Quarantine
    /\ UNCHANGED <<abaVars, gatewayVars, forwarding, hc, replay, withheld, drops>>

(* The conversation is over; its packets are dropped. *)
Discard ==
    /\ hc = "ended" /\ queue # <<>>
    /\ queue' = Tail(queue)
    /\ UNCHANGED <<abaVars, gatewayVars, forwarding, hc, buffer, replay, requests, withheld, hcVars, drops>>

(* The acknowledgment is lost with the connection, or cannot be made. *)
SendAck ==
    /\ owes
    /\ owes' = FALSE
    /\ \/ /\ requests' = IF Connected THEN Append(requests, Request("ack", inbound)) ELSE requests
          /\ UNCHANGED halted
       \/ Halts /\ UNCHANGED requests
    /\ UNCHANGED <<abaVars, gatewayVars, forwarding, hc, queue, buffer, replay, withheld, inbound, applied, drops>>

-----------------------------------------------------------------------------
(* CloseEndpointSession, at the HC's request, commits the end and sends a         *)
(* CloseTunnelRequest to an ABA that is connected; it is not repeated.           *)
CloseSession ==
    /\ Open
    /\ status' = "CLOSED"
    /\ closing' \in {FALSE, aba}
    /\ UNCHANGED <<sealed, journal, stale, held, aba, up, acks, stored, acked, forwarding, lineVars, hcVars, drops>>

(* The session fails or one of its endpoints is revoked; the ABA is not told. *)
EndSession ==
    /\ Open
    /\ status' = "ENDED"
    /\ UNCHANGED <<abaVars, stored, acked, forwarding, lineVars, hcVars, drops>>

Drop == drops < MaxDrops /\ drops' = drops + 1

AbaDrops ==
    /\ Drop /\ aba /\ AbaEnds
    /\ UNCHANGED <<sealed, journal, stale, held, gatewayVars, forwarding, lineVars, hcVars>>

(* The ABA process ends: the journal stays, the sessions in memory do not. *)
AbaRestart ==
    /\ Drop /\ held /\ AbaEnds
    /\ held' = FALSE
    /\ UNCHANGED <<sealed, journal, stale, gatewayVars, forwarding, lineVars, hcVars>>

(* The connection breaks, or the page is closed or reloaded: a fault is in memory only, *)
(* and a message that was being sent leaves its reservation.                            *)
HcDrops ==
    /\ Drop /\ hc # "off" /\ HcEnds
    /\ \/ UNCHANGED <<owes, halted>>
       \/ /\ owes' = FALSE
          /\ halted' \in IF halted \in {"no", "fault"} THEN {"no", "reserved"} ELSE {halted}
    /\ UNCHANGED <<abaVars, gatewayVars, forwarding, inbound, applied>>

(* The gateway restarts: what is in memory is gone. *)
GatewayRestart ==
    /\ Drop /\ AbaEnds /\ HcEnds
    /\ forwarding' = 0
    /\ UNCHANGED <<sealed, journal, stale, held, gatewayVars, hcVars>>

Aba == Seal \/ AbaConnect \/ AbaClose \/ (\E n \in Seqs : AbaAcknowledge(n) \/ Age(n))
Gateway == PutFrame \/ Forward \/ Resume \/ ReplayFrame \/ Acknowledge
Hc == HcConnect \/ Retain \/ Restored \/ HcResume \/ Unauthorize \/ HcObserve \/ Block \/ Receive \/ Discard \/ SendAck

Next ==
    \/ Aba \/ Gateway \/ Hc
    \/ CloseSession \/ EndSession \/ AbaDrops \/ AbaRestart \/ HcDrops \/ GatewayRestart

Spec == Init /\ [][Next]_vars

(* The handlers run, and an ABA process that still has the session goes on trying to *)
(* connect. Nothing is assumed of the HC's connections, which its user opens, nor of  *)
(* an ABA process that has ended.                                                    *)
Fairness ==
    /\ WF_vars(held /\ AbaConnect)
    /\ WF_vars(PutFrame) /\ WF_vars(Forward)
    /\ WF_vars(Resume \/ ReplayFrame \/ Acknowledge)
    /\ WF_vars(Receive) /\ WF_vars(SendAck)

FairSpec == Spec /\ Fairness

-----------------------------------------------------------------------------
(* Every variable holds a value of its type; the queues keep their bounds. *)
TypeOK ==
    /\ status \in {"ACTIVE", "CLOSED", "ENDED"} /\ held \in BOOLEAN /\ aba \in BOOLEAN
    /\ closing \in BOOLEAN /\ owes \in BOOLEAN
    /\ sealed \in 0 .. Frames /\ journal \subseteq 1 .. sealed /\ stale \subseteq 1 .. sealed
    /\ up \in Seq(Seqs) /\ acks \subseteq Seqs
    /\ stored \in [Seqs -> {"NONE", "STORED", "ACKED"}]
    /\ acked \in 0 .. Frames /\ forwarding \in 0 .. Frames
    /\ hc \in {"off", "restoring", "resuming", "live", "ended"}
    /\ halted \in {"no", "reserved", "fault", "blocked"}
    /\ queue \in Seq(Seqs) /\ Len(queue) <= QueueCap
    /\ buffer \in Seq(Seqs) /\ Len(buffer) <= BufferCap
    /\ replay \in Seq(Seqs) /\ Len(replay) <= ReplayLimit
    /\ requests \in Seq([kind : {"resume", "ack"}, h : 0 .. Frames])
    /\ withheld \subseteq Seqs
    /\ inbound \in 0 .. Frames /\ applied \in Seq(Seqs)
    /\ drops \in 0 .. MaxDrops

(***************************************************************************)
(* The HC's conversation is made of the frames 1, 2, 3, ..., each once and *)
(* in order, whatever is forwarded twice, replayed, dropped or overtaken   *)
(* by a live frame.                                                        *)
(***************************************************************************)
AppliedInOrder == applied = [i \in 1 .. inbound |-> i]

(***************************************************************************)
(* Nothing is given up before the HC has saved it: a frame the gateway no  *)
(* longer replays is in the HC's durable conversation, even if the page    *)
(* was closed before the acknowledgment left or the frame could not be     *)
(* saved, and so is one that is not in the ABA's journal any more, unless  *)
(* the session was closed, which removes its records (receive saves before *)
(* it acknowledges; AdvanceAck and handle_ack_frame discard by cursor,     *)
(* handle_close_tunnel all of them).                                       *)
(***************************************************************************)
GivenUpIsApplied ==
    \A n \in 1 .. sealed :
        /\ stored[n] = "ACKED" => n <= inbound
        /\ n \notin journal => n <= inbound \/ status = "CLOSED"

ResumeAsked == \E i \in DOMAIN requests : requests[i].kind = "resume"
OnTheWay == InSeq(queue) \cup InSeq(replay) \cup {forwarding} \cup withheld

(***************************************************************************)
(* Between the rows and a live conversation nothing slips: while no        *)
(* ResumeState is on its way, each frame stored after the HC's cursor is   *)
(* still to be forwarded or replayed, is in the queue, or was withheld by  *)
(* a limit of the gateway, whatever overtakes it, is received after a gap  *)
(* or retained while the conversation is restored (processResumeState      *)
(* against processEncryptedFrame; bind, receive and resume of the HC).     *)
(***************************************************************************)
NothingSlips ==
    hc = "live" /\ halted = "no" /\ ~ResumeAsked => StoredAfter(inbound) \subseteq OnTheWay

(* The frames that the ABA is unable to bring to the gateway: it has lost the session *)
(* from memory, or repeats first a frame that is too old.                             *)
Stranded == (~held \/ journal \cap stale # {}) /\ \E n \in 1 .. sealed : stored[n] = "NONE"

(***************************************************************************)
(* While the HC stays connected it catches up: again and again it has the  *)
(* last frame the ABA sealed, or the session has ended, its conversation   *)
(* is not live, or stopped by a fault, a block or a reservation, the       *)
(* gateway withheld the last frame from this connection, so that no later  *)
(* one shows the gap, or the ABA cannot bring a frame to the gateway       *)
(* (GatewayClient::run, begin_connection, processEncryptedFrame,           *)
(* processResumeState, receive).                                           *)
(***************************************************************************)
Delivered ==
    []<>(inbound = sealed \/ ~Open \/ hc # "live" \/ halted # "no" \/ sealed \in withheld \/ Stranded)
=============================================================================
