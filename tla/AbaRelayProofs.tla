--------------------------- MODULE AbaRelayProofs ---------------------------
(***************************************************************************)
(* The inductive invariant of AbaRelay, and what the ABA promises about    *)
(* dispatch and about its outgoing frames, for any sessions, any number of *)
(* frames and any journal capacity.                                        *)
(***************************************************************************)
EXTENDS AbaRelay, FiniteSetTheorems, TLAPS

(* A job is idle, or works for a session that is in memory and active, except  *)
(* that a closing session has left memory and a reply may serve any.           *)
Working == {"recorded", "started", "mark", "reserve", "record", "respond"}

(* Memory holds only sessions the Platform opened, and a process that does not *)
(* run has none.                                                              *)
MemoryInv ==
    /\ \A s \in Sessions : mem[s].here => life[s] = "opened"
    /\ \A s \in Sessions : ~mem[s].here => mem[s].pending = {}
    /\ ~up => job.at = "idle" /\ \A s \in Sessions : ~mem[s].here
    /\ job.at \in Working => Active(job.s)
    /\ job.at = "close" => life[job.s] = "opened" /\ ~mem[job.s].here
    /\ job.at \in {"idle", "close"} => job.packets = {}

(* A session that was never opened, or was closed, has no journal records. *)
JournalInv ==
    /\ \A s \in Sessions, q \in Ins : life[s] # "opened" => inbound[<<s, q>>] = "NONE"
    /\ \A s \in Sessions : life[s] # "opened" => reserved[s] = 0 /\ outbound[s] = {}
    /\ \A s \in Sessions, q \in Ins : mem[s].here /\ q <= mem[s].hc => inbound[<<s, q>>] # "NONE"

(* What the journal says of the message a handler works on. *)
StageInv ==
    /\ job.at = "recorded" => job.q \in Ins /\ inbound[<<job.s, job.q>>] = "RECEIVED"
    /\ job.at = "started" =>
         /\ job.q \in Ins
         /\ inbound[<<job.s, job.q>>] = "DISPATCH_STARTED"
         /\ given[<<job.s, job.q>>] = 0
         /\ job.q \notin mem[job.s].pending
    /\ job.at = "respond" => job.q \in mem[job.s].pending
    /\ job.at \in {"reserve", "record"} => job.q \in mem[job.s].pending \cup {0}
    /\ job.at = "mark" => mem[job.s].uncertain /\ mem[job.s].unsure > 0 /\ mem[job.s].pending = {}
    /\ job.at = "reserve" => reserved[job.s] < MaxOut
    /\ job.at = "record" => mem[job.s].aba \in Outs

(* Who will resolve a dispatch that started: poll, or the running handler. *)
Owned(s, q) ==
    \/ q \in mem[s].pending
    \/ job.s = s /\ job.at = "started" /\ job.q = q
    \/ job.s = s /\ job.at = "mark" /\ q \in job.mark

OwnerInv ==
    up => \A s \in Sessions, q \in Ins :
            ~(job.at = "close" /\ job.s = s) =>
                (inbound[<<s, q>>] = "DISPATCH_STARTED" <=> Owned(s, q))

(* A message was given at most once, and only after its dispatch started. *)
GivenInv ==
    /\ GivenOnce
    /\ \A s \in Sessions, q \in Ins :
         given[<<s, q>>] > 0 =>
            \/ life[s] = "closed"
            \/ inbound[<<s, q>>] \in {"DISPATCH_STARTED", "RESPONDED", "UNCERTAIN"}
    /\ \A s \in Sessions : \A q \in mem[s].pending : given[<<s, q>>] > 0

(* No sequence above the reserved one was used. *)
SealInv ==
    /\ SealedOnce
    /\ \A s \in Sessions, n \in Outs :
         life[s] # "closed" /\ n > reserved[s] => sealed[<<s, n>>] = 0

(* What a packet says is durable. *)
Backed(p) ==
    /\ p[1] = "frame" => p[3] \in outbound[p[2]] \cup confirmed[p[2]] \/ life[p[2]] = "closed"
    /\ p[1] = "ack" => \A q \in Ins : q <= p[3] => inbound[<<p[2], q>>] # "NONE" \/ life[p[2]] = "closed"

PacketInv == \A p \in wire \cup job.packets : Backed(p)

(* The inductive invariant. *)
RInv ==
    /\ TypeOK /\ MemoryInv /\ JournalInv /\ StageInv /\ OwnerInv
    /\ GivenInv /\ SealInv /\ PacketInv /\ UncertaintyIsRemembered

(* Sequence bounds are natural numbers. *)
LEMMA Bounds ==
    /\ Ins \subseteq Nat \ {0} /\ Outs \subseteq Nat \ {0}
    /\ \A q \in Ins : q <= MaxIn /\ \A n \in Outs : n <= MaxOut
    /\ Ins \subseteq 0 .. MaxIn /\ Outs \subseteq 0 .. MaxOut
  BY RelayAssumption DEF Ins, Outs

(* The jobs the handlers start with have their type. *)
LEMMA JobTyped ==
    /\ Idle \in Jobs /\ Idle.at = "idle" /\ Idle.q = 0 /\ Idle.mark = {} /\ Idle.packets = {}
    /\ \A at \in Stages, s \in Sessions, q \in 0 .. MaxIn :
         /\ Job(at, s, q) \in Jobs
         /\ Job(at, s, q).at = at /\ Job(at, s, q).s = s /\ Job(at, s, q).q = q
         /\ Job(at, s, q).mark = {} /\ Job(at, s, q).packets = {}
  <1>1. ASSUME NEW at \in Stages, NEW s \in Sessions, NEW q \in 0 .. MaxIn
        PROVE  /\ Job(at, s, q) \in Jobs
               /\ Job(at, s, q).at = at /\ Job(at, s, q).s = s /\ Job(at, s, q).q = q
               /\ Job(at, s, q).mark = {} /\ Job(at, s, q).packets = {}
    BY Zenon DEF Job, Jobs
  <1>2. (CHOOSE s \in Sessions : TRUE) \in Sessions
    BY RelayAssumption, Zenon
  <1>3. "idle" \in Stages /\ 0 \in 0 .. MaxIn
    BY RelayAssumption DEF Stages
  <1>. QED
    BY <1>1, <1>2, <1>3 DEF Idle

(* What an acknowledgment or a replay sends has its type, and the journal backs it. *)
LEMMA RepliesBacked ==
    ASSUME TypeOK, MemoryInv, JournalInv, NEW s \in Sessions, mem[s].here
    PROVE  /\ Ack(s) \in SUBSET Packets /\ Frames(s) \in SUBSET Packets
           /\ \A p \in Ack(s) \cup Frames(s) : Backed(p)
  <1>1. mem[s].hc \in 0 .. MaxIn /\ outbound[s] \subseteq Outs
    BY Zenon DEF TypeOK, LocalSession
  <1>2. mem[s].hc > 0 => mem[s].hc \in Ins
    BY <1>1, RelayAssumption DEF Ins
  <1>3. Ack(s) \in SUBSET Packets /\ \A p \in Ack(s) : p = <<"ack", s, mem[s].hc>>
    BY <1>2 DEF Ack, Packets
  <1>4. Frames(s) \in SUBSET Packets
        /\ \A p \in Frames(s) : p[1] = "frame" /\ p[2] = s /\ p[3] \in outbound[s]
    BY <1>1, Zenon DEF Frames, Packets
  <1>5. \A p \in Ack(s) : Backed(p)
    BY <1>3 DEF Backed, JournalInv
  <1>6. \A p \in Frames(s) : Backed(p)
    BY <1>4, Zenon DEF Backed
  <1>. QED
    BY <1>3, <1>4, <1>5, <1>6, Zenon

(* A packet stays backed while the journal keeps or confirms its frames and keeps *)
(* its messages, until the session is closed.                                  *)
LEMMA StillBacked ==
    ASSUME TypeOK,
           \A z \in Sessions :
              \/ life'[z] = "closed"
              \/ /\ life[z] # "closed"
                 /\ outbound[z] \cup confirmed[z] \subseteq outbound'[z] \cup confirmed'[z]
                 /\ \A q \in Ins : inbound[<<z, q>>] # "NONE" => inbound'[<<z, q>>] # "NONE"
    PROVE  \A p \in Packets : Backed(p) => Backed(p)'
  <1>1. SUFFICES ASSUME NEW p \in Packets, Backed(p) PROVE Backed(p)'
    BY Zenon
  <1>2. p[2] \in Sessions
    BY Zenon DEF Packets
  <1>. QED
    BY <1>1, <1>2, Zenon DEF Backed

(* The packets sent so far, and those a handler holds, are packets. *)
LEMMA PacketsTyped ==
    TypeOK => wire \subseteq Packets /\ job.packets \subseteq Packets
  BY Zenon DEF TypeOK, Jobs

(* Fields of the session a handler changes. *)
LEMMA MemTyped ==
    ASSUME TypeOK, NEW s \in Sessions
    PROVE  /\ mem[s].here \in BOOLEAN /\ mem[s].active \in BOOLEAN /\ mem[s].hc \in 0 .. MaxIn
           /\ mem[s].aba \in 0 .. MaxOut /\ mem[s].uncertain \in BOOLEAN
           /\ mem[s].unsure \in 0 .. MaxIn /\ mem[s].pending \in SUBSET Ins
  BY Zenon DEF TypeOK, LocalSession

(* A session that is absent, or was just opened. *)
LEMMA AbsentTyped ==
    /\ Absent \in LocalSession /\ [Absent EXCEPT !.here = TRUE] \in LocalSession
    /\ ~Absent.here /\ Absent.pending = {}
  <1>1. 0 \in 0 .. MaxIn /\ 0 \in 0 .. MaxOut /\ {} \in SUBSET Ins
    BY RelayAssumption
  <1>2. Absent \in LocalSession
    BY <1>1, Zenon DEF Absent, LocalSession
  <1>3. [Absent EXCEPT !.here = TRUE] \in LocalSession
    BY <1>2, Zenon DEF LocalSession
  <1>. QED
    BY <1>2, <1>3, Zenon DEF Absent

(* A session whose Agent failed. *)
LEMMA LostSession ==
    ASSUME NEW m \in LocalSession, NEW q \in 0 .. MaxIn
    PROVE  LET r == [m EXCEPT !.pending = {}, !.uncertain = TRUE, !.unsure = q]
           IN  /\ r \in LocalSession
               /\ r.here = m.here /\ r.active = m.active /\ r.hc = m.hc
               /\ r.aba = m.aba /\ r.uncertain = TRUE /\ r.unsure = q /\ r.pending = {}
  BY Zenon DEF LocalSession

(* A session that took a frame. *)
LEMMA AdvancedSession ==
    ASSUME NEW m \in LocalSession, NEW q \in 0 .. MaxIn
    PROVE  LET r == [m EXCEPT !.hc = q]
           IN  /\ r \in LocalSession
               /\ r.here = m.here /\ r.active = m.active /\ r.hc = q
               /\ r.aba = m.aba /\ r.uncertain = m.uncertain /\ r.unsure = m.unsure /\ r.pending = m.pending
  BY Zenon DEF LocalSession

(* A session is opened once, with an empty journal. *)
LEMMA OpenTunnelInv ==
    ASSUME RInv, NEW s \in Sessions, OpenTunnel(s)
    PROVE  RInv'
  <1>1. up /\ connected /\ job.at = "idle" /\ life[s] = "new"
    BY Zenon DEF OpenTunnel, Ready
  <1>2. /\ mem' \in [Sessions -> LocalSession]
        /\ \A z \in Sessions : z # s => mem'[z] = mem[z]
        /\ mem'[s].here = TRUE
        /\ mem'[s].active = FALSE
        /\ mem'[s].hc = 0
        /\ mem'[s].aba = 0
        /\ mem'[s].uncertain = FALSE
        /\ mem'[s].unsure = 0
        /\ mem'[s].pending = {}
    BY AbsentTyped, Zenon DEF OpenTunnel, Absent, RInv, TypeOK
  <1>3. /\ life' \in [Sessions -> {"new", "opened", "closed"}] /\ life'[s] = "opened"
        /\ \A z \in Sessions : z # s => life'[z] = life[z]
    BY Zenon DEF OpenTunnel, RInv, TypeOK
  <1>4. UNCHANGED <<up, connected, job, inbound, reserved, outbound, given, sealed, wire, confirmed, reason>>
    BY Zenon DEF OpenTunnel, disk, history
  <1>5. TypeOK'
    BY <1>1, <1>2, <1>3, <1>4, Zenon DEF RInv, TypeOK
  <1>6. MemoryInv'
    BY <1>1, <1>2, <1>3, <1>4, Zenon DEF RInv, MemoryInv, Working, Active
  <1>7. JournalInv'
    BY <1>1, <1>2, <1>3, <1>4, Bounds DEF RInv, JournalInv, MemoryInv
  <1>8. StageInv'
    BY <1>1, <1>2, <1>4, Zenon DEF RInv, StageInv, MemoryInv, Working, Active
  <1>9. OwnerInv'
    BY <1>1, <1>2, <1>4 DEF RInv, OwnerInv, Owned, MemoryInv, StageInv
  <1>10. GivenInv'
    BY <1>1, <1>2, <1>3, <1>4 DEF RInv, GivenInv, GivenOnce, StageInv, MemoryInv
  <1>11. SealInv'
    BY <1>1, <1>3, <1>4, Zenon DEF RInv, SealInv, SealedOnce
  <1>12. PacketInv'
    BY <1>1, <1>3, <1>4, StillBacked, PacketsTyped, Zenon DEF RInv, PacketInv
  <1>13. UncertaintyIsRemembered'
    BY <1>1, <1>2, <1>4, Zenon DEF RInv, UncertaintyIsRemembered, StageInv, MemoryInv, JournalInv
  <1>. QED
    BY <1>5, <1>6, <1>7, <1>8, <1>9, <1>10, <1>11, <1>12, <1>13, Zenon DEF RInv

(* A closing session has left memory; its records stay for CloseJournal. *)
LEMMA CloseTunnelInv ==
    ASSUME RInv, NEW s \in Sessions, CloseTunnel(s)
    PROVE  RInv'
  <1>1. up /\ connected /\ job.at = "idle" /\ life[s] = "opened"
    BY Zenon DEF CloseTunnel, Ready
  <1>2. /\ mem' \in [Sessions -> LocalSession]
        /\ \A z \in Sessions : z # s => mem'[z] = mem[z]
        /\ mem'[s].here = FALSE
        /\ mem'[s].active = FALSE
        /\ mem'[s].hc = 0
        /\ mem'[s].aba = 0
        /\ mem'[s].uncertain = FALSE
        /\ mem'[s].unsure = 0
        /\ mem'[s].pending = {}
    BY AbsentTyped, Zenon DEF CloseTunnel, Absent, RInv, TypeOK
  <1>3. /\ job' \in Jobs /\ job'.at = "close" /\ job'.s = s
        /\ job'.q = 0 /\ job'.mark = {} /\ job'.packets = {}
    BY JobTyped, RelayAssumption DEF CloseTunnel, Stages
  <1>4. UNCHANGED <<up, connected, inbound, reserved, outbound, life, given, sealed, wire, confirmed, reason>>
    BY Zenon DEF CloseTunnel, disk, history
  <1>5. TypeOK'
    BY <1>1, <1>2, <1>3, <1>4, Zenon DEF RInv, TypeOK
  <1>6. MemoryInv'
    BY <1>1, <1>2, <1>3, <1>4, Zenon DEF RInv, MemoryInv, Working, Active
  <1>7. JournalInv'
    BY <1>1, <1>2, <1>4, Zenon DEF RInv, JournalInv, MemoryInv
  <1>8. StageInv'
    BY <1>1, <1>2, <1>3, <1>4, Zenon DEF RInv, StageInv, MemoryInv, Working, Active
  <1>9. OwnerInv'
    BY <1>1, <1>2, <1>3, <1>4, Zenon DEF RInv, OwnerInv, Owned, MemoryInv, StageInv
  <1>10. GivenInv'
    BY <1>1, <1>2, <1>4, Zenon DEF RInv, GivenInv, GivenOnce, StageInv, MemoryInv
  <1>11. SealInv'
    BY <1>1, <1>4, Zenon DEF RInv, SealInv, SealedOnce
  <1>12. PacketInv'
    BY <1>1, <1>3, <1>4, Zenon DEF RInv, PacketInv, Backed, MemoryInv
  <1>13. UncertaintyIsRemembered'
    BY <1>1, <1>2, <1>4, Zenon DEF RInv, UncertaintyIsRemembered, StageInv, MemoryInv
  <1>. QED
    BY <1>5, <1>6, <1>7, <1>8, <1>9, <1>10, <1>11, <1>12, <1>13, Zenon DEF RInv

(* The records of the closed session are gone; what was sent of it needs none. *)
LEMMA CloseJournalInv ==
    ASSUME RInv, CloseJournal
    PROVE  RInv'
  <1>1. job.at = "close" /\ job.s \in Sessions /\ life[job.s] = "opened" /\ ~mem[job.s].here
    BY Zenon DEF CloseJournal, RInv, MemoryInv, TypeOK, Jobs
  <1>2. /\ inbound' \in [Messages -> States]
        /\ \A z \in Sessions, q \in Ins : inbound'[<<z, q>>] = IF z = job.s THEN "NONE" ELSE inbound[<<z, q>>]
    BY Zenon DEF CloseJournal, RInv, TypeOK, Messages, States
  <1>3. /\ reserved' \in [Sessions -> 0 .. MaxOut] /\ outbound' \in [Sessions -> SUBSET Outs]
        /\ reserved'[job.s] = 0 /\ outbound'[job.s] = {}
        /\ \A z \in Sessions : z # job.s => reserved'[z] = reserved[z] /\ outbound'[z] = outbound[z]
    BY <1>1, RelayAssumption DEF CloseJournal, RInv, TypeOK
  <1>4. /\ life' \in [Sessions -> {"new", "opened", "closed"}] /\ life'[job.s] = "closed"
        /\ \A z \in Sessions : z # job.s => life'[z] = life[z]
    BY <1>1, Zenon DEF CloseJournal, RInv, TypeOK
  <1>5. job'.at = "idle" /\ job'.packets = {} /\ job' \in Jobs
    BY JobTyped, Zenon DEF CloseJournal
  <1>6. UNCHANGED <<up, connected, mem, given, sealed, wire, confirmed, reason>>
    BY Zenon DEF CloseJournal, history
  <1>7. TypeOK'
    BY <1>1, <1>2, <1>3, <1>4, <1>5, <1>6, Zenon DEF RInv, TypeOK
  <1>8. MemoryInv'
    BY <1>1, <1>4, <1>5, <1>6, Zenon DEF RInv, MemoryInv, Working, Active
  <1>9. JournalInv'
    BY <1>1, <1>2, <1>3, <1>4, <1>6 DEF RInv, JournalInv, MemoryInv
  <1>10. StageInv'
    BY <1>1, <1>2, <1>3, <1>5, <1>6, Zenon DEF RInv, StageInv, MemoryInv, Working, Active
  <1>11. OwnerInv'
    BY <1>1, <1>2, <1>5, <1>6 DEF RInv, OwnerInv, Owned, MemoryInv, StageInv
  <1>12. GivenInv'
    BY <1>1, <1>2, <1>4, <1>6 DEF RInv, GivenInv, GivenOnce, StageInv, MemoryInv
  <1>13. SealInv'
    BY <1>1, <1>3, <1>4, <1>6, Zenon DEF RInv, SealInv, SealedOnce
  <1>14. PacketInv'
    BY <1>1, <1>2, <1>3, <1>4, <1>5, <1>6, StillBacked, PacketsTyped, Zenon DEF RInv, PacketInv
  <1>15. UncertaintyIsRemembered'
    BY <1>1, <1>2, <1>6 DEF RInv, UncertaintyIsRemembered, StageInv, MemoryInv
  <1>. QED
    BY <1>7, <1>8, <1>9, <1>10, <1>11, <1>12, <1>13, <1>14, <1>15, Zenon DEF RInv

(* The process stops: memory is lost, the journal is not. *)
LEMMA StopInv ==
    ASSUME RInv, NEW why \in {"protocol", "capacity", "crash"}, Stop(why)
    PROVE  RInv'
  <1>1. /\ up' = FALSE /\ connected' = FALSE /\ reason' = why
        /\ mem' \in [Sessions -> LocalSession]
        /\ \A z \in Sessions : ~mem'[z].here /\ mem'[z].pending = {}
    BY AbsentTyped, Zenon DEF Stop
  <1>2. job'.at = "idle" /\ job'.packets = {} /\ job' \in Jobs
    BY JobTyped, Zenon DEF Stop
  <1>3. UNCHANGED <<inbound, reserved, outbound, life, given, sealed, wire, confirmed>>
    BY Zenon DEF Stop, disk, history
  <1>4. TypeOK'
    BY <1>1, <1>2, <1>3, Zenon DEF RInv, TypeOK
  <1>5. MemoryInv'
    BY <1>1, <1>2, <1>3, Zenon DEF RInv, MemoryInv, Working, Active
  <1>6. JournalInv'
    BY <1>1, <1>3, Zenon DEF RInv, JournalInv, MemoryInv
  <1>7. StageInv'
    BY <1>1, <1>2, <1>3, Zenon DEF RInv, StageInv, MemoryInv, Working, Active
  <1>8. OwnerInv'
    BY <1>1, <1>2, <1>3, Zenon DEF RInv, OwnerInv, Owned, MemoryInv, StageInv
  <1>9. GivenInv'
    BY <1>1, <1>3, Zenon DEF RInv, GivenInv, GivenOnce, StageInv, MemoryInv
  <1>10. SealInv'
    BY <1>1, <1>3, Zenon DEF RInv, SealInv, SealedOnce
  <1>11. PacketInv'
    BY <1>1, <1>2, <1>3, Zenon DEF RInv, PacketInv, Backed, MemoryInv
  <1>12. UncertaintyIsRemembered'
    BY <1>1, <1>3, Zenon DEF RInv, UncertaintyIsRemembered, StageInv, MemoryInv
  <1>. QED
    BY <1>4, <1>5, <1>6, <1>7, <1>8, <1>9, <1>10, <1>11, <1>12, Zenon DEF RInv

(* The key package is acknowledged for the first time. *)
LEMMA KeyPackageAckInv ==
    ASSUME RInv, NEW s \in Sessions, KeyPackageAck(s)
    PROVE  RInv'
  <1>1. up /\ connected /\ job.at = "idle" /\ mem[s].here /\ ~mem[s].active
    BY Zenon DEF KeyPackageAck, Ready
  <1>2. /\ mem' \in [Sessions -> LocalSession]
        /\ \A z \in Sessions : z # s => mem'[z] = mem[z]
        /\ mem'[s].here = mem[s].here
        /\ mem'[s].active = TRUE
        /\ mem'[s].hc = mem[s].hc
        /\ mem'[s].aba = mem[s].aba
        /\ mem'[s].uncertain = mem[s].uncertain
        /\ mem'[s].unsure = mem[s].unsure
        /\ mem'[s].pending = mem[s].pending
    BY MemTyped, Zenon DEF KeyPackageAck, RInv, TypeOK, LocalSession
  <1>3. UNCHANGED <<up, connected, job, inbound, reserved, outbound, life, given, sealed, wire, confirmed, reason>>
    BY Zenon DEF KeyPackageAck, disk, history
  <1>4. TypeOK'
    BY <1>1, <1>2, <1>3, Zenon DEF RInv, TypeOK
  <1>5. MemoryInv'
    BY <1>1, <1>2, <1>3, Zenon DEF RInv, MemoryInv, Working, Active
  <1>6. JournalInv'
    BY <1>1, <1>2, <1>3 DEF RInv, JournalInv, MemoryInv
  <1>7. StageInv'
    BY <1>1, <1>2, <1>3, Zenon DEF RInv, StageInv, MemoryInv, Working, Active
  <1>8. OwnerInv'
    BY <1>1, <1>2, <1>3 DEF RInv, OwnerInv, Owned, MemoryInv, StageInv
  <1>9. GivenInv'
    BY <1>1, <1>2, <1>3 DEF RInv, GivenInv, GivenOnce, StageInv, MemoryInv
  <1>10. SealInv'
    BY <1>1, <1>3, Zenon DEF RInv, SealInv, SealedOnce
  <1>11. PacketInv'
    BY <1>1, <1>3, Zenon DEF RInv, PacketInv, Backed, MemoryInv
  <1>12. UncertaintyIsRemembered'
    BY <1>1, <1>2, <1>3 DEF RInv, UncertaintyIsRemembered, StageInv, MemoryInv
  <1>. QED
    BY <1>4, <1>5, <1>6, <1>7, <1>8, <1>9, <1>10, <1>11, <1>12, Zenon DEF RInv

(* A new frame is the next one: everything up to it is recorded. *)
LEMMA RecordFrameInv ==
    ASSUME RInv, NEW s \in Sessions, NEW q \in Ins, RecordFrame(s, q)
    PROVE  RInv'
  <1>1. /\ up /\ connected /\ job.at = "idle" /\ mem[s].here /\ mem[s].active
        /\ inbound[<<s, q>>] = "NONE" /\ ~(q > mem[s].hc + 1)
    BY Zenon DEF RecordFrame, Ready, FrameRefused, Active
  <1>2. /\ mem' \in [Sessions -> LocalSession]
        /\ \A z \in Sessions : z # s => mem'[z] = mem[z]
        /\ mem'[s].here = mem[s].here
        /\ mem'[s].active = mem[s].active
        /\ mem'[s].hc = q
        /\ mem'[s].aba = mem[s].aba
        /\ mem'[s].uncertain = mem[s].uncertain
        /\ mem'[s].unsure = mem[s].unsure
        /\ mem'[s].pending = mem[s].pending
    <2>. DEFINE r == [mem[s] EXCEPT !.hc = q]
    <2>1. mem' = [mem EXCEPT ![s] = r]
      BY Zenon DEF RecordFrame, RInv, TypeOK
    <2>2. mem[s] \in LocalSession /\ q \in 0 .. MaxIn
      BY Bounds, Zenon DEF RInv, TypeOK
    <2>3. /\ r \in LocalSession
          /\ r.here = mem[s].here /\ r.active = mem[s].active /\ r.hc = q
          /\ r.aba = mem[s].aba /\ r.uncertain = mem[s].uncertain
          /\ r.unsure = mem[s].unsure /\ r.pending = mem[s].pending
      BY <2>2, AdvancedSession, Zenon
    <2>. HIDE DEF r
    <2>. QED
      BY <2>1, <2>3, Zenon DEF RInv, TypeOK
  <1>3. /\ job' \in Jobs /\ job'.at = "recorded" /\ job'.s = s
        /\ job'.q = q /\ job'.mark = {} /\ job'.packets = {}
    BY JobTyped, Bounds DEF RecordFrame, Stages
  <1>4. /\ inbound' \in [Messages -> States] /\ inbound'[<<s, q>>] = "RECEIVED"
        /\ \A z \in Sessions, i \in Ins : <<z, i>> # <<s, q>> => inbound'[<<z, i>>] = inbound[<<z, i>>]
    BY Zenon DEF RecordFrame, RInv, TypeOK, Messages, States
  <1>5. UNCHANGED <<up, connected, reserved, outbound, life, given, sealed, wire, confirmed, reason>>
    BY Zenon DEF RecordFrame, history
  <1>6. \A i \in Ins : i <= q => i = q \/ i <= mem[s].hc
    BY <1>1, MemTyped, Bounds DEF RInv
  <1>7. TypeOK'
    BY <1>1, <1>2, <1>3, <1>4, <1>5, Zenon DEF RInv, TypeOK
  <1>8. MemoryInv'
    BY <1>1, <1>2, <1>3, <1>5, <1>6, Zenon DEF RInv, MemoryInv, Working, Active
  <1>9. JournalInv'
    BY <1>1, <1>2, <1>4, <1>5, <1>6 DEF RInv, JournalInv, MemoryInv
  <1>10. StageInv'
    BY <1>1, <1>2, <1>3, <1>4, <1>5, <1>6, Zenon DEF RInv, StageInv, MemoryInv, Working, Active
  <1>11. OwnerInv'
    BY <1>1, <1>2, <1>3, <1>4, <1>5, <1>6 DEF RInv, OwnerInv, Owned, MemoryInv, StageInv
  <1>12. GivenInv'
    BY <1>1, <1>2, <1>4, <1>5, <1>6 DEF RInv, GivenInv, GivenOnce, StageInv, MemoryInv
  <1>13. SealInv'
    BY <1>1, <1>5, <1>6, Zenon DEF RInv, SealInv, SealedOnce
  <1>14. PacketInv'
    BY <1>1, <1>3, <1>4, <1>5, <1>6, StillBacked, PacketsTyped, Zenon DEF RInv, PacketInv
  <1>15. UncertaintyIsRemembered'
    BY <1>1, <1>2, <1>4, <1>6 DEF RInv, UncertaintyIsRemembered, StageInv, MemoryInv
  <1>. QED
    BY <1>7, <1>8, <1>9, <1>10, <1>11, <1>12, <1>13, <1>14, <1>15, Zenon DEF RInv

(* A recorded frame changes no record; the answer repeats what is durable. *)
LEMMA DuplicateFrameInv ==
    ASSUME RInv, NEW s \in Sessions, NEW q \in Ins, DuplicateFrame(s, q)
    PROVE  RInv'
  <1>1. up /\ connected /\ job.at = "idle" /\ mem[s].here /\ mem[s].active /\ inbound[<<s, q>>] # "NONE"
    BY Zenon DEF DuplicateFrame, Ready, FrameRefused, Active
  <1>2. Ack(s) \cup Frames(s) \subseteq Packets /\ \A p \in Ack(s) \cup Frames(s) : Backed(p)
    BY <1>1, RepliesBacked, Zenon DEF RInv
  <1>3. /\ job' \in Jobs /\ job'.s = s /\ job'.q = q /\ job'.mark = {}
        /\ \/ job'.at = "recorded" /\ inbound[<<s, q>>] = "RECEIVED" /\ job'.packets = {}
           \/ job'.at = "reply" /\ job'.packets \subseteq Ack(s) \cup Frames(s)
    <2>1. CASE inbound[<<s, q>>] = "RECEIVED"
      BY <2>1, JobTyped, Bounds DEF DuplicateFrame, Stages
    <2>2. CASE inbound[<<s, q>>] # "RECEIVED"
      <3>. DEFINE ps == Ack(s) \cup (IF inbound[<<s, q>>] = "RESPONDED" THEN Frames(s) ELSE {})
      <3>1. ps \subseteq Ack(s) \cup Frames(s)
        BY Zenon
      <3>. HIDE DEF ps
      <3>2. "reply" \in Stages /\ job' = [Job("reply", s, q) EXCEPT !.packets = ps]
        BY <2>2, Zenon DEF DuplicateFrame, Stages, ps
      <3>3. ps \in SUBSET Packets
        BY <1>2, <3>1, Zenon
      <3>. QED
        BY <3>1, <3>2, <3>3, Bounds, Zenon DEF Job, Jobs
    <2>. QED
      BY <2>1, <2>2, Zenon
  <1>4. UNCHANGED <<up, connected, mem, inbound, reserved, outbound, life, given, sealed, wire, confirmed, reason>>
    BY Zenon DEF DuplicateFrame, disk, history
  <1>5. TypeOK'
    BY <1>1, <1>3, <1>4, Zenon DEF RInv, TypeOK
  <1>6. MemoryInv'
    BY <1>1, <1>3, <1>4, Zenon DEF RInv, MemoryInv, Working, Active
  <1>7. JournalInv'
    BY <1>1, <1>4, Zenon DEF RInv, JournalInv, MemoryInv
  <1>8. StageInv'
    BY <1>1, <1>3, <1>4, Zenon DEF RInv, StageInv, MemoryInv, Working, Active
  <1>9. OwnerInv'
    BY <1>1, <1>3, <1>4 DEF RInv, OwnerInv, Owned, MemoryInv, StageInv
  <1>10. GivenInv'
    BY <1>1, <1>4, Zenon DEF RInv, GivenInv, GivenOnce, StageInv, MemoryInv
  <1>11. SealInv'
    BY <1>1, <1>4, Zenon DEF RInv, SealInv, SealedOnce
  <1>12. PacketInv'
    <2>1. \A p \in wire \cup job'.packets : Backed(p)
      BY <1>2, <1>3, Zenon DEF RInv, PacketInv
    <2>. QED
      BY <1>4, <2>1, Zenon DEF PacketInv, Backed
  <1>13. UncertaintyIsRemembered'
    BY <1>1, <1>4, Zenon DEF RInv, UncertaintyIsRemembered, StageInv, MemoryInv
  <1>. QED
    BY <1>5, <1>6, <1>7, <1>8, <1>9, <1>10, <1>11, <1>12, <1>13, Zenon DEF RInv

(* The intention to dispatch becomes durable before the Agent sees the message. *)
LEMMA StartDispatchInv ==
    ASSUME RInv, StartDispatch
    PROVE  RInv'
  <1>1. /\ job.at = "recorded" /\ job.s \in Sessions /\ job.q \in Ins /\ up
        /\ mem[job.s].here /\ inbound[<<job.s, job.q>>] = "RECEIVED"
    BY Zenon DEF StartDispatch, RInv, TypeOK, Jobs, StageInv, MemoryInv, Working, Active
  <1>2. /\ inbound' \in [Messages -> States] /\ inbound'[<<job.s, job.q>>] = "DISPATCH_STARTED"
        /\ \A z \in Sessions, i \in Ins : <<z, i>> # <<job.s, job.q>> => inbound'[<<z, i>>] = inbound[<<z, i>>]
    BY <1>1, Zenon DEF StartDispatch, RInv, TypeOK, Messages, States
  <1>3. /\ job' \in Jobs /\ job'.at = "started" /\ job'.s = job.s /\ job'.q = job.q
        /\ job'.mark = job.mark /\ job'.packets = job.packets
    BY Zenon DEF StartDispatch, RInv, TypeOK, Jobs, Stages
  <1>4. UNCHANGED <<up, connected, mem, reserved, outbound, life, given, sealed, wire, confirmed, reason>>
    BY Zenon DEF StartDispatch, history
  <1>5. given[<<job.s, job.q>>] = 0 /\ job.q \notin mem[job.s].pending /\ life[job.s] = "opened"
    <2>1. life[job.s] = "opened" /\ given[<<job.s, job.q>>] \in Nat
      BY <1>1, Zenon DEF RInv, MemoryInv, TypeOK, Messages
    <2>2. ~(given[<<job.s, job.q>>] > 0)
      BY <1>1, <2>1, Zenon DEF RInv, GivenInv
    <2>3. job.q \notin mem[job.s].pending
      BY <1>1, Zenon DEF RInv, OwnerInv, Owned
    <2>. QED
      BY <2>1, <2>2, <2>3
  <1>6. TypeOK'
    BY <1>1, <1>2, <1>3, <1>4, Zenon DEF RInv, TypeOK
  <1>7. MemoryInv'
    BY <1>1, <1>3, <1>4, <1>5, Zenon DEF RInv, MemoryInv, Working, Active
  <1>8. JournalInv'
    BY <1>1, <1>2, <1>4, <1>5 DEF RInv, JournalInv, MemoryInv
  <1>9. StageInv'
    BY <1>1, <1>2, <1>3, <1>4, <1>5, Zenon DEF RInv, StageInv, MemoryInv, Working, Active
  <1>10. OwnerInv'
    BY <1>1, <1>2, <1>3, <1>4, <1>5 DEF RInv, OwnerInv, Owned, MemoryInv, StageInv
  <1>11. GivenInv'
    BY <1>1, <1>2, <1>4, <1>5 DEF RInv, GivenInv, GivenOnce, StageInv, MemoryInv
  <1>12. SealInv'
    BY <1>1, <1>4, <1>5, Zenon DEF RInv, SealInv, SealedOnce
  <1>13. PacketInv'
    BY <1>1, <1>2, <1>3, <1>4, <1>5, StillBacked, PacketsTyped, Zenon DEF RInv, PacketInv
  <1>14. UncertaintyIsRemembered'
    BY <1>1, <1>2, <1>4, <1>5 DEF RInv, UncertaintyIsRemembered, StageInv, MemoryInv
  <1>. QED
    BY <1>6, <1>7, <1>8, <1>9, <1>10, <1>11, <1>12, <1>13, <1>14, Zenon DEF RInv

(* The Agent gets a message it was not given before. *)
LEMMA SubmitInv ==
    ASSUME RInv, Submit
    PROVE  RInv'
  <1>1. /\ job.at = "started" /\ job.s \in Sessions /\ job.q \in Ins /\ up
        /\ mem[job.s].here /\ mem[job.s].active /\ life[job.s] = "opened"
        /\ inbound[<<job.s, job.q>>] = "DISPATCH_STARTED" /\ given[<<job.s, job.q>>] = 0
    BY Zenon DEF Submit, RInv, TypeOK, Jobs, StageInv, MemoryInv, Working, Active
  <1>2. /\ mem' \in [Sessions -> LocalSession]
        /\ \A z \in Sessions : z # job.s => mem'[z] = mem[z]
        /\ mem'[job.s].here = mem[job.s].here
        /\ mem'[job.s].active = mem[job.s].active
        /\ mem'[job.s].hc = mem[job.s].hc
        /\ mem'[job.s].aba = mem[job.s].aba
        /\ mem'[job.s].uncertain = mem[job.s].uncertain
        /\ mem'[job.s].unsure = mem[job.s].unsure
        /\ mem'[job.s].pending = mem[job.s].pending \cup {job.q}
    <2>. DEFINE r == [mem[job.s] EXCEPT !.pending = mem[job.s].pending \cup {job.q}]
    <2>1. mem' = [mem EXCEPT ![job.s] = r]
      BY Zenon DEF Submit
    <2>2. /\ r \in LocalSession
          /\ r.here = mem[job.s].here /\ r.active = mem[job.s].active /\ r.hc = mem[job.s].hc
          /\ r.aba = mem[job.s].aba /\ r.uncertain = mem[job.s].uncertain
          /\ r.unsure = mem[job.s].unsure /\ r.pending = mem[job.s].pending \cup {job.q}
      BY <1>1, Zenon DEF RInv, TypeOK, LocalSession
    <2>. HIDE DEF r
    <2>. QED
      BY <1>1, <2>1, <2>2, Zenon DEF RInv, TypeOK
  <1>3. /\ given' \in [Messages -> Nat] /\ given'[<<job.s, job.q>>] = 1
        /\ \A z \in Sessions, i \in Ins : <<z, i>> # <<job.s, job.q>> => given'[<<z, i>>] = given[<<z, i>>]
        /\ \A m \in Messages : m # <<job.s, job.q>> => given'[m] = given[m]
    BY <1>1 DEF Submit, RInv, TypeOK, Messages
  <1>4. Ack(job.s) \subseteq Packets /\ \A p \in Ack(job.s) : Backed(p)
    BY <1>1, RepliesBacked, Zenon DEF RInv
  <1>5. /\ job' \in Jobs /\ job'.at = "reply" /\ job'.s = job.s /\ job'.q = job.q
        /\ job'.mark = job.mark /\ job'.packets = Ack(job.s)
    BY <1>4, Zenon DEF Submit, RInv, TypeOK, Jobs, Stages
  <1>6. UNCHANGED <<up, connected, inbound, reserved, outbound, life, sealed, wire, confirmed, reason>>
    BY Zenon DEF Submit, disk
  <1>7. TypeOK'
    BY <1>1, <1>2, <1>3, <1>5, <1>6, Zenon DEF RInv, TypeOK
  <1>8. MemoryInv'
    BY <1>1, <1>2, <1>5, <1>6, Zenon DEF RInv, MemoryInv, Working, Active
  <1>9. JournalInv'
    BY <1>1, <1>2, <1>6 DEF RInv, JournalInv, MemoryInv
  <1>10. StageInv'
    BY <1>1, <1>2, <1>3, <1>5, <1>6, Zenon DEF RInv, StageInv, MemoryInv, Working, Active
  <1>11. OwnerInv'
    BY <1>1, <1>2, <1>5, <1>6 DEF RInv, OwnerInv, Owned, MemoryInv, StageInv
  <1>12. GivenInv'
    <2>1. GivenOnce'
      BY <1>3 DEF RInv, GivenInv, GivenOnce
    <2>2. ASSUME NEW s \in Sessions, NEW q \in Ins
          PROVE  /\ given'[<<s, q>>] > 0 =>
                      life'[s] = "closed" \/ inbound'[<<s, q>>] \in {"DISPATCH_STARTED", "RESPONDED", "UNCERTAIN"}
                 /\ q \in mem'[s].pending => given'[<<s, q>>] > 0
      <3>1. CASE s = job.s /\ q = job.q
        BY <1>1, <1>3, <1>6, <3>1
      <3>2. CASE s # job.s \/ q # job.q
        <4>1. given'[<<s, q>>] = given[<<s, q>>]
          BY <1>3, <3>2, Zenon
        <4>2. q \in mem'[s].pending => q \in mem[s].pending
          BY <1>2, <3>2, Zenon
        <4>. QED
          BY <1>6, <4>1, <4>2, Zenon DEF RInv, GivenInv
      <3>. QED
        BY <3>1, <3>2, Zenon
    <2>3. \A s \in Sessions : mem'[s].pending \subseteq Ins
      BY <1>2, Zenon DEF LocalSession
    <2>. QED
      BY <2>1, <2>2, <2>3, Zenon DEF GivenInv
  <1>13. SealInv'
    BY <1>1, <1>6, Zenon DEF RInv, SealInv, SealedOnce
  <1>14. PacketInv'
    <2>1. \A p \in wire \cup job'.packets : Backed(p)
      BY <1>4, <1>5, Zenon DEF RInv, PacketInv
    <2>. QED
      BY <1>6, <2>1, Zenon DEF PacketInv, Backed
  <1>15. UncertaintyIsRemembered'
    BY <1>1, <1>2, <1>6 DEF RInv, UncertaintyIsRemembered, StageInv, MemoryInv
  <1>. QED
    BY <1>7, <1>8, <1>9, <1>10, <1>11, <1>12, <1>13, <1>14, <1>15, Zenon DEF RInv

(* Everything the Agent owed moves from pending to the marks of the handler. *)
LEMMA SubmitFailsInv ==
    ASSUME RInv, SubmitFails
    PROVE  RInv'
  <1>1. /\ job.at = "started" /\ job.s \in Sessions /\ job.q \in Ins /\ up /\ mem[job.s].here
        /\ mem[job.s].active /\ mem[job.s].pending \subseteq Ins /\ job.q > 0
    BY MemTyped, Bounds DEF SubmitFails, RInv, TypeOK, Jobs, StageInv, MemoryInv, Working, Active
  <1>2. /\ mem' \in [Sessions -> LocalSession]
        /\ \A z \in Sessions : z # job.s => mem'[z] = mem[z]
        /\ mem'[job.s].here = mem[job.s].here
        /\ mem'[job.s].active = mem[job.s].active
        /\ mem'[job.s].hc = mem[job.s].hc
        /\ mem'[job.s].aba = mem[job.s].aba
        /\ mem'[job.s].uncertain = TRUE
        /\ mem'[job.s].unsure = job.q
        /\ mem'[job.s].pending = {}
    <2>. DEFINE r == [mem[job.s] EXCEPT !.pending = {}, !.uncertain = TRUE, !.unsure = job.q]
    <2>1. mem' = [mem EXCEPT ![job.s] = r]
      BY <1>1, Zenon DEF SubmitFails, RInv, TypeOK
    <2>2. /\ r \in LocalSession
          /\ r.here = mem[job.s].here /\ r.active = mem[job.s].active /\ r.hc = mem[job.s].hc
          /\ r.aba = mem[job.s].aba /\ r.uncertain = TRUE /\ r.unsure = job.q /\ r.pending = {}
      <3>1. mem[job.s] \in LocalSession /\ job.q \in 0 .. MaxIn
        BY <1>1, Bounds, Zenon DEF RInv, TypeOK
      <3>. QED
        BY <3>1, LostSession, Zenon
    <2>. HIDE DEF r
    <2>. QED
      BY <1>1, <2>1, <2>2, Zenon DEF RInv, TypeOK
  <1>3. /\ Ack(job.s) \cup {<<"uncertain", job.s, job.q>>} \subseteq Packets
        /\ \A p \in Ack(job.s) \cup {<<"uncertain", job.s, job.q>>} : Backed(p)
    <2>1. <<"uncertain", job.s, job.q>> \in Packets /\ Backed(<<"uncertain", job.s, job.q>>)
      BY <1>1, Zenon DEF Packets, Backed
    <2>. QED
      BY <1>1, <2>1, RepliesBacked, Zenon DEF RInv
  <1>4. /\ job' \in Jobs /\ job'.at = "mark" /\ job'.s = job.s /\ job'.q = job.q
        /\ job'.mark = mem[job.s].pending \cup {job.q}
        /\ job'.packets = Ack(job.s) \cup {<<"uncertain", job.s, job.q>>}
    BY <1>1, <1>3, Zenon DEF SubmitFails, RInv, TypeOK, Jobs, Stages
  <1>5. UNCHANGED <<up, connected, inbound, reserved, outbound, life, given, sealed, wire, confirmed, reason>>
    BY Zenon DEF SubmitFails, disk, history
  <1>6. TypeOK'
    BY <1>1, <1>2, <1>4, <1>5, Zenon DEF RInv, TypeOK
  <1>7. MemoryInv'
    BY <1>1, <1>2, <1>4, <1>5, Zenon DEF RInv, MemoryInv, Working, Active
  <1>8. JournalInv'
    BY <1>1, <1>2, <1>5 DEF RInv, JournalInv, MemoryInv
  <1>9. StageInv'
    BY <1>1, <1>2, <1>4, <1>5, Bounds, Zenon DEF RInv, StageInv, MemoryInv, Working, Active
  <1>10. OwnerInv'
    BY <1>1, <1>2, <1>4, <1>5 DEF RInv, OwnerInv, Owned, MemoryInv, StageInv
  <1>11. GivenInv'
    BY <1>1, <1>2, <1>5, Zenon DEF RInv, GivenInv, GivenOnce, StageInv, MemoryInv
  <1>12. SealInv'
    BY <1>1, <1>5, Zenon DEF RInv, SealInv, SealedOnce
  <1>13. PacketInv'
    <2>1. \A p \in wire \cup job'.packets : Backed(p)
      BY <1>3, <1>4, Zenon DEF RInv, PacketInv
    <2>. QED
      BY <1>5, <2>1, Zenon DEF PacketInv, Backed
  <1>14. UncertaintyIsRemembered'
    BY <1>1, <1>2, <1>5, Bounds DEF RInv, UncertaintyIsRemembered, StageInv, MemoryInv
  <1>. QED
    BY <1>6, <1>7, <1>8, <1>9, <1>10, <1>11, <1>12, <1>13, <1>14, Zenon DEF RInv

(* One more message the Agent owed is found uncertain. *)
LEMMA MarkUncertainInv ==
    ASSUME RInv, MarkUncertain
    PROVE  RInv'
  <1>1. /\ job.at = "mark" /\ job.s \in Sessions /\ job.mark \subseteq Ins /\ up /\ mem[job.s].here
        /\ mem[job.s].uncertain /\ mem[job.s].unsure > 0 /\ mem[job.s].pending = {}
    BY Zenon DEF MarkUncertain, RInv, TypeOK, Jobs, StageInv, MemoryInv, Working, Active
  <1>2. PICK q \in job.mark :
             /\ inbound' = [inbound EXCEPT ![<<job.s, q>>] = "UNCERTAIN"]
             /\ job' = [job EXCEPT !.mark = @ \ {q},
                                   !.at = IF job.mark = {q} THEN "reply" ELSE "mark"]
    BY Zenon DEF MarkUncertain
  <1>3. /\ inbound' \in [Messages -> States] /\ inbound'[<<job.s, q>>] = "UNCERTAIN"
        /\ \A z \in Sessions, i \in Ins : <<z, i>> # <<job.s, q>> => inbound'[<<z, i>>] = inbound[<<z, i>>]
    BY <1>1, <1>2, Zenon DEF RInv, TypeOK, Messages, States
  <1>4. /\ job' \in Jobs /\ job'.s = job.s /\ job'.q = job.q
        /\ job'.mark = job.mark \ {q} /\ job'.packets = job.packets
        /\ job'.at = "mark" \/ (job'.at = "reply" /\ job.mark = {q})
    BY <1>1, <1>2, Zenon DEF RInv, TypeOK, Jobs, Stages
  <1>5. UNCHANGED <<up, connected, mem, reserved, outbound, life, given, sealed, wire, confirmed, reason>>
    BY Zenon DEF MarkUncertain, history
  <1>6. q \in Ins /\ inbound[<<job.s, q>>] = "DISPATCH_STARTED" /\ life[job.s] = "opened"
    BY <1>1, <1>2, Zenon DEF RInv, OwnerInv, Owned, MemoryInv
  <1>7. TypeOK'
    BY <1>1, <1>2, <1>3, <1>4, <1>5, Zenon DEF RInv, TypeOK
  <1>8. MemoryInv'
    BY <1>1, <1>2, <1>4, <1>5, <1>6, Zenon DEF RInv, MemoryInv, Working, Active
  <1>9. JournalInv'
    BY <1>1, <1>2, <1>3, <1>5, <1>6 DEF RInv, JournalInv, MemoryInv
  <1>10. StageInv'
    BY <1>1, <1>2, <1>3, <1>4, <1>5, <1>6, Zenon DEF RInv, StageInv, MemoryInv, Working, Active
  <1>11. OwnerInv'
    BY <1>1, <1>2, <1>3, <1>4, <1>5, <1>6 DEF RInv, OwnerInv, Owned, MemoryInv, StageInv
  <1>12. GivenInv'
    BY <1>1, <1>2, <1>3, <1>5, <1>6 DEF RInv, GivenInv, GivenOnce, StageInv, MemoryInv
  <1>13. SealInv'
    BY <1>1, <1>5, <1>6, Zenon DEF RInv, SealInv, SealedOnce
  <1>14. PacketInv'
    BY <1>1, <1>2, <1>3, <1>4, <1>5, <1>6, StillBacked, PacketsTyped DEF RInv, PacketInv
  <1>15. UncertaintyIsRemembered'
    BY <1>1, <1>2, <1>3, <1>5, <1>6 DEF RInv, UncertaintyIsRemembered, StageInv, MemoryInv
  <1>. QED
    BY <1>7, <1>8, <1>9, <1>10, <1>11, <1>12, <1>13, <1>14, <1>15, Zenon DEF RInv

(* The Agent produced something to seal. *)
LEMMA AgentMessageInv ==
    ASSUME RInv, NEW s \in Sessions, NEW q \in 0 .. MaxIn, AgentMessage(s, q)
    PROVE  RInv'
  <1>1. /\ up /\ connected /\ job.at = "idle" /\ mem[s].here /\ mem[s].active
        /\ q \in mem[s].pending \cup {0} /\ reserved[s] < MaxOut
    BY Zenon DEF AgentMessage, Polls, Ready, Active
  <1>2. /\ job' \in Jobs /\ job'.at = "reserve" /\ job'.s = s
        /\ job'.q = q /\ job'.mark = {} /\ job'.packets = {}
    BY JobTyped DEF AgentMessage, Stages
  <1>3. UNCHANGED <<up, connected, mem, inbound, reserved, outbound, life, given, sealed, wire, confirmed, reason>>
    BY Zenon DEF AgentMessage, disk, history
  <1>4. TypeOK'
    BY <1>1, <1>2, <1>3, Zenon DEF RInv, TypeOK
  <1>5. MemoryInv'
    BY <1>1, <1>2, <1>3, Zenon DEF RInv, MemoryInv, Working, Active
  <1>6. JournalInv'
    BY <1>1, <1>3, Zenon DEF RInv, JournalInv, MemoryInv
  <1>7. StageInv'
    BY <1>1, <1>2, <1>3, Zenon DEF RInv, StageInv, MemoryInv, Working, Active
  <1>8. OwnerInv'
    BY <1>1, <1>2, <1>3, Zenon DEF RInv, OwnerInv, Owned, MemoryInv, StageInv
  <1>9. GivenInv'
    BY <1>1, <1>3, Zenon DEF RInv, GivenInv, GivenOnce, StageInv, MemoryInv
  <1>10. SealInv'
    BY <1>1, <1>3, Zenon DEF RInv, SealInv, SealedOnce
  <1>11. PacketInv'
    BY <1>1, <1>2, <1>3, Zenon DEF RInv, PacketInv, Backed, MemoryInv
  <1>12. UncertaintyIsRemembered'
    BY <1>1, <1>3, Zenon DEF RInv, UncertaintyIsRemembered, StageInv, MemoryInv
  <1>. QED
    BY <1>4, <1>5, <1>6, <1>7, <1>8, <1>9, <1>10, <1>11, <1>12, Zenon DEF RInv

(* The Agent took a message that has no answer. *)
LEMMA AgentWrittenInv ==
    ASSUME RInv, NEW s \in Sessions, NEW q \in Ins, AgentWritten(s, q)
    PROVE  RInv'
  <1>1. up /\ connected /\ job.at = "idle" /\ mem[s].here /\ mem[s].active /\ q \in mem[s].pending
    BY Zenon DEF AgentWritten, Polls, Ready, Active
  <1>2. /\ job' \in Jobs /\ job'.at = "respond" /\ job'.s = s
        /\ job'.q = q /\ job'.mark = {} /\ job'.packets = {}
    BY JobTyped, Bounds DEF AgentWritten, Stages
  <1>3. UNCHANGED <<up, connected, mem, inbound, reserved, outbound, life, given, sealed, wire, confirmed, reason>>
    BY Zenon DEF AgentWritten, disk, history
  <1>4. TypeOK'
    BY <1>1, <1>2, <1>3, Zenon DEF RInv, TypeOK
  <1>5. MemoryInv'
    BY <1>1, <1>2, <1>3, Zenon DEF RInv, MemoryInv, Working, Active
  <1>6. JournalInv'
    BY <1>1, <1>3, Zenon DEF RInv, JournalInv, MemoryInv
  <1>7. StageInv'
    BY <1>1, <1>2, <1>3, Zenon DEF RInv, StageInv, MemoryInv, Working, Active
  <1>8. OwnerInv'
    BY <1>1, <1>2, <1>3, Zenon DEF RInv, OwnerInv, Owned, MemoryInv, StageInv
  <1>9. GivenInv'
    BY <1>1, <1>3, Zenon DEF RInv, GivenInv, GivenOnce, StageInv, MemoryInv
  <1>10. SealInv'
    BY <1>1, <1>3, Zenon DEF RInv, SealInv, SealedOnce
  <1>11. PacketInv'
    BY <1>1, <1>2, <1>3, Zenon DEF RInv, PacketInv, Backed, MemoryInv
  <1>12. UncertaintyIsRemembered'
    BY <1>1, <1>3, Zenon DEF RInv, UncertaintyIsRemembered, StageInv, MemoryInv
  <1>. QED
    BY <1>4, <1>5, <1>6, <1>7, <1>8, <1>9, <1>10, <1>11, <1>12, Zenon DEF RInv

(* Everything the failed Agent owed moves to the marks of the handler. *)
LEMMA AgentFailsInv ==
    ASSUME RInv, NEW s \in Sessions, AgentFails(s)
    PROVE  RInv'
  <1>1. /\ up /\ connected /\ job.at = "idle" /\ mem[s].here /\ mem[s].active /\ ~mem[s].uncertain
        /\ mem[s].pending \subseteq Ins
    BY MemTyped, Zenon DEF AgentFails, Polls, Ready, Active, RInv
  <1>2. PICK q \in IF mem[s].pending = {} THEN {0} ELSE mem[s].pending :
             /\ mem' = [mem EXCEPT ![s].pending = {}, ![s].uncertain = TRUE, ![s].unsure = q]
             /\ job' = IF q = 0 THEN Idle
                       ELSE [Job("mark", s, q) EXCEPT !.mark = mem[s].pending,
                                                      !.packets = {<<"uncertain", s, q>>}]
    BY Zenon DEF AgentFails
  <1>3. /\ q \in 0 .. MaxIn
        /\ (q = 0 /\ mem[s].pending = {}) \/ (q > 0 /\ q \in mem[s].pending /\ q \in Ins)
    BY <1>1, <1>2, Bounds, RelayAssumption
  <1>4. /\ mem' \in [Sessions -> LocalSession]
        /\ \A z \in Sessions : z # s => mem'[z] = mem[z]
        /\ mem'[s].here = mem[s].here
        /\ mem'[s].active = mem[s].active
        /\ mem'[s].hc = mem[s].hc
        /\ mem'[s].aba = mem[s].aba
        /\ mem'[s].uncertain = TRUE
        /\ mem'[s].unsure = q
        /\ mem'[s].pending = {}
    <2>. DEFINE r == [mem[s] EXCEPT !.pending = {}, !.uncertain = TRUE, !.unsure = q]
    <2>1. mem' = [mem EXCEPT ![s] = r]
      BY <1>2, Zenon DEF RInv, TypeOK
    <2>2. /\ r \in LocalSession
          /\ r.here = mem[s].here /\ r.active = mem[s].active /\ r.hc = mem[s].hc
          /\ r.aba = mem[s].aba /\ r.uncertain = TRUE /\ r.unsure = q /\ r.pending = {}
      <3>1. mem[s] \in LocalSession
        BY Zenon DEF RInv, TypeOK
      <3>. QED
        BY <1>3, <3>1, LostSession, Zenon
    <2>. HIDE DEF r
    <2>. QED
      BY <2>1, <2>2, Zenon DEF RInv, TypeOK
  <1>5. /\ job' \in Jobs
        /\ \/ q = 0 /\ job'.at = "idle" /\ job'.packets = {}
           \/ /\ q > 0 /\ job'.at = "mark" /\ job'.s = s /\ job'.q = q /\ job'.mark = mem[s].pending
              /\ job'.packets = {<<"uncertain", s, q>>}
    <2>1. CASE q = 0
      BY <1>2, <2>1, JobTyped, Zenon
    <2>2. CASE q > 0
      <3>1. {<<"uncertain", s, q>>} \in SUBSET Packets /\ "mark" \in Stages
        BY <1>3, <2>2 DEF Packets, Stages
      <3>. DEFINE j == Job("mark", s, q)
                  ps == {<<"uncertain", s, q>>}
      <3>2. j \in Jobs /\ j.at = "mark" /\ j.s = s /\ j.q = q
        BY <1>3, <3>1, JobTyped
      <3>3. job' = [j EXCEPT !.mark = mem[s].pending, !.packets = ps]
        BY <1>2, <2>2
      <3>4. mem[s].pending \in SUBSET Ins /\ ps \in SUBSET Packets
        BY <1>1, <3>1, Zenon
      <3>. HIDE DEF j, ps
      <3>5. /\ job' \in Jobs /\ job'.at = "mark" /\ job'.s = s /\ job'.q = q
            /\ job'.mark = mem[s].pending /\ job'.packets = ps
        BY <3>2, <3>3, <3>4, Zenon DEF Jobs
      <3>. QED
        BY <2>2, <3>5, Zenon DEF ps
    <2>. QED
      BY <1>3, <2>1, <2>2, Zenon
  <1>6. UNCHANGED <<up, connected, inbound, reserved, outbound, life, given, sealed, wire, confirmed, reason>>
    BY Zenon DEF AgentFails, disk, history
  <1>7. TypeOK'
    BY <1>1, <1>2, <1>4, <1>5, <1>6, Zenon DEF RInv, TypeOK
  <1>8. MemoryInv'
    BY <1>1, <1>2, <1>3, <1>4, <1>5, <1>6, Zenon DEF RInv, MemoryInv, Working, Active
  <1>9. JournalInv'
    BY <1>1, <1>2, <1>3, <1>4, <1>6 DEF RInv, JournalInv, MemoryInv
  <1>10. StageInv'
    BY <1>1, <1>2, <1>3, <1>4, <1>5, <1>6 DEF RInv, StageInv, MemoryInv, Working, Active
  <1>11. OwnerInv'
    BY <1>1, <1>2, <1>3, <1>4, <1>5, <1>6 DEF RInv, OwnerInv, Owned, MemoryInv, StageInv
  <1>12. GivenInv'
    BY <1>1, <1>2, <1>3, <1>4, <1>6, Zenon DEF RInv, GivenInv, GivenOnce, StageInv, MemoryInv
  <1>13. SealInv'
    BY <1>1, <1>3, <1>6, Zenon DEF RInv, SealInv, SealedOnce
  <1>14. PacketInv'
    <2>1. Backed(<<"uncertain", s, q>>)
      BY Zenon DEF Backed
    <2>2. \A p \in wire \cup job'.packets : Backed(p)
      BY <1>5, <2>1, Zenon DEF RInv, PacketInv
    <2>. QED
      BY <1>6, <2>2, Zenon DEF PacketInv, Backed
  <1>15. UncertaintyIsRemembered'
    <2>1. ~mem[s].uncertain => \A i \in Ins : inbound[<<s, i>>] # "UNCERTAIN"
      BY <1>1, Zenon DEF RInv, UncertaintyIsRemembered
    <2>. QED
      BY <1>1, <1>4, <1>6, <2>1, Zenon DEF RInv, UncertaintyIsRemembered
  <1>. QED
    BY <1>7, <1>8, <1>9, <1>10, <1>11, <1>12, <1>13, <1>14, <1>15, Zenon DEF RInv

(* The next sequence was never used and is now spoken for. *)
LEMMA ReserveInv ==
    ASSUME RInv, Reserve
    PROVE  RInv'
  <1>1. /\ job.at = "reserve" /\ job.s \in Sessions /\ up /\ mem[job.s].here /\ mem[job.s].active
        /\ life[job.s] = "opened" /\ reserved[job.s] \in 0 .. MaxOut /\ reserved[job.s] < MaxOut
        /\ job.q \in mem[job.s].pending \cup {0}
    BY Zenon DEF Reserve, RInv, TypeOK, Jobs, StageInv, MemoryInv, Working, Active
  <1>2. reserved[job.s] + 1 \in Outs /\ reserved[job.s] + 1 > reserved[job.s]
    BY <1>1, RelayAssumption DEF Outs
  <1>3. /\ reserved' \in [Sessions -> 0 .. MaxOut] /\ reserved'[job.s] = reserved[job.s] + 1
        /\ \A z \in Sessions : z # job.s => reserved'[z] = reserved[z]
    BY <1>1, <1>2, Bounds, Zenon DEF Reserve, RInv, TypeOK
  <1>4. /\ mem' \in [Sessions -> LocalSession]
        /\ \A z \in Sessions : z # job.s => mem'[z] = mem[z]
        /\ mem'[job.s].here = mem[job.s].here
        /\ mem'[job.s].active = mem[job.s].active
        /\ mem'[job.s].hc = mem[job.s].hc
        /\ mem'[job.s].aba = reserved[job.s] + 1
        /\ mem'[job.s].uncertain = mem[job.s].uncertain
        /\ mem'[job.s].unsure = mem[job.s].unsure
        /\ mem'[job.s].pending = mem[job.s].pending
    <2>. DEFINE n == reserved[job.s] + 1
                r == [mem[job.s] EXCEPT !.aba = n]
    <2>1. mem' = [mem EXCEPT ![job.s] = r]
      BY Zenon DEF Reserve
    <2>3. n \in 0 .. MaxOut /\ mem[job.s] \in LocalSession
      BY <1>1, <1>2, Bounds, Zenon DEF RInv, TypeOK
    <2>4. n = reserved[job.s] + 1
      BY Zenon
    <2>. HIDE DEF n
    <2>2. /\ r \in LocalSession
          /\ r.here = mem[job.s].here /\ r.active = mem[job.s].active /\ r.hc = mem[job.s].hc
          /\ r.aba = reserved[job.s] + 1 /\ r.uncertain = mem[job.s].uncertain
          /\ r.unsure = mem[job.s].unsure /\ r.pending = mem[job.s].pending
      BY <2>3, <2>4, Zenon DEF LocalSession
    <2>. HIDE DEF r
    <2>. QED
      BY <1>1, <2>1, <2>2, Zenon DEF RInv, TypeOK
  <1>5. sealed[<<job.s, reserved[job.s] + 1>>] = 0
    BY <1>1, <1>2, Zenon DEF RInv, SealInv
  <1>6. /\ sealed' \in [Sessions \X Outs -> Nat] /\ sealed'[<<job.s, reserved[job.s] + 1>>] = 1
        /\ \A k \in Sessions \X Outs : k # <<job.s, reserved[job.s] + 1>> => sealed'[k] = sealed[k]
    <2>. DEFINE k == <<job.s, reserved[job.s] + 1>>
    <2>1. sealed' = [sealed EXCEPT ![k] = sealed[k] + 1]
      BY Zenon DEF Reserve
    <2>2. k \in Sessions \X Outs /\ sealed[k] = 0
      BY <1>1, <1>2, <1>5, Zenon
    <2>. HIDE DEF k
    <2>3. /\ sealed' \in [Sessions \X Outs -> Nat] /\ sealed'[k] = 1
          /\ \A j \in Sessions \X Outs : j # k => sealed'[j] = sealed[j]
      BY <2>1, <2>2 DEF RInv, TypeOK
    <2>. QED
      BY <2>3, Zenon DEF k
  <1>7. /\ job' \in Jobs /\ job'.at = "record" /\ job'.s = job.s /\ job'.q = job.q
        /\ job'.mark = job.mark /\ job'.packets = job.packets
    BY Zenon DEF Reserve, RInv, TypeOK, Jobs, Stages
  <1>8. UNCHANGED <<up, connected, inbound, outbound, life, given, wire, confirmed, reason>>
    BY Zenon DEF Reserve
  <1>9. TypeOK'
    BY <1>1, <1>3, <1>4, <1>6, <1>7, <1>8, Zenon DEF RInv, TypeOK
  <1>10. MemoryInv'
    BY <1>1, <1>2, <1>4, <1>5, <1>7, <1>8, Zenon DEF RInv, MemoryInv, Working, Active
  <1>11. JournalInv'
    BY <1>1, <1>2, <1>3, <1>4, <1>5, <1>8 DEF RInv, JournalInv, MemoryInv
  <1>12. StageInv'
    BY <1>1, <1>2, <1>3, <1>4, <1>5, <1>7, <1>8 DEF RInv, StageInv, MemoryInv, Working, Active
  <1>13. OwnerInv'
    BY <1>1, <1>2, <1>4, <1>5, <1>7, <1>8 DEF RInv, OwnerInv, Owned, MemoryInv, StageInv
  <1>14. GivenInv'
    BY <1>1, <1>2, <1>4, <1>5, <1>8 DEF RInv, GivenInv, GivenOnce, StageInv, MemoryInv
  <1>15. SealInv'
    <2>1. SealedOnce'
      BY <1>6 DEF RInv, SealInv, SealedOnce
    <2>2. ASSUME NEW s \in Sessions, NEW n \in Outs, life'[s] # "closed", n > reserved'[s]
          PROVE  sealed'[<<s, n>>] = 0
      <3>1. n > reserved[s] /\ <<s, n>> # <<job.s, reserved[job.s] + 1>>
        <4>1. CASE s = job.s
          BY <1>1, <1>3, <2>2, <4>1, Bounds
        <4>2. CASE s # job.s
          BY <1>3, <2>2, <4>2, Zenon
        <4>. QED
          BY <4>1, <4>2, Zenon
      <3>. QED
        BY <1>6, <1>8, <2>2, <3>1, Zenon DEF RInv, SealInv
    <2>. QED
      BY <2>1, <2>2, Zenon DEF SealInv
  <1>16. PacketInv'
    BY <1>1, <1>2, <1>5, <1>7, <1>8, StillBacked, PacketsTyped, Zenon DEF RInv, PacketInv
  <1>17. UncertaintyIsRemembered'
    BY <1>1, <1>2, <1>4, <1>5, <1>8 DEF RInv, UncertaintyIsRemembered, StageInv, MemoryInv
  <1>. QED
    BY <1>9, <1>10, <1>11, <1>12, <1>13, <1>14, <1>15, <1>16, <1>17, Zenon DEF RInv

(* A frame is in the journal before it can be sent. *)
LEMMA RecordOutboundInv ==
    ASSUME RInv, RecordOutbound
    PROVE  RInv'
  <1>1. /\ job.at = "record" /\ job.s \in Sessions /\ up /\ mem[job.s].here /\ mem[job.s].active
        /\ life[job.s] = "opened" /\ mem[job.s].aba \in Outs /\ job.q \in mem[job.s].pending \cup {0}
    BY Zenon DEF RecordOutbound, RInv, TypeOK, Jobs, StageInv, MemoryInv, Working, Active
  <1>2. /\ outbound' \in [Sessions -> SUBSET Outs] /\ outbound'[job.s] = outbound[job.s] \cup {mem[job.s].aba}
        /\ \A z \in Sessions : z # job.s => outbound'[z] = outbound[z]
    BY <1>1, Zenon DEF RecordOutbound, RInv, TypeOK
  <1>3. <<"frame", job.s, mem[job.s].aba>> \in Packets
    BY <1>1, Zenon DEF Packets
  <1>4. /\ job' \in Jobs /\ job'.s = job.s /\ job'.q = job.q /\ job'.mark = job.mark
        /\ job'.packets = {<<"frame", job.s, mem[job.s].aba>>}
        /\ (job'.at = "reply" /\ job.q = 0) \/ (job'.at = "respond" /\ job.q # 0)
    BY <1>1, <1>3, Zenon DEF RecordOutbound, RInv, TypeOK, Jobs, Stages
  <1>5. UNCHANGED <<up, connected, mem, inbound, reserved, life, given, sealed, wire, confirmed, reason>>
    BY Zenon DEF RecordOutbound, history
  <1>6. TypeOK'
    BY <1>1, <1>2, <1>4, <1>5, Zenon DEF RInv, TypeOK
  <1>7. MemoryInv'
    BY <1>1, <1>4, <1>5, Zenon DEF RInv, MemoryInv, Working, Active
  <1>8. JournalInv'
    BY <1>1, <1>2, <1>5 DEF RInv, JournalInv, MemoryInv
  <1>9. StageInv'
    BY <1>1, <1>4, <1>5, Zenon DEF RInv, StageInv, MemoryInv, Working, Active
  <1>10. OwnerInv'
    BY <1>1, <1>4, <1>5, Zenon DEF RInv, OwnerInv, Owned, MemoryInv, StageInv
  <1>11. GivenInv'
    BY <1>1, <1>5, Zenon DEF RInv, GivenInv, GivenOnce, StageInv, MemoryInv
  <1>12. SealInv'
    BY <1>1, <1>5, Zenon DEF RInv, SealInv, SealedOnce
  <1>13. PacketInv'
    <2>1. ASSUME NEW p \in Packets, p[1] = "frame", p[2] = job.s, p[3] = mem[job.s].aba
          PROVE  Backed(p)'
      BY <1>2, <2>1, Zenon DEF Backed
    <2>2. \A p \in job'.packets :
             p \in Packets /\ p[1] = "frame" /\ p[2] = job.s /\ p[3] = mem[job.s].aba
      BY <1>3, <1>4
    <2>3. \A p \in wire : Backed(p)'
      BY <1>1, <1>2, <1>5, StillBacked, PacketsTyped, Zenon DEF RInv, PacketInv
    <2>. QED
      BY <1>5, <2>1, <2>2, <2>3, Zenon DEF PacketInv
  <1>14. UncertaintyIsRemembered'
    BY <1>1, <1>5, Zenon DEF RInv, UncertaintyIsRemembered, StageInv, MemoryInv
  <1>. QED
    BY <1>6, <1>7, <1>8, <1>9, <1>10, <1>11, <1>12, <1>13, <1>14, Zenon DEF RInv

(* A completed dispatch leaves pending as its record becomes RESPONDED. *)
LEMMA MarkRespondedInv ==
    ASSUME RInv, MarkResponded
    PROVE  RInv'
  <1>1. /\ job.at = "respond" /\ job.s \in Sessions /\ up /\ mem[job.s].here /\ mem[job.s].active
        /\ life[job.s] = "opened" /\ job.q \in mem[job.s].pending /\ mem[job.s].pending \subseteq Ins
    BY MemTyped, Zenon DEF MarkResponded, RInv, TypeOK, Jobs, StageInv, MemoryInv, Working, Active
  <1>2. /\ inbound' \in [Messages -> States] /\ inbound'[<<job.s, job.q>>] = "RESPONDED"
        /\ \A z \in Sessions, i \in Ins : <<z, i>> # <<job.s, job.q>> => inbound'[<<z, i>>] = inbound[<<z, i>>]
    BY <1>1, Zenon DEF MarkResponded, RInv, TypeOK, Messages, States
  <1>3. /\ mem' \in [Sessions -> LocalSession]
        /\ \A z \in Sessions : z # job.s => mem'[z] = mem[z]
        /\ mem'[job.s].here = mem[job.s].here
        /\ mem'[job.s].active = mem[job.s].active
        /\ mem'[job.s].hc = mem[job.s].hc
        /\ mem'[job.s].aba = mem[job.s].aba
        /\ mem'[job.s].uncertain = mem[job.s].uncertain
        /\ mem'[job.s].unsure = mem[job.s].unsure
        /\ mem'[job.s].pending = mem[job.s].pending \ {job.q}
    <2>. DEFINE r == [mem[job.s] EXCEPT !.pending = mem[job.s].pending \ {job.q}]
    <2>1. mem' = [mem EXCEPT ![job.s] = r]
      BY Zenon DEF MarkResponded
    <2>2. /\ r \in LocalSession
          /\ r.here = mem[job.s].here /\ r.active = mem[job.s].active /\ r.hc = mem[job.s].hc
          /\ r.aba = mem[job.s].aba /\ r.uncertain = mem[job.s].uncertain
          /\ r.unsure = mem[job.s].unsure /\ r.pending = mem[job.s].pending \ {job.q}
      BY <1>1, Zenon DEF RInv, TypeOK, LocalSession
    <2>. HIDE DEF r
    <2>. QED
      BY <1>1, <2>1, <2>2, Zenon DEF RInv, TypeOK
  <1>4. /\ job' \in Jobs /\ job'.at = "reply" /\ job'.s = job.s /\ job'.q = job.q
        /\ job'.mark = job.mark /\ job'.packets = job.packets
    BY Zenon DEF MarkResponded, RInv, TypeOK, Jobs, Stages
  <1>5. UNCHANGED <<up, connected, reserved, outbound, life, given, sealed, wire, confirmed, reason>>
    BY Zenon DEF MarkResponded, history
  <1>6. inbound[<<job.s, job.q>>] = "DISPATCH_STARTED"
    BY <1>1, Zenon DEF RInv, OwnerInv, Owned
  <1>7. TypeOK'
    BY <1>1, <1>2, <1>3, <1>4, <1>5, Zenon DEF RInv, TypeOK
  <1>8. MemoryInv'
    BY <1>1, <1>3, <1>4, <1>5, <1>6, Zenon DEF RInv, MemoryInv, Working, Active
  <1>9. JournalInv'
    BY <1>1, <1>2, <1>3, <1>5, <1>6 DEF RInv, JournalInv, MemoryInv
  <1>10. StageInv'
    BY <1>1, <1>2, <1>3, <1>4, <1>5, <1>6, Zenon DEF RInv, StageInv, MemoryInv, Working, Active
  <1>11. OwnerInv'
    BY <1>1, <1>2, <1>3, <1>4, <1>5, <1>6 DEF RInv, OwnerInv, Owned, MemoryInv, StageInv
  <1>12. GivenInv'
    BY <1>1, <1>2, <1>3, <1>5, <1>6 DEF RInv, GivenInv, GivenOnce, StageInv, MemoryInv
  <1>13. SealInv'
    BY <1>1, <1>5, <1>6, Zenon DEF RInv, SealInv, SealedOnce
  <1>14. PacketInv'
    BY <1>1, <1>2, <1>4, <1>5, <1>6, StillBacked, PacketsTyped, Zenon DEF RInv, PacketInv
  <1>15. UncertaintyIsRemembered'
    BY <1>1, <1>2, <1>3, <1>6 DEF RInv, UncertaintyIsRemembered, StageInv, MemoryInv
  <1>. QED
    BY <1>7, <1>8, <1>9, <1>10, <1>11, <1>12, <1>13, <1>14, <1>15, Zenon DEF RInv

(* What is sent was backed when the handler put it together. *)
LEMMA ReplyInv ==
    ASSUME RInv, Reply
    PROVE  RInv'
  <1>1. job.at = "reply" /\ wire \subseteq Packets /\ job.packets \subseteq Packets
    BY PacketsTyped, Zenon DEF Reply, RInv
  <1>2. wire' \subseteq wire \cup job.packets /\ connected' \in BOOLEAN
    BY Zenon DEF Reply
  <1>3. job'.at = "idle" /\ job'.packets = {} /\ job' \in Jobs
    BY JobTyped, Zenon DEF Reply
  <1>4. UNCHANGED <<up, mem, inbound, reserved, outbound, life, given, sealed, confirmed, reason>>
    BY Zenon DEF Reply, disk
  <1>5. TypeOK'
    BY <1>1, <1>2, <1>3, <1>4, Zenon DEF RInv, TypeOK
  <1>6. MemoryInv'
    BY <1>1, <1>3, <1>4, Zenon DEF RInv, MemoryInv, Working, Active
  <1>7. JournalInv'
    BY <1>1, <1>4, Zenon DEF RInv, JournalInv, MemoryInv
  <1>8. StageInv'
    BY <1>1, <1>3, <1>4, Zenon DEF RInv, StageInv, MemoryInv, Working, Active
  <1>9. OwnerInv'
    BY <1>1, <1>3, <1>4, Zenon DEF RInv, OwnerInv, Owned, MemoryInv, StageInv
  <1>10. GivenInv'
    BY <1>1, <1>4, Zenon DEF RInv, GivenInv, GivenOnce, StageInv, MemoryInv
  <1>11. SealInv'
    BY <1>1, <1>4, Zenon DEF RInv, SealInv, SealedOnce
  <1>12. PacketInv'
    BY <1>1, <1>2, <1>3, <1>4, Zenon DEF RInv, PacketInv, Backed
  <1>13. UncertaintyIsRemembered'
    BY <1>1, <1>4, Zenon DEF RInv, UncertaintyIsRemembered, StageInv, MemoryInv
  <1>. QED
    BY <1>5, <1>6, <1>7, <1>8, <1>9, <1>10, <1>11, <1>12, <1>13, Zenon DEF RInv

(* What the journal drops is confirmed. *)
LEMMA AckFrameInv ==
    ASSUME RInv, NEW s \in Sessions, NEW h \in 0 .. MaxOut, NEW more \in SUBSET Outs, AckFrame(s, h, more)
    PROVE  RInv'
  <1>1. up /\ connected /\ job.at = "idle" /\ mem[s].here /\ (1 .. h) \cup more \subseteq Outs
    BY Zenon DEF AckFrame, Ready, Active
  <1>2. /\ outbound' \in [Sessions -> SUBSET Outs] /\ confirmed' \in [Sessions -> SUBSET Outs]
        /\ outbound'[s] = outbound[s] \ ((1 .. h) \cup more)
        /\ confirmed'[s] = confirmed[s] \cup (1 .. h) \cup more
        /\ \A z \in Sessions : z # s => outbound'[z] = outbound[z] /\ confirmed'[z] = confirmed[z]
    <2>. DEFINE A == (1 .. h) \cup more
    <2>1. A \subseteq Outs
      BY <1>1, Zenon
    <2>2. /\ outbound' = [outbound EXCEPT ![s] = outbound[s] \ A]
          /\ confirmed' = [confirmed EXCEPT ![s] = confirmed[s] \cup A]
      BY Zenon DEF AckFrame
    <2>. HIDE DEF A
    <2>3. /\ outbound' \in [Sessions -> SUBSET Outs] /\ confirmed' \in [Sessions -> SUBSET Outs]
          /\ outbound'[s] = outbound[s] \ A /\ confirmed'[s] = confirmed[s] \cup A
          /\ \A z \in Sessions : z # s => outbound'[z] = outbound[z] /\ confirmed'[z] = confirmed[z]
      BY <2>1, <2>2, Zenon DEF RInv, TypeOK
    <2>. QED
      BY <2>3, Zenon DEF A
  <1>3. UNCHANGED <<up, connected, mem, job, inbound, reserved, life, given, sealed, wire, reason>>
    BY Zenon DEF AckFrame
  <1>4. \A z \in Sessions : /\ outbound[z] \cup confirmed[z] \subseteq outbound'[z] \cup confirmed'[z]
                          /\ outbound'[z] \subseteq outbound[z]
    BY <1>2, Zenon
  <1>5. TypeOK'
    BY <1>1, <1>2, <1>3, <1>4, Zenon DEF RInv, TypeOK
  <1>6. MemoryInv'
    BY <1>1, <1>3, Zenon DEF RInv, MemoryInv, Working, Active
  <1>7. JournalInv'
    BY <1>3, <1>4, Zenon DEF RInv, JournalInv, MemoryInv
  <1>8. StageInv'
    BY <1>1, <1>3, Zenon DEF RInv, StageInv, MemoryInv, Working, Active
  <1>9. OwnerInv'
    BY <1>1, <1>3, Zenon DEF RInv, OwnerInv, Owned, MemoryInv, StageInv
  <1>10. GivenInv'
    BY <1>1, <1>3, Zenon DEF RInv, GivenInv, GivenOnce, StageInv, MemoryInv
  <1>11. SealInv'
    BY <1>1, <1>3, Zenon DEF RInv, SealInv, SealedOnce
  <1>12. PacketInv'
    BY <1>3, <1>4, StillBacked, PacketsTyped, Zenon DEF RInv, PacketInv
  <1>13. UncertaintyIsRemembered'
    BY <1>1, <1>3, Zenon DEF RInv, UncertaintyIsRemembered, StageInv, MemoryInv
  <1>. QED
    BY <1>5, <1>6, <1>7, <1>8, <1>9, <1>10, <1>11, <1>12, <1>13, Zenon DEF RInv

(* A broken connection changes nothing else. *)
LEMMA DisconnectInv ==
    ASSUME RInv, Disconnect
    PROVE  RInv'
  <1>1. connected' = FALSE
    BY Zenon DEF Disconnect
  <1>2. UNCHANGED <<up, mem, job, inbound, reserved, outbound, life, given, sealed, wire, confirmed, reason>>
    BY Zenon DEF Disconnect, disk, history
  <1>3. TypeOK'
    BY <1>1, <1>2, Zenon DEF RInv, TypeOK
  <1>4. MemoryInv'
    BY <1>1, <1>2, Zenon DEF RInv, MemoryInv, Working, Active
  <1>5. JournalInv'
    BY <1>1, <1>2, Zenon DEF RInv, JournalInv, MemoryInv
  <1>6. StageInv'
    BY <1>1, <1>2, Zenon DEF RInv, StageInv, MemoryInv, Working, Active
  <1>7. OwnerInv'
    BY <1>1, <1>2 DEF RInv, OwnerInv, Owned, MemoryInv, StageInv
  <1>8. GivenInv'
    BY <1>1, <1>2, Zenon DEF RInv, GivenInv, GivenOnce, StageInv, MemoryInv
  <1>9. SealInv'
    BY <1>1, <1>2, Zenon DEF RInv, SealInv, SealedOnce
  <1>10. PacketInv'
    BY <1>1, <1>2, Zenon DEF RInv, PacketInv, Backed, MemoryInv
  <1>11. UncertaintyIsRemembered'
    BY <1>1, <1>2, Zenon DEF RInv, UncertaintyIsRemembered, StageInv, MemoryInv
  <1>. QED
    BY <1>3, <1>4, <1>5, <1>6, <1>7, <1>8, <1>9, <1>10, <1>11, Zenon DEF RInv

(* A new connection repeats only what is durable. *)
LEMMA ReconnectInv ==
    ASSUME RInv, Reconnect
    PROVE  RInv'
  <1>1. up /\ job.at = "idle" /\ connected' = TRUE
    BY Zenon DEF Reconnect
  <1>2. PICK ps : /\ ps = UNION {Ack(s) \cup Frames(s)
                             \cup (IF mem[s].unsure > 0 THEN {<<"uncertain", s, mem[s].unsure>>} ELSE {})
                             : s \in {z \in Sessions : Active(z)}}
                  /\ job' = [Idle EXCEPT !.at = "reply", !.packets = ps]
    BY Zenon DEF Reconnect
  <1>3. ps \subseteq Packets /\ \A p \in ps : Backed(p)
    <2>1. SUFFICES ASSUME NEW s \in Sessions, Active(s),
                          NEW p \in Ack(s) \cup Frames(s)
                            \cup (IF mem[s].unsure > 0 THEN {<<"uncertain", s, mem[s].unsure>>} ELSE {})
                   PROVE  p \in Packets /\ Backed(p)
      BY <1>2, Zenon
    <2>2. CASE p \in Ack(s) \cup Frames(s)
      BY <2>1, <2>2, RepliesBacked, Zenon DEF RInv, Active
    <2>3. CASE p = <<"uncertain", s, mem[s].unsure>> /\ mem[s].unsure > 0
      <3>1. mem[s].unsure \in Ins
        BY <2>3, MemTyped, RelayAssumption DEF RInv, Ins
      <3>. QED
        BY <2>3, <3>1, Zenon DEF Packets, Backed
    <2>. QED
      BY <2>2, <2>3, Zenon
  <1>4. /\ job' \in Jobs /\ job'.at = "reply" /\ job'.packets = ps
    <2>1. ps \in SUBSET Packets /\ "reply" \in Stages
      BY <1>3, Zenon DEF Stages
    <2>2. Idle \in Jobs
      BY JobTyped, Zenon
    <2>. QED
      BY <1>2, <2>1, <2>2, Zenon DEF Jobs
  <1>5. UNCHANGED <<up, mem, inbound, reserved, outbound, life, given, sealed, wire, confirmed, reason>>
    BY Zenon DEF Reconnect, disk, history
  <1>6. TypeOK'
    BY <1>1, <1>2, <1>4, <1>5, Zenon DEF RInv, TypeOK
  <1>7. MemoryInv'
    BY <1>1, <1>2, <1>4, <1>5, Zenon DEF RInv, MemoryInv, Working, Active
  <1>8. JournalInv'
    BY <1>1, <1>5, Zenon DEF RInv, JournalInv, MemoryInv
  <1>9. StageInv'
    BY <1>1, <1>2, <1>4, <1>5, Zenon DEF RInv, StageInv, MemoryInv, Working, Active
  <1>10. OwnerInv'
    BY <1>1, <1>2, <1>4, <1>5, Zenon DEF RInv, OwnerInv, Owned, MemoryInv, StageInv
  <1>11. GivenInv'
    BY <1>1, <1>5, Zenon DEF RInv, GivenInv, GivenOnce, StageInv, MemoryInv
  <1>12. SealInv'
    BY <1>1, <1>5, Zenon DEF RInv, SealInv, SealedOnce
  <1>13. PacketInv'
    <2>1. \A p \in wire \cup job'.packets : Backed(p)
      BY <1>3, <1>4, Zenon DEF RInv, PacketInv
    <2>. QED
      BY <1>5, <2>1, Zenon DEF PacketInv, Backed
  <1>14. UncertaintyIsRemembered'
    BY <1>1, <1>5, Zenon DEF RInv, UncertaintyIsRemembered, StageInv, MemoryInv
  <1>. QED
    BY <1>6, <1>7, <1>8, <1>9, <1>10, <1>11, <1>12, <1>13, <1>14, Zenon DEF RInv

(* Opening the journal leaves no dispatch started, and no session is in memory. *)
LEMMA RestartInv ==
    ASSUME RInv, Restart
    PROVE  RInv'
  <1>1. ~up /\ up' = TRUE /\ job.at = "idle" /\ \A s \in Sessions : ~mem[s].here /\ mem[s].pending = {}
    BY Zenon DEF Restart, RInv, MemoryInv
  <1>2. /\ inbound' \in [Messages -> States]
        /\ \A s \in Sessions, q \in Ins :
              /\ inbound'[<<s, q>>] # "DISPATCH_STARTED"
              /\ inbound[<<s, q>>] # "DISPATCH_STARTED" => inbound'[<<s, q>>] = inbound[<<s, q>>]
              /\ inbound[<<s, q>>] = "DISPATCH_STARTED" => inbound'[<<s, q>>] = "UNCERTAIN"
    BY Zenon DEF Restart, RInv, TypeOK, Messages, States
  <1>3. UNCHANGED <<connected, mem, job, reserved, outbound, life, given, sealed, wire, confirmed, reason>>
    BY Zenon DEF Restart, history
  <1>4. TypeOK'
    BY <1>1, <1>2, <1>3, Zenon DEF RInv, TypeOK
  <1>5. MemoryInv'
    BY <1>1, <1>3, Zenon DEF RInv, MemoryInv, Working, Active
  <1>6. JournalInv'
    BY <1>1, <1>2, <1>3 DEF RInv, JournalInv, MemoryInv
  <1>7. StageInv'
    BY <1>1, <1>2, <1>3, Zenon DEF RInv, StageInv, MemoryInv, Working, Active
  <1>8. OwnerInv'
    BY <1>1, <1>2, <1>3, Zenon DEF RInv, OwnerInv, Owned, MemoryInv, StageInv
  <1>9. GivenInv'
    BY <1>1, <1>2, <1>3, Zenon DEF RInv, GivenInv, GivenOnce, StageInv, MemoryInv
  <1>10. SealInv'
    BY <1>1, <1>3, Zenon DEF RInv, SealInv, SealedOnce
  <1>11. PacketInv'
    BY <1>1, <1>2, <1>3, StillBacked, PacketsTyped, Zenon DEF RInv, PacketInv
  <1>12. UncertaintyIsRemembered'
    BY <1>1, <1>2, <1>3, Zenon DEF RInv, UncertaintyIsRemembered, StageInv, MemoryInv
  <1>. QED
    BY <1>4, <1>5, <1>6, <1>7, <1>8, <1>9, <1>10, <1>11, <1>12, Zenon DEF RInv
(* Before the first session nothing is in memory, in the journal or sent. *)
LEMMA RInvInit == Init => RInv
  <1>. SUFFICES ASSUME Init PROVE RInv
    BY Zenon
  <1>1. /\ mem \in [Sessions -> LocalSession]
        /\ \A s \in Sessions : ~mem[s].here /\ mem[s].pending = {}
    BY AbsentTyped, Zenon DEF Init
  <1>2. job \in Jobs /\ job.at = "idle" /\ job.packets = {}
    BY JobTyped, Zenon DEF Init
  <1>3. inbound \in [Messages -> States] /\ \A s \in Sessions, q \in Ins : inbound[<<s, q>>] = "NONE"
    BY Zenon DEF Init, Messages, States
  <1>4. /\ given \in [Messages -> Nat] /\ \A m \in Messages : given[m] = 0
        /\ \A s \in Sessions, q \in Ins : given[<<s, q>>] = 0
    BY Zenon DEF Init, Messages
  <1>5. sealed \in [Sessions \X Outs -> Nat] /\ \A k \in Sessions \X Outs : sealed[k] = 0
    BY Zenon DEF Init
  <1>6. /\ up = TRUE /\ connected = TRUE /\ wire = {} /\ reason = "none"
        /\ reserved \in [Sessions -> 0 .. MaxOut] /\ \A s \in Sessions : reserved[s] = 0
        /\ outbound \in [Sessions -> SUBSET Outs] /\ \A s \in Sessions : outbound[s] = {}
        /\ confirmed \in [Sessions -> SUBSET Outs]
        /\ life \in [Sessions -> {"new", "opened", "closed"}]
    BY RelayAssumption DEF Init
  <1>7. TypeOK
    BY <1>1, <1>2, <1>3, <1>4, <1>5, <1>6, Zenon DEF TypeOK
  <1>8. MemoryInv /\ StageInv /\ OwnerInv /\ UncertaintyIsRemembered
    BY <1>1, <1>2, <1>3, <1>6, Zenon
    DEF MemoryInv, Working, StageInv, OwnerInv, Owned, UncertaintyIsRemembered
  <1>9. JournalInv
    BY <1>1, <1>3, <1>6, Zenon DEF JournalInv
  <1>10. GivenInv /\ SealInv /\ PacketInv
    BY <1>1, <1>2, <1>4, <1>5, <1>6 DEF GivenInv, GivenOnce, SealInv, SealedOnce, PacketInv
  <1>. QED
    BY <1>7, <1>8, <1>9, <1>10, Zenon DEF RInv

(* Whatever ends the process is a Stop. *)
LEMMA Stops ==
    ASSUME \/ JournalFull \/ Crash
           \/ \E s \in Sessions :
                \/ RefuseKeyPackageAck(s)
                \/ \E q \in Ins : FrameDoesNotFit(s, q) \/ \E kind \in Kinds : RefuseFrame(s, q, kind)
    PROVE  \E why \in {"protocol", "capacity", "crash"} : Stop(why)
  BY Zenon DEF JournalFull, Crash, RefuseKeyPackageAck, FrameDoesNotFit, RefuseFrame

(* Every step keeps the invariant. *)
LEMMA RInvStep == RInv /\ [Next]_vars => RInv'
  <1>. SUFFICES ASSUME RInv, [Next]_vars PROVE RInv'
    BY Zenon
  <1>1. CASE CloseJournal \/ StartDispatch \/ Submit \/ SubmitFails \/ MarkUncertain
    BY <1>1, CloseJournalInv, StartDispatchInv, SubmitInv, SubmitFailsInv, MarkUncertainInv, Zenon
  <1>2. CASE Reserve \/ RecordOutbound \/ MarkResponded \/ Reply
    BY <1>2, ReserveInv, RecordOutboundInv, MarkRespondedInv, ReplyInv, Zenon
  <1>3. CASE Disconnect \/ Reconnect \/ Restart
    BY <1>3, DisconnectInv, ReconnectInv, RestartInv, Zenon
  <1>4. ASSUME NEW s \in Sessions, OpenTunnel(s) \/ KeyPackageAck(s) \/ CloseTunnel(s) \/ AgentFails(s)
        PROVE  RInv'
    BY <1>4, OpenTunnelInv, KeyPackageAckInv, CloseTunnelInv, AgentFailsInv, Zenon
  <1>5. ASSUME NEW s \in Sessions, NEW q \in Ins, RecordFrame(s, q) \/ DuplicateFrame(s, q)
        PROVE  RInv'
    BY <1>5, RecordFrameInv, DuplicateFrameInv, Zenon
  <1>6. ASSUME NEW s \in Sessions, NEW q \in Ins, AgentWritten(s, q)
        PROVE  RInv'
    BY <1>6, AgentWrittenInv, Zenon
  <1>7. ASSUME NEW s \in Sessions, NEW q \in 0 .. MaxIn, AgentMessage(s, q)
        PROVE  RInv'
    BY <1>7, AgentMessageInv, Zenon
  <1>8. ASSUME NEW s \in Sessions, NEW h \in 0 .. MaxOut, NEW more \in SUBSET Outs, AckFrame(s, h, more)
        PROVE  RInv'
    BY <1>8, AckFrameInv, Zenon
  <1>9. ASSUME NEW why \in {"protocol", "capacity", "crash"}, Stop(why)
        PROVE  RInv'
    BY <1>9, StopInv, Zenon
  <1>10. CASE UNCHANGED vars
    <2>1. /\ UNCHANGED <<up, connected, mem, job, inbound, reserved, outbound>>
          /\ UNCHANGED <<life, given, sealed, wire, confirmed, reason>>
      BY <1>10, Zenon DEF vars, disk, history
    <2>2. TypeOK' /\ MemoryInv' /\ JournalInv'
      BY <2>1, Zenon DEF RInv, TypeOK, MemoryInv, Active, JournalInv
    <2>3. StageInv' /\ OwnerInv' /\ UncertaintyIsRemembered'
      BY <2>1, Zenon DEF RInv, StageInv, OwnerInv, Owned, UncertaintyIsRemembered
    <2>4. GivenInv' /\ SealInv' /\ PacketInv'
      BY <2>1, Zenon DEF RInv, GivenInv, GivenOnce, SealInv, SealedOnce, PacketInv, Backed
    <2>. QED
      BY <2>2, <2>3, <2>4, Zenon DEF RInv
  <1>11. 0 \in 0 .. MaxIn /\ Ins \subseteq 0 .. MaxIn
    BY Bounds, RelayAssumption
  <1>12. CASE Next
    BY <1>12, <1>1, <1>2, <1>3, <1>4, <1>5, <1>6, <1>7, <1>8, <1>9, <1>11, Stops, Zenon
    DEF Next, Handler, Agent
  <1>. QED
    BY <1>10, <1>12, Zenon

-----------------------------------------------------------------------------
(* The inductive invariant holds in every behaviour of the relay. *)
THEOREM RelayInvariance == Spec => []RInv
  BY RInvInit, RInvStep, PTL DEF Spec

(* Memory, the journal and the running handler keep their shape. *)
THEOREM RelayTypeCorrect == Spec => []TypeOK
  <1>1. RInv => TypeOK
    BY DEF RInv
  <1>. QED
    BY <1>1, RelayInvariance, PTL

(* The Agent is given a message at most once, across duplicates, reconnections  *)
(* and crashes at any point of a handler (handle_encrypted_frame, start_dispatch). *)
THEOREM AtMostOnce == Spec => []GivenOnce
  <1>1. RInv => GivenOnce
    BY DEF RInv, GivenInv
  <1>. QED
    BY <1>1, RelayInvariance, PTL

(* No sequence of a session seals two frames (reserve_outbound_sequence). *)
THEOREM SequencesAreFresh == Spec => []SealedOnce
  <1>1. RInv => SealedOnce
    BY DEF RInv, SealInv
  <1>. QED
    BY <1>1, RelayInvariance, PTL

(* A frame that was sent can be replayed until it is confirmed (record_outbound). *)
THEOREM SentFramesAreKept == Spec => []SentIsKept
  <1>1. ASSUME RInv, NEW s \in Sessions, NEW n \in Outs, <<"frame", s, n>> \in wire
        PROVE  n \in outbound[s] \cup confirmed[s] \/ life[s] = "closed"
    <2>1. Backed(<<"frame", s, n>>)
      BY <1>1 DEF RInv, PacketInv
    <2>. QED
      BY <2>1 DEF Backed
  <1>2. RInv => SentIsKept
    BY <1>1 DEF SentIsKept
  <1>. QED
    BY <1>2, RelayInvariance, PTL

(* Between two handlers every started dispatch is one that poll waits for. *)
THEOREM NoDispatchIsOrphaned == Spec => []NoOrphanDispatch
  <1>1. RInv => NoOrphanDispatch
    BY DEF RInv, OwnerInv, Owned, NoOrphanDispatch
  <1>. QED
    BY <1>1, RelayInvariance, PTL

(* An uncertain message leaves its session with an error to repeat. *)
THEOREM UncertaintyIsKept == Spec => []UncertaintyIsRemembered
  <1>1. RInv => UncertaintyIsRemembered
    BY DEF RInv
  <1>. QED
    BY <1>1, RelayInvariance, PTL

-----------------------------------------------------------------------------
(* The relay implements Dispatch. *)

(* A message is a session and a sequence. *)
LEMMA MessageParts ==
    \A m \in Messages : m[1] \in Sessions /\ m[2] \in Ins /\ m = <<m[1], m[2]>>
  BY DEF Messages

(* A step that touches no inbound record, hands nothing over, sends nothing and *)
(* closes no session is invisible.                                            *)
LEMMA Invisible ==
    ASSUME UNCHANGED <<inbound, given, wire>>,
           \A s \in Sessions : life'[s] = "closed" <=> life[s] = "closed"
    PROVE  UNCHANGED D!vars
  <1>1. Phase' = Phase
    BY MessageParts DEF Phase
  <1>2. Acked' = Acked /\ Handed' = Handed
    BY DEF Acked, Handed
  <1>. QED
    BY <1>1, <1>2 DEF D!vars

(* One inbound record of an open session moves: one message moves. *)
LEMMA OneMoves ==
    ASSUME RInv, NEW s \in Sessions, NEW q \in Ins, NEW to \in States \ {"NONE"},
           life[s] # "closed", inbound' = [inbound EXCEPT ![<<s, q>>] = to],
           UNCHANGED <<life, given, wire>>
    PROVE  /\ Phase' = [Phase EXCEPT ![<<s, q>>] = to]
           /\ Phase[<<s, q>>] = (IF inbound[<<s, q>>] = "NONE" THEN "UNSEEN" ELSE inbound[<<s, q>>])
           /\ UNCHANGED <<Acked, Handed>>
           /\ <<s, q>> \in Messages
  <1>. DEFINE k == <<s, q>>
  <1>1. k \in Messages /\ k[1] = s
    BY DEF Messages
  <1>2. inbound \in [Messages -> States]
    BY DEF RInv, TypeOK
  <1>3. Phase[k] = (IF inbound[k] = "NONE" THEN "UNSEEN" ELSE inbound[k])
    BY <1>1 DEF Phase
  <1>. HIDE DEF k
  <1>4. inbound' = [inbound EXCEPT ![k] = to]
    BY DEF k
  <1>5. Phase' = [Phase EXCEPT ![k] = to]
    BY <1>1, <1>2, <1>4 DEF Phase
  <1>6. UNCHANGED <<Acked, Handed>>
    BY DEF Acked, Handed
  <1>. QED
    BY <1>1, <1>3, <1>5, <1>6 DEF k

(* The initial states are initial states of Dispatch. *)
LEMMA DispatchInit == Init => D!Init
  <1>. SUFFICES ASSUME Init PROVE D!Init
    OBVIOUS
  <1>1. Phase = [m \in Messages |-> "UNSEEN"]
    BY MessageParts DEF Init, Phase
  <1>2. Acked = {} /\ Handed = {}
    BY DEF Init, Acked, Handed
  <1>. QED
    BY <1>1, <1>2 DEF D!Init

(* Recording a frame accepts its message. *)
LEMMA RecordAccepts ==
    ASSUME RInv, NEW s \in Sessions, NEW q \in Ins, RecordFrame(s, q)
    PROVE  D!Next
  <1>1. /\ inbound[<<s, q>>] = "NONE" /\ inbound' = [inbound EXCEPT ![<<s, q>>] = "RECEIVED"]
        /\ UNCHANGED <<life, given, wire>> /\ mem[s].here
    BY DEF RecordFrame, FrameRefused, Active, history
  <1>2. life[s] # "closed"
    BY <1>1 DEF RInv, MemoryInv
  <1>3. "RECEIVED" \in States \ {"NONE"}
    BY DEF States
  <1>4. /\ Phase' = [Phase EXCEPT ![<<s, q>>] = "RECEIVED"] /\ UNCHANGED <<Acked, Handed>>
        /\ Phase[<<s, q>>] = "UNSEEN" /\ <<s, q>> \in Messages
    BY <1>1, <1>2, <1>3, OneMoves
  <1>5. D!Accept(<<s, q>>) /\ <<s, q>> \in Messages
    BY <1>4, Zenon DEF D!Accept, D!Move
  <1>. QED
    BY <1>5, Zenon DEF D!Next

(* start_dispatch starts the dispatch of a message that is recorded. *)
LEMMA StartStarts ==
    ASSUME RInv, StartDispatch
    PROVE  D!Next
  <1>1. /\ job.s \in Sessions /\ job.q \in Ins /\ inbound[<<job.s, job.q>>] = "RECEIVED"
        /\ life[job.s] # "closed"
    BY DEF StartDispatch, RInv, TypeOK, Jobs, StageInv, MemoryInv, Working, Active
  <1>2. /\ inbound' = [inbound EXCEPT ![<<job.s, job.q>>] = "DISPATCH_STARTED"]
        /\ UNCHANGED <<life, given, wire>>
    BY DEF StartDispatch, history
  <1>3. "DISPATCH_STARTED" \in States \ {"NONE"}
    BY DEF States
  <1>4. /\ Phase' = [Phase EXCEPT ![<<job.s, job.q>>] = "DISPATCH_STARTED"] /\ UNCHANGED <<Acked, Handed>>
        /\ Phase[<<job.s, job.q>>] = "RECEIVED" /\ <<job.s, job.q>> \in Messages
    BY <1>1, <1>2, <1>3, OneMoves
  <1>5. D!Start(<<job.s, job.q>>) /\ <<job.s, job.q>> \in Messages
    BY <1>4, Zenon DEF D!Start, D!Move
  <1>. QED
    BY <1>5, Zenon DEF D!Next

(* The Agent's queue takes a message whose dispatch has started. *)
LEMMA SubmitHands ==
    ASSUME RInv, Submit
    PROVE  D!Next
  <1>. DEFINE k == <<job.s, job.q>>
  <1>1. /\ k \in Messages /\ k[1] = job.s /\ inbound[k] = "DISPATCH_STARTED"
        /\ given[k] = 0 /\ life[job.s] # "closed"
    BY DEF Submit, RInv, TypeOK, Jobs, StageInv, MemoryInv, Working, Active, Messages
  <1>2. given' = [given EXCEPT ![k] = given[k] + 1] /\ UNCHANGED <<inbound, life, wire>>
    BY DEF Submit, disk
  <1>3. given \in [Messages -> Nat]
    BY DEF RInv, TypeOK
  <1>. HIDE DEF k
  <1>4. Phase[k] = "DISPATCH_STARTED" /\ k \notin Handed
    BY <1>1 DEF Phase, Handed
  <1>5. Handed' = Handed \cup {k}
    BY <1>1, <1>2, <1>3 DEF Handed
  <1>6. UNCHANGED <<Phase, Acked>>
    BY <1>2 DEF Phase, Acked
  <1>7. D!Hand(k)
    BY <1>4, <1>5, <1>6 DEF D!Hand
  <1>. QED
    BY <1>1, <1>7 DEF D!Next

(* mark_responded answers a message that was handed over. *)
LEMMA RespondAnswers ==
    ASSUME RInv, MarkResponded
    PROVE  D!Next
  <1>1. /\ job.s \in Sessions /\ job.q \in mem[job.s].pending /\ life[job.s] # "closed"
        /\ job.q \in Ins /\ given[<<job.s, job.q>>] > 0
    BY MemTyped
    DEF MarkResponded, RInv, TypeOK, Jobs, StageInv, MemoryInv, Working, Active, GivenInv
  <1>2. inbound[<<job.s, job.q>>] = "DISPATCH_STARTED"
    BY <1>1 DEF MarkResponded, RInv, OwnerInv, Owned, MemoryInv, Working, Active
  <1>3. /\ inbound' = [inbound EXCEPT ![<<job.s, job.q>>] = "RESPONDED"]
        /\ UNCHANGED <<life, given, wire>>
    BY DEF MarkResponded, history
  <1>4. <<job.s, job.q>> \in Handed
    BY <1>1 DEF Handed, Messages
  <1>5. "RESPONDED" \in States \ {"NONE"}
    BY DEF States
  <1>6. /\ Phase' = [Phase EXCEPT ![<<job.s, job.q>>] = "RESPONDED"] /\ UNCHANGED <<Acked, Handed>>
        /\ Phase[<<job.s, job.q>>] = "DISPATCH_STARTED" /\ <<job.s, job.q>> \in Messages
    BY <1>1, <1>2, <1>3, <1>5, OneMoves
  <1>7. D!Answer(<<job.s, job.q>>) /\ <<job.s, job.q>> \in Messages
    BY <1>4, <1>6, Zenon DEF D!Answer, D!Move
  <1>. QED
    BY <1>7, Zenon DEF D!Next

(* mark_uncertain loses one message. *)
LEMMA MarkLoses ==
    ASSUME RInv, MarkUncertain
    PROVE  D!Next
  <1>1. job.s \in Sessions /\ job.mark \subseteq Ins /\ up /\ life[job.s] # "closed"
    BY DEF MarkUncertain, RInv, TypeOK, Jobs, MemoryInv, Working, Active
  <1>2. PICK q \in job.mark : inbound' = [inbound EXCEPT ![<<job.s, q>>] = "UNCERTAIN"]
    BY DEF MarkUncertain
  <1>3. inbound[<<job.s, q>>] = "DISPATCH_STARTED" /\ q \in Ins
    BY <1>1 DEF MarkUncertain, RInv, OwnerInv, Owned
  <1>4. UNCHANGED <<life, given, wire>>
    BY DEF MarkUncertain, history
  <1>. DEFINE k == <<job.s, q>>
  <1>5. /\ Phase' = [Phase EXCEPT ![k] = "UNCERTAIN"] /\ UNCHANGED <<Acked, Handed>>
        /\ Phase[k] = "DISPATCH_STARTED" /\ k \in Messages
    BY <1>1, <1>2, <1>3, <1>4, OneMoves DEF States
  <1>. HIDE DEF k
  <1>6. Phase' = [m \in Messages |-> IF m \in {k} THEN "UNCERTAIN" ELSE Phase[m]]
    BY <1>5 DEF Phase
  <1>7. D!Lose({k}) /\ {k} \in SUBSET Messages
    BY <1>5, <1>6 DEF D!Lose
  <1>. QED
    BY <1>7 DEF D!Next

(* Sending acknowledgments acknowledges only messages that are recorded. *)
LEMMA ReplyAcknowledges ==
    ASSUME RInv, Reply
    PROVE  D!Next
  <1>1. /\ wire \subseteq wire' /\ wire' \subseteq wire \cup job.packets
        /\ UNCHANGED <<inbound, life, given>>
    BY DEF Reply, disk
  <1>. DEFINE M == Acked' \ Acked
  <1>2. ASSUME NEW m \in M PROVE m \in Messages /\ Phase[m] # "UNSEEN"
    <2>1. m \in Messages /\ m[1] \in Sessions /\ m[2] \in Ins /\ m = <<m[1], m[2]>>
      BY MessageParts DEF Acked
    <2>2. PICK h \in Ins : m[2] <= h /\ <<"ack", m[1], h>> \in wire'
      BY DEF Acked
    <2>3. Backed(<<"ack", m[1], h>>)
      BY <1>1, <2>2 DEF RInv, PacketInv
    <2>4. inbound[m] # "NONE" \/ life[m[1]] = "closed"
      BY <2>1, <2>2, <2>3 DEF Backed
    <2>5. Phase[m] = IF life[m[1]] = "closed" THEN "FORGOTTEN"
                     ELSE IF inbound[m] = "NONE" THEN "UNSEEN" ELSE inbound[m]
      BY <2>1 DEF Phase
    <2>6. inbound[m] \in States
      BY <2>1 DEF RInv, TypeOK
    <2>. QED
      BY <2>1, <2>4, <2>5, <2>6 DEF States
  <1>3. Acked' = Acked \cup M
    BY <1>1 DEF Acked
  <1>4. UNCHANGED <<Phase, Handed>>
    BY <1>1 DEF Phase, Handed
  <1>. HIDE DEF M
  <1>5. D!Acknowledge(M) /\ M \in SUBSET Messages
    BY <1>2, <1>3, <1>4 DEF D!Acknowledge
  <1>. QED
    BY <1>5 DEF D!Next

(* close_session forgets the messages of its session. *)
LEMMA CloseForgets ==
    ASSUME RInv, CloseJournal
    PROVE  D!Next
  <1>. DEFINE M == {m \in Messages : m[1] = job.s}
  <1>1. /\ inbound' = [m \in Messages |-> IF m[1] = job.s THEN "NONE" ELSE inbound[m]]
        /\ life' = [life EXCEPT ![job.s] = "closed"]
        /\ UNCHANGED <<given, wire>> /\ job.s \in Sessions
        /\ life \in [Sessions -> {"new", "opened", "closed"}]
    BY DEF CloseJournal, history, RInv, TypeOK, Jobs
  <1>2. ASSUME NEW m \in Messages
        PROVE  Phase'[m] = IF m \in M THEN "FORGOTTEN" ELSE Phase[m]
    BY <1>1, MessageParts DEF Phase
  <1>3. Phase' = [m \in Messages |-> IF m \in M THEN "FORGOTTEN" ELSE Phase[m]]
    <2>1. Phase' = [m \in Messages |-> Phase'[m]]
      BY DEF Phase
    <2>. HIDE DEF M
    <2>. QED
      BY <1>2, <2>1
  <1>4. UNCHANGED <<Acked, Handed>>
    BY <1>1 DEF Acked, Handed
  <1>5. D!Forget(M) /\ M \in SUBSET Messages
    BY <1>3, <1>4 DEF D!Forget
  <1>. QED
    BY <1>5 DEF D!Next

(* recover_uncertain loses every message whose dispatch was started. *)
LEMMA RestartLoses ==
    ASSUME RInv, Restart
    PROVE  D!Next
  <1>. DEFINE M == {m \in Messages : Phase[m] = "DISPATCH_STARTED"}
  <1>1. /\ inbound' = [m \in Messages |-> IF inbound[m] = "DISPATCH_STARTED" THEN "UNCERTAIN" ELSE inbound[m]]
        /\ UNCHANGED <<life, given, wire>>
    BY DEF Restart, history
  <1>2. ASSUME NEW m \in Messages
        PROVE  Phase'[m] = IF m \in M THEN "UNCERTAIN" ELSE Phase[m]
    BY <1>1, MessageParts DEF Phase
  <1>3. Phase' = [m \in Messages |-> IF m \in M THEN "UNCERTAIN" ELSE Phase[m]]
    <2>1. Phase' = [m \in Messages |-> Phase'[m]]
      BY DEF Phase
    <2>. HIDE DEF M
    <2>. QED
      BY <1>2, <2>1
  <1>4. UNCHANGED <<Acked, Handed>>
    BY <1>1 DEF Acked, Handed
  <1>5. D!Lose(M) /\ M \in SUBSET Messages
    BY <1>3, <1>4 DEF D!Lose
  <1>. QED
    BY <1>5 DEF D!Next

(* Every step of the relay is a step of Dispatch, or one it does not see. *)
LEMMA DispatchStep == RInv /\ [Next]_vars => [D!Next]_(D!vars)
  <1>. SUFFICES ASSUME RInv, [Next]_vars PROVE D!Next \/ UNCHANGED D!vars
    BY DEF D!vars
  <1>1. CASE CloseJournal \/ StartDispatch \/ Submit \/ MarkUncertain \/ MarkResponded \/ Reply \/ Restart
    BY <1>1, CloseForgets, StartStarts, SubmitHands, MarkLoses, RespondAnswers, ReplyAcknowledges,
       RestartLoses
  <1>2. ASSUME NEW s \in Sessions, NEW q \in Ins, RecordFrame(s, q)
        PROVE  D!Next
    BY <1>2, RecordAccepts
  <1>3. CASE SubmitFails \/ Reserve \/ RecordOutbound \/ Disconnect \/ Reconnect \/ UNCHANGED vars
    BY <1>3, Invisible
    DEF SubmitFails, Reserve, RecordOutbound, Disconnect, Reconnect, vars, disk, history
  <1>4. ASSUME NEW s \in Sessions, OpenTunnel(s)
        PROVE  UNCHANGED D!vars
    <2>1. /\ UNCHANGED <<inbound, given, wire>> /\ life' = [life EXCEPT ![s] = "opened"]
          /\ life[s] = "new" /\ life \in [Sessions -> {"new", "opened", "closed"}]
      BY <1>4 DEF OpenTunnel, disk, history, RInv, TypeOK
    <2>. QED
      BY <2>1, Invisible
  <1>5. ASSUME NEW s \in Sessions, KeyPackageAck(s) \/ CloseTunnel(s) \/ AgentFails(s)
        PROVE  UNCHANGED D!vars
    BY <1>5, Invisible DEF KeyPackageAck, CloseTunnel, AgentFails, disk, history
  <1>6. ASSUME NEW s \in Sessions, NEW q, DuplicateFrame(s, q) \/ AgentMessage(s, q) \/ AgentWritten(s, q)
        PROVE  UNCHANGED D!vars
    BY <1>6, Invisible DEF DuplicateFrame, AgentMessage, AgentWritten, disk, history
  <1>7. ASSUME NEW s \in Sessions, NEW h, NEW more, AckFrame(s, h, more)
        PROVE  UNCHANGED D!vars
    BY <1>7, Invisible DEF AckFrame
  <1>8. ASSUME NEW why, Stop(why)
        PROVE  UNCHANGED D!vars
    BY <1>8, Invisible DEF Stop, disk, history
  <1>9. CASE Next
    BY <1>9, <1>1, <1>2, <1>3, <1>4, <1>5, <1>6, <1>7, <1>8, Stops DEF Next, Handler, Agent
  <1>. QED
    BY <1>3, <1>9

(* What a relay with crashes, duplicates and broken connections does with its   *)
(* messages is what Dispatch allows.                                           *)
THEOREM RelayImplementsDispatch == Spec => ImplementsDispatch
  BY RelayInvariance, DispatchInit, DispatchStep, PTL DEF Spec, ImplementsDispatch, D!Spec
=============================================================================
