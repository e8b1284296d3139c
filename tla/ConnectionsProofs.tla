-------------------------- MODULE ConnectionsProofs --------------------------
(***************************************************************************)
(* Theorems about Connections, for any endpoints, connections and senders: *)
(* packets are handled for the current connection only, control packets    *)
(* are numbered without a gap, and the bytes of a queue are accounted for. *)
(***************************************************************************)
EXTENDS Connections, FiniteSetTheorems, TLAPS

(* The types of the directory, of the flags and of the queues. *)
LaneTypes ==
    /\ generation \in [Endpoints -> Nat]
    /\ pc \in [Conns -> States] /\ gen \in [Conns -> Nat]
    /\ current \in [Endpoints -> Conns \cup {None}]
    /\ lane \in [Endpoints -> Conns \cup {None}]
    /\ replaced \in [Conns -> Conns \cup {None}]
    /\ writer \in [Conns -> {"none", "running", "stopped"}]

Flags == active \in [Endpoints -> BOOLEAN] /\ done \in [Conns -> BOOLEAN]

QueueTypes ==
    /\ queue \in [Conns -> Seq(Packets)] /\ \A c \in Conns : Len(queue[c]) <= ChanCap
    /\ bytes \in [Conns -> 0 .. ByteLimit]
    /\ control \in [Conns -> Nat] /\ written \in [Conns -> Nat]
    /\ controlMu \in [Conns -> Senders \cup {None}]
    /\ op \in [Senders -> Ops]

Counters == sends \in 0 .. MaxSends /\ restarts \in 0 .. MaxRestarts

(* Only a connection that was activated and has not been removed is current, and *)
(* it is current for its own endpoint.                                            *)
CurrentLives ==
    \A e \in Endpoints : current[e] # None =>
        /\ E(current[e]) = e
        /\ pc[current[e]] \in {"activated", "reading", "waiting", "handling", "closing", "removing"}

(* The deferred calls run in order: a connection is closed before it is removed. *)
ClosedFirst == \A c \in Conns : pc[c] \in {"removing", "ended"} => done[c]

(* The writer is started once, after activation. *)
WriterStarted ==
    \A c \in Conns : writer[c] # "none" =>
        pc[c] \in {"reading", "waiting", "handling", "closing", "removing", "ended"}

LaneInv == Fenced /\ CurrentLives /\ ClosedFirst /\ WriterStarted

(* A send has a destination; a numbered control packet has the next number and *)
(* its sender the mutex of the destination.                                    *)
OpInv(p) ==
    /\ op[p].at # "idle" => op[p].to \in Conns /\ op[p].kind \in Kinds
    /\ op[p].at = "lock" => op[p].kind = "control"
    /\ op[p].at \in {"reserve", "put"} /\ op[p].kind = "control" =>
          controlMu[op[p].to] = p /\ op[p].n = control[op[p].to] + 1

(* The holder of controlMu is sending a control packet there. *)
MuInv(c) ==
    controlMu[c] # None =>
        /\ op[controlMu[c]].at \in {"reserve", "put"}
        /\ op[controlMu[c]].to = c /\ op[controlMu[c]].kind = "control"

SendInv ==
    /\ QueueTypes
    /\ \A p \in Senders : OpInv(p)
    /\ \A c \in Conns : MuInv(c)
    /\ ControlInOrder
    /\ BytesAccounted

(* The inductive invariant. *)
CInv == LaneTypes /\ Flags /\ Counters /\ LaneInv /\ SendInv

-----------------------------------------------------------------------------
(* The positions of q with a packet of one kind are finitely many. *)
LEMMA CountType ==
    ASSUME NEW q \in Seq(Packets), NEW kind
    PROVE  /\ IsFiniteSet({i \in DOMAIN q : q[i].kind = kind})
           /\ Count(q, kind) \in Nat
<1>1. IsFiniteSet(DOMAIN q)
  <2>1. DOMAIN q = 1 .. Len(q) /\ Len(q) \in Nat
      OBVIOUS
  <2> QED
      BY <2>1, FS_Interval
<1>2. IsFiniteSet({i \in DOMAIN q : q[i].kind = kind})
    BY <1>1, FS_Subset
<1> QED
    BY <1>2, FS_CardinalityType DEF Count

(* A packet that is appended is counted with its kind. *)
LEMMA CountAppend ==
    ASSUME NEW q \in Seq(Packets), NEW x \in Packets, NEW kind
    PROVE  Count(Append(q, x), kind) = IF x.kind = kind THEN Count(q, kind) + 1 ELSE Count(q, kind)
<1> DEFINE S == {i \in DOMAIN q : q[i].kind = kind}
           T == {i \in DOMAIN Append(q, x) : Append(q, x)[i].kind = kind}
<1>1. IsFiniteSet(S) /\ Cardinality(S) = Count(q, kind) /\ Cardinality(T) = Count(Append(q, x), kind)
    BY CountType, Zenon DEF Count
<1>2. Len(q) + 1 \notin S
    OBVIOUS
<1>3. T = IF x.kind = kind THEN S \cup {Len(q) + 1} ELSE S
    OBVIOUS
<1> HIDE DEF S, T
<1>4. Cardinality(S \cup {Len(q) + 1}) = Cardinality(S) + 1
    BY <1>1, <1>2, FS_AddElement, Zenon
<1> QED
    BY <1>1, <1>3, <1>4

(* A packet that is taken from the head is counted no more. *)
LEMMA CountTail ==
    ASSUME NEW q \in Seq(Packets), q # <<>>, NEW kind
    PROVE  Count(q, kind) = IF Head(q).kind = kind THEN Count(Tail(q), kind) + 1 ELSE Count(Tail(q), kind)
<1> DEFINE S == {i \in DOMAIN q : q[i].kind = kind}
           T == {i \in DOMAIN Tail(q) : Tail(q)[i].kind = kind}
           f == [i \in T |-> i + 1]
<1>1. /\ IsFiniteSet(S) /\ Cardinality(S) = Count(q, kind)
      /\ IsFiniteSet(T) /\ Cardinality(T) = Count(Tail(q), kind)
  <2>1. Tail(q) \in Seq(Packets)
      OBVIOUS
  <2> QED
      BY <2>1, CountType, Zenon DEF Count
<1>2. f \in Bijection(T, S \ {1})
  <2>1. \A i \in DOMAIN Tail(q) : i + 1 \in DOMAIN q /\ i + 1 # 1 /\ Tail(q)[i] = q[i + 1]
      OBVIOUS
  <2>2. \A i \in T : f[i] \in S \ {1}
      BY <2>1
  <2>3. \A i, j \in T : f[i] = f[j] => i = j
    <3>1. \A i \in T : i \in Nat /\ f[i] = i + 1
        OBVIOUS
    <3> HIDE DEF T, f
    <3> QED
        BY <3>1
  <2>4. \A j \in S \ {1} : j - 1 \in T /\ f[j - 1] = j
      OBVIOUS
  <2> QED
      BY <2>2, <2>3, <2>4, Zenon DEF Bijection, Injection, Surjection, IsInjective
<1>3. 1 \in S <=> Head(q).kind = kind
    OBVIOUS
<1> HIDE DEF S, T, f
<1>4. Cardinality(S \ {1}) = Cardinality(T)
    BY <1>1, <1>2, FS_Bijection DEF ExistsBijection
<1>5. Cardinality(S \ {1}) = IF 1 \in S THEN Cardinality(S) - 1 ELSE Cardinality(S)
    BY <1>1, FS_RemoveElement, Zenon
<1>6. Cardinality(S) \in Nat /\ Cardinality(T) \in Nat
    BY <1>1, FS_CardinalityType
<1> QED
    BY <1>1, <1>3, <1>4, <1>5, <1>6

(* What NumberedOn says, element by element. *)
LEMMA NumberedIff ==
    ASSUME NEW q, NEW m \in Nat, NEW n \in Nat
    PROVE  NumberedOn(q, m, n) <=>
             /\ m <= n
             /\ \A i \in Controls(q) : q[i].n \in m + 1 .. n
             /\ \A k \in m + 1 .. n : \E i \in Controls(q) : q[i].n = k
             /\ \A i, j \in Controls(q) : i < j => q[i].n < q[j].n
<1>1. {q[i].n : i \in Controls(q)} = m + 1 .. n <=>
        /\ \A i \in Controls(q) : q[i].n \in m + 1 .. n
        /\ \A k \in m + 1 .. n : \E i \in Controls(q) : q[i].n = k
    OBVIOUS
<1> QED
    BY <1>1, Zenon DEF NumberedOn

(* An empty queue goes on from any number. *)
LEMMA NumberedEmpty ==
    ASSUME NEW n \in Nat PROVE NumberedOn(<<>>, n, n)
BY DEF NumberedOn, Controls

(* A control packet with the next number, or a packet of another kind, may be appended. *)
LEMMA NumberedAppend ==
    ASSUME NEW q \in Seq(Packets), NEW x \in Packets, NEW m \in Nat, NEW n \in Nat, NumberedOn(q, m, n)
    PROVE  /\ x.kind = "control" /\ x.n = n + 1 => NumberedOn(Append(q, x), m, n + 1)
           /\ x.kind # "control" => NumberedOn(Append(q, x), m, n)
<1> DEFINE r == Append(q, x)
<1>1. /\ DOMAIN r = DOMAIN q \cup {Len(q) + 1} /\ r[Len(q) + 1] = x
      /\ \A i \in DOMAIN q : r[i] = q[i] /\ i \in Nat /\ i < Len(q) + 1
    OBVIOUS
<1>2. /\ m <= n
      /\ \A i \in Controls(q) : q[i].n \in m + 1 .. n
      /\ \A k \in m + 1 .. n : \E i \in Controls(q) : q[i].n = k
      /\ \A i, j \in Controls(q) : i < j => q[i].n < q[j].n
    BY NumberedIff, Zenon
<1>3. Controls(q) \subseteq DOMAIN q
    BY DEF Controls
<1>4. Len(q) \in Nat
    OBVIOUS
<1> HIDE DEF r
<1>5. CASE x.kind = "control" /\ x.n = n + 1
  <2>1. Controls(r) = Controls(q) \cup {Len(q) + 1}
      BY <1>1, <1>5, Zenon DEF Controls
  <2>2. \A i \in Controls(r) : r[i].n \in m + 1 .. n + 1
      BY <1>1, <1>2, <1>3, <1>5, <2>1
  <2>3. \A k \in m + 1 .. n + 1 : \E i \in Controls(r) : r[i].n = k
    <3> SUFFICES ASSUME NEW k \in m + 1 .. n + 1 PROVE \E i \in Controls(r) : r[i].n = k
        OBVIOUS
    <3>1. CASE k = n + 1
        BY <1>1, <1>5, <2>1, <3>1
    <3>2. CASE k \in m + 1 .. n
        BY <1>1, <1>2, <1>3, <2>1, <3>2
    <3> QED
        BY <3>1, <3>2
  <2>4. ASSUME NEW i \in Controls(r), NEW j \in Controls(r), i < j PROVE r[i].n < r[j].n
    <3>1. CASE j \in Controls(q)
      <4>1. i \in Controls(q)
          BY <1>1, <1>3, <1>4, <2>1, <2>4, <3>1
      <4> QED
          BY <1>1, <1>2, <1>3, <2>4, <3>1, <4>1
    <3>2. CASE j = Len(q) + 1
      <4>1. i \in Controls(q)
          BY <1>4, <2>1, <2>4, <3>2
      <4>2. q[i].n \in m + 1 .. n
          BY <1>2, <4>1
      <4> QED
          BY <1>1, <1>3, <1>5, <3>2, <4>1, <4>2
    <3> QED
        BY <2>1, <3>1, <3>2
  <2>5. m <= n + 1 /\ n + 1 \in Nat
      BY <1>2
  <2>6. NumberedOn(r, m, n + 1)
      BY <2>2, <2>3, <2>4, <2>5, NumberedIff, Zenon
  <2> QED
      BY <1>5, <2>6 DEF r
<1>6. CASE x.kind # "control"
  <2>1. Controls(r) = Controls(q) /\ \A i \in Controls(q) : r[i] = q[i]
      BY <1>1, <1>6, Zenon DEF Controls
  <2>2. /\ \A i \in Controls(r) : r[i].n \in m + 1 .. n
        /\ \A i, j \in Controls(r) : i < j => r[i].n < r[j].n
      BY <1>2, <2>1
  <2>3. \A k \in m + 1 .. n : \E i \in Controls(r) : r[i].n = k
      BY <1>2, <2>1
  <2>4. NumberedOn(r, m, n)
      BY <1>2, <2>2, <2>3, NumberedIff, Zenon
  <2> QED
      BY <1>6, <2>4 DEF r
<1> QED
    BY <1>5, <1>6

(* The packet at the head, if it is a control packet, has the next number. *)
LEMMA NumberedTail ==
    ASSUME NEW q \in Seq(Packets), q # <<>>, NEW m \in Nat, NEW n \in Nat, NumberedOn(q, m, n)
    PROVE  /\ Head(q).kind = "control" => Head(q).n = m + 1 /\ NumberedOn(Tail(q), m + 1, n)
           /\ Head(q).kind # "control" => NumberedOn(Tail(q), m, n)
<1> DEFINE r == Tail(q)
<1>1. /\ \A i \in DOMAIN r : i \in Nat /\ i + 1 \in DOMAIN q /\ i + 1 # 1 /\ r[i] = q[i + 1]
      /\ \A i \in DOMAIN q : i \in Nat /\ i >= 1 /\ (i # 1 => i - 1 \in DOMAIN r /\ r[i - 1] = q[i])
      /\ 1 \in DOMAIN q /\ Head(q) = q[1]
    OBVIOUS
<1>2. /\ m <= n
      /\ \A i \in Controls(q) : q[i].n \in m + 1 .. n
      /\ \A k \in m + 1 .. n : \E i \in Controls(q) : q[i].n = k
      /\ \A i, j \in Controls(q) : i < j => q[i].n < q[j].n
    BY NumberedIff, Zenon
<1> HIDE DEF r
<1>3. \A i \in Controls(r) : i + 1 \in Controls(q) /\ i + 1 # 1 /\ r[i].n = q[i + 1].n /\ i \in Nat
    BY <1>1, Zenon DEF Controls
<1>4. \A i \in Controls(q) : i # 1 => i - 1 \in Controls(r) /\ r[i - 1].n = q[i].n
    BY <1>1, Zenon DEF Controls
<1>5. \A i \in Controls(q) : i \in Nat /\ i >= 1
    BY <1>1 DEF Controls
<1>6. \A i, j \in Controls(r) : i < j => r[i].n < r[j].n
    BY <1>2, <1>3
<1>7. CASE Head(q).kind = "control"
  <2>1. 1 \in Controls(q)
      BY <1>1, <1>7 DEF Controls
  <2>2. q[1].n \in m + 1 .. n
      BY <1>2, <2>1
  <2>3. PICK j \in Controls(q) : q[j].n = m + 1
      BY <1>2, <2>2
  <2>4. q[1].n = m + 1
      BY <1>2, <1>5, <2>1, <2>2, <2>3
  <2>5. ASSUME NEW i \in Controls(r) PROVE r[i].n \in m + 1 + 1 .. n
    <3>1. i + 1 \in Controls(q) /\ 1 < i + 1 /\ r[i].n = q[i + 1].n
        BY <1>3, <1>5
    <3>2. q[i + 1].n \in m + 1 .. n /\ q[1].n < q[i + 1].n
        BY <1>2, <2>1, <3>1, Zenon
    <3> QED
        BY <2>4, <3>1, <3>2
  <2>6. ASSUME NEW k \in m + 1 + 1 .. n PROVE \E i \in Controls(r) : r[i].n = k
    <3>1. k \in m + 1 .. n /\ k # m + 1
        OBVIOUS
    <3>2. PICK i \in Controls(q) : q[i].n = k
        BY <1>2, <3>1
    <3>3. i # 1
        BY <2>4, <3>1, <3>2
    <3> QED
        BY <1>4, <3>2, <3>3
  <2>7. m + 1 <= n /\ m + 1 \in Nat
      BY <2>2
  <2>8. NumberedOn(r, m + 1, n)
      BY <1>6, <2>5, <2>6, <2>7, NumberedIff, Zenon
  <2> QED
      BY <1>1, <1>7, <2>4, <2>8 DEF r
<1>8. CASE Head(q).kind # "control"
  <2>1. 1 \notin Controls(q)
      BY <1>1, <1>8 DEF Controls
  <2>2. \A i \in Controls(r) : r[i].n \in m + 1 .. n
      BY <1>2, <1>3
  <2>3. ASSUME NEW k \in m + 1 .. n PROVE \E i \in Controls(r) : r[i].n = k
    <3>1. PICK i \in Controls(q) : q[i].n = k
        BY <1>2
    <3>2. i # 1
        BY <2>1
    <3> QED
        BY <1>4, <3>1, <3>2
  <2>4. NumberedOn(r, m, n)
      BY <1>2, <1>6, <2>2, <2>3, NumberedIff, Zenon
  <2> QED
      BY <1>8, <2>4 DEF r
<1> QED
    BY <1>7, <1>8

-----------------------------------------------------------------------------
(* The senders that have reserved bytes are finitely many. *)
LEMMA HeldType ==
    ASSUME QueueTypes, NEW c \in Conns, NEW kind
    PROVE  /\ IsFiniteSet(Reserving(c, kind))
           /\ Count(queue[c], kind) \in Nat /\ Cardinality(Reserving(c, kind)) \in Nat
           /\ Held(c, kind) \in Nat
<1>1. IsFiniteSet(Senders)
    BY ConnectionsAssumption, FS_Union, Zenon DEF Senders
<1>2. IsFiniteSet(Reserving(c, kind))
    BY <1>1, FS_Subset DEF Reserving
<1>3. Cardinality(Reserving(c, kind)) \in Nat
    BY <1>2, FS_CardinalityType
<1>4. queue[c] \in Seq(Packets)
    BY DEF QueueTypes
<1>5. Count(queue[c], kind) \in Nat
    BY <1>4, CountType, Zenon
<1> QED
    BY <1>2, <1>3, <1>5 DEF Held

(* What a step of one sender does to the set of those that have reserved bytes. *)
LEMMA ReservingStep ==
    ASSUME QueueTypes, NEW p \in Senders, NEW s \in Ops, op' = [op EXCEPT ![p] = s],
           NEW c \in Conns, NEW kind
    PROVE  /\ (s.at = "put" /\ s.to = c /\ s.kind = kind) /\ p \notin Reserving(c, kind) =>
                 Cardinality(Reserving(c, kind)') = Cardinality(Reserving(c, kind)) + 1
           /\ ~(s.at = "put" /\ s.to = c /\ s.kind = kind) /\ p \in Reserving(c, kind) =>
                 Cardinality(Reserving(c, kind)') = Cardinality(Reserving(c, kind)) - 1
           /\ ~(s.at = "put" /\ s.to = c /\ s.kind = kind) /\ p \notin Reserving(c, kind) =>
                 Reserving(c, kind)' = Reserving(c, kind)
<1>1. IsFiniteSet(Reserving(c, kind))
    BY HeldType
<1>2. \A q \in Senders : op'[q] = IF q = p THEN s ELSE op[q]
    BY DEF QueueTypes
<1>3. CASE s.at = "put" /\ s.to = c /\ s.kind = kind
  <2>1. Reserving(c, kind)' = Reserving(c, kind) \cup {p}
      BY <1>2, <1>3 DEF Reserving
  <2> QED
      BY <1>1, <1>3, <2>1, FS_AddElement, Zenon
<1>4. CASE ~(s.at = "put" /\ s.to = c /\ s.kind = kind)
  <2>1. Reserving(c, kind)' = Reserving(c, kind) \ {p}
      BY <1>2, <1>4 DEF Reserving
  <2>2. p \in Reserving(c, kind) => Cardinality(Reserving(c, kind) \ {p}) = Cardinality(Reserving(c, kind)) - 1
      BY <1>1, FS_RemoveElement, Zenon
  <2>3. p \notin Reserving(c, kind) => Reserving(c, kind) \ {p} = Reserving(c, kind)
      OBVIOUS
  <2> QED
      BY <1>4, <2>1, <2>2, <2>3
<1> QED
    BY <1>3, <1>4

(* Bytes move with the packets that are held: one packet of one kind is added to, *)
(* or taken from, what one connection holds.                                      *)
LEMMA BytesAdded ==
    ASSUME QueueTypes, BytesAccounted, NEW c \in Conns, NEW kind \in Kinds,
           bytes' = [bytes EXCEPT ![c] = @ + Size(kind)],
           \A x \in Conns, k \in Kinds : Held(x, k)' = IF x = c /\ k = kind THEN Held(x, k) + 1 ELSE Held(x, k)
    PROVE  BytesAccounted'
<1> SUFFICES ASSUME NEW x \in Conns
             PROVE  bytes'[x] = Held(x, "control")' * 1 + Held(x, "forward")' * 2
    BY DEF BytesAccounted, Size
<1>1. Held(x, "control") \in Nat /\ Held(x, "forward") \in Nat
    BY HeldType
<1>2. bytes[x] = Held(x, "control") * 1 + Held(x, "forward") * 2
    BY DEF BytesAccounted, Size
<1>3. bytes'[x] = IF x = c THEN bytes[x] + Size(kind) ELSE bytes[x]
    BY DEF QueueTypes
<1>4. /\ Held(x, "control")' = IF x = c /\ kind = "control" THEN Held(x, "control") + 1 ELSE Held(x, "control")
      /\ Held(x, "forward")' = IF x = c /\ kind = "forward" THEN Held(x, "forward") + 1 ELSE Held(x, "forward")
    BY DEF Kinds
<1>5. kind \in {"control", "forward"} /\ Size(kind) = IF kind = "control" THEN 1 ELSE 2
    BY DEF Kinds, Size
<1> QED
    BY <1>1, <1>2, <1>3, <1>4, <1>5

LEMMA BytesTaken ==
    ASSUME QueueTypes, BytesAccounted, NEW c \in Conns, NEW kind \in Kinds,
           bytes' = [bytes EXCEPT ![c] = @ - Size(kind)],
           Held(c, kind) >= 1,
           \A x \in Conns, k \in Kinds : Held(x, k)' = IF x = c /\ k = kind THEN Held(x, k) - 1 ELSE Held(x, k)
    PROVE  BytesAccounted' /\ bytes' \in [Conns -> 0 .. ByteLimit]
<1>1. ASSUME NEW x \in Conns
      PROVE  /\ bytes'[x] = Held(x, "control")' * 1 + Held(x, "forward")' * 2
             /\ bytes'[x] \in 0 .. ByteLimit
  <2>1. Held(x, "control") \in Nat /\ Held(x, "forward") \in Nat
      BY HeldType
  <2>2. bytes[x] = Held(x, "control") * 1 + Held(x, "forward") * 2
      BY DEF BytesAccounted, Size
  <2>3. bytes'[x] = IF x = c THEN bytes[x] - Size(kind) ELSE bytes[x]
      BY DEF QueueTypes
  <2>4. /\ Held(x, "control")' = IF x = c /\ kind = "control" THEN Held(x, "control") - 1 ELSE Held(x, "control")
        /\ Held(x, "forward")' = IF x = c /\ kind = "forward" THEN Held(x, "forward") - 1 ELSE Held(x, "forward")
      BY DEF Kinds
  <2>5. kind \in {"control", "forward"} /\ Size(kind) = IF kind = "control" THEN 1 ELSE 2
      BY DEF Kinds, Size
  <2>6. bytes[x] \in 0 .. ByteLimit /\ ByteLimit \in Nat
      BY ConnectionsAssumption DEF QueueTypes
  <2>7. x = c /\ kind = "control" => Held(x, "control") >= 1
      OBVIOUS
  <2>8. x = c /\ kind = "forward" => Held(x, "forward") >= 1
      OBVIOUS
  <2> QED
      BY <2>1, <2>2, <2>3, <2>4, <2>5, <2>6, <2>7, <2>8
<1>2. BytesAccounted'
    BY <1>1 DEF BytesAccounted, Size
<1>3. bytes' = [x \in Conns |-> bytes'[x]]
    BY Zenon DEF QueueTypes
<1> QED
    BY <1>1, <1>2, <1>3, Zenon

-----------------------------------------------------------------------------
(* Sending. *)

(* A step that sends nothing, and starts no writer that has stopped. *)
LEMMA QuietKeeps ==
    ASSUME SendInv, UNCHANGED <<op, control, controlMu, queue, bytes, written>>,
           \A c \in Conns : writer'[c] # "stopped" => writer[c] # "stopped"
    PROVE  SendInv'
<1>1. QueueTypes'
    BY DEF SendInv, QueueTypes
<1>2. \A p \in Senders : OpInv(p)'
    BY DEF SendInv, OpInv
<1>3. \A c \in Conns : MuInv(c)'
    BY DEF SendInv, MuInv
<1>4. ControlInOrder'
    BY DEF SendInv, ControlInOrder
<1>5. BytesAccounted'
    BY DEF SendInv, BytesAccounted, Held, Reserving
<1> QED
    BY <1>1, <1>2, <1>3, <1>4, <1>5, Zenon DEF SendInv

(* A send that has not reserved anything yet holds nothing. *)
LEMMA NothingHeld ==
    ASSUME SendInv, NEW p \in Senders, op[p].at # "put", NEW s \in Ops, s.at # "put",
           op' = [op EXCEPT ![p] = s], UNCHANGED <<queue, bytes>>
    PROVE  BytesAccounted'
<1>1. QueueTypes /\ BytesAccounted
    BY Zenon DEF SendInv
<1> SUFFICES ASSUME NEW c \in Conns, NEW kind \in Kinds PROVE Held(c, kind)' = Held(c, kind)
    BY <1>1 DEF BytesAccounted, Kinds
<1>2. p \notin Reserving(c, kind)
    BY DEF Reserving
<1>3. Reserving(c, kind)' = Reserving(c, kind)
    BY <1>1, <1>2, ReservingStep, Zenon
<1> QED
    BY <1>3 DEF Held

(* A send begins: its destination is a connection, and it holds no mutex. *)
LEMMA BeginKeeps ==
    ASSUME SendInv, NEW p \in Senders, op[p] = Idle, NEW c \in Conns, NEW s \in Ops,
           s = Send("reserve", c, "forward", 0) \/ s = Send("lock", c, "control", 0),
           op' = [op EXCEPT ![p] = s],
           UNCHANGED <<control, controlMu, queue, bytes, written, writer>>
    PROVE  SendInv'
<1>1. QueueTypes /\ ControlInOrder /\ (\A q \in Senders : OpInv(q)) /\ \A d \in Conns : MuInv(d)
    BY Zenon DEF SendInv
<1>2. QueueTypes'
    BY <1>1 DEF QueueTypes
<1>3. \A q \in Senders : op'[q] = IF q = p THEN s ELSE op[q]
    BY <1>1 DEF QueueTypes
<1>4. op[p].at = "idle" /\ s.at \in {"reserve", "lock"} /\ s.to = c /\ s.kind \in Kinds
      /\ (s.at = "lock" => s.kind = "control") /\ (s.at = "reserve" => s.kind = "forward")
    BY DEF Idle, Send, Kinds
<1>5. \A q \in Senders : OpInv(q)'
    BY <1>1, <1>3, <1>4 DEF OpInv
<1>6. \A d \in Conns : MuInv(d)'
  <2> SUFFICES ASSUME NEW d \in Conns, controlMu[d] # None
               PROVE  MuInv(d)'
      BY DEF MuInv
  <2>1. controlMu[d] \in Senders /\ MuInv(d)
      BY <1>1 DEF QueueTypes
  <2> QED
      BY <1>3, <1>4, <2>1 DEF MuInv
<1>7. ControlInOrder'
    BY <1>1 DEF ControlInOrder
<1>8. BytesAccounted'
    BY <1>4, NothingHeld, Zenon
<1> QED
    BY <1>2, <1>5, <1>6, <1>7, <1>8, Zenon DEF SendInv

(* The next number is given under the mutex. *)
LEMMA NumberKeeps ==
    ASSUME SendInv, NEW w \in Senders, Number(w)
    PROVE  SendInv'
<1> DEFINE c == op[w].to
           s == Send("reserve", c, "control", control[c] + 1)
<1>1. QueueTypes /\ ControlInOrder /\ (\A q \in Senders : OpInv(q)) /\ \A d \in Conns : MuInv(d)
    BY Zenon DEF SendInv
<1>2. /\ op[w].at = "lock" /\ controlMu[c] = None /\ controlMu' = [controlMu EXCEPT ![c] = w]
      /\ op' = [op EXCEPT ![w] = s]
      /\ UNCHANGED <<writer, queue, bytes, written, control>>
    BY DEF Number, queueVars
<1>3. c \in Conns
    BY <1>1, <1>2 DEF OpInv
<1>4. s \in Ops /\ s.at = "reserve" /\ s.to = c /\ s.kind = "control" /\ s.n = control[c] + 1
    BY <1>1, <1>3 DEF Send, Ops, Kinds, QueueTypes
<1> HIDE DEF s, c
<1>5. QueueTypes'
    BY <1>1, <1>2, <1>3, <1>4 DEF QueueTypes
<1>6. \A q \in Senders : op'[q] = IF q = w THEN s ELSE op[q]
    BY <1>1, <1>2 DEF QueueTypes
<1>7. \A d \in Conns : controlMu'[d] = IF d = c THEN w ELSE controlMu[d]
    BY <1>1, <1>2 DEF QueueTypes
<1>8. w # None /\ None \notin Senders
    BY ConnectionsAssumption DEF Senders
<1>9. \A q \in Senders : OpInv(q)'
  <2> SUFFICES ASSUME NEW q \in Senders PROVE OpInv(q)'
      OBVIOUS
  <2>1. CASE q = w
      BY <1>2, <1>3, <1>4, <1>6, <1>7, <2>1 DEF OpInv, Kinds
  <2>2. CASE q # w
    <3>1. OpInv(q) /\ op'[q] = op[q]
        BY <1>1, <1>6, <2>2
    <3>2. op[q].at \in {"reserve", "put"} /\ op[q].kind = "control" => op[q].to \in Conns /\ op[q].to # c
        BY <1>2, <1>8, <3>1 DEF OpInv
    <3> QED
        BY <1>2, <1>7, <3>1, <3>2 DEF OpInv
  <2> QED
      BY <2>1, <2>2
<1>10. \A d \in Conns : MuInv(d)'
  <2> SUFFICES ASSUME NEW d \in Conns, controlMu'[d] # None PROVE MuInv(d)'
      BY DEF MuInv
  <2>1. CASE d = c
      BY <1>4, <1>6, <1>7, <2>1 DEF MuInv
  <2>2. CASE d # c
    <3>1. controlMu'[d] = controlMu[d] /\ controlMu[d] \in Senders /\ MuInv(d)
        BY <1>1, <1>7, <2>2 DEF QueueTypes
    <3>2. controlMu[d] # w
        BY <1>2, <3>1 DEF MuInv
    <3> QED
        BY <1>6, <3>1, <3>2 DEF MuInv
  <2> QED
      BY <2>1, <2>2
<1>11. ControlInOrder'
    BY <1>1, <1>2 DEF ControlInOrder
<1>12. BytesAccounted'
    BY <1>2, <1>4, NothingHeld, Zenon
<1> QED
    BY <1>5, <1>9, <1>10, <1>11, <1>12, Zenon DEF SendInv

(* A send is over: the mutex is free again, and the number it had is consumed or not. *)
LEMMA FinishKeeps ==
    ASSUME SendInv, NEW p \in Senders, op[p].at \in {"reserve", "put"},
           NEW queued \in BOOLEAN, Finish(p, queued)
    PROVE  /\ op' \in [Senders -> Ops] /\ op' = [op EXCEPT ![p] = Idle] /\ Idle \in Ops /\ Idle.at = "idle"
           /\ control' \in [Conns -> Nat] /\ controlMu' \in [Conns -> Senders \cup {None}]
           /\ \A d \in Conns : control'[d] =
                 IF queued /\ op[p].kind = "control" /\ d = op[p].to THEN control[d] + 1 ELSE control[d]
           /\ \A q \in Senders : OpInv(q)'
           /\ \A d \in Conns : MuInv(d)'
<1> DEFINE c == op[p].to
           mine == op[p].kind = "control"
<1>1. QueueTypes /\ (\A q \in Senders : OpInv(q)) /\ \A d \in Conns : MuInv(d)
    BY Zenon DEF SendInv
<1>2. /\ op' = [op EXCEPT ![p] = Idle]
      /\ controlMu' = [controlMu EXCEPT ![c] = IF @ = p THEN None ELSE @]
      /\ control' = [control EXCEPT ![c] = IF queued /\ mine THEN op[p].n ELSE @]
    BY DEF Finish
<1>3. c \in Conns /\ (mine => controlMu[c] = p /\ op[p].n = control[c] + 1)
    BY <1>1 DEF OpInv
<1>4. Idle \in Ops /\ Idle.at = "idle"
    BY DEF Idle, Send, Ops
<1>5. \A d \in Conns : control'[d] = IF queued /\ mine /\ d = c THEN control[d] + 1 ELSE control[d]
    BY <1>1, <1>2, <1>3 DEF QueueTypes
<1>6. op' \in [Senders -> Ops] /\ \A q \in Senders : op'[q] = IF q = p THEN Idle ELSE op[q]
    BY <1>1, <1>2, <1>4 DEF QueueTypes
<1>7. /\ controlMu' \in [Conns -> Senders \cup {None}]
      /\ \A d \in Conns : controlMu'[d] = IF d = c /\ controlMu[d] = p THEN None ELSE controlMu[d]
    BY <1>1, <1>2, Zenon DEF QueueTypes
<1>8. control' \in [Conns -> Nat]
  <2>1. control' = [d \in Conns |-> control'[d]]
      BY <1>1, <1>2, Zenon DEF QueueTypes
  <2>2. \A d \in Conns : control[d] \in Nat
      BY <1>1 DEF QueueTypes
  <2>3. \A d \in Conns : control'[d] \in {control[d], control[d] + 1}
      BY <1>5, Zenon
  <2>4. \A d \in Conns : control'[d] \in Nat
      BY <2>2, <2>3
  <2> QED
      BY <2>1, <2>4
<1>9. ASSUME NEW q \in Senders PROVE OpInv(q)'
  <2>1. CASE q = p
      BY <1>4, <1>6, <2>1 DEF OpInv
  <2>2. CASE q # p
    <3>1. OpInv(q) /\ op'[q] = op[q]
        BY <1>1, <1>6, <2>2
    <3>2. ASSUME op[q].at \in {"reserve", "put"}, op[q].kind = "control"
          PROVE  controlMu'[op[q].to] = q /\ control'[op[q].to] = control[op[q].to]
      <4>1. op[q].to \in Conns /\ controlMu[op[q].to] = q
          BY <3>1, <3>2 DEF OpInv
      <4>2. mine => op[q].to # c
          BY <1>3, <2>2, <4>1
      <4>3. controlMu'[op[q].to] = q
          BY <1>7, <2>2, <4>1
      <4> HIDE DEF mine
      <4> QED
          BY <1>5, <4>1, <4>2, <4>3
    <3> QED
        BY <3>1, <3>2 DEF OpInv
  <2> QED
      BY <2>1, <2>2
<1>10. ASSUME NEW d \in Conns PROVE MuInv(d)'
  <2> SUFFICES ASSUME controlMu'[d] # None PROVE MuInv(d)'
      BY DEF MuInv
  <2>1. controlMu'[d] = controlMu[d] /\ controlMu[d] \in Senders /\ MuInv(d)
      BY <1>1, <1>7 DEF QueueTypes
  <2>2. controlMu[d] # p
      BY <1>7, <2>1 DEF MuInv
  <2> QED
      BY <1>6, <2>1, <2>2 DEF MuInv
<1> QED
    BY <1>2, <1>4, <1>5, <1>6, <1>7, <1>8, <1>9, <1>10

(* A send is refused before it has reserved anything, or reserves its bytes. *)
LEMMA ReserveKeeps ==
    ASSUME SendInv, NEW p \in Senders, Reserve(p)
    PROVE  SendInv'
<1> DEFINE c == op[p].to
           kind == op[p].kind
           s == Send("put", c, kind, op[p].n)
<1>1. QueueTypes /\ ControlInOrder /\ BytesAccounted /\ (\A q \in Senders : OpInv(q)) /\ \A d \in Conns : MuInv(d)
    BY Zenon DEF SendInv
<1>2. op[p].at = "reserve" /\ UNCHANGED <<writer, queue, written>>
    BY Zenon DEF Reserve
<1>3. \/ Finish(p, FALSE) /\ UNCHANGED bytes
      \/ /\ ~(bytes[c] + Size(kind) > ByteLimit)
         /\ bytes' = [bytes EXCEPT ![c] = @ + Size(kind)]
         /\ op' = [op EXCEPT ![p] = s] /\ UNCHANGED <<control, controlMu>>
    BY Zenon DEF Reserve
<1>4. c \in Conns /\ kind \in Kinds
    BY <1>1, <1>2 DEF OpInv
<1>5. CASE Finish(p, FALSE) /\ UNCHANGED bytes
  <2>1. /\ op' \in [Senders -> Ops] /\ op' = [op EXCEPT ![p] = Idle] /\ Idle \in Ops /\ Idle.at = "idle"
        /\ control' \in [Conns -> Nat] /\ controlMu' \in [Conns -> Senders \cup {None}]
        /\ \A d \in Conns : control'[d] = control[d]
        /\ \A q \in Senders : OpInv(q)'
        /\ \A d \in Conns : MuInv(d)'
      BY <1>2, <1>5, FinishKeeps, Zenon
  <2>2. QueueTypes'
      BY <1>1, <1>2, <1>5, <2>1, SMTT(30) DEF QueueTypes
  <2>3. ControlInOrder'
      BY <1>1, <1>2, <2>1 DEF ControlInOrder
  <2>4. BytesAccounted'
      BY <1>2, <1>5, <2>1, NothingHeld, Zenon
  <2> QED
      BY <2>1, <2>2, <2>3, <2>4, Zenon DEF SendInv
<1>6. CASE /\ ~(bytes[c] + Size(kind) > ByteLimit)
           /\ bytes' = [bytes EXCEPT ![c] = @ + Size(kind)]
           /\ op' = [op EXCEPT ![p] = s] /\ UNCHANGED <<control, controlMu>>
  <2>1. s \in Ops /\ s.at = "put" /\ s.to = c /\ s.kind = kind /\ s.n = op[p].n
      BY <1>1, <1>4 DEF Send, Ops, QueueTypes
  <2> HIDE DEF s
  <2>2. \A q \in Senders : op'[q] = IF q = p THEN s ELSE op[q]
      BY <1>1, <1>6 DEF QueueTypes
  <2>3. QueueTypes'
    <3>1. Size(kind) \in {1, 2}
        BY DEF Size
    <3>2. bytes[c] \in 0 .. ByteLimit /\ ByteLimit \in Nat
        BY <1>1, <1>4, ConnectionsAssumption DEF QueueTypes
    <3>3. bytes[c] + Size(kind) \in 0 .. ByteLimit
        BY <1>6, <3>1, <3>2
    <3>4. bytes' \in [Conns -> 0 .. ByteLimit]
        BY <1>1, <1>6, <3>3, Zenon DEF QueueTypes
    <3> QED
        BY <1>1, <1>2, <1>6, <2>1, <3>4, SMTT(30) DEF QueueTypes
  <2>4. \A q \in Senders : OpInv(q)'
    <3> SUFFICES ASSUME NEW q \in Senders PROVE OpInv(q)'
        OBVIOUS
    <3>1. OpInv(q)
        BY <1>1, SMTT(30)
    <3>2. CASE q = p
        BY <1>2, <1>4, <1>6, <2>1, <2>2, <3>1, <3>2 DEF OpInv
    <3>3. CASE q # p
        BY <1>6, <2>2, <3>1, <3>3 DEF OpInv
    <3> QED
        BY <3>2, <3>3
  <2>5. \A d \in Conns : MuInv(d)'
    <3> SUFFICES ASSUME NEW d \in Conns, controlMu[d] # None PROVE MuInv(d)'
        BY <1>6 DEF MuInv
    <3>1. controlMu[d] \in Senders /\ MuInv(d)
        BY <1>1, SMTT(30) DEF QueueTypes
    <3> QED
        BY <1>6, <2>1, <2>2, <3>1 DEF MuInv
  <2>6. ControlInOrder'
      BY <1>1, <1>2, <1>6 DEF ControlInOrder
  <2>7. ASSUME NEW x \in Conns, NEW k \in Kinds
        PROVE  Held(x, k)' = IF x = c /\ k = kind THEN Held(x, k) + 1 ELSE Held(x, k)
    <3>1. p \notin Reserving(x, k)
        BY <1>2 DEF Reserving
    <3>2. Count(queue[x], k) \in Nat /\ Cardinality(Reserving(x, k)) \in Nat
        BY <1>1, HeldType
    <3>3. Cardinality(Reserving(x, k)') =
            IF x = c /\ k = kind THEN Cardinality(Reserving(x, k)) + 1 ELSE Cardinality(Reserving(x, k))
      <4>1. s.at = "put" /\ s.to = x /\ s.kind = k => Cardinality(Reserving(x, k)') = Cardinality(Reserving(x, k)) + 1
          BY <1>1, <1>6, <2>1, <3>1, ReservingStep, Zenon
      <4>2. ~(s.at = "put" /\ s.to = x /\ s.kind = k) => Reserving(x, k)' = Reserving(x, k)
          BY <1>1, <1>6, <2>1, <3>1, ReservingStep, Zenon
      <4> QED
          BY <2>1, <4>1, <4>2
    <3> QED
        BY <1>2, <3>2, <3>3, SMTT(30) DEF Held
  <2>8. BytesAccounted'
      BY <1>1, <1>4, <1>6, <2>7, BytesAdded, Zenon
  <2> QED
      BY <2>3, <2>4, <2>5, <2>6, <2>8, Zenon DEF SendInv
<1> QED
    BY <1>3, <1>5, <1>6, Zenon

(* What a finished send held is given up by its sender. *)
LEMMA GivenUp ==
    ASSUME QueueTypes, NEW p \in Senders, op[p].at = "put", op' = [op EXCEPT ![p] = Idle],
           Idle \in Ops, Idle.at = "idle", NEW x \in Conns, NEW k
    PROVE  /\ x = op[p].to /\ k = op[p].kind =>
                 /\ Cardinality(Reserving(x, k)') = Cardinality(Reserving(x, k)) - 1
                 /\ Cardinality(Reserving(x, k)) >= 1
           /\ ~(x = op[p].to /\ k = op[p].kind) => Reserving(x, k)' = Reserving(x, k)
<1>1. p \in Reserving(x, k) <=> x = op[p].to /\ k = op[p].kind
    BY DEF Reserving
<1>2. p \in Reserving(x, k) => Cardinality(Reserving(x, k)') = Cardinality(Reserving(x, k)) - 1
    BY ReservingStep, Zenon
<1>3. p \notin Reserving(x, k) => Reserving(x, k)' = Reserving(x, k)
    BY ReservingStep, Zenon
<1>4. p \in Reserving(x, k) => Cardinality(Reserving(x, k)) >= 1
  <2>1. IsFiniteSet(Reserving(x, k)) /\ Cardinality(Reserving(x, k)) \in Nat
      BY HeldType
  <2>2. Cardinality(Reserving(x, k)) = 0 => Reserving(x, k) = {}
      BY <2>1, FS_EmptySet
  <2> QED
      BY <2>1, <2>2
<1> QED
    BY <1>1, <1>2, <1>3, <1>4

(* The packet is queued, or refused and its bytes are given back. *)
LEMMA PutKeeps ==
    ASSUME SendInv, NEW p \in Senders, Put(p)
    PROVE  SendInv'
<1> DEFINE c == op[p].to
           kind == op[p].kind
           x == [kind |-> kind, n |-> op[p].n]
<1>1. QueueTypes /\ ControlInOrder /\ BytesAccounted /\ (\A q \in Senders : OpInv(q)) /\ \A d \in Conns : MuInv(d)
    BY Zenon DEF SendInv
<1>2. op[p].at = "put" /\ UNCHANGED <<writer, written>>
    BY Zenon DEF Put
<1>3. \/ /\ Len(queue[c]) < ChanCap /\ queue' = [queue EXCEPT ![c] = Append(@, x)]
         /\ Finish(p, TRUE) /\ UNCHANGED bytes
      \/ /\ bytes' = [bytes EXCEPT ![c] = @ - Size(kind)]
         /\ Finish(p, FALSE) /\ UNCHANGED queue
    BY Zenon DEF Put
<1>4. c \in Conns /\ kind \in Kinds /\ x \in Packets /\ x.kind = kind /\ x.n = op[p].n
      /\ (kind = "control" => op[p].n = control[c] + 1)
    BY <1>1, <1>2 DEF OpInv, QueueTypes, Ops, Packets
<1> HIDE DEF x
<1>5. CASE /\ Len(queue[c]) < ChanCap /\ queue' = [queue EXCEPT ![c] = Append(@, x)]
           /\ Finish(p, TRUE) /\ UNCHANGED bytes
  <2>1. /\ op' \in [Senders -> Ops] /\ op' = [op EXCEPT ![p] = Idle] /\ Idle \in Ops /\ Idle.at = "idle"
        /\ control' \in [Conns -> Nat] /\ controlMu' \in [Conns -> Senders \cup {None}]
        /\ \A d \in Conns : control'[d] = IF kind = "control" /\ d = c THEN control[d] + 1 ELSE control[d]
        /\ \A q \in Senders : OpInv(q)'
        /\ \A d \in Conns : MuInv(d)'
      BY <1>2, <1>5, FinishKeeps, Zenon
  <2>2. \A d \in Conns : queue[d] \in Seq(Packets) /\ queue'[d] = IF d = c THEN Append(queue[d], x) ELSE queue[d]
      BY <1>1, <1>5 DEF QueueTypes
  <2>3. QueueTypes'
    <3>1. Append(queue[c], x) \in Seq(Packets) /\ Len(Append(queue[c], x)) = Len(queue[c]) + 1 /\ Len(queue[c]) \in Nat
        BY <1>4, <2>2
    <3>2. Len(Append(queue[c], x)) <= ChanCap
        BY <1>5, <3>1, ConnectionsAssumption
    <3>3. queue' \in [Conns -> Seq(Packets)] /\ \A d \in Conns : Len(queue'[d]) <= ChanCap
        BY <1>1, <1>4, <1>5, <3>1, <3>2 DEF QueueTypes
    <3> QED
        BY <1>1, <1>2, <1>5, <2>1, <3>3 DEF QueueTypes
  <2>4. ControlInOrder'
    <3> SUFFICES ASSUME NEW d \in Conns, writer[d] # "stopped"
                 PROVE  NumberedOn(queue'[d], written[d], control'[d])
        BY <1>2 DEF ControlInOrder
    <3>1. NumberedOn(queue[d], written[d], control[d]) /\ written[d] \in Nat /\ control[d] \in Nat
        BY <1>1, SMTT(30) DEF ControlInOrder, QueueTypes
    <3>2. CASE d # c
        BY <2>1, <2>2, <3>1, <3>2
    <3>3. CASE d = c
      <4>1. x.kind = "control" => x.n = control[d] + 1
          BY <1>4, <3>3
      <4>2. /\ x.kind = "control" => NumberedOn(Append(queue[d], x), written[d], control[d] + 1)
            /\ x.kind # "control" => NumberedOn(Append(queue[d], x), written[d], control[d])
          BY <1>4, <2>2, <3>1, <4>1, NumberedAppend, Zenon
      <4> QED
          BY <1>4, <2>1, <2>2, <3>3, <4>2
    <3> QED
        BY <3>2, <3>3
  <2>5. ASSUME NEW y \in Conns, NEW k \in Kinds PROVE Held(y, k)' = Held(y, k)
    <3>1. Count(queue[y], k) \in Nat /\ Cardinality(Reserving(y, k)) \in Nat
        BY <1>1, HeldType
    <3>2. CASE y = c /\ k = kind
      <4>1. Cardinality(Reserving(y, k)') = Cardinality(Reserving(y, k)) - 1
          BY <1>1, <1>2, <2>1, <3>2, GivenUp, Zenon
      <4>2. Count(queue'[y], k) = Count(queue[y], k) + 1
          BY <1>4, <2>2, <3>2, CountAppend
      <4> QED
          BY <3>1, <4>1, <4>2 DEF Held
    <3>3. CASE ~(y = c /\ k = kind)
      <4>1. Reserving(y, k)' = Reserving(y, k)
          BY <1>1, <1>2, <2>1, <3>3, GivenUp, Zenon
      <4>2. Count(queue'[y], k) = Count(queue[y], k)
          BY <1>4, <2>2, <3>3, CountAppend
      <4> QED
          BY <4>1, <4>2 DEF Held
    <3> QED
        BY <3>2, <3>3
  <2>6. BytesAccounted'
      BY <1>1, <1>5, <2>5 DEF BytesAccounted, Kinds
  <2> QED
      BY <2>1, <2>3, <2>4, <2>6, Zenon DEF SendInv
<1>6. CASE /\ bytes' = [bytes EXCEPT ![c] = @ - Size(kind)]
           /\ Finish(p, FALSE) /\ UNCHANGED queue
  <2>1. /\ op' \in [Senders -> Ops] /\ op' = [op EXCEPT ![p] = Idle] /\ Idle \in Ops /\ Idle.at = "idle"
        /\ control' \in [Conns -> Nat] /\ controlMu' \in [Conns -> Senders \cup {None}]
        /\ \A d \in Conns : control'[d] = control[d]
        /\ \A q \in Senders : OpInv(q)'
        /\ \A d \in Conns : MuInv(d)'
      BY <1>2, <1>6, FinishKeeps, Zenon
  <2>2. ASSUME NEW y \in Conns, NEW k \in Kinds
        PROVE  /\ Held(y, k)' = IF y = c /\ k = kind THEN Held(y, k) - 1 ELSE Held(y, k)
               /\ y = c /\ k = kind => Held(y, k) >= 1
    <3>1. Count(queue[y], k) \in Nat /\ Cardinality(Reserving(y, k)) \in Nat
        BY <1>1, HeldType
    <3>2. CASE y = c /\ k = kind
      <4>1. Cardinality(Reserving(y, k)') = Cardinality(Reserving(y, k)) - 1 /\ Cardinality(Reserving(y, k)) >= 1
          BY <1>1, <1>2, <2>1, <3>2, GivenUp, Zenon
      <4> QED
          BY <1>6, <3>1, <3>2, <4>1 DEF Held
    <3>3. CASE ~(y = c /\ k = kind)
      <4>1. Reserving(y, k)' = Reserving(y, k)
          BY <1>1, <1>2, <2>1, <3>3, GivenUp, Zenon
      <4> QED
          BY <1>6, <3>3, <4>1 DEF Held
    <3> QED
        BY <3>2, <3>3
  <2>3. BytesAccounted' /\ bytes' \in [Conns -> 0 .. ByteLimit]
      BY <1>1, <1>4, <1>6, <2>2, BytesTaken, Zenon
  <2>4. QueueTypes'
      BY <1>1, <1>2, <1>6, <2>1, <2>3 DEF QueueTypes
  <2>5. ControlInOrder'
      BY <1>1, <1>2, <1>6, <2>1, Zenon DEF ControlInOrder
  <2> QED
      BY <2>1, <2>3, <2>4, <2>5, Zenon DEF SendInv
<1> QED
    BY <1>3, <1>5, <1>6, Zenon

(* The writer takes the packet at the head: it is written, or the connection is closed. *)
LEMMA WriteKeeps ==
    ASSUME SendInv, LaneTypes, NEW c \in Conns, Write(c)
    PROVE  SendInv'
<1> DEFINE x == Head(queue[c])
<1>1. QueueTypes /\ ControlInOrder /\ BytesAccounted /\ (\A q \in Senders : OpInv(q)) /\ \A d \in Conns : MuInv(d)
    BY Zenon DEF SendInv
<1>2. /\ writer[c] = "running" /\ queue[c] # <<>> /\ queue' = [queue EXCEPT ![c] = Tail(@)]
      /\ bytes' = [bytes EXCEPT ![c] = @ - Size(x.kind)]
    BY Zenon DEF Write
<1>3. \/ written' = [written EXCEPT ![c] = IF x.kind = "control" THEN x.n ELSE @] /\ UNCHANGED writer
      \/ writer' = [writer EXCEPT ![c] = "stopped"] /\ UNCHANGED written
    BY Zenon DEF Write
<1>4. UNCHANGED <<op, control, controlMu>>
    BY DEF Write, sendVars
<1>5. queue[c] \in Seq(Packets) /\ Tail(queue[c]) \in Seq(Packets) /\ Len(Tail(queue[c])) = Len(queue[c]) - 1
      /\ Len(queue[c]) \in Nat /\ x \in Packets /\ Len(queue[c]) <= ChanCap
    BY <1>1, <1>2 DEF QueueTypes
<1>6. x.kind \in Kinds /\ x.n \in Nat
    BY <1>5 DEF Packets
<1> HIDE DEF x
<1>7. \A d \in Conns : queue'[d] = IF d = c THEN Tail(queue[d]) ELSE queue[d]
    BY <1>1, <1>2 DEF QueueTypes
<1>8. ASSUME NEW y \in Conns, NEW k \in Kinds
      PROVE  /\ Held(y, k)' = IF y = c /\ k = x.kind THEN Held(y, k) - 1 ELSE Held(y, k)
             /\ y = c /\ k = x.kind => Held(y, k) >= 1
  <2>1. Reserving(y, k)' = Reserving(y, k)
      BY <1>4 DEF Reserving
  <2>2. Count(queue[y], k) \in Nat /\ Cardinality(Reserving(y, k)) \in Nat
      BY <1>1, HeldType
  <2>3. CASE y = c
    <3>1. Count(Tail(queue[c]), k) \in Nat
        BY <1>5, CountType, Zenon
    <3>2. Count(queue[c], k) = IF x.kind = k THEN Count(Tail(queue[c]), k) + 1 ELSE Count(Tail(queue[c]), k)
        BY <1>2, <1>5, CountTail DEF x
    <3> QED
        BY <1>7, <2>1, <2>2, <2>3, <3>1, <3>2 DEF Held
  <2>4. CASE y # c
      BY <1>7, <2>1, <2>4 DEF Held
  <2> QED
      BY <2>3, <2>4
<1>9. BytesAccounted' /\ bytes' \in [Conns -> 0 .. ByteLimit]
    BY <1>1, <1>2, <1>6, <1>8, BytesTaken, Zenon
<1>10. written' \in [Conns -> Nat]
    BY <1>1, <1>3, <1>6, Zenon DEF QueueTypes
<1>11. QueueTypes'
  <2>1. Len(Tail(queue[c])) <= ChanCap
      BY <1>5, ConnectionsAssumption
  <2>2. queue' \in [Conns -> Seq(Packets)] /\ \A d \in Conns : Len(queue'[d]) <= ChanCap
      BY <1>1, <1>2, <1>5, <1>7, <2>1 DEF QueueTypes
  <2> QED
      BY <1>1, <1>4, <1>9, <1>10, <2>2 DEF QueueTypes
<1>12. ControlInOrder'
  <2> SUFFICES ASSUME NEW d \in Conns, writer'[d] # "stopped"
               PROVE  NumberedOn(queue'[d], written'[d], control[d])
      BY <1>4 DEF ControlInOrder
  <2>1. CASE d # c
    <3>1. writer'[d] = writer[d] /\ written'[d] = written[d] /\ queue'[d] = queue[d]
        BY <1>1, <1>3, <1>7, <2>1 DEF LaneTypes, QueueTypes
    <3> QED
        BY <1>1, <3>1 DEF ControlInOrder
  <2>2. CASE d = c
    <3>1. NumberedOn(queue[c], written[c], control[c]) /\ written[c] \in Nat /\ control[c] \in Nat
        BY <1>1, <1>2 DEF ControlInOrder, QueueTypes
    <3>2. /\ x.kind = "control" => x.n = written[c] + 1 /\ NumberedOn(Tail(queue[c]), written[c] + 1, control[c])
          /\ x.kind # "control" => NumberedOn(Tail(queue[c]), written[c], control[c])
        BY <1>2, <1>5, <3>1, NumberedTail, ZenonT(30) DEF x
    <3>3. CASE writer' = [writer EXCEPT ![c] = "stopped"]
        BY <2>2, <3>3, Zenon DEF LaneTypes
    <3>4. CASE written' = [written EXCEPT ![c] = IF x.kind = "control" THEN x.n ELSE @]
      <4>1. written'[c] = IF x.kind = "control" THEN x.n ELSE written[c]
          BY <1>1, <3>4, SMTT(30) DEF QueueTypes
      <4> QED
          BY <1>7, <2>2, <3>2, <4>1, Zenon
    <3> QED
        BY <1>3, <3>3, <3>4, ZenonT(30)
  <2> QED
      BY <2>1, <2>2
<1>13. (\A q \in Senders : OpInv(q)') /\ \A d \in Conns : MuInv(d)'
    BY <1>1, <1>4 DEF OpInv, MuInv
<1> QED
    BY <1>9, <1>11, <1>12, <1>13, Zenon DEF SendInv

(* The gateway restarts: nothing is queued, reserved or numbered. *)
LEMMA RestartSends ==
    ASSUME SendInv, Restart
    PROVE  SendInv'
<1>1. /\ writer' = [c \in Conns |-> "none"] /\ queue' = [c \in Conns |-> <<>>] /\ bytes' = [c \in Conns |-> 0]
      /\ control' = [c \in Conns |-> 0] /\ controlMu' = [c \in Conns |-> None]
      /\ written' = [c \in Conns |-> 0] /\ op' = [p \in Senders |-> Idle]
    BY Zenon DEF Restart
<1>2. Idle \in Ops /\ Idle.at = "idle"
    BY DEF Idle, Send, Ops
<1>3. QueueTypes'
  <2>1. <<>> \in Seq(Packets) /\ Len(<<>>) = 0
      OBVIOUS
  <2> QED
      BY <1>1, <1>2, <2>1, ConnectionsAssumption DEF QueueTypes
<1>4. (\A q \in Senders : OpInv(q)') /\ \A d \in Conns : MuInv(d)'
    BY <1>1, <1>2 DEF OpInv, MuInv
<1>5. ControlInOrder'
    BY <1>1, NumberedEmpty DEF ControlInOrder
<1>6. BytesAccounted'
  <2>1. ASSUME NEW c \in Conns, NEW kind PROVE Held(c, kind)' = 0
    <3>1. {i \in DOMAIN (queue'[c]) : queue'[c][i].kind = kind} = {}
        BY <1>1
    <3>2. Reserving(c, kind)' = {}
        BY <1>1, <1>2 DEF Reserving
    <3> QED
        BY <3>1, <3>2, FS_EmptySet DEF Held, Count
  <2> QED
      BY <1>1, <2>1 DEF BytesAccounted, Size
<1> QED
    BY <1>3, <1>4, <1>5, <1>6, Zenon DEF SendInv

-----------------------------------------------------------------------------
(* The directory. *)

(* A step that changes neither the directory nor where the handlers are. *)
LEMMA LaneQuiet ==
    ASSUME LaneTypes, LaneInv, UNCHANGED <<generation, current, lane, replaced, connVars>>,
           writer' \in [Conns -> {"none", "running", "stopped"}],
           \A c \in Conns : writer[c] = "none" => writer'[c] = "none",
           \A c \in Conns : done[c] => done'[c]
    PROVE  LaneTypes' /\ LaneInv'
<1>1. LaneTypes' /\ UNCHANGED <<pc, gen, current, lane>>
    BY SMTT(30) DEF LaneTypes, connVars
<1>2. Fenced'
    BY <1>1 DEF LaneInv, Fenced
<1>3. CurrentLives'
    BY <1>1 DEF LaneInv, CurrentLives
<1>4. ClosedFirst'
    BY <1>1, Zenon DEF LaneInv, ClosedFirst
<1>5. WriterStarted'
    BY <1>1 DEF LaneInv, WriterStarted
<1> QED
    BY <1>1, <1>2, <1>3, <1>4, <1>5, Zenon DEF LaneInv

(* A handler moves on, with its lane and its place in the directory as they were. *)
LEMMA HandlerMoves ==
    ASSUME LaneTypes, LaneInv, NEW c \in Conns, NEW at \in States,
           pc' = [pc EXCEPT ![c] = at], at # "handling", pc[c] # "handling",
           UNCHANGED <<current, lane>>,
           pc[c] \in {"reading", "waiting", "closing", "activated"} =>
               at \in {"reading", "waiting", "closing", "removing"},
           pc[c] \in {"new", "challenged", "ready"} => at \in {"challenged", "ready", "refused"},
           pc[c] \in {"new", "challenged", "ready", "reading", "waiting", "closing", "activated"},
           at = "removing" => done'[c],
           \A d \in Conns : done[d] => done'[d],
           \A d \in Conns : d # c /\ writer[d] = "none" => writer'[d] = "none",
           writer'[c] # "none" => writer[c] # "none" \/ pc[c] = "activated"
    PROVE  LaneInv'
<1>1. \A d \in Conns : pc'[d] = IF d = c THEN at ELSE pc[d]
    BY DEF LaneTypes
<1>2. Fenced'
    BY <1>1 DEF LaneInv, Fenced
<1>3. CurrentLives'
  <2> SUFFICES ASSUME NEW e \in Endpoints, current[e] # None
               PROVE  E(current[e]) = e /\ pc'[current[e]] \in {"activated", "reading", "waiting", "handling", "closing", "removing"}
      BY DEF CurrentLives
  <2>1. current[e] \in Conns /\ E(current[e]) = e
        /\ pc[current[e]] \in {"activated", "reading", "waiting", "handling", "closing", "removing"}
      BY SMTT(30) DEF LaneTypes, LaneInv, CurrentLives
  <2> QED
      BY <1>1, <2>1
<1>4. ClosedFirst'
  <2> SUFFICES ASSUME NEW d \in Conns, pc'[d] \in {"removing", "ended"} PROVE done'[d]
      BY DEF ClosedFirst
  <2>1. CASE d = c
    <3>1. at = "removing"
        BY <1>1, <2>1
    <3> QED
        BY <2>1, <3>1, Zenon
  <2>2. CASE d # c
    <3>1. pc[d] \in {"removing", "ended"}
        BY <1>1, <2>2
    <3> QED
        BY <3>1, Zenon DEF LaneInv, ClosedFirst
  <2> QED
      BY <2>1, <2>2
<1>5. WriterStarted'
  <2> SUFFICES ASSUME NEW d \in Conns, writer'[d] # "none"
               PROVE  pc'[d] \in {"reading", "waiting", "handling", "closing", "removing", "ended"}
      BY DEF WriterStarted
  <2>1. d # c => writer[d] # "none"
      OBVIOUS
  <2>2. writer[d] # "none" => pc[d] \in {"reading", "waiting", "handling", "closing", "removing", "ended"}
      BY DEF LaneInv, WriterStarted
  <2> QED
      BY <1>1, <2>1, <2>2
<1> QED
    BY <1>2, <1>3, <1>4, <1>5, Zenon DEF LaneInv

(* A connection that is closed stays so. *)
LEMMA Closing ==
    ASSUME Flags, NEW c \in Conns, done' = [done EXCEPT ![c] = TRUE]
    PROVE  done' \in [Conns -> BOOLEAN] /\ done'[c] /\ \A d \in Conns : done[d] => done'[d]
BY DEF Flags

(* The ticket is consumed, and the challenge answered or not. *)
LEMMA HandshakeKeeps ==
    ASSUME CInv, NEW c \in Conns, Challenge(c) \/ Answer(c)
    PROVE  CInv'
<1>1. LaneTypes /\ Flags /\ Counters /\ LaneInv /\ SendInv
    BY Zenon DEF CInv
<1>2. SendInv' /\ UNCHANGED <<done, active, current, lane, replaced, writer, sends, restarts>>
  <2>1. /\ UNCHANGED <<done, active, current, lane, replaced, writer, sends, restarts>>
        /\ UNCHANGED <<op, control, controlMu, queue, bytes, written, writer>>
      BY DEF Challenge, Answer, dirVars, sendVars, queueVars
  <2> QED
      BY <1>1, <2>1, QuietKeeps
<1>3. LaneTypes'
  <2>1. CASE Challenge(c)
    <3>1. /\ generation' = [generation EXCEPT ![E(c)] = @ + 1] /\ gen' = [gen EXCEPT ![c] = generation'[E(c)]]
          /\ pc' = [pc EXCEPT ![c] = "challenged"]
        BY <2>1, Zenon DEF Challenge, NextGeneration
    <3>2. E(c) \in Endpoints
        BY ConnectionsAssumption DEF E
    <3>3. generation' \in [Endpoints -> Nat]
      <4>1. generation \in [Endpoints -> Nat] /\ generation[E(c)] + 1 \in Nat
          BY <1>1, <3>2 DEF LaneTypes
      <4> QED
          BY <3>1, <4>1, Zenon
    <3> QED
        BY <1>1, <1>2, <3>1, <3>2, <3>3 DEF LaneTypes, States
  <2>2. CASE Answer(c)
      BY <1>1, <1>2, <2>2 DEF LaneTypes, Answer, States, dirVars
  <2> QED
      BY <2>1, <2>2
<1>4. Flags' /\ Counters'
    BY <1>1, <1>2, Zenon DEF Flags, Counters
<1>5. LaneInv'
  <2>1. PICK at \in {"challenged", "ready", "refused"} :
            pc' = [pc EXCEPT ![c] = at] /\ pc[c] \in {"new", "challenged"}
      BY DEF Challenge, Answer
  <2>2. at \in States
      BY DEF States
  <2> QED
      BY <1>1, <1>2, <2>1, <2>2, HandlerMoves, ZenonT(30)
<1> QED
    BY <1>2, <1>3, <1>4, <1>5, Zenon DEF CInv

(* The connection replaced is closed and the writer started, a packet is read, *)
(* reading fails, or the connection is closed.                                 *)
LEMMA ReadingKeeps ==
    ASSUME CInv, NEW c \in Conns, Start(c) \/ Read(c) \/ ReadFails(c) \/ Close(c)
    PROVE  CInv'
<1>1. LaneTypes /\ Flags /\ Counters /\ LaneInv /\ SendInv
    BY Zenon DEF CInv
<1>2. UNCHANGED <<generation, active, current, lane, gen, queue, bytes, written, op, control, controlMu, sends, restarts>>
    BY DEF Start, Read, ReadFails, Close, dirVars, sendVars, queueVars
<1>3. PICK at \in {"reading", "waiting", "closing", "removing"} :
        /\ pc' = [pc EXCEPT ![c] = at] /\ pc[c] \in {"activated", "reading", "closing"}
        /\ at = "removing" => pc[c] = "closing"
        /\ at = "reading" => pc[c] = "activated"
    BY DEF Start, Read, ReadFails, Close
<1>4. /\ \/ writer' = [writer EXCEPT ![c] = "running"] /\ pc[c] = "activated"
         \/ writer' = writer
      /\ replaced' = [replaced EXCEPT ![c] = None] \/ replaced' = replaced
    BY SMTT(30) DEF Start, Read, ReadFails, Close, dirVars, queueVars
<1>5. /\ done' \in [Conns -> BOOLEAN] /\ (\A d \in Conns : done[d] => done'[d])
      /\ pc[c] = "closing" => done'[c]
  <2>1. CASE Start(c)
    <3>1. done' = [x \in Conns |-> done[x] \/ x = replaced[c]] /\ pc[c] = "activated"
        BY <2>1, Zenon DEF Start
    <3> QED
        BY <1>1, <3>1 DEF Flags
  <2>2. CASE Read(c) \/ ReadFails(c)
    <3>1. done' = done /\ pc[c] = "reading"
        BY <2>2, Zenon DEF Read, ReadFails
    <3> QED
        BY <1>1, <3>1 DEF Flags
  <2>3. CASE Close(c)
    <3>1. done' = [done EXCEPT ![c] = TRUE]
        BY <2>3, Zenon DEF Close
    <3> QED
        BY <1>1, <3>1, Closing, Zenon
  <2> QED
      BY <2>1, <2>2, <2>3
<1>6. at \in States
    BY DEF States
<1>7. LaneTypes'
    BY <1>1, <1>2, <1>3, <1>4, <1>6 DEF LaneTypes
<1>8. Flags' /\ Counters'
    BY <1>1, <1>2, <1>5, Zenon DEF Flags, Counters
<1>9. /\ \A d \in Conns : d # c /\ writer[d] = "none" => writer'[d] = "none"
      /\ writer'[c] # "none" => writer[c] # "none" \/ pc[c] = "activated"
    BY <1>1, <1>4 DEF LaneTypes
<1>10. LaneInv'
  <2>1. at = "removing" => done'[c]
      BY <1>3, <1>5, Zenon
  <2>2. \A d \in Conns : done[d] => done'[d]
      BY <1>5, Zenon
  <2>3. at # "handling" /\ pc[c] # "handling"
        /\ (pc[c] \in {"reading", "waiting", "closing", "activated"} =>
               at \in {"reading", "waiting", "closing", "removing"})
        /\ (pc[c] \in {"new", "challenged", "ready"} => at \in {"challenged", "ready", "refused"})
        /\ pc[c] \in {"new", "challenged", "ready", "reading", "waiting", "closing", "activated"}
      BY <1>3
  <2> QED
      BY <1>1, <1>2, <1>3, <1>6, <1>9, <2>1, <2>2, <2>3, HandlerMoves, Zenon
<1>11. SendInv'
  <2>1. \A d \in Conns : writer'[d] # "stopped" => writer[d] # "stopped"
    <3>1. pc[c] = "activated" => writer[c] = "none"
        BY <1>1 DEF LaneInv, WriterStarted
    <3> QED
        BY <1>1, <1>4, <3>1 DEF LaneTypes
  <2> QED
      BY <1>1, <1>2, <2>1, QuietKeeps
<1> QED
    BY <1>7, <1>8, <1>10, <1>11, Zenon DEF CInv

(* A connection becomes current only if it is newer than the current one, while nobody *)
(* holds the lane.                                                                     *)
LEMMA ActivateKeeps ==
    ASSUME CInv, NEW c \in Conns, Activate(c)
    PROVE  CInv' /\ LaneKeptStep
<1> DEFINE old == current[E(c)]
<1>1. LaneTypes /\ Flags /\ Counters /\ LaneInv /\ SendInv
    BY Zenon DEF CInv
<1>2. /\ pc[c] = "ready" /\ lane[E(c)] = None
      /\ UNCHANGED <<generation, active, lane, gen, writer, queue, bytes, written, op, control, controlMu, sends, restarts>>
    BY DEF Activate, queueVars, sendVars
<1>3. \/ /\ pc' = [pc EXCEPT ![c] = "refused"] /\ done' = [done EXCEPT ![c] = TRUE]
         /\ UNCHANGED <<current, replaced>>
      \/ /\ ~(old # None /\ gen[old] >= gen[c])
         /\ pc' = [pc EXCEPT ![c] = "activated"] /\ current' = [current EXCEPT ![E(c)] = c]
         /\ replaced' = [replaced EXCEPT ![c] = old] /\ done' = done
    BY Zenon DEF Activate
<1>4. E(c) \in Endpoints /\ \A d \in Conns : E(d) \in Endpoints
    BY ConnectionsAssumption DEF E
<1>5. SendInv'
    BY <1>1, <1>2, QuietKeeps
<1>6. Counters'
    BY <1>1, <1>2 DEF Counters
<1>7. CASE /\ pc' = [pc EXCEPT ![c] = "refused"] /\ done' = [done EXCEPT ![c] = TRUE]
           /\ UNCHANGED <<current, replaced>>
  <2>1. done' \in [Conns -> BOOLEAN] /\ \A d \in Conns : done[d] => done'[d]
      BY <1>1, <1>7, Closing, Zenon
  <2>2. Flags'
      BY <1>1, <1>2, <2>1, Zenon DEF Flags
  <2>3. LaneTypes' /\ "refused" \in States
      BY <1>1, <1>2, <1>7 DEF LaneTypes, States
  <2>4. LaneInv'
      BY <1>1, <1>2, <1>7, <2>1, <2>3, HandlerMoves, Zenon
  <2>5. LaneKeptStep
      BY <1>7, Zenon DEF LaneKeptStep
  <2> QED
      BY <1>5, <1>6, <2>2, <2>3, <2>4, <2>5, Zenon DEF CInv
<1>8. CASE /\ ~(old # None /\ gen[old] >= gen[c])
           /\ pc' = [pc EXCEPT ![c] = "activated"] /\ current' = [current EXCEPT ![E(c)] = c]
           /\ replaced' = [replaced EXCEPT ![c] = old] /\ done' = done
  <2>1. LaneTypes' /\ c # None
    <3>1. old \in Conns \cup {None}
        BY <1>1, <1>4 DEF LaneTypes
    <3> QED
        BY <1>1, <1>2, <1>8, <3>1, ConnectionsAssumption, Zenon DEF LaneTypes, States
  <2>2. Flags'
      BY <1>1, <1>2, <1>8, Zenon DEF Flags
  <2>3. \A d \in Conns : pc'[d] = IF d = c THEN "activated" ELSE pc[d]
      BY <1>1, <1>8 DEF LaneTypes
  <2>4. \A e \in Endpoints : current'[e] = IF e = E(c) THEN c ELSE current[e]
      BY <1>1, <1>8 DEF LaneTypes
  <2>5. Fenced'
    <3> SUFFICES ASSUME NEW d \in Conns, pc'[d] = "handling" PROVE current'[E(d)] = d /\ lane'[E(d)] = d
        BY DEF Fenced
    <3>1. pc[d] = "handling" /\ current[E(d)] = d /\ lane[E(d)] = d
        BY <1>1, <2>3 DEF LaneInv, Fenced
    <3>2. E(d) # E(c)
        BY <1>2, <3>1, ConnectionsAssumption
    <3> QED
        BY <1>2, <1>4, <2>4, <3>1, <3>2
  <2>6. CurrentLives'
    <3> SUFFICES ASSUME NEW e \in Endpoints, current'[e] # None
                 PROVE  /\ E(current'[e]) = e
                        /\ pc'[current'[e]] \in {"activated", "reading", "waiting", "handling", "closing", "removing"}
        BY DEF CurrentLives
    <3>1. CASE e = E(c)
        BY <2>3, <2>4, <3>1
    <3>2. CASE e # E(c)
      <4>1. /\ current'[e] = current[e] /\ current[e] \in Conns /\ E(current[e]) = e
            /\ pc[current[e]] \in {"activated", "reading", "waiting", "handling", "closing", "removing"}
          BY <1>1, <2>4, <3>2 DEF LaneTypes, LaneInv, CurrentLives
      <4> QED
          BY <2>3, <4>1
    <3> QED
        BY <3>1, <3>2
  <2>7. ClosedFirst'
    <3>1. \A d \in Conns : pc'[d] \in {"removing", "ended"} => pc[d] \in {"removing", "ended"}
        BY <2>3
    <3> QED
        BY <1>1, <1>8, <3>1, Zenon DEF LaneInv, ClosedFirst
  <2>8. WriterStarted'
    <3>1. \A d \in Conns : writer[d] # "none" => d # c
        BY <1>1, <1>2 DEF LaneInv, WriterStarted
    <3> QED
        BY <1>1, <1>2, <2>3, <3>1 DEF LaneInv, WriterStarted
  <2>9. LaneKeptStep
    <3> SUFFICES ASSUME NEW e \in Endpoints, NEW d \in Conns, current[e] = d, current'[e] # d
                 PROVE  current'[e] # None /\ gen[current'[e]] > gen[d]
        BY DEF LaneKeptStep
    <3>1. e = E(c) /\ d = old /\ current'[e] = c /\ d # None
        BY <2>4, ConnectionsAssumption
    <3>2. gen[d] \in Nat /\ gen[c] \in Nat
        BY <1>1 DEF LaneTypes
    <3> QED
        BY <1>8, <2>1, <3>1, <3>2
  <2> QED
      BY <1>5, <1>6, <2>1, <2>2, <2>5, <2>6, <2>7, <2>8, <2>9, Zenon DEF CInv, LaneInv
<1> QED
    BY <1>3, <1>7, <1>8

(* withCurrent: only the current connection enters, and it leaves the lane as it found it. *)
LEMMA HandlingKeeps ==
    ASSUME CInv, NEW c \in Conns, Enter(c) \/ Leave(c)
    PROVE  CInv' /\ LaneKeptStep
<1>1. LaneTypes /\ Flags /\ Counters /\ LaneInv /\ SendInv
    BY Zenon DEF CInv
<1>2. UNCHANGED <<generation, active, current, replaced, gen, done, writer, queue, bytes, written,
                  op, control, controlMu, sends, restarts>>
    BY DEF Enter, Leave, queueVars, sendVars
<1>3. E(c) \in Endpoints /\ None \notin Conns
    BY ConnectionsAssumption DEF E
<1>4. PICK at \in {"handling", "reading", "closing"}, holder \in {c, None} :
        /\ pc' = [pc EXCEPT ![c] = at] /\ pc[c] \in {"waiting", "handling"}
        /\ lane' = [lane EXCEPT ![E(c)] = holder]
        /\ lane[E(c)] = None \/ pc[c] = "handling"
        /\ at = "handling" => holder = c /\ current[E(c)] = c
  <2>1. CASE Enter(c) /\ current[E(c)] = c /\ active[E(c)]
    <3>1. /\ pc[c] = "waiting" /\ lane[E(c)] = None
          /\ pc' = [pc EXCEPT ![c] = "handling"] /\ lane' = [lane EXCEPT ![E(c)] = c]
        BY <2>1, Zenon DEF Enter
    <3> QED
        BY <2>1, <3>1, Zenon
  <2>2. CASE Enter(c) /\ ~(current[E(c)] = c /\ active[E(c)])
    <3>1. pc[c] = "waiting" /\ lane[E(c)] = None /\ pc' = [pc EXCEPT ![c] = "closing"] /\ lane' = lane
        BY <2>2, Zenon DEF Enter
    <3>2. lane' = [lane EXCEPT ![E(c)] = None]
        BY <1>1, <1>3, <3>1 DEF LaneTypes
    <3> QED
        BY <3>1, <3>2, Zenon
  <2>3. CASE Leave(c)
      BY <2>3, Zenon DEF Leave
  <2> QED
      BY <2>1, <2>2, <2>3, Zenon
<1>5. LaneTypes'
    BY <1>1, <1>2, <1>3, <1>4 DEF LaneTypes, States
<1>6. Flags' /\ Counters'
    BY <1>1, <1>2, Zenon DEF Flags, Counters
<1>7. SendInv'
    BY <1>1, <1>2, QuietKeeps
<1>8. \A d \in Conns : pc'[d] = IF d = c THEN at ELSE pc[d]
    BY <1>1, <1>4 DEF LaneTypes
<1>9. \A e \in Endpoints : lane'[e] = IF e = E(c) THEN holder ELSE lane[e]
    BY <1>1, <1>4 DEF LaneTypes
<1>10. Fenced'
  <2> SUFFICES ASSUME NEW d \in Conns, pc'[d] = "handling" PROVE current[E(d)] = d /\ lane'[E(d)] = d
      BY <1>2, ZenonT(30) DEF Fenced
  <2>1. CASE d = c
      BY <1>3, <1>4, <1>8, <1>9, <2>1, SMTT(30)
  <2>2. CASE d # c
    <3>1. pc[d] = "handling" /\ current[E(d)] = d /\ lane[E(d)] = d
        BY <1>1, <1>8, <2>2 DEF LaneInv, Fenced
    <3>2. E(d) # E(c)
      <4>1. pc[c] = "handling" => lane[E(c)] = c
          BY <1>1 DEF LaneInv, Fenced
      <4> QED
          BY <1>3, <1>4, <2>2, <3>1, <4>1
    <3>3. E(d) \in Endpoints
        BY ConnectionsAssumption DEF E
    <3> QED
        BY <1>9, <3>1, <3>2, <3>3
  <2> QED
      BY <2>1, <2>2, Zenon
<1>11. CurrentLives'
  <2> SUFFICES ASSUME NEW e \in Endpoints, current[e] # None
               PROVE  /\ E(current[e]) = e
                      /\ pc'[current[e]] \in {"activated", "reading", "waiting", "handling", "closing", "removing"}
      BY <1>2 DEF CurrentLives
  <2>1. /\ current[e] \in Conns /\ E(current[e]) = e
        /\ pc[current[e]] \in {"activated", "reading", "waiting", "handling", "closing", "removing"}
      BY <1>1 DEF LaneTypes, LaneInv, CurrentLives
  <2> QED
      BY <1>4, <1>8, <2>1
<1>12. ClosedFirst'
  <2>1. \A d \in Conns : pc'[d] \in {"removing", "ended"} => pc[d] \in {"removing", "ended"}
      BY <1>4, <1>8
  <2> QED
      BY <1>1, <1>2, <2>1, Zenon DEF LaneInv, ClosedFirst
<1>13. WriterStarted'
    BY <1>1, <1>2, <1>4, <1>8 DEF LaneInv, WriterStarted
<1>14. LaneKeptStep
    BY <1>2, Zenon DEF LaneKeptStep
<1> QED
    BY <1>5, <1>6, <1>7, <1>10, <1>11, <1>12, <1>13, <1>14, Zenon DEF CInv, LaneInv

(* A connection that has closed leaves the directory, and takes nobody else with it. *)
LEMMA RemoveKeeps ==
    ASSUME CInv, NEW c \in Conns, RemoveLane(c)
    PROVE  CInv' /\ LaneKeptStep
<1>1. LaneTypes /\ Flags /\ Counters /\ LaneInv /\ SendInv
    BY Zenon DEF CInv
<1>2. /\ pc[c] = "removing" /\ lane[E(c)] = None /\ pc' = [pc EXCEPT ![c] = "ended"]
      /\ current' = [current EXCEPT ![E(c)] = IF @ = c THEN None ELSE @]
      /\ UNCHANGED <<generation, active, lane, replaced, gen, done, writer, queue, bytes, written,
                     op, control, controlMu, sends, restarts>>
    BY DEF RemoveLane, queueVars, sendVars
<1>3. E(c) \in Endpoints /\ None \notin Conns
    BY ConnectionsAssumption DEF E
<1>4. \A d \in Conns : pc'[d] = IF d = c THEN "ended" ELSE pc[d]
    BY <1>1, <1>2 DEF LaneTypes
<1>5. /\ current' \in [Endpoints -> Conns \cup {None}]
      /\ \A e \in Endpoints : current'[e] = IF e = E(c) /\ current[e] = c THEN None ELSE current[e]
    BY <1>1, <1>2, ZenonT(30) DEF LaneTypes
<1>6. LaneTypes'
    BY <1>1, <1>2, <1>5 DEF LaneTypes, States
<1>7. Flags' /\ Counters'
    BY <1>1, <1>2, Zenon DEF Flags, Counters
<1>8. SendInv'
    BY <1>1, <1>2, QuietKeeps, ZenonT(30)
<1>9. Fenced'
  <2> SUFFICES ASSUME NEW d \in Conns, pc'[d] = "handling" PROVE current'[E(d)] = d /\ lane[E(d)] = d
      BY <1>2 DEF Fenced
  <2>1. pc[d] = "handling" /\ d # c /\ current[E(d)] = d /\ lane[E(d)] = d /\ E(d) \in Endpoints
      BY <1>1, <1>4, ConnectionsAssumption DEF LaneInv, Fenced, E
  <2> QED
      BY <1>5, <2>1
<1>10. CurrentLives'
  <2> SUFFICES ASSUME NEW e \in Endpoints, current'[e] # None
               PROVE  /\ E(current'[e]) = e
                      /\ pc'[current'[e]] \in {"activated", "reading", "waiting", "handling", "closing", "removing"}
      BY DEF CurrentLives
  <2>1. current'[e] = current[e] /\ current[e] \in Conns /\ ~(e = E(c) /\ current[e] = c)
      BY <1>1, <1>5 DEF LaneTypes
  <2>2. E(current[e]) = e /\ pc[current[e]] \in {"activated", "reading", "waiting", "handling", "closing", "removing"}
      BY <1>1, <1>3, <2>1, Zenon DEF LaneInv, CurrentLives
  <2> QED
      BY <1>4, <2>1, <2>2
<1>11. ClosedFirst'
  <2>1. \A d \in Conns : pc'[d] \in {"removing", "ended"} => pc[d] \in {"removing", "ended"}
      BY <1>2, <1>4
  <2> QED
      BY <1>1, <1>2, <2>1, Zenon DEF LaneInv, ClosedFirst
<1>12. WriterStarted'
    BY <1>1, <1>2, <1>4 DEF LaneInv, WriterStarted
<1>13. LaneKeptStep
  <2>1. done[c]
      BY <1>1, <1>2 DEF LaneInv, ClosedFirst
  <2>2. ASSUME NEW e \in Endpoints, NEW d \in Conns, current[e] = d, current'[e] # d
        PROVE  current'[e] = None /\ d = c
      BY <1>5, <2>2
  <2> QED
      BY <1>2, <2>1, <2>2, Zenon DEF LaneKeptStep
<1> QED
    BY <1>6, <1>7, <1>8, <1>9, <1>10, <1>11, <1>12, <1>13, Zenon DEF CInv, LaneInv

(* The gateway restarts. *)
LEMMA RestartKeeps ==
    ASSUME CInv, Restart
    PROVE  CInv' /\ LaneKeptStep
<1>1. LaneTypes /\ Flags /\ Counters /\ LaneInv /\ SendInv
    BY Zenon DEF CInv
<1>2. /\ restarts < MaxRestarts /\ restarts' = restarts + 1
      /\ pc' = [c \in Conns |-> IF pc[c] = "new" THEN "new" ELSE IF Activated(c) THEN "ended" ELSE "refused"]
      /\ current' = [e \in Endpoints |-> None] /\ lane' = [e \in Endpoints |-> None]
      /\ replaced' = [c \in Conns |-> None] /\ writer' = [c \in Conns |-> "none"]
      /\ UNCHANGED <<generation, gen, sends>>
    BY Zenon DEF Restart
<1>3. done' = [c \in Conns |-> pc[c] # "new"] /\ active' = active
    BY Zenon DEF Restart
<1>4. LaneTypes'
    BY <1>1, <1>2 DEF LaneTypes, States
<1>5. Flags'
    BY <1>1, <1>3 DEF Flags
<1>6. Counters' /\ restarts' # restarts
    BY <1>1, <1>2, ConnectionsAssumption DEF Counters
<1>7. SendInv'
    BY <1>1, RestartSends
<1>8. \A c \in Conns : pc'[c] \in {"new", "ended", "refused"} /\ (pc'[c] # "new" => pc[c] # "new")
    BY <1>2
<1>9. Fenced' /\ CurrentLives' /\ WriterStarted'
    BY <1>2, <1>8 DEF Fenced, CurrentLives, WriterStarted
<1>10. ClosedFirst'
  <2>1. \A c \in Conns : pc'[c] \in {"removing", "ended"} => pc[c] # "new"
      BY <1>8
  <2> QED
      BY <1>3, <2>1, Zenon DEF ClosedFirst
<1>11. LaneKeptStep
    BY <1>6, Zenon DEF LaneKeptStep
<1> QED
    BY <1>4, <1>5, <1>6, <1>7, <1>9, <1>10, <1>11, Zenon DEF CInv, LaneInv

(* A send, a write or the end of a writer leaves the directory alone; so does the *)
(* end of a credential.                                                           *)
LEMMA SendingKeeps ==
    ASSUME CInv,
           \/ \E c \in Conns : Write(c) \/ StopWriter(c)
           \/ \E c \in Conns, e \in Endpoints : Forward(c, e)
           \/ \E w \in Workers, e \in Endpoints : SendControl(w, e)
           \/ \E p \in Senders : Sender(p)
           \/ \E e \in Endpoints : Deactivate(e)
    PROVE  CInv' /\ LaneKeptStep
<1>1. LaneTypes /\ Flags /\ Counters /\ LaneInv /\ SendInv
    BY Zenon DEF CInv
<1> DEFINE Quiet == UNCHANGED <<generation, current, lane, replaced, connVars, restarts>>
<1>2. ASSUME Quiet, SendInv', Flags', sends' \in 0 .. MaxSends,
             writer' \in [Conns -> {"none", "running", "stopped"}],
             \A c \in Conns : writer[c] = "none" => writer'[c] = "none",
             \A c \in Conns : done[c] => done'[c]
      PROVE  CInv' /\ LaneKeptStep
  <2>1. LaneTypes' /\ LaneInv'
      BY <1>1, <1>2, LaneQuiet, Zenon
  <2>2. Counters'
      BY <1>1, <1>2, Zenon DEF Counters
  <2>3. LaneKeptStep
      BY <1>2, Zenon DEF LaneKeptStep
  <2> QED
      BY <1>2, <2>1, <2>2, <2>3, Zenon DEF CInv
<1>3. writer \in [Conns -> {"none", "running", "stopped"}] /\ sends \in 0 .. MaxSends
    BY <1>1 DEF LaneTypes, Counters
<1>4. ASSUME NEW c \in Conns, Write(c) \/ StopWriter(c) PROVE CInv' /\ LaneKeptStep
  <2>1. Quiet /\ active' = active /\ UNCHANGED sends
      BY <1>4, Zenon DEF Write, StopWriter, dirVars, sendVars
  <2>2. writer[c] = "running" /\ (writer' = writer \/ writer' = [writer EXCEPT ![c] = "stopped"])
      BY <1>4, Zenon DEF Write, StopWriter
  <2>3. done' = done \/ done' = [done EXCEPT ![c] = TRUE]
      BY <1>4, Zenon DEF Write, StopWriter
  <2>4. done' \in [Conns -> BOOLEAN] /\ \A d \in Conns : done[d] => done'[d]
    <3>1. CASE done' = done
        BY <1>1, <3>1 DEF Flags
    <3>2. CASE done' = [done EXCEPT ![c] = TRUE]
        BY <1>1, <3>2, Closing, Zenon
    <3> QED
        BY <2>3, <3>1, <3>2
  <2>5. Flags'
      BY <1>1, <2>1, <2>4, Zenon DEF Flags
  <2>6. /\ writer' \in [Conns -> {"none", "running", "stopped"}]
        /\ \A d \in Conns : writer[d] = "none" => writer'[d] = "none"
        /\ \A d \in Conns : writer'[d] # "stopped" => writer[d] # "stopped"
      BY <1>3, <2>2
  <2>7. SendInv'
    <3>1. CASE Write(c)
        BY <1>1, <3>1, WriteKeeps
    <3>2. CASE StopWriter(c)
      <4>1. UNCHANGED <<op, control, controlMu, queue, bytes, written>>
          BY <3>2 DEF StopWriter, sendVars
      <4> QED
          BY <1>1, <2>6, <4>1, QuietKeeps
    <3> QED
        BY <1>4, <3>1, <3>2
  <2> QED
      BY <1>2, <1>3, <2>1, <2>4, <2>5, <2>6, <2>7, Zenon
<1>5. ASSUME Quiet, active' = active, done' = done, writer' = writer, SendInv', sends' \in 0 .. MaxSends
      PROVE  CInv' /\ LaneKeptStep
  <2>1. Flags'
      BY <1>1, <1>5, Zenon DEF Flags
  <2> QED
      BY <1>2, <1>3, <1>5, <2>1, Zenon
<1>6. ASSUME NEW p \in Senders, NEW e \in Endpoints,
             \/ p \in Conns /\ Forward(p, e)
             \/ p \in Workers /\ SendControl(p, e)
      PROVE  CInv' /\ LaneKeptStep
  <2>1. Quiet /\ active' = active /\ done' = done /\ writer' = writer
        /\ UNCHANGED <<control, controlMu, queue, bytes, written>>
      BY <1>6 DEF Forward, SendControl, dirVars, queueVars
  <2>2. sends < MaxSends /\ sends' = sends + 1 /\ op[p] = Idle /\ current[e] # None
      BY <1>6, Zenon DEF Forward, SendControl
  <2>3. PICK s \in {Send("reserve", current[e], "forward", 0), Send("lock", current[e], "control", 0)} :
            op' = [op EXCEPT ![p] = s]
      BY <1>6, Zenon DEF Forward, SendControl
  <2>4. current[e] \in Conns
      BY <1>1, <2>2 DEF LaneTypes
  <2>5. s \in Ops
      BY <2>3, <2>4 DEF Send, Ops, Kinds
  <2>6. SendInv'
      BY <1>1, <2>1, <2>2, <2>3, <2>4, <2>5, BeginKeeps, Zenon
  <2>7. sends' \in 0 .. MaxSends
      BY <1>3, <2>2, ConnectionsAssumption
  <2> QED
      BY <1>5, <2>1, <2>6, <2>7, ZenonT(30)
<1>7. ASSUME NEW p \in Senders, Sender(p) PROVE CInv' /\ LaneKeptStep
  <2>1. Quiet /\ active' = active /\ done' = done /\ writer' = writer /\ sends' = sends
      BY <1>7, Zenon DEF Sender, Number, Reserve, Put, Finish, dirVars, queueVars
  <2>2. SendInv'
      BY <1>1, <1>7, NumberKeeps, ReserveKeeps, PutKeeps, Zenon DEF Sender
  <2> QED
      BY <1>3, <1>5, <2>1, <2>2, Zenon
<1>8. ASSUME NEW e \in Endpoints, Deactivate(e) PROVE CInv' /\ LaneKeptStep
  <2>1. Quiet /\ done' = done /\ writer' = writer /\ sends' = sends
        /\ UNCHANGED <<op, control, controlMu, queue, bytes, written>>
      BY <1>8 DEF Deactivate, queueVars, sendVars
  <2>2. active' = [active EXCEPT ![e] = FALSE]
      BY <1>8, Zenon DEF Deactivate
  <2>3. Flags'
      BY <1>1, <2>1, <2>2 DEF Flags
  <2>4. SendInv'
      BY <1>1, <2>1, QuietKeeps
  <2> QED
      BY <1>2, <1>3, <2>1, <2>3, <2>4, Zenon
<1>9. Conns \subseteq Senders /\ Workers \subseteq Senders
    BY DEF Senders
<1>10. ASSUME NEW c \in Conns, NEW e \in Endpoints, Forward(c, e) PROVE CInv' /\ LaneKeptStep
  <2>1. c \in Senders
      BY <1>9
  <2> QED
      BY <1>6, <1>10, <2>1, Zenon
<1>11. ASSUME NEW w \in Workers, NEW e \in Endpoints, SendControl(w, e) PROVE CInv' /\ LaneKeptStep
  <2>1. w \in Senders
      BY <1>9
  <2> QED
      BY <1>6, <1>11, <2>1, Zenon
<1> QED
    BY <1>4, <1>7, <1>8, <1>10, <1>11, Zenon

-----------------------------------------------------------------------------
(* Without connections nothing is current, queued or sent. *)
LEMMA InitHolds == Init => CInv
<1> SUFFICES ASSUME Init PROVE CInv
    OBVIOUS
<1>1. LaneTypes /\ Counters
    BY ConnectionsAssumption DEF Init, LaneTypes, Counters, States
<1>2. Flags
    BY DEF Init, Flags
<1>3. Fenced /\ CurrentLives /\ WriterStarted
    BY DEF Init, Fenced, CurrentLives, WriterStarted
<1>4. ClosedFirst
  <2>1. \A c \in Conns : pc[c] = "new"
      BY DEF Init
  <2> QED
      BY <2>1 DEF ClosedFirst
<1>5. Idle \in Ops /\ Idle.at = "idle"
    BY DEF Idle, Send, Ops
<1>6. QueueTypes
  <2>1. <<>> \in Seq(Packets) /\ Len(<<>>) = 0
      OBVIOUS
  <2> QED
      BY <1>5, <2>1, ConnectionsAssumption DEF Init, QueueTypes
<1>7. (\A q \in Senders : OpInv(q)) /\ \A d \in Conns : MuInv(d)
    BY <1>5 DEF Init, OpInv, MuInv
<1>8. ControlInOrder
    BY NumberedEmpty DEF Init, ControlInOrder
<1>9. BytesAccounted
  <2>1. ASSUME NEW c \in Conns, NEW kind PROVE Held(c, kind) = 0
    <3>1. {i \in DOMAIN (queue[c]) : queue[c][i].kind = kind} = {}
        BY DEF Init
    <3>2. Reserving(c, kind) = {}
        BY <1>5 DEF Init, Reserving
    <3> QED
        BY <3>1, <3>2, FS_EmptySet DEF Held, Count
  <2>2. \A c \in Conns : bytes[c] = 0
      BY DEF Init
  <2> QED
      BY <2>1, <2>2 DEF BytesAccounted, Size
<1> QED
    BY <1>1, <1>2, <1>3, <1>4, <1>6, <1>7, <1>8, <1>9, Zenon DEF CInv, LaneInv, SendInv

(* Every step keeps the invariant, and takes no connection from its lane that has *)
(* not closed or been replaced by a newer one.                                    *)
LEMMA StepKeeps == CInv /\ [Next]_vars => CInv' /\ [LaneKeptStep]_vars
<1> SUFFICES ASSUME CInv, [Next]_vars PROVE CInv' /\ [LaneKeptStep]_vars
    OBVIOUS
<1>1. ASSUME NEW c \in Conns, Challenge(c) \/ Answer(c) \/ Start(c) \/ Read(c) \/ ReadFails(c) \/ Close(c)
      PROVE  CInv' /\ LaneKeptStep
  <2>1. current' = current
      BY <1>1 DEF Challenge, Answer, Start, Read, ReadFails, Close, dirVars
  <2>2. LaneKeptStep
      BY <2>1, Zenon DEF LaneKeptStep
  <2> QED
      BY <1>1, <2>2, HandshakeKeeps, ReadingKeeps, ZenonT(30)
<1>2. ASSUME NEW c \in Conns, Activate(c) \/ Enter(c) \/ Leave(c) \/ RemoveLane(c)
      PROVE  CInv' /\ LaneKeptStep
    BY <1>2, ActivateKeeps, HandlingKeeps, RemoveKeeps, Zenon
<1>3. CASE Restart
    BY <1>3, RestartKeeps, Zenon
<1>4. CASE UNCHANGED vars
  <2>1. /\ UNCHANGED <<generation, current, lane, replaced, connVars>> /\ UNCHANGED <<sends, restarts, writer, active, done>>
        /\ UNCHANGED <<op, control, controlMu, queue, bytes, written>>
      BY <1>4 DEF vars, dirVars, connVars, queueVars, sendVars
  <2>2. LaneTypes /\ Flags /\ Counters /\ LaneInv /\ SendInv
      BY Zenon DEF CInv
  <2>3. SendInv'
      BY <2>1, <2>2, QuietKeeps
  <2>4. writer \in [Conns -> {"none", "running", "stopped"}]
      BY <2>2 DEF LaneTypes
  <2>5. LaneTypes' /\ LaneInv'
      BY <2>1, <2>2, <2>4, LaneQuiet, Zenon
  <2>6. Flags' /\ Counters'
      BY <2>1, <2>2, Zenon DEF Flags, Counters
  <2> QED
      BY <1>4, <2>3, <2>5, <2>6, Zenon DEF CInv
<1>5. CASE \/ \E c \in Conns : Write(c) \/ StopWriter(c)
           \/ \E c \in Conns, e \in Endpoints : Forward(c, e)
           \/ \E w \in Workers, e \in Endpoints : SendControl(w, e)
           \/ \E p \in Senders : Sender(p)
           \/ \E e \in Endpoints : Deactivate(e)
    BY <1>5, SendingKeeps, Zenon
<1> QED
    BY <1>1, <1>2, <1>3, <1>4, <1>5, Zenon DEF Next, Handler

(* The connection directory keeps its inductive invariant. *)
THEOREM DirectoryInvariant == Spec => []CInv
<1>1. Init => CInv
    BY InitHolds
<1>2. CInv /\ [Next]_vars => CInv'
    BY StepKeeps, Zenon
<1> QED
    BY <1>1, <1>2, PTL DEF Spec

(***************************************************************************)
(* Every variable of the directory and of the queues keeps its type; in    *)
(* particular no outbound channel exceeds its capacity and queuedBytes     *)
(* stays within maxConnectionQueueBytes.                                   *)
(***************************************************************************)
THEOREM DirectoryTypeOK == Spec => []TypeOK
<1>1. CInv => TypeOK
    BY Zenon DEF CInv, SendInv, LaneTypes, Flags, QueueTypes, Counters, TypeOK
<1> QED
    BY <1>1, DirectoryInvariant, PTL

(***************************************************************************)
(* withCurrent: a packet is only handled for the connection that is        *)
(* current and holds the lane of its endpoint, for any number of           *)
(* connections, sends and restarts.                                        *)
(***************************************************************************)
THEOREM DirectoryFenced == Spec => []Fenced
<1>1. CInv => Fenced
    BY Zenon DEF CInv, LaneInv
<1> QED
    BY <1>1, DirectoryInvariant, PTL

(***************************************************************************)
(* sendControl: the control packets queued on a connection are numbered    *)
(* without a gap from the last one written to the last number given,       *)
(* however many handlers send at the same time.                            *)
(***************************************************************************)
THEOREM DirectoryControlInOrder == Spec => []ControlInOrder
<1>1. CInv => ControlInOrder
    BY Zenon DEF CInv, SendInv
<1> QED
    BY <1>1, DirectoryInvariant, PTL

(***************************************************************************)
(* enqueue and runWriter: queuedBytes is what is queued plus what senders  *)
(* have reserved, for any capacity and any limit.                          *)
(***************************************************************************)
THEOREM DirectoryBytesAccounted == Spec => []BytesAccounted
<1>1. CInv => BytesAccounted
    BY Zenon DEF CInv, SendInv
<1> QED
    BY <1>1, DirectoryInvariant, PTL

(***************************************************************************)
(* activate and remove: a connection leaves its lane only when it has      *)
(* closed itself, for a newer generation, or when the gateway restarts.    *)
(***************************************************************************)
THEOREM DirectoryLaneKept == Spec => LaneKept
<1>1. CInv /\ [Next]_vars => [LaneKeptStep]_vars
    BY StepKeeps, Zenon
<1> QED
    BY <1>1, DirectoryInvariant, PTL DEF Spec, LaneKept
=============================================================================
