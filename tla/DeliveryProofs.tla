--------------------------- MODULE DeliveryProofs ---------------------------
(***************************************************************************)
(* Delivery: whatever the bounds, the HC applies the frames in order,      *)
(* nothing is given up before it has, and no stored frame slips past a     *)
(* live conversation. The inductive invariant bounds by the HC's durable   *)
(* cursor everything from which a frame may be given up or a replay        *)
(* starts: the packets in the two connections and the gateway's rows.      *)
(***************************************************************************)
EXTENDS Delivery, FiniteSetTheorems, WellFoundedInduction, TLAPS

-----------------------------------------------------------------------------
(* Sorting. The induction over the size of a set is done with the least     *)
(* counterexample.                                                          *)

(* A set of numbers has a least element. *)
LEMMA Least ==
  ASSUME NEW T \in SUBSET Nat, T # {}
  PROVE  \E m \in T : \A k \in T : m <= k
  <1>1. PICK m \in T : \A k \in T : ~(<<k, m>> \in OpToRel(<, Nat))
    BY WFMin, NatLessThanWellFounded, Zenon
  <1>2. ASSUME NEW k \in T PROVE m <= k
    <2>1. k \in Nat /\ m \in Nat
      OBVIOUS
    <2>2. ~(k < m)
      BY <1>1, <2>1, Zenon DEF OpToRel
    <2> QED BY <2>1, <2>2
  <1> QED BY <1>2

(* A set of sequence numbers has a greatest element. *)
LEMMA Greatest ==
  ASSUME NEW S \in SUBSET Seqs, S # {}
  PROVE  \E m \in S : \A k \in S : k <= m
  <1> DEFINE U == {b \in Nat : \A k \in S : k <= b}
  <1>1. \A k \in S : k \in Nat /\ k >= 1 /\ k <= Frames
    BY DEF Seqs
  <1>2. Frames \in U
    BY <1>1, DeliveryAssumption
  <1>3. PICK b \in U : \A c \in U : b <= c
    BY <1>2, Least, Zenon
  <1>4. b \in S
    <2> SUFFICES ASSUME b \notin S PROVE FALSE
      OBVIOUS
    <2>1. b >= 1 /\ b \in Nat
      BY <1>1
    <2>2. b - 1 \in U
      BY <1>1, <2>1
    <2> QED BY <1>3, <2>1, <2>2
  <1> QED BY <1>4

(* Every set of sequence numbers can be sorted. *)
LEMMA Sortable ==
  ASSUME NEW S \in SUBSET Seqs
  PROVE  IsFiniteSet(S) /\ Cardinality(S) \in Nat /\ \E s \in [1 .. Cardinality(S) -> S] : Increasing(s)
  <1> DEFINE Sorts(R) == \E s \in [1 .. Cardinality(R) -> R] : Increasing(s)
             T == {n \in Nat : \E R \in SUBSET Seqs : Cardinality(R) = n /\ ~Sorts(R)}
  <1>1. ASSUME NEW R \in SUBSET Seqs PROVE IsFiniteSet(R) /\ Cardinality(R) \in Nat
    <2>1. IsFiniteSet(Seqs)
      BY DeliveryAssumption, FS_Interval DEF Seqs
    <2>2. IsFiniteSet(R)
      BY <2>1, FS_Subset, Zenon
    <2> QED BY <2>2, FS_CardinalityType, Zenon
  <1>2. SUFFICES ASSUME T # {} PROVE FALSE
    <2>1. Sorts(S)
      BY <1>1, <1>2
    <2> QED BY <1>1, <2>1
  <1>3. PICK n \in T : \A k \in T : n <= k
    BY <1>2, Least, Zenon
  <1>4. PICK R \in SUBSET Seqs : Cardinality(R) = n /\ ~Sorts(R)
    OBVIOUS
  <1>5. R # {}
    <2> SUFFICES ASSUME R = {} PROVE Sorts(R)
      BY <1>4
    <2>1. Cardinality(R) = 0
      BY FS_EmptySet
    <2>2. <<>> \in [1 .. 0 -> {}] /\ Increasing(<<>>)
      BY DEF Increasing
    <2> QED BY <2>1, <2>2, Zenon
  <1>6. PICK m \in R : \A k \in R : k <= m
    BY <1>5, Greatest
  <1> DEFINE Q == R \ {m}
  <1>7. Q \in SUBSET Seqs /\ IsFiniteSet(R) /\ n \in Nat
    BY <1>1
  <1>8. Cardinality(Q) = n - 1 /\ Cardinality(Q) \in Nat
    BY <1>1, <1>4, <1>7, FS_RemoveElement
  <1>9. Sorts(Q)
    <2>1. Cardinality(Q) \notin T
      <3> HIDE DEF T, Q
      <3> QED BY <1>3, <1>7, <1>8
    <2> QED BY <1>7, <1>8, <2>1, Zenon
  <1>10. PICK u \in [1 .. n - 1 -> Q] : Increasing(u)
    BY <1>8, <1>9, Zenon
  <1> DEFINE s == [i \in 1 .. n |-> IF i = n THEN m ELSE u[i]]
  <1>11. s \in [1 .. n -> R]
    <2>1. \A i \in 1 .. n : i = n \/ i \in 1 .. n - 1
      BY <1>7
    <2> QED BY <1>10, <2>1
  <1>12. ASSUME NEW i \in DOMAIN s, NEW j \in DOMAIN s, i < j PROVE s[i] < s[j]
    <2>1. i \in 1 .. n - 1 /\ s[i] = u[i] /\ u[i] \in Q
      BY <1>7, <1>10, <1>12
    <2>2. \A k \in R : k \in Nat
      BY DEF Seqs
    <2>3. CASE j = n
      <3>1. s[j] = m /\ u[i] <= m /\ u[i] # m /\ u[i] \in Nat /\ m \in Nat
        BY <1>6, <2>1, <2>2, <2>3
      <3> QED BY <2>1, <3>1
    <2>4. CASE j # n
      <3>1. j \in 1 .. n - 1 /\ s[j] = u[j]
        BY <1>7, <2>4
      <3> QED BY <1>10, <1>12, <2>1, <3>1 DEF Increasing
    <2> QED BY <2>3, <2>4
  <1> HIDE DEF s
  <1> QED BY <1>4, <1>11, <1>12 DEF Increasing

(* InOrder lists every element of a set of sequence numbers once, in increasing order. *)
LEMMA InOrderSorts ==
  ASSUME NEW S \in SUBSET Seqs
  PROVE  /\ InOrder(S) \in [1 .. Cardinality(S) -> S] /\ Increasing(InOrder(S))
         /\ InOrder(S) \in Seq(Seqs) /\ Len(InOrder(S)) = Cardinality(S)
         /\ \A n \in S : \E i \in 1 .. Len(InOrder(S)) : InOrder(S)[i] = n
  <1> DEFINE s == InOrder(S)
             n == Cardinality(S)
  <1>1. IsFiniteSet(S) /\ n \in Nat /\ \E t \in [1 .. n -> S] : Increasing(t)
    BY Sortable
  <1>2. s \in [1 .. n -> S] /\ Increasing(s)
    BY <1>1, Zenon DEF InOrder
  <1> HIDE DEF s, n
  <1>3. s \in [1 .. n -> Seqs]
    BY <1>2
  <1>4. s \in Seq(Seqs) /\ Len(s) = n
    BY <1>1, <1>3
  <1>5. s \in Injection(1 .. n, S)
    <2>1. \A i \in S : i \in Nat
      BY DEF Seqs
    <2>2. \A i, j \in 1 .. n : i \in Nat /\ j \in Nat
      BY <1>1
    <2>3. ASSUME NEW i \in 1 .. n, NEW j \in 1 .. n, s[i] = s[j] PROVE i = j
      <3>1. s[i] \in Nat /\ s[j] \in Nat
        BY <1>2, <2>1
      <3>2. ~(i < j) /\ ~(j < i)
        BY <1>2, <2>3, <3>1 DEF Increasing
      <3> QED BY <2>2, <3>2
    <2> QED BY <1>2, <2>3 DEF Injection, IsInjective
  <1>6. Cardinality(1 .. n) = n
    BY <1>1, FS_Interval
  <1>7. s \in Surjection(1 .. n, S)
    <2>1. Cardinality(1 .. n) = Cardinality(S) <=> s \in Surjection(1 .. n, S)
      BY <1>1, <1>5, FS_Injection, Zenon
    <2> QED BY <1>6, <2>1 DEF n
  <1>8. \A k \in S : \E i \in 1 .. n : s[i] = k
    BY <1>7, Zenon DEF Surjection
  <1> QED BY <1>2, <1>4, <1>8 DEF s, n

(* The answer to a ResumeState is a sequence of frames within maxReplayFrames. *)
LEMMA MissingTypes ==
  ASSUME NEW h
  PROVE  Missing(h) \in Seq(Seqs) /\ Len(Missing(h)) <= ReplayLimit
  <1> DEFINE T == StoredAfter(h)
             s == InOrder(T)
             k == IF Len(s) < ReplayLimit THEN Len(s) ELSE ReplayLimit
             m == SubSeq(s, 1, k)
  <1>1. T \in SUBSET Seqs
    BY DEF StoredAfter
  <1> HIDE DEF T
  <1>2. s \in Seq(Seqs)
    BY <1>1, InOrderSorts, Zenon
  <1>3. Missing(h) = m
    BY Zenon DEF Missing, FirstOf, s, k, m, T
  <1> HIDE DEF s
  <1>4. Len(s) \in Nat /\ ReplayLimit \in Nat
    BY <1>2, DeliveryAssumption
  <1>5. k \in Nat /\ k <= Len(s) /\ k <= ReplayLimit
    BY <1>4
  <1> HIDE DEF k
  <1>6. m \in Seq(Seqs) /\ Len(m) = k
    BY <1>2, <1>5
  <1> QED BY <1>3, <1>5, <1>6

-----------------------------------------------------------------------------
(* The cursor and the sequence are numbers, and no frame beyond the bound exists. *)
Numbers ==
    /\ inbound \in Nat /\ sealed \in Nat /\ sealed <= Frames
    /\ stored \in [Seqs -> {"NONE", "STORED", "ACKED"}]
    /\ \A n \in Seqs : stored[n] = "ACKED" => n <= inbound
    /\ applied = [i \in 1 .. inbound |-> i]

(* No packet that carries a cursor is ahead of the HC's. *)
Packets == [kind : {"resume", "ack"}, h : Nat]

Bounded(q) == q \in Seq(Packets) /\ \A i \in 1 .. Len(q) : q[i].h <= inbound

(* The ABA discards only what such a packet covers, or all of a closed session. *)
Kept ==
    /\ acks \subseteq 0 .. inbound /\ (closing => status = "CLOSED")
    /\ \A n \in 1 .. sealed : n \notin journal => n <= inbound \/ status = "CLOSED"

DInv == Numbers /\ Bounded(requests) /\ Kept

(* In the initial state nothing has been sent. *)
LEMMA DInvInit == Init => DInv
  <1> SUFFICES ASSUME Init PROVE DInv
    OBVIOUS
  <1>1. Numbers
    BY DeliveryAssumption DEF Init, Numbers, Seqs
  <1>2. Bounded(requests)
    BY DEF Init, Bounded
  <1>3. Kept
    BY DEF Init, Kept
  <1> QED BY <1>1, <1>2, <1>3 DEF DInv

(* Removing the first request leaves the others bounded. *)
LEMMA TailBounded ==
  ASSUME NEW q, Bounded(q), q # <<>>, inbound \in Nat
  PROVE  Head(q).h \in 0 .. inbound /\ Bounded(Tail(q))
  <1>1. q \in Seq(Packets) /\ \A i \in 1 .. Len(q) : q[i].h <= inbound
    BY DEF Bounded
  <1>2. Len(q) \in Nat /\ Len(q) > 0 /\ Head(q) = q[1] /\ q[1] \in Packets
    BY <1>1
  <1>3. q[1].h \in Nat
    BY <1>2 DEF Packets
  <1>4. Tail(q) \in Seq(Packets) /\ Len(Tail(q)) = Len(q) - 1
    BY <1>1
  <1>5. \A i \in 1 .. Len(Tail(q)) : Tail(q)[i] = q[i + 1] /\ i + 1 \in 1 .. Len(q)
    BY <1>1, <1>2
  <1>6. \A i \in 1 .. Len(Tail(q)) : Tail(q)[i].h <= inbound
    BY <1>1, <1>5
  <1>7. Head(q).h \in 0 .. inbound
    BY <1>1, <1>2, <1>3
  <1> QED BY <1>4, <1>6, <1>7 DEF Bounded

(* A request with the HC's own cursor may be added. *)
LEMMA AppendBounded ==
  ASSUME NEW q, Bounded(q), inbound \in Nat, NEW k \in {"resume", "ack"}
  PROVE  Bounded(Append(q, Request(k, inbound)))
  <1> DEFINE r == Request(k, inbound)
             s == Append(q, r)
  <1>1. r \in Packets /\ r.h = inbound
    BY DEF Request, Packets
  <1>2. q \in Seq(Packets) /\ \A i \in 1 .. Len(q) : q[i].h <= inbound
    BY DEF Bounded
  <1> HIDE DEF r
  <1>3. s \in Seq(Packets) /\ Len(s) = Len(q) + 1
    BY <1>1, <1>2
  <1>4. \A i \in 1 .. Len(s) : s[i].h <= inbound
    <2> TAKE i \in 1 .. Len(s)
    <2>1. CASE i = Len(q) + 1
      <3>1. s[i] = r BY <1>1, <1>2, <2>1
      <3> QED BY <3>1, <1>1
    <2>2. CASE i # Len(q) + 1
      <3>1. i \in 1 .. Len(q) /\ s[i] = q[i] BY <1>1, <1>2, <1>3, <2>2
      <3> QED BY <3>1, <1>2
    <2> QED BY <2>1, <2>2
  <1>5. Bounded(s) BY <1>3, <1>4 DEF Bounded
  <1> QED BY <1>5 DEF r

(* So may what resume asks for. *)
LEMMA AskingBounded ==
  ASSUME Bounded(requests), inbound \in Nat
  PROVE  Bounded(Asking)
  <1> DEFINE a == Append(requests, Request("resume", inbound))
  <1>1. Bounded(a)
    BY AppendBounded, Zenon
  <1> HIDE DEF a
  <1>2. Bounded(Append(a, Request("ack", inbound)))
    BY <1>1, AppendBounded, Zenon
  <1>3. Asking = a \/ Asking = Append(a, Request("ack", inbound))
    BY Zenon DEF Asking, a
  <1> QED BY <1>1, <1>2, <1>3, Zenon

(* A step that leaves the cursor, the conversation and the rows alone. *)
LEMMA NumbersKept ==
  ASSUME Numbers, UNCHANGED <<inbound, sealed, stored, applied>>
  PROVE  Numbers'
  BY DEF Numbers

(* A step that keeps or empties the ABA's connection and does not reopen the session. *)
LEMMA KeptKept ==
  ASSUME Kept, UNCHANGED <<inbound, sealed, journal>>, acks' \subseteq acks,
         closing' => closing, status = "CLOSED" => status' = "CLOSED"
  PROVE  Kept'
  BY DEF Kept

(* A step that makes the requests a bounded sequence, or drops them. *)
LEMMA BoundedKept ==
  ASSUME NEW q, Bounded(q), UNCHANGED inbound, requests' = q
  PROVE  Bounded(requests)'
  BY DEF Bounded

(* A cleared connection asks for nothing. *)
LEMMA EmptyBounded == Bounded(<<>>)
  BY DEF Bounded

(* Each step of the ABA, of the gateway and of the HC preserves the invariant. *)
LEMMA DInvStep == DInv /\ [Next]_vars => DInv'
  <1> SUFFICES ASSUME DInv, [Next]_vars PROVE DInv'
    OBVIOUS
  <1>0. Numbers /\ Bounded(requests) /\ Kept /\ inbound \in Nat
    BY DEF DInv, Numbers
  <1> USE DEF DInv
  <1>1. CASE Seal
    <2>1. UNCHANGED <<inbound, stored, applied, requests, acks, closing, status>>
      BY <1>1 DEF Seal, gatewayVars, hcVars, lineVars
    <2>2. Numbers'
      BY <1>0, <1>1, <2>1, DeliveryAssumption DEF Numbers, Seal
    <2>3. Kept'
      BY <1>0, <1>1, <2>1 DEF Numbers, Kept, Seal
    <2> QED BY <1>0, <2>1, <2>2, <2>3, BoundedKept
  <1>2. CASE AbaConnect \/ Forward \/ HcConnect \/ Retain \/ Restored \/ Unauthorize \/ HcObserve \/ Block
             \/ Discard \/ EndSession \/ \E n \in Seqs : Age(n)
    <2>1. UNCHANGED <<inbound, sealed, stored, applied, acks, journal, closing>>
          /\ (requests' = requests \/ requests' = <<>>)
      BY <1>2, Zenon DEF AbaConnect, Forward, HcConnect, Retain, Restored, Unauthorize, HcObserve, Block, Discard,
                  EndSession, Age, HcEnds, abaVars, gatewayVars, hcVars, lineVars
    <2>2. status = "CLOSED" => status' = "CLOSED"
      <3>1. CASE EndSession
        BY <3>1 DEF EndSession, Open
      <3>2. CASE ~EndSession
        BY <1>2, <3>2, Zenon DEF AbaConnect, Forward, HcConnect, Retain, Restored, Unauthorize, HcObserve, Block,
                    Discard, Age, gatewayVars
      <3> QED BY <3>1, <3>2
    <2> QED BY <1>0, <2>1, <2>2, NumbersKept, KeptKept, BoundedKept, EmptyBounded, Zenon
  <1>a. CASE CloseSession
    <2>1. UNCHANGED <<inbound, sealed, stored, applied, requests, acks, journal>> /\ status' = "CLOSED"
      BY <1>a DEF CloseSession, hcVars, lineVars
    <2>2. Kept'
      BY <1>0, <2>1 DEF Kept
    <2> QED BY <1>0, <2>1, <2>2, NumbersKept, BoundedKept
  <1>b. CASE AbaClose
    <2>1. UNCHANGED <<inbound, sealed, stored, applied, requests, acks, status>> /\ closing /\ closing' = FALSE
      BY <1>b DEF AbaClose, gatewayVars, hcVars, lineVars
    <2>2. Kept'
      BY <1>0, <2>1 DEF Kept
    <2> QED BY <1>0, <2>1, <2>2, NumbersKept, BoundedKept
  <1>3. ASSUME NEW h \in Seqs, AbaAcknowledge(h) PROVE DInv'
    <2>1. UNCHANGED <<inbound, sealed, stored, applied, requests, closing, status>>
      BY <1>3 DEF AbaAcknowledge, gatewayVars, hcVars, lineVars
    <2>2. h \in 0 .. inbound /\ acks' \subseteq acks /\ (journal' = journal \/ journal' = journal \ (1 .. h))
      BY <1>0, <1>3 DEF AbaAcknowledge, Kept
    <2>3. Kept'
      BY <1>0, <2>1, <2>2 DEF Kept, Numbers
    <2> QED BY <1>0, <2>1, <2>3, NumbersKept, BoundedKept
  <1>4. CASE PutFrame
    <2>1. UNCHANGED <<inbound, sealed, applied, requests, journal, status>> /\ acks' \subseteq acks
      BY <1>4 DEF PutFrame, AbaEnds, hcVars, lineVars
    <2>a. closing' => closing
      BY <1>4, Zenon DEF PutFrame, AbaEnds
    <2>2. stored' = stored \/ stored' = [stored EXCEPT ![Head(up)] = IF @ = "NONE" THEN "STORED" ELSE @]
      BY <1>4 DEF PutFrame
    <2>3. Numbers'
      BY <1>0, <2>1, <2>2 DEF Numbers
    <2> QED BY <1>0, <2>1, <2>a, <2>3, KeptKept, BoundedKept
  <1>5. CASE Resume
    <2>1. UNCHANGED <<inbound, sealed, stored, applied, acks, journal, closing, status>>
          /\ requests' = Tail(requests) /\ requests # <<>>
      BY <1>5 DEF Resume, Asked, abaVars, gatewayVars, hcVars
    <2> QED BY <1>0, <2>1, NumbersKept, KeptKept, BoundedKept, TailBounded, Zenon
  <1>6. CASE ReplayFrame
    <2>1. UNCHANGED <<inbound, sealed, stored, applied, acks, journal, closing, status>>
          /\ (requests' = requests \/ requests' = <<>>)
      BY <1>6 DEF ReplayFrame, HcEnds, abaVars, gatewayVars, hcVars
    <2> QED BY <1>0, <2>1, NumbersKept, KeptKept, BoundedKept, EmptyBounded
  <1>7. CASE Acknowledge
    <2> DEFINE h == Head(requests).h
    <2>1. UNCHANGED <<inbound, sealed, applied, journal, closing, status>> /\ requests # <<>>
      BY <1>7 DEF Acknowledge, Asked, hcVars
    <2>2. h \in 0 .. inbound /\ Bounded(Tail(requests))
      BY <1>0, <2>1, TailBounded, Zenon
    <2> HIDE DEF h
    <2>3. requests' = Tail(requests) \/ requests' = <<>>
      BY <1>7 DEF Acknowledge, HcEnds
    <2>4. acks' \subseteq acks \cup {h}
      BY <1>7 DEF Acknowledge, h
    <2>5. stored' = stored
          \/ stored' = [n \in Seqs |-> IF stored[n] = "STORED" /\ n <= h THEN "ACKED" ELSE stored[n]]
      BY <1>7 DEF Acknowledge, AdvanceAck, h
    <2>6. Numbers'
      <3>1. Seqs \subseteq Nat /\ stored \in [Seqs -> {"NONE", "STORED", "ACKED"}]
            /\ \A n \in Seqs : stored[n] = "ACKED" => n <= inbound
        BY <1>0 DEF Numbers, Seqs
      <3>2. stored' \in [Seqs -> {"NONE", "STORED", "ACKED"}]
        BY <2>5, <3>1
      <3>3. \A n \in Seqs : stored'[n] = "ACKED" => n <= inbound
        BY <2>2, <2>5, <3>1, <1>0
      <3> QED BY <1>0, <2>1, <3>2, <3>3 DEF Numbers
    <2>7. Kept'
      BY <1>0, <2>1, <2>2, <2>4 DEF Kept
    <2>8. Bounded(requests)'
      BY <2>1, <2>2, <2>3, BoundedKept, EmptyBounded, Zenon
    <2> QED BY <2>6, <2>7, <2>8
  <1>8. CASE HcResume
    <2>1. UNCHANGED <<inbound, sealed, stored, applied, acks, journal, closing, status>>
      BY <1>8 DEF HcResume, abaVars, gatewayVars
    <2>2. requests' = requests \/ requests' = Asking
      BY <1>8, Zenon DEF HcResume
    <2>3. Bounded(requests)'
      BY <1>0, <2>1, <2>2, BoundedKept, AskingBounded, Zenon
    <2> QED BY <1>0, <2>1, <2>3, NumbersKept, KeptKept
  <1>9. CASE Receive
    <2>1. UNCHANGED <<sealed, stored, acks, journal, closing, status>>
      BY <1>9 DEF Receive, abaVars, gatewayVars
    <2>2. ASSUME NEW n \in Seqs, IsNext(n), Apply(n) PROVE DInv'
      <3>1. inbound' = inbound + 1 /\ requests' = requests /\ applied' = Append(applied, inbound + 1)
        BY <2>2 DEF IsNext, Apply
      <3>2. Append(applied, inbound + 1) = [i \in 1 .. inbound + 1 |-> i]
        BY <1>0 DEF Numbers
      <3>a. \A k \in Seqs : stored'[k] = "ACKED" => k <= inbound'
        BY <1>0, <2>1, <3>1 DEF Numbers, Seqs
      <3>3. Numbers'
        BY <1>0, <2>1, <3>1, <3>2, <3>a DEF Numbers
      <3>4. Bounded(requests)'
        <4>1. requests \in Seq(Packets) /\ \A i \in 1 .. Len(requests) : requests[i].h <= inbound
          BY <1>0 DEF Bounded
        <4>2. \A i \in 1 .. Len(requests) : requests[i] \in Packets
          BY <4>1
        <4>3. \A i \in 1 .. Len(requests) : requests[i].h \in Nat
          BY <4>2 DEF Packets
        <4>4. \A i \in 1 .. Len(requests) : requests[i].h <= inbound + 1
          BY <1>0, <4>1, <4>3
        <4> QED BY <3>1, <4>1, <4>4 DEF Bounded
      <3>5. Kept'
        BY <1>0, <2>1, <3>1 DEF Kept
      <3> QED BY <3>3, <3>4, <3>5
    <2>3. ASSUME NEW n \in Seqs, Gap(n) PROVE DInv'
      <3>1. UNCHANGED <<inbound, applied>> /\ requests' = Append(requests, Request("resume", inbound))
        BY <2>3 DEF Gap, hcVars
      <3>2. Bounded(requests)'
        BY <1>0, <3>1, BoundedKept, AppendBounded, Zenon
      <3> QED BY <1>0, <2>1, <3>1, <3>2, NumbersKept, KeptKept
    <2>4. CASE UNCHANGED <<requests, inbound, applied>>
      BY <1>0, <2>1, <2>4, NumbersKept, KeptKept, BoundedKept
    <2> QED BY <1>9, <2>2, <2>3, <2>4, Zenon DEF Receive, Quarantine, hcVars
  <1>10. CASE SendAck
    <2>1. UNCHANGED <<inbound, sealed, stored, applied, acks, journal, closing, status>>
      BY <1>10 DEF SendAck, abaVars, gatewayVars
    <2>2. requests' = requests \/ requests' = Append(requests, Request("ack", inbound))
      BY <1>10, Zenon DEF SendAck
    <2>3. Bounded(requests)'
      BY <1>0, <2>1, <2>2, BoundedKept, AppendBounded, Zenon
    <2> QED BY <1>0, <2>1, <2>3, NumbersKept, KeptKept
  <1>11. CASE AbaDrops \/ AbaRestart \/ HcDrops \/ GatewayRestart
    <2>1. UNCHANGED <<inbound, sealed, stored, applied, journal, status>> /\ (acks' = acks \/ acks' = {})
          /\ (closing' = closing \/ closing' = FALSE) /\ (requests' = requests \/ requests' = <<>>)
      BY <1>11, Zenon DEF AbaDrops, AbaRestart, HcDrops, GatewayRestart, AbaEnds, HcEnds, abaVars, gatewayVars,
                  hcVars, lineVars
    <2> QED BY <1>0, <2>1, NumbersKept, KeptKept, BoundedKept, EmptyBounded
  <1>12. CASE UNCHANGED vars
    <2>1. UNCHANGED <<inbound, sealed, stored, applied, requests, acks, journal, closing, status>>
      BY <1>12 DEF vars, abaVars, gatewayVars, hcVars, lineVars
    <2> QED BY <1>0, <2>1, NumbersKept, KeptKept, BoundedKept
  <1> HIDE DEF DInv
  <1> QED BY <1>1, <1>2, <1>3, <1>4, <1>5, <1>6, <1>7, <1>8, <1>9, <1>10, <1>11, <1>12, <1>a, <1>b, Zenon
          DEF Next, Aba, Gateway, Hc

(* The invariant holds in every behaviour. *)
THEOREM DeliveryInvariance == Spec => []DInv
  <1> QED BY DInvInit, DInvStep, PTL DEF Spec

(***************************************************************************)
(* The conversation of the HC is made of the frames 1, 2, 3, ..., each     *)
(* once and in order, for any number of frames and any queue and replay    *)
(* limits (conversation-controller.ts, receive).                           *)
(***************************************************************************)
THEOREM FramesAreAppliedInOrder == Spec => []AppliedInOrder
  <1>1. DInv => AppliedInOrder
    BY DEF DInv, Numbers, AppliedInOrder
  <1> QED BY <1>1, DeliveryInvariance, PTL

(***************************************************************************)
(* A frame that the gateway no longer replays is in the HC's durable       *)
(* conversation, and so is one that the ABA has removed from its journal   *)
(* unless the session was closed (AdvanceAck, handle_ack_frame,            *)
(* handle_close_tunnel, receive).                                          *)
(***************************************************************************)
THEOREM NothingIsGivenUpEarly == Spec => []GivenUpIsApplied
  <1>1. DInv => GivenUpIsApplied
    BY DeliveryAssumption DEF DInv, Numbers, Kept, GivenUpIsApplied, Seqs
  <1> QED BY <1>1, DeliveryInvariance, PTL

-----------------------------------------------------------------------------
(* Types. *)
Flags ==
    /\ held \in BOOLEAN /\ aba \in BOOLEAN /\ closing \in BOOLEAN /\ owes \in BOOLEAN
    /\ status \in {"ACTIVE", "CLOSED", "ENDED"}
    /\ halted \in {"no", "reserved", "fault", "blocked"}

AbaTypes ==
    /\ sealed \in 0 .. Frames /\ journal \subseteq 1 .. sealed /\ stale \subseteq 1 .. sealed
    /\ up \in Seq(Seqs) /\ acks \subseteq Seqs

GatewayTypes ==
    /\ stored \in [Seqs -> {"NONE", "STORED", "ACKED"}]
    /\ acked \in 0 .. Frames /\ forwarding \in 0 .. Frames
    /\ drops \in 0 .. MaxDrops

Requests == [kind : {"resume", "ack"}, h : 0 .. Frames]

(* An acknowledgment is of a frame: the HC owes and sends none before it has one. *)
Acknowledging(q) == q \in Seq(Requests) /\ \A i \in DOMAIN q : q[i].kind = "ack" => q[i].h \in Seqs

(* A sequence of at most cap frames. *)
Held(q, cap) == q \in Seq(Seqs) /\ Len(q) <= cap

LineTypes ==
    /\ hc \in {"off", "restoring", "resuming", "live", "ended"}
    /\ Held(queue, QueueCap) /\ Held(buffer, BufferCap) /\ Held(replay, ReplayLimit)
    /\ Acknowledging(requests) /\ withheld \subseteq Seqs

HcTypes == inbound \in 0 .. Frames /\ applied \in Seq(Seqs)

Owed == owes => inbound \in Seqs

TInv == Flags /\ AbaTypes /\ GatewayTypes /\ LineTypes /\ HcTypes /\ Owed

(* The first request may be taken and one may be added. *)
LEMMA AcknowledgingTail ==
  ASSUME NEW q, Acknowledging(q), q # <<>>
  PROVE  /\ Acknowledging(Tail(q)) /\ Head(q).h \in 0 .. Frames
         /\ Head(q).kind = "ack" => Head(q).h \in Seqs
  <1>1. q \in Seq(Requests) /\ \A i \in DOMAIN q : q[i].kind = "ack" => q[i].h \in Seqs
    BY DEF Acknowledging
  <1>2. 1 \in DOMAIN q /\ Head(q) = q[1] /\ q[1] \in Requests
    BY <1>1
  <1>3. /\ Tail(q) \in Seq(Requests)
        /\ \A i \in DOMAIN Tail(q) : i + 1 \in DOMAIN q /\ Tail(q)[i] = q[i + 1]
    BY <1>1
  <1>4. \A i \in DOMAIN Tail(q) : Tail(q)[i].kind = "ack" => Tail(q)[i].h \in Seqs
    BY <1>1, <1>3
  <1>5. Head(q).h \in 0 .. Frames
    BY <1>2 DEF Requests
  <1> QED BY <1>1, <1>2, <1>3, <1>4, <1>5 DEF Acknowledging

LEMMA AcknowledgingAppend ==
  ASSUME NEW q, Acknowledging(q), NEW h \in 0 .. Frames, NEW kind \in {"resume", "ack"}, kind = "ack" => h \in Seqs
  PROVE  Acknowledging(Append(q, Request(kind, h)))
  <1> DEFINE r == Request(kind, h)
  <1>1. r \in Requests /\ r.kind = kind /\ r.h = h
    BY DEF Request, Requests
  <1>2. q \in Seq(Requests) /\ \A i \in DOMAIN q : q[i].kind = "ack" => q[i].h \in Seqs
    BY DEF Acknowledging
  <1> HIDE DEF r
  <1>3. /\ Append(q, r) \in Seq(Requests)
        /\ \A i \in DOMAIN Append(q, r) : Append(q, r)[i] = r \/ (i \in DOMAIN q /\ Append(q, r)[i] = q[i])
    BY <1>1, <1>2
  <1>4. \A i \in DOMAIN Append(q, r) : Append(q, r)[i].kind = "ack" => Append(q, r)[i].h \in Seqs
    BY <1>1, <1>2, <1>3
  <1>5. Acknowledging(Append(q, r))
    BY <1>3, <1>4, Zenon DEF Acknowledging
  <1> QED BY <1>5 DEF r

(* A frame may be taken from a sequence and added where there is room. *)
LEMMA HeldMoves ==
  ASSUME NEW q, NEW cap \in Nat, Held(q, cap)
  PROVE  /\ q # <<>> => Head(q) \in Seqs /\ Held(Tail(q), cap)
         /\ Len(q) < cap => \A n \in Seqs : Held(Append(q, n), cap)
  <1>1. q \in Seq(Seqs) /\ Len(q) <= cap /\ Len(q) \in Nat
    BY DEF Held
  <1>2. q # <<>> => Head(q) \in Seqs /\ Tail(q) \in Seq(Seqs) /\ Len(Tail(q)) <= cap
    BY <1>1
  <1>3. Len(q) < cap => \A n \in Seqs : Append(q, n) \in Seq(Seqs) /\ Len(Append(q, n)) <= cap
    BY <1>1
  <1> QED BY <1>2, <1>3, Zenon DEF Held

(* The limits are numbers, and an empty sequence keeps them. *)
LEMMA Limits ==
  /\ QueueCap \in Nat /\ BufferCap \in Nat /\ ReplayLimit \in Nat /\ Frames \in Nat
  /\ Held(<<>>, QueueCap) /\ Held(<<>>, BufferCap) /\ Held(<<>>, ReplayLimit)
  /\ Acknowledging(<<>>)
  BY DeliveryAssumption DEF Held, Acknowledging

(* A connection that ends leaves nothing behind. *)
LEMMA EndsTypes ==
  ASSUME HcEnds
  PROVE  LineTypes'
  <1>1. hc' = "off" /\ queue' = <<>> /\ buffer' = <<>> /\ replay' = <<>> /\ requests' = <<>> /\ withheld' = {}
    BY DEF HcEnds
  <1>2. hc' \in {"off", "restoring", "resuming", "live", "ended"} /\ withheld' \subseteq Seqs
    BY <1>1
  <1> QED BY <1>1, <1>2, Limits, Zenon DEF LineTypes, Held, Acknowledging

(* The steps of the ABA keep the types. *)
LEMMA AbaStepTypes ==
  ASSUME TInv, Seal \/ AbaConnect \/ AbaClose \/ PutFrame \/ \E n \in Seqs : AbaAcknowledge(n) \/ Age(n)
  PROVE  TInv'
  <1>1. Flags /\ AbaTypes /\ GatewayTypes /\ LineTypes /\ HcTypes /\ Owed
    BY Zenon DEF TInv
  <1>2. LineTypes' /\ HcTypes' /\ Owed'
    <2>1. UNCHANGED <<hc, queue, buffer, replay, requests, withheld, inbound, applied, owes>>
      BY DEF Seal, AbaConnect, AbaClose, PutFrame, AbaAcknowledge, Age, lineVars, hcVars
    <2> QED BY <1>1, <2>1, Zenon DEF LineTypes, HcTypes, Owed, Held, Acknowledging
  <1>3. Flags'
    <2>1. UNCHANGED <<status, owes, halted>> /\ aba' \in {aba, TRUE, FALSE} /\ held' \in {held, FALSE}
          /\ closing' \in {closing, FALSE}
      BY Zenon DEF Seal, AbaConnect, AbaClose, PutFrame, AbaAcknowledge, Age, AbaEnds, gatewayVars, lineVars, hcVars
    <2> QED BY <1>1, <2>1, Zenon DEF Flags
  <1>4. Frames \in Nat
    BY DeliveryAssumption
  <1>5. CASE Seal
    <2>1. /\ sealed < Frames /\ sealed' = sealed + 1 /\ journal' = journal \cup {sealed + 1}
          /\ up' \in {up, Append(up, sealed + 1)}
          /\ UNCHANGED <<stale, acks, stored, acked, forwarding, drops>>
      BY <1>5, Zenon DEF Seal, gatewayVars
    <2>2. sealed + 1 \in Seqs /\ sealed' \in 0 .. Frames /\ 1 .. sealed \subseteq 1 .. sealed'
      BY <1>1, <1>4, <2>1 DEF AbaTypes, Seqs
    <2>3. up' \in Seq(Seqs)
      BY <1>1, <2>1, <2>2 DEF AbaTypes
    <2>4. journal' \subseteq 1 .. sealed'
      BY <1>1, <2>1, <2>2 DEF AbaTypes
    <2>5. AbaTypes'
      BY <1>1, <2>1, <2>2, <2>3, <2>4 DEF AbaTypes
    <2> QED BY <1>1, <1>2, <1>3, <2>1, <2>5, Zenon DEF TInv, GatewayTypes
  <1>6. CASE AbaConnect \/ AbaClose
    <2>1. /\ up' \in {up, <<>>, InOrder(journal)} /\ journal' \in {journal, {}}
          /\ UNCHANGED <<sealed, stale, acks, stored, acked, forwarding, drops>>
      BY <1>6, Zenon DEF AbaConnect, AbaClose, gatewayVars
    <2>2. journal \in SUBSET Seqs
      BY <1>1, <1>4 DEF AbaTypes, Seqs
    <2>3. InOrder(journal) \in Seq(Seqs) /\ <<>> \in Seq(Seqs)
      BY <2>2, InOrderSorts, Limits, Zenon DEF Held
    <2>4. up' \in Seq(Seqs) /\ journal' \subseteq 1 .. sealed
      BY <1>1, <2>1, <2>3, Zenon DEF AbaTypes
    <2>5. AbaTypes'
      BY <1>1, <2>1, <2>4, Zenon DEF AbaTypes
    <2> QED BY <1>1, <1>2, <1>3, <2>1, <2>5, Zenon DEF TInv, GatewayTypes
  <1>7. CASE PutFrame
    <2>1. /\ up # <<>> /\ UNCHANGED <<sealed, journal, stale, acked, drops>>
          /\ \/ up' = <<>> /\ acks' = {} /\ UNCHANGED <<stored, forwarding>>
             \/ /\ up' = Tail(up) /\ forwarding' = Head(up) /\ acks' = acks
                /\ stored' = [stored EXCEPT ![Head(up)] = IF @ = "NONE" THEN "STORED" ELSE @]
      BY <1>7, Zenon DEF PutFrame, AbaEnds
    <2>2. Head(up) \in Seqs /\ Tail(up) \in Seq(Seqs) /\ <<>> \in Seq(Seqs)
      BY <1>1, <2>1 DEF AbaTypes
    <2>3. AbaTypes'
      BY <1>1, <2>1, <2>2, Zenon DEF AbaTypes
    <2>4. forwarding' \in 0 .. Frames
      BY <1>1, <2>1, <2>2 DEF GatewayTypes, Seqs
    <2>5. stored' \in [Seqs -> {"NONE", "STORED", "ACKED"}]
      BY <1>1, <2>1 DEF GatewayTypes
    <2> QED BY <1>1, <1>2, <1>3, <2>1, <2>3, <2>4, <2>5, Zenon DEF TInv, GatewayTypes
  <1>8. ASSUME NEW n \in Seqs, AbaAcknowledge(n) \/ Age(n) PROVE TInv'
    <2>1. /\ UNCHANGED <<sealed, up, stored, acked, forwarding, drops>>
          /\ \/ acks' = acks \ {n} /\ journal' \in {journal, journal \ (1 .. n)} /\ stale' = stale
             \/ n \in 1 .. sealed /\ stale' = stale \cup {n} /\ UNCHANGED <<acks, journal>>
      BY <1>8, Zenon DEF AbaAcknowledge, Age, gatewayVars
    <2>2. journal' \subseteq 1 .. sealed /\ stale' \subseteq 1 .. sealed /\ acks' \subseteq Seqs
      BY <1>1, <2>1, Zenon DEF AbaTypes
    <2>3. AbaTypes'
      BY <1>1, <2>1, <2>2, Zenon DEF AbaTypes
    <2> QED BY <1>1, <1>2, <1>3, <2>1, <2>3, Zenon DEF TInv, GatewayTypes
  <1> QED BY <1>5, <1>6, <1>7, <1>8, Zenon

(* The steps of the gateway keep the types. *)
LEMMA GatewayStepTypes ==
  ASSUME TInv, Forward \/ Resume \/ ReplayFrame \/ Acknowledge \/ CloseSession \/ EndSession
  PROVE  TInv'
  <1>1. Flags /\ AbaTypes /\ GatewayTypes /\ LineTypes /\ HcTypes /\ Owed
    BY Zenon DEF TInv
  <1>2. HcTypes' /\ Owed' /\ UNCHANGED <<sealed, journal, stale, up, drops, aba, held, owes, halted>>
    <2>1. UNCHANGED <<inbound, applied, owes, halted, sealed, journal, stale, up, drops, aba, held>>
      BY DEF Forward, Resume, ReplayFrame, Acknowledge, CloseSession, EndSession, abaVars, hcVars
    <2> QED BY <1>1, <2>1, Zenon DEF HcTypes, Owed
  <1>3. Flags'
    <2>1. status' \in {status, "CLOSED", "ENDED"}
      BY Zenon DEF Forward, Resume, ReplayFrame, Acknowledge, CloseSession, EndSession, gatewayVars
    <2>2. closing' \in {closing, FALSE, aba}
      BY Zenon DEF Forward, Resume, ReplayFrame, Acknowledge, CloseSession, EndSession, abaVars
    <2>3. status' \in {"ACTIVE", "CLOSED", "ENDED"}
      BY <1>1, <2>1 DEF Flags
    <2> QED BY <1>1, <1>2, <2>2, <2>3, Zenon DEF Flags
  <1>4. /\ hc \in {"off", "restoring", "resuming", "live", "ended"}
        /\ Held(queue, QueueCap) /\ Held(buffer, BufferCap) /\ Held(replay, ReplayLimit)
        /\ Acknowledging(requests) /\ withheld \subseteq Seqs
    BY <1>1, Zenon DEF LineTypes
  <1>5. CASE Forward
    <2>1. /\ forwarding # 0 /\ forwarding' = 0 /\ UNCHANGED <<acks, stored, acked, hc, buffer, replay, requests>>
          /\ (queue' = queue \/ (Len(queue) < QueueCap /\ queue' = Append(queue, forwarding)))
          /\ withheld' \in {withheld, {}, withheld \cup {forwarding}}
      BY <1>5, Zenon DEF Forward, abaVars, gatewayVars
    <2>2. forwarding \in Seqs /\ 0 \in 0 .. Frames
      BY <1>1, <2>1, DeliveryAssumption DEF GatewayTypes, Seqs
    <2>3. Held(queue', QueueCap)
      BY <1>4, <2>1, <2>2, Limits, HeldMoves, Zenon
    <2>4. withheld' \subseteq Seqs
      BY <1>4, <2>1, <2>2, Zenon
    <2>5. LineTypes'
      BY <1>4, <2>1, <2>3, <2>4, Zenon DEF LineTypes, Held, Acknowledging
    <2>6. AbaTypes' /\ GatewayTypes'
      BY <1>1, <1>2, <2>1, <2>2, Zenon DEF AbaTypes, GatewayTypes
    <2> QED BY <1>2, <1>3, <2>5, <2>6, Zenon DEF TInv
  <1>6. CASE Resume
    <2> DEFINE h == Head(requests).h
    <2>1. /\ requests # <<>> /\ replay' = Missing(h) /\ requests' = Tail(requests)
          /\ withheld' = StoredAfter(h) \ InSeq(Missing(h))
          /\ UNCHANGED <<acks, stored, acked, forwarding, hc, queue, buffer>>
      BY <1>6, Zenon DEF Resume, Asked, abaVars, gatewayVars
    <2> HIDE DEF h
    <2>2. Held(replay', ReplayLimit)
      BY <2>1, MissingTypes, Zenon DEF Held
    <2>3. Acknowledging(requests')
      BY <1>4, <2>1, AcknowledgingTail, Zenon
    <2>4. withheld' \subseteq Seqs
      BY <2>1, Zenon DEF StoredAfter
    <2>5. LineTypes'
      BY <1>4, <2>1, <2>2, <2>3, <2>4, Zenon DEF LineTypes, Held, Acknowledging
    <2>6. AbaTypes' /\ GatewayTypes'
      BY <1>1, <1>2, <2>1, Zenon DEF AbaTypes, GatewayTypes
    <2> QED BY <1>2, <1>3, <2>5, <2>6, Zenon DEF TInv
  <1>7. CASE ReplayFrame
    <2>1. /\ replay # <<>> /\ UNCHANGED <<acks, stored, acked, forwarding>>
          /\ \/ /\ Len(queue) < QueueCap /\ queue' = Append(queue, Head(replay)) /\ replay' = Tail(replay)
                /\ UNCHANGED <<hc, buffer, requests, withheld>>
             \/ HcEnds
      BY <1>7, Zenon DEF ReplayFrame, abaVars, gatewayVars
    <2>2. ASSUME Len(queue) < QueueCap, queue' = Append(queue, Head(replay)), replay' = Tail(replay),
                 UNCHANGED <<hc, buffer, requests, withheld>>
          PROVE  LineTypes'
      <3>1. Held(queue', QueueCap) /\ Held(replay', ReplayLimit)
        BY <1>4, <2>1, <2>2, Limits, HeldMoves, Zenon
      <3> QED BY <1>4, <2>2, <3>1, Zenon DEF LineTypes, Held, Acknowledging
    <2>3. LineTypes'
      BY <2>1, <2>2, EndsTypes, Zenon
    <2>4. AbaTypes' /\ GatewayTypes'
      BY <1>1, <1>2, <2>1, Zenon DEF AbaTypes, GatewayTypes
    <2> QED BY <1>2, <1>3, <2>3, <2>4, Zenon DEF TInv
  <1>8. CASE Acknowledge
    <2> DEFINE h == Head(requests).h
    <2>1. /\ requests # <<>> /\ Head(requests).kind = "ack" /\ forwarding' = forwarding
          /\ acks' \in {acks, acks \cup {h}}
          /\ acked' \in {acked, h}
          /\ \/ stored' = stored
             \/ stored' = [n \in Seqs |-> IF stored[n] = "STORED" /\ n <= h THEN "ACKED" ELSE stored[n]]
      BY <1>8, Zenon DEF Acknowledge, Asked, AdvanceAck
    <2>2. (requests' = Tail(requests) /\ UNCHANGED <<hc, queue, buffer, replay, withheld>>) \/ HcEnds
      BY <1>8, Zenon DEF Acknowledge
    <2>3. h \in Seqs /\ h \in 0 .. Frames /\ Acknowledging(Tail(requests))
      BY <1>4, <2>1, AcknowledgingTail, Zenon
    <2> HIDE DEF h
    <2>4. AbaTypes'
      BY <1>1, <1>2, <2>1, <2>3 DEF AbaTypes
    <2>5. GatewayTypes'
      <3>1. stored' \in [Seqs -> {"NONE", "STORED", "ACKED"}]
        BY <1>1, <2>1 DEF GatewayTypes
      <3> QED BY <1>1, <1>2, <2>1, <2>3, <3>1 DEF GatewayTypes
    <2>6. LineTypes'
      <3>1. CASE requests' = Tail(requests) /\ UNCHANGED <<hc, queue, buffer, replay, withheld>>
        BY <1>4, <2>3, <3>1, Zenon DEF LineTypes, Held, Acknowledging
      <3> QED BY <2>2, <3>1, EndsTypes, Zenon
    <2> QED BY <1>2, <1>3, <2>4, <2>5, <2>6, Zenon DEF TInv
  <1>9. CASE CloseSession \/ EndSession
    <2>1. UNCHANGED <<acks, stored, acked, forwarding, hc, queue, buffer, replay, requests, withheld>>
      BY <1>9, Zenon DEF CloseSession, EndSession, abaVars, lineVars
    <2> QED BY <1>1, <1>2, <1>3, <2>1, Zenon DEF TInv, AbaTypes, GatewayTypes, LineTypes, Held, Acknowledging
  <1> QED BY <1>5, <1>6, <1>7, <1>8, <1>9, Zenon

(* The steps of the HC, and lost connections, keep the types. *)
LEMMA HcStepTypes ==
  ASSUME TInv, Hc \/ AbaDrops \/ AbaRestart \/ HcDrops \/ GatewayRestart
  PROVE  TInv'
  <1>1. Flags /\ AbaTypes /\ GatewayTypes /\ LineTypes /\ HcTypes /\ Owed
    BY Zenon DEF TInv
  <1>2. /\ hc \in {"off", "restoring", "resuming", "live", "ended"}
        /\ Held(queue, QueueCap) /\ Held(buffer, BufferCap) /\ Held(replay, ReplayLimit)
        /\ Acknowledging(requests) /\ withheld \subseteq Seqs /\ inbound \in 0 .. Frames
    BY <1>1, Zenon DEF LineTypes, HcTypes
  <1>3. /\ queue # <<>> => Head(queue) \in Seqs /\ Held(Tail(queue), QueueCap)
        /\ buffer # <<>> => Held(Tail(buffer), BufferCap)
        /\ Len(buffer) < BufferCap => \A n \in Seqs : Held(Append(buffer, n), BufferCap)
    BY <1>2, Limits, HeldMoves, Zenon
  <1>4. inbound > 0 => inbound \in Seqs
    BY <1>2 DEF Seqs
  <1>5. AbaTypes' /\ GatewayTypes'
    <2>1. /\ UNCHANGED <<sealed, journal, stale, stored, acked>> /\ up' \in {up, <<>>} /\ acks' \in {acks, {}}
          /\ forwarding' \in {forwarding, 0} /\ (drops' = drops \/ (drops < MaxDrops /\ drops' = drops + 1))
      BY Zenon DEF Hc, HcConnect, Retain, Restored, HcResume, Unauthorize, HcObserve, Block, Receive, Discard, SendAck,
            AbaDrops, AbaRestart, HcDrops, GatewayRestart, AbaEnds, Drop, abaVars, gatewayVars
    <2>2. drops' \in 0 .. MaxDrops
      BY <1>1, <2>1, DeliveryAssumption DEF GatewayTypes
    <2>3. 0 \in 0 .. Frames
      BY DeliveryAssumption
    <2>4. AbaTypes'
      <3>1. up' \in Seq(Seqs) /\ acks' \subseteq Seqs
        BY <1>1, <2>1, Limits, Zenon DEF AbaTypes, Held
      <3> QED BY <1>1, <2>1, <3>1, Zenon DEF AbaTypes
    <2>5. GatewayTypes'
      <3>1. forwarding' \in 0 .. Frames
        BY <1>1, <2>1, <2>3 DEF GatewayTypes
      <3> QED BY <1>1, <2>1, <2>2, <3>1, Zenon DEF GatewayTypes
    <2> QED BY <2>4, <2>5
  <1>6. Flags'
    <2>1. status' = status /\ aba' \in {aba, FALSE} /\ held' \in {held, FALSE} /\ closing' \in {closing, FALSE}
      BY Zenon DEF Hc, HcConnect, Retain, Restored, HcResume, Unauthorize, HcObserve, Block, Receive, Discard, SendAck,
            AbaDrops, AbaRestart, HcDrops, GatewayRestart, AbaEnds, abaVars, gatewayVars
    <2>2. owes' \in {owes, TRUE, FALSE}
      BY Zenon DEF Hc, HcConnect, Retain, Restored, HcResume, Unauthorize, HcObserve, Block, Receive, Apply, Gap,
            Quarantine, Discard, SendAck, AbaDrops, AbaRestart, HcDrops, GatewayRestart, hcVars
    <2>3. halted' \in {halted, "no", "reserved", "fault", "blocked"}
      BY Zenon DEF Hc, HcConnect, Retain, Restored, HcResume, Unauthorize, HcObserve, Block, Receive, Apply, Gap,
            Quarantine, Halts, Discard, SendAck, AbaDrops, AbaRestart, HcDrops, GatewayRestart, hcVars
    <2>4. halted' \in {"no", "reserved", "fault", "blocked"}
      BY <1>1, <2>3 DEF Flags
    <2> QED BY <1>1, <2>1, <2>2, <2>4, Zenon DEF Flags
  <1>7. CASE HcConnect \/ Restored \/ Unauthorize \/ HcObserve \/ Discard \/ Block \/ AbaDrops \/ AbaRestart
    <2>1. /\ hc' \in {hc, "restoring", "resuming", "ended"} /\ (queue' = queue \/ (queue # <<>> /\ queue' = Tail(queue)))
          /\ buffer' \in {buffer, <<>>} /\ UNCHANGED <<replay, requests, withheld, inbound, applied, owes>>
      BY <1>7, Zenon DEF HcConnect, Restored, Unauthorize, HcObserve, Discard, Block, AbaDrops, AbaRestart, lineVars,
            hcVars
    <2>2. hc' \in {"off", "restoring", "resuming", "live", "ended"}
      BY <1>2, <2>1
    <2>3. Held(queue', QueueCap) /\ Held(buffer', BufferCap)
      BY <1>2, <1>3, <2>1, Limits, Zenon
    <2>4. LineTypes'
      BY <1>2, <2>1, <2>2, <2>3, Zenon DEF LineTypes, Held, Acknowledging
    <2> QED BY <1>1, <1>5, <1>6, <2>1, <2>4, Zenon DEF TInv, HcTypes, Owed
  <1>8. CASE Retain
    <2>1. /\ UNCHANGED <<inbound, applied, owes>> /\ queue # <<>>
          /\ \/ /\ Len(buffer) < BufferCap /\ buffer' = Append(buffer, Head(queue)) /\ queue' = Tail(queue)
                /\ UNCHANGED <<hc, replay, requests, withheld>>
             \/ HcEnds
             \/ queue' = Tail(queue) /\ UNCHANGED <<hc, buffer, replay, requests, withheld>>
      BY <1>8, Zenon DEF Retain, hcVars
    <2>2. ASSUME Len(buffer) < BufferCap, buffer' = Append(buffer, Head(queue)), queue' = Tail(queue),
                 UNCHANGED <<hc, replay, requests, withheld>>
          PROVE  LineTypes'
      <3>1. Held(queue', QueueCap) /\ Held(buffer', BufferCap)
        BY <1>3, <2>1, <2>2, Zenon
      <3> QED BY <1>2, <2>2, <3>1, Zenon DEF LineTypes, Held, Acknowledging
    <2>3. ASSUME queue' = Tail(queue), UNCHANGED <<hc, buffer, replay, requests, withheld>> PROVE LineTypes'
      <3>1. Held(queue', QueueCap)
        BY <1>3, <2>1, <2>3, Zenon
      <3> QED BY <1>2, <2>3, <3>1, Zenon DEF LineTypes, Held, Acknowledging
    <2>4. LineTypes'
      BY <2>1, <2>2, <2>3, EndsTypes, Zenon
    <2> QED BY <1>1, <1>5, <1>6, <2>1, <2>4, Zenon DEF TInv, HcTypes, Owed
  <1>9. CASE HcResume
    <2> DEFINE a == Append(requests, Request("resume", inbound))
    <2>1. /\ hc' = "live" /\ UNCHANGED <<queue, buffer, replay, withheld, inbound, applied, owes>>
          /\ requests' = requests \/ requests' = Asking
      BY <1>9, Zenon DEF HcResume
    <2>2. Acknowledging(a)
      BY <1>2, AcknowledgingAppend
    <2>3. Asking = a \/ (inbound > 0 /\ Asking = Append(a, Request("ack", inbound)))
      BY Zenon DEF Asking
    <2> HIDE DEF a
    <2>4. inbound > 0 => Acknowledging(Append(a, Request("ack", inbound)))
      BY <1>2, <1>4, <2>2, AcknowledgingAppend
    <2>5. Acknowledging(requests')
      BY <1>2, <2>1, <2>2, <2>3, <2>4, Zenon
    <2>6. hc' \in {"off", "restoring", "resuming", "live", "ended"}
      BY <2>1
    <2> QED BY <1>1, <1>2, <1>5, <1>6, <2>1, <2>5, <2>6, Zenon DEF TInv, LineTypes, Held, HcTypes, Owed, Acknowledging
  <1>10. CASE Receive
    <2>1. PICK n \in Seqs :
            /\ Take(n)
            /\ \/ inbound' = n /\ applied' = Append(applied, n) /\ requests' = requests
               \/ requests' = Append(requests, Request("resume", inbound)) /\ UNCHANGED <<inbound, applied, owes>>
               \/ n <= inbound /\ UNCHANGED <<requests, inbound, applied>>
               \/ UNCHANGED <<requests, inbound, applied, owes>>
      BY <1>10, Zenon DEF Receive, Apply, Gap, Quarantine, hcVars
    <2>2. UNCHANGED <<hc, replay, withheld>>
      BY <1>10, Zenon DEF Receive
    <2>3. Held(queue', QueueCap) /\ Held(buffer', BufferCap)
      BY <1>2, <1>3, <2>1, Zenon DEF Take
    <2>4. n \in 0 .. Frames
      BY DEF Seqs
    <2>5. Acknowledging(Append(requests, Request("resume", inbound)))
      BY <1>2, AcknowledgingAppend
    <2>6. Acknowledging(requests')
      BY <1>2, <2>1, <2>5, Zenon
    <2>7. LineTypes'
      BY <1>2, <2>2, <2>3, <2>6, Zenon DEF LineTypes, Held, Acknowledging
    <2>8. HcTypes'
      BY <1>1, <2>1, <2>4 DEF HcTypes
    <2>9. Owed'
      <3>1. CASE inbound' = n
        BY <3>1, Zenon DEF Owed
      <3>2. CASE UNCHANGED <<inbound, owes>>
        BY <1>1, <3>2, Zenon DEF Owed
      <3>3. CASE n <= inbound /\ inbound' = inbound
        <4>1. inbound \in Seqs
          BY <1>2, <3>3 DEF Seqs
        <4> QED BY <3>3, <4>1, Zenon DEF Owed
      <3> QED BY <2>1, <3>1, <3>2, <3>3, Zenon
    <2> QED BY <1>5, <1>6, <2>7, <2>8, <2>9, Zenon DEF TInv
  <1>11. CASE SendAck
    <2>1. /\ owes /\ owes' = FALSE /\ UNCHANGED <<hc, queue, buffer, replay, withheld, inbound, applied>>
          /\ requests' = requests \/ requests' = Append(requests, Request("ack", inbound))
      BY <1>11, Zenon DEF SendAck
    <2>2. inbound \in Seqs
      BY <1>1, <2>1, Zenon DEF Owed
    <2>3. Acknowledging(Append(requests, Request("ack", inbound)))
      BY <1>2, <2>2, AcknowledgingAppend
    <2>4. Acknowledging(requests')
      BY <1>2, <2>1, <2>3, Zenon
    <2> QED BY <1>1, <1>2, <1>5, <1>6, <2>1, <2>4, Zenon DEF TInv, LineTypes, Held, HcTypes, Owed, Acknowledging
  <1>12. CASE HcDrops \/ GatewayRestart
    <2>1. HcEnds /\ UNCHANGED <<inbound, applied>> /\ (owes' = owes \/ owes' = FALSE)
      BY <1>12, Zenon DEF HcDrops, GatewayRestart, hcVars
    <2>2. HcTypes'
      BY <1>1, <2>1, Zenon DEF HcTypes
    <2>3. Owed'
      <3>1. CASE owes' = owes
        BY <1>1, <2>1, <3>1, Zenon DEF Owed
      <3>2. CASE owes' = FALSE
        BY <3>2, Zenon DEF Owed
      <3> QED BY <2>1, <3>1, <3>2
    <2> QED BY <1>5, <1>6, <2>1, <2>2, <2>3, EndsTypes, Zenon DEF TInv
  <1> QED BY <1>7, <1>8, <1>9, <1>10, <1>11, <1>12, Zenon DEF Hc

(* The types with what the steps need of them hold in every reachable state. *)
LEMMA TypesInvariance == Spec => []TInv
  <1>1. Init => TInv
    <2> SUFFICES ASSUME Init PROVE TInv
      OBVIOUS
    <2>1. Flags /\ Owed
      BY Zenon DEF Init, Flags, Owed
    <2>2. AbaTypes /\ GatewayTypes /\ HcTypes
      BY DeliveryAssumption DEF Init, AbaTypes, GatewayTypes, HcTypes
    <2>3. LineTypes
      BY Limits DEF Init, LineTypes
    <2> QED BY <2>1, <2>2, <2>3, Zenon DEF TInv
  <1>2. TInv /\ [Next]_vars => TInv'
    <2> SUFFICES ASSUME TInv, [Next]_vars PROVE TInv'
      OBVIOUS
    <2>1. CASE UNCHANGED vars
      BY <2>1, Zenon DEF vars, abaVars, gatewayVars, lineVars, hcVars, TInv, Flags, AbaTypes, GatewayTypes,
            LineTypes, Held, Acknowledging, HcTypes, Owed
    <2>2. CASE Next
      BY <2>2, AbaStepTypes, GatewayStepTypes, HcStepTypes, Zenon DEF Next, Aba, Gateway
    <2> QED BY <2>1, <2>2
  <1> QED BY <1>1, <1>2, PTL DEF Spec

(***************************************************************************)
(* Every variable keeps its type: the queue to the HC, the frames it       *)
(* retains and the replay stay within their limits, and no acknowledgment  *)
(* is sent for anything but a frame, for any number of frames and any      *)
(* limits (sendOpaque, retain, ReplayEndpointFrames).                      *)
(***************************************************************************)
THEOREM DeliveryTypeOK == Spec => []TypeOK
  <1>1. TInv => TypeOK
    BY Zenon DEF TInv, Flags, AbaTypes, GatewayTypes, LineTypes, Held, HcTypes, Acknowledging, Requests, TypeOK
  <1> QED BY <1>1, TypesInvariance, PTL

-----------------------------------------------------------------------------
(* Nothing slips. *)

(* Taking the first element of a sequence, or adding one. *)
LEMMA InSeqTail ==
  ASSUME NEW T, NEW q \in Seq(T), q # <<>>
  PROVE  InSeq(q) = {Head(q)} \cup InSeq(Tail(q))
  <1> DEFINE t == Tail(q)
             l == Len(q)
  <1>1. /\ DOMAIN q = 1 .. l /\ DOMAIN t = 1 .. l - 1 /\ l \in Nat /\ l >= 1
        /\ Head(q) = q[1] /\ \A i \in 1 .. l - 1 : t[i] = q[i + 1]
    OBVIOUS
  <1> HIDE DEF t, l
  <1>2. ASSUME NEW x \in InSeq(q) PROVE x \in {Head(q)} \cup InSeq(t)
    <2>1. PICK i \in DOMAIN q : x = q[i]
      BY DEF InSeq
    <2>2. i = 1 \/ (i - 1 \in 1 .. l - 1 /\ t[i - 1] = q[i])
      BY <1>1, <2>1
    <2> QED BY <1>1, <2>1, <2>2 DEF InSeq
  <1>3. ASSUME NEW x \in InSeq(t) PROVE x \in InSeq(q)
    <2>1. PICK i \in DOMAIN t : x = t[i]
      BY DEF InSeq
    <2>2. i + 1 \in 1 .. l /\ t[i] = q[i + 1]
      BY <1>1, <2>1
    <2> QED BY <1>1, <2>1, <2>2 DEF InSeq
  <1>4. Head(q) \in InSeq(q)
    <2>1. 1 \in DOMAIN q
      BY <1>1
    <2> QED BY <1>1, <2>1 DEF InSeq
  <1>5. InSeq(q) = {Head(q)} \cup InSeq(t)
    BY <1>2, <1>3, <1>4, Zenon
  <1> QED BY <1>5 DEF t

LEMMA InSeqAppend ==
  ASSUME NEW T, NEW q \in Seq(T), NEW e \in T
  PROVE  InSeq(Append(q, e)) = InSeq(q) \cup {e}
  <1>1. /\ DOMAIN Append(q, e) = 1 .. Len(q) + 1 /\ DOMAIN q = 1 .. Len(q) /\ Len(q) \in Nat
        /\ Append(q, e)[Len(q) + 1] = e /\ \A i \in 1 .. Len(q) : Append(q, e)[i] = q[i]
    OBVIOUS
  <1>2. \A i \in 1 .. Len(q) + 1 : i = Len(q) + 1 \/ i \in 1 .. Len(q)
    BY <1>1
  <1>3. Len(q) + 1 \in 1 .. Len(q) + 1 /\ \A i \in 1 .. Len(q) : i \in 1 .. Len(q) + 1
    BY <1>1
  <1>4. InSeq(Append(q, e)) \subseteq InSeq(q) \cup {e}
    BY <1>1, <1>2, Zenon DEF InSeq
  <1>5. InSeq(q) \cup {e} \subseteq InSeq(Append(q, e))
    BY <1>1, <1>3, Zenon DEF InSeq
  <1> QED BY <1>4, <1>5

(* A ResumeState that is asked for is among the requests, and answering an *)
(* acknowledgment leaves it there.                                          *)
LEMMA AskedAppend ==
  ASSUME Acknowledging(requests), NEW kind \in {"resume", "ack"}, inbound \in 0 .. Frames,
         requests' = Append(requests, Request(kind, inbound))
  PROVE  /\ kind = "resume" => ResumeAsked'
         /\ ResumeAsked => ResumeAsked'
  <1> DEFINE e == Request(kind, inbound)
  <1>1. e.kind = kind /\ e \in Requests
    BY DEF Request, Requests
  <1>2. requests \in Seq(Requests)
    BY DEF Acknowledging
  <1> HIDE DEF e
  <1>3. /\ Len(requests) + 1 \in DOMAIN Append(requests, e) /\ Append(requests, e)[Len(requests) + 1] = e
        /\ \A i \in DOMAIN requests : i \in DOMAIN Append(requests, e) /\ Append(requests, e)[i] = requests[i]
    BY <1>1, <1>2
  <1>4. requests' = Append(requests, e)
    BY DEF e
  <1>5. kind = "resume" => ResumeAsked'
    BY <1>1, <1>3, <1>4, Zenon DEF ResumeAsked
  <1>6. ResumeAsked => ResumeAsked'
    BY <1>3, <1>4, Zenon DEF ResumeAsked
  <1> QED BY <1>5, <1>6

LEMMA AskedTail ==
  ASSUME Acknowledging(requests), requests # <<>>, Head(requests).kind = "ack", requests' = Tail(requests)
  PROVE  ResumeAsked => ResumeAsked'
  <1>1. requests \in Seq(Requests)
    BY DEF Acknowledging
  <1>2. /\ Head(requests) = requests[1]
        /\ \A i \in DOMAIN requests : i = 1 \/ (i - 1 \in DOMAIN Tail(requests) /\ Tail(requests)[i - 1] = requests[i])
    BY <1>1
  <1>3. SUFFICES ASSUME ResumeAsked PROVE ResumeAsked'
    OBVIOUS
  <1>4. PICK i \in DOMAIN requests : requests[i].kind = "resume"
    BY <1>3, Zenon DEF ResumeAsked
  <1>5. i # 1
    BY <1>2, <1>4
  <1>6. i - 1 \in DOMAIN requests' /\ requests'[i - 1].kind = "resume"
    BY <1>2, <1>4, <1>5, Zenon
  <1> QED BY <1>6, Zenon DEF ResumeAsked

(* The frames still to come, of a live conversation that has asked for nothing. *)
Waiting == hc = "live" /\ halted = "no" /\ ~ResumeAsked

(* A step that does not make the conversation live, and keeps its requests, the cursor *)
(* and what is on the way.                                                             *)
LEMMA SlipsKept ==
  ASSUME NothingSlips, Waiting' => Waiting, inbound' = inbound, StoredAfter(inbound)' \subseteq StoredAfter(inbound),
         Waiting /\ Waiting' => OnTheWay \subseteq OnTheWay'
  PROVE  NothingSlips'
  <1>1. SUFFICES ASSUME Waiting' PROVE StoredAfter(inbound)' \subseteq OnTheWay'
    BY Zenon DEF NothingSlips, Waiting
  <1>2. Waiting
    BY <1>1
  <1>3. StoredAfter(inbound) \subseteq OnTheWay
    BY <1>2, Zenon DEF NothingSlips, Waiting
  <1> QED BY <1>1, <1>2, <1>3

(* Each step of the ABA, of the gateway and of the HC lets nothing slip. *)
LEMMA SlipsStep == TInv /\ DInv /\ NothingSlips /\ [Next]_vars => NothingSlips'
  <1> SUFFICES ASSUME TInv, DInv, NothingSlips, [Next]_vars PROVE NothingSlips'
    OBVIOUS
  <1>0. /\ queue \in Seq(Seqs) /\ replay \in Seq(Seqs) /\ Acknowledging(requests) /\ inbound \in 0 .. Frames
        /\ inbound \in Nat /\ Bounded(requests)
    BY Zenon DEF TInv, LineTypes, Held, HcTypes, DInv, Numbers
  <1>1. CASE UNCHANGED <<stored, inbound, hc, queue, replay, requests, withheld, forwarding, halted>>
    BY <1>1, Zenon DEF NothingSlips, ResumeAsked, StoredAfter, OnTheWay, InSeq
  <1>2. ASSUME hc' # "live" \/ halted' # "no" PROVE NothingSlips'
    BY <1>2, Zenon DEF NothingSlips
  <1>3. CASE Seal \/ AbaConnect \/ AbaClose \/ AbaDrops \/ AbaRestart \/ CloseSession \/ EndSession
             \/ \E n \in Seqs : AbaAcknowledge(n) \/ Age(n)
    <2>1. UNCHANGED <<stored, inbound, hc, queue, replay, requests, withheld, forwarding, halted>>
      BY <1>3, Zenon DEF Seal, AbaConnect, AbaClose, AbaDrops, AbaRestart, CloseSession, EndSession, AbaAcknowledge,
            Age, gatewayVars, lineVars, hcVars, abaVars
    <2> QED BY <1>1, <2>1
  <1>4. CASE HcConnect \/ Restored \/ Unauthorize \/ HcObserve \/ Block \/ HcDrops \/ GatewayRestart
    <2>1. hc' \in {"off", "restoring", "resuming", "ended"} \/ halted' \in {"fault", "blocked"}
      BY <1>4, Zenon DEF HcConnect, Restored, Unauthorize, HcObserve, Block, Halts, HcDrops, GatewayRestart, HcEnds
    <2> QED BY <1>2, <2>1
  <1>5. CASE Retain \/ Discard
    <2>1. hc' = hc \/ hc' = "off"
      BY <1>5, Zenon DEF Retain, Discard, HcEnds
    <2>2. hc = "restoring" \/ hc = "ended"
      BY <1>5, Zenon DEF Retain, Discard
    <2> QED BY <1>2, <2>1, <2>2
  <1>6. CASE PutFrame
    <2>1. UNCHANGED <<inbound, hc, queue, replay, requests, withheld, halted>> /\ forwarding = 0
      BY <1>6, Zenon DEF PutFrame, lineVars, hcVars
    <2>2. CASE UNCHANGED <<stored, forwarding>>
      BY <1>1, <2>1, <2>2, Zenon
    <2>3. CASE /\ stored' = [stored EXCEPT ![Head(up)] = IF @ = "NONE" THEN "STORED" ELSE @]
               /\ forwarding' = Head(up)
      <3>1. SUFFICES ASSUME Waiting, NEW n \in Seqs, n > inbound, stored'[n] = "STORED" PROVE n \in OnTheWay'
        BY <2>1, Zenon DEF NothingSlips, Waiting, ResumeAsked, StoredAfter
      <3>2. CASE n = Head(up)
        BY <2>3, <3>2, Zenon DEF OnTheWay
      <3>3. CASE n # Head(up)
        <4>1. stored[n] = "STORED"
          BY <1>0, <2>3, <3>1, <3>3 DEF DInv, Numbers
        <4>2. n \in OnTheWay /\ n # 0
          <5>1. n \in OnTheWay
            BY <3>1, <4>1, Zenon DEF NothingSlips, Waiting, StoredAfter
          <5> QED BY <5>1 DEF Seqs
        <4> QED BY <2>1, <4>2, Zenon DEF OnTheWay, InSeq
      <3> QED BY <3>2, <3>3
    <2> QED BY <1>6, <2>2, <2>3, Zenon DEF PutFrame
  <1>7. CASE Forward
    <2>1. UNCHANGED <<stored, inbound, hc, replay, requests, halted>> /\ forwarding' = 0 /\ forwarding # 0
      BY <1>7, Zenon DEF Forward, gatewayVars, hcVars
    <2>2. forwarding \in Seqs
      BY <2>1, DeliveryAssumption DEF TInv, GatewayTypes, Seqs
    <2>3. InSeq(Append(queue, forwarding)) = InSeq(queue) \cup {forwarding}
      BY <1>0, <2>2, InSeqAppend
    <2>4. (queue' = Append(queue, forwarding) /\ withheld' = withheld)
          \/ (queue' = queue /\ (hc = "live" => withheld' = withheld \cup {forwarding}))
      BY <1>7 DEF Forward
    <2>5. hc = "live" => OnTheWay \subseteq OnTheWay'
      <3>1. CASE queue' = Append(queue, forwarding) /\ withheld' = withheld
        <4>1. InSeq(queue') = InSeq(queue) \cup {forwarding}
          BY <2>3, <3>1, Zenon
        <4> QED BY <2>1, <3>1, <4>1, Zenon DEF OnTheWay, InSeq
      <3>2. CASE queue' = queue /\ (hc = "live" => withheld' = withheld \cup {forwarding})
        BY <2>1, <3>2, Zenon DEF OnTheWay, InSeq
      <3> QED BY <2>4, <3>1, <3>2
    <2>6. (Waiting' => Waiting) /\ StoredAfter(inbound)' = StoredAfter(inbound)
      BY <2>1, Zenon DEF Waiting, ResumeAsked, StoredAfter
    <2>7. Waiting => hc = "live"
      BY Zenon DEF Waiting
    <2> QED BY <2>1, <2>5, <2>6, <2>7, SlipsKept, Zenon
  <1>8. CASE Resume
    <2> DEFINE h == Head(requests).h
    <2>1. /\ requests # <<>> /\ replay' = Missing(h) /\ withheld' = StoredAfter(h) \ InSeq(Missing(h))
          /\ UNCHANGED <<stored, inbound>>
      BY <1>8, Zenon DEF Resume, Asked, gatewayVars, hcVars
    <2>2. h \in 0 .. inbound
      BY <1>0, <2>1, TailBounded, Zenon
    <2> HIDE DEF h
    <2>3. StoredAfter(inbound)' \subseteq StoredAfter(h)
      <3>1. \A n \in Seqs : n > inbound => n > h
        BY <1>0, <2>2 DEF Seqs
      <3> QED BY <2>1, <3>1, Zenon DEF StoredAfter
    <2>4. StoredAfter(h) \subseteq OnTheWay'
      BY <2>1, Zenon DEF OnTheWay, InSeq
    <2> QED BY <2>3, <2>4, Zenon DEF NothingSlips
  <1>9. CASE ReplayFrame
    <2>1. \/ HcEnds
          \/ /\ replay # <<>> /\ queue' = Append(queue, Head(replay)) /\ replay' = Tail(replay)
             /\ UNCHANGED <<stored, inbound, hc, requests, withheld, forwarding, halted>>
      BY <1>9, Zenon DEF ReplayFrame, gatewayVars, hcVars
    <2>2. CASE HcEnds
      <3>1. hc' = "off"
        BY <2>2, Zenon DEF HcEnds
      <3> QED BY <1>2, <3>1
    <2>3. ASSUME replay # <<>>, queue' = Append(queue, Head(replay)), replay' = Tail(replay),
                 UNCHANGED <<stored, inbound, hc, requests, withheld, forwarding, halted>>
          PROVE  NothingSlips'
      <3>1. Head(replay) \in Seqs
        BY <1>0, <2>3
      <3>2. InSeq(queue') = InSeq(queue) \cup {Head(replay)}
        <4>1. InSeq(Append(queue, Head(replay))) = InSeq(queue) \cup {Head(replay)}
          BY <1>0, <3>1, InSeqAppend
        <4> QED BY <2>3, <4>1, Zenon
      <3>3. InSeq(replay) = {Head(replay)} \cup InSeq(replay')
        <4>1. InSeq(replay) = {Head(replay)} \cup InSeq(Tail(replay))
          BY <1>0, <2>3, InSeqTail
        <4> QED BY <2>3, <4>1, Zenon
      <3>4. OnTheWay \subseteq OnTheWay'
        BY <2>3, <3>2, <3>3, Zenon DEF OnTheWay, InSeq
      <3>5. (Waiting' => Waiting) /\ StoredAfter(inbound)' = StoredAfter(inbound)
        BY <2>3, Zenon DEF Waiting, ResumeAsked, StoredAfter
      <3> QED BY <2>3, <3>4, <3>5, SlipsKept, Zenon
    <2> QED BY <2>1, <2>2, <2>3, Zenon
  <1>10. CASE Acknowledge
    <2>1. /\ requests # <<>> /\ Head(requests).kind = "ack"
          /\ \/ HcEnds
             \/ requests' = Tail(requests) /\ UNCHANGED <<inbound, hc, queue, replay, withheld, forwarding, halted>>
      BY <1>10, Zenon DEF Acknowledge, Asked, hcVars
    <2>2. CASE HcEnds
      <3>1. hc' = "off"
        BY <2>2, Zenon DEF HcEnds
      <3> QED BY <1>2, <3>1
    <2>3. ASSUME requests' = Tail(requests), UNCHANGED <<inbound, hc, queue, replay, withheld, forwarding, halted>>
          PROVE  NothingSlips'
      <3>1. ResumeAsked => ResumeAsked'
        BY <1>0, <2>1, <2>3, AskedTail, Zenon
      <3>2. StoredAfter(inbound)' \subseteq StoredAfter(inbound)
        <4>1. \A n \in Seqs : stored'[n] = "STORED" => stored[n] = "STORED"
          BY <1>10 DEF Acknowledge, AdvanceAck
        <4> QED BY <2>3, <4>1, Zenon DEF StoredAfter
      <3>3. (Waiting' => Waiting) /\ OnTheWay' = OnTheWay
        BY <2>3, <3>1, Zenon DEF Waiting, OnTheWay, InSeq
      <3> QED BY <2>3, <3>2, <3>3, SlipsKept, Zenon
    <2> QED BY <2>1, <2>2, <2>3, Zenon
  <1>11. CASE HcResume
    <2>1. halted' \in {"fault", "blocked"} \/ (halted # "no" /\ halted' = halted) \/ requests' = Asking
      BY <1>11, Zenon DEF HcResume, Halts
    <2>2. CASE requests' = Asking
      <3> DEFINE a == Append(requests, Request("resume", inbound))
      <3>1. Asking = a \/ Asking = Append(a, Request("ack", inbound))
        BY Zenon DEF Asking
      <3>2. a \in Seq(Requests) /\ \E i \in DOMAIN a : a[i].kind = "resume"
        <4>1. Request("resume", inbound) \in Requests /\ Request("resume", inbound).kind = "resume"
          BY <1>0 DEF Request, Requests
        <4>2. requests \in Seq(Requests)
          BY <1>0, Zenon DEF Acknowledging
        <4> QED BY <4>1, <4>2
      <3> HIDE DEF a
      <3>3. \E i \in DOMAIN Append(a, Request("ack", inbound)) : Append(a, Request("ack", inbound))[i].kind = "resume"
        BY <3>2
      <3>4. ResumeAsked'
        BY <2>2, <3>1, <3>2, <3>3, Zenon DEF ResumeAsked
      <3> QED BY <3>4, Zenon DEF NothingSlips
    <2> QED BY <1>2, <2>1, <2>2
  <1>12. CASE SendAck
    <2>1. /\ UNCHANGED <<stored, inbound, hc, queue, replay, withheld, forwarding>>
          /\ \/ halted' \in {"fault", "blocked"}
             \/ halted' = halted /\ (requests' = requests \/ requests' = Append(requests, Request("ack", inbound)))
      BY <1>12, Zenon DEF SendAck, Halts, gatewayVars
    <2>2. ASSUME halted' = halted, requests' = requests \/ requests' = Append(requests, Request("ack", inbound))
          PROVE  NothingSlips'
      <3>1. ASSUME requests' = Append(requests, Request("ack", inbound)) PROVE ResumeAsked => ResumeAsked'
        BY <1>0, <3>1, AskedAppend
      <3>2. ResumeAsked => ResumeAsked'
        BY <2>2, <3>1, Zenon DEF ResumeAsked
      <3>3. (Waiting' => Waiting) /\ OnTheWay' = OnTheWay /\ StoredAfter(inbound)' = StoredAfter(inbound)
        BY <2>1, <2>2, <3>2, Zenon DEF Waiting, OnTheWay, InSeq, StoredAfter
      <3> QED BY <2>1, <3>3, SlipsKept, Zenon
    <2> QED BY <1>2, <2>1, <2>2
  <1>13. CASE Receive
    <2>1. CASE hc # "live"
      <3>1. hc' = hc
        BY <1>13, Zenon DEF Receive
      <3> QED BY <1>2, <2>1, <3>1
    <2>2. CASE hc = "live"
      <3>1. UNCHANGED <<stored, hc, replay, withheld, forwarding>>
        BY <1>13, Zenon DEF Receive, gatewayVars
      <3>2. PICK n \in Seqs :
              /\ queue # <<>> /\ n = Head(queue) /\ queue' = Tail(queue)
              /\ \/ Stopped /\ halted' = halted
                 \/ IsNext(n) /\ inbound' = n /\ requests' = requests /\ halted' = halted
                 \/ requests' = Append(requests, Request("resume", inbound))
                 \/ n <= inbound /\ inbound' = inbound /\ requests' = requests /\ halted' = halted
                 \/ halted' \in {"fault", "blocked"}
        <4>1. "live" # "resuming"
          OBVIOUS
        <4> QED BY <1>13, <2>2, <4>1, Zenon DEF Receive, Take, Apply, Gap, Quarantine, Halts, hcVars
      <3>3. InSeq(queue) = {n} \cup InSeq(queue')
        <4>1. InSeq(queue) = {Head(queue)} \cup InSeq(Tail(queue))
          BY <1>0, <3>2, InSeqTail
        <4> QED BY <3>2, <4>1, Zenon
      <3>4. CASE halted' \in {"fault", "blocked"} \/ (Stopped /\ halted' = halted)
        <4>1. halted' # "no"
          BY <3>4 DEF Stopped
        <4> QED BY <1>2, <4>1
      <3>5. CASE requests' = Append(requests, Request("resume", inbound))
        <4>1. ResumeAsked'
          BY <1>0, <3>5, AskedAppend
        <4> QED BY <4>1, Zenon DEF NothingSlips
      <3>6. ASSUME (IsNext(n) /\ inbound' = n) \/ (n <= inbound /\ inbound' = inbound),
                   requests' = requests /\ halted' = halted
            PROVE  NothingSlips'
        <4>1. SUFFICES ASSUME Waiting, NEW k \in Seqs, k > inbound', stored[k] = "STORED" PROVE k \in OnTheWay'
          BY <3>1, <3>6, Zenon DEF NothingSlips, Waiting, ResumeAsked, StoredAfter
        <4>2. k # n /\ k > inbound
          BY <1>0, <3>6, <4>1 DEF IsNext, Seqs
        <4>3. k \in OnTheWay
          BY <4>1, <4>2, Zenon DEF NothingSlips, Waiting, StoredAfter
        <4> QED BY <3>1, <3>3, <4>2, <4>3, Zenon DEF OnTheWay, InSeq
      <3> QED BY <3>2, <3>4, <3>5, <3>6, Zenon
    <2> QED BY <2>1, <2>2
  <1>14. CASE UNCHANGED vars
    <2>1. UNCHANGED <<stored, inbound, hc, queue, replay, requests, withheld, forwarding, halted>>
      BY <1>14, Zenon DEF vars, gatewayVars, lineVars, hcVars
    <2> QED BY <1>1, <2>1
  <1> QED BY <1>3, <1>4, <1>5, <1>6, <1>7, <1>8, <1>9, <1>10, <1>11, <1>12, <1>13, <1>14, Zenon
          DEF Next, Aba, Gateway, Hc

(***************************************************************************)
(* For any number of frames and any limits, every stored frame after the   *)
(* cursor of a live conversation is in its queue, still to be forwarded or *)
(* replayed, withheld by a limit of the gateway, or about to be asked for  *)
(* (processEncryptedFrame, processResumeState, receive, resume).           *)
(***************************************************************************)
THEOREM NoFrameSlips == Spec => []NothingSlips
  <1>1. Init => NothingSlips
    <2>1. Init => hc # "live"
      BY DEF Init
    <2> QED BY <2>1, Zenon DEF NothingSlips
  <1> QED BY <1>1, DeliveryInvariance, TypesInvariance, SlipsStep, PTL DEF Spec
=============================================================================
