-------------------------- MODULE CredentialsProofs --------------------------
(***************************************************************************)
(* Credentials, for every number of requests, proofs, nonces, generations  *)
(* and tickets. Each claim is about state that a handler read long before  *)
(* it acts, so the invariant says what may have happened in between: what  *)
(* a handler in progress may still rely on (Good), how the generations     *)
(* follow each other (Chain), when a replay row may be gone (Window),      *)
(* which nonces cannot come back (Exchanged), which tickets were used      *)
(* (Admitted) and which ones a revocation in progress has missed, so that  *)
(* a connection request may still find them (Overtaken).                   *)
(***************************************************************************)
EXTENDS Credentials, FiniteSetTheorems, TLAPS

CredentialRows == [status : CredentialStatus, expires : Nat]
TicketRows == [status : {"NONE", "ISSUED", "CONSUMED", "REVOKED"}, expires : Nat, id : Nat]
Proofs == [jti : Nat, nonce : Nat, iat : Nat, kind : Kinds \cup {"none"}, id : Nat]
Places == {"idle", "nonce", "challenge", "verify", "rotate", "grant", "credential", "consume"}
Handlers == [kind : Kinds \cup {"none", "connect"}, at : Places, now : Nat, id : Nat,
             proof : Proofs, nonce : Nat, next : Nat]

Tables ==
    /\ now \in 0 .. MaxTime /\ endpoint \in {"ACTIVE", "SUSPENDED", "REVOKED"}
    /\ access \in [1 .. MaxTokens -> CredentialRows]
    /\ refresh \in [1 .. MaxTokens -> CredentialRows]
    /\ issued \in 0 .. MaxNonces /\ nonce \in [value : 0 .. issued, expires : Nat]
    /\ replay \subseteq [jti : 1 .. MaxProofs, expires : Nat]
    /\ ticket \in [1 .. MaxTickets -> TicketRows]

Client ==
    /\ proofs \subseteq Proofs /\ IsFiniteSet(proofs)
    /\ \A p \in proofs : /\ p.jti \in 1 .. MaxProofs /\ p.jti <= Cardinality(proofs)
                         /\ p.kind \in Kinds
                         /\ p.id \in 1 .. MaxTokens /\ access[p.id].status # "NONE"
    /\ \A p, q \in proofs : p.jti = q.jti => p = q
    /\ held \in 1 .. MaxTokens /\ access[held].status # "NONE"
    /\ known \in 0 .. issued

Counts ==
    /\ verified \in [1 .. MaxProofs -> Nat]
    /\ spent \in [1 .. MaxNonces -> Nat]
    /\ opened \in [1 .. MaxTickets -> Nat]

(* What holds of a handler in progress, whatever the others have done since. *)
Good(h) ==
    \/ h = Idle
    \/ /\ h.now <= now /\ now <= h.now + MaxStall
       /\ \/ /\ h.at \in {"nonce", "challenge", "verify", "rotate", "grant"}
             /\ h.id \in 1 .. MaxTokens /\ access[h.id].status # "NONE"
             /\ h.next <= issued
             /\ h.proof \in proofs \/ h.at \in {"nonce", "challenge"}
             /\ h.proof \in proofs \/ h.proof = NoProof
             /\ h.at \in {"verify", "rotate"} => h.nonce \in 1 .. issued
          \/ /\ h.at \in {"credential", "consume"}
             /\ h.id \in 1 .. MaxTickets /\ ticket[h.id].status # "NONE"

Running ==
    /\ req \in [Requests -> Handlers]
    /\ \A r \in Requests : Good(req[r])

Base == Tables /\ Client /\ Counts /\ Running

(* What a step may take from a handler in progress: nothing. *)
Grows ==
    /\ now' = now /\ issued' \in Nat /\ issued <= issued' /\ proofs \subseteq proofs'
    /\ \A k \in 1 .. MaxTokens : access[k].status # "NONE" => access'[k].status # "NONE"
    /\ \A t \in 1 .. MaxTickets : ticket[t].status # "NONE" => ticket'[t].status # "NONE"

(* The constants have the types their assumption gives them. *)
LEMMA Constants ==
    /\ MaxAge \in Nat \ {0} /\ FutureSkew \in Nat \ {0} /\ NonceTTL \in Nat /\ TicketTTL \in Nat
    /\ AccessTTL \in Nat /\ RefreshTTL \in Nat /\ MaxStall \in Nat /\ MaxStall < FutureSkew
    /\ MaxTime \in Nat /\ MaxProofs \in Nat /\ MaxNonces \in Nat /\ MaxTickets \in Nat
    /\ MaxTokens \in Nat \ {0} /\ Skews \subseteq Nat
  BY CredentialsAssumption, Zenon

(* A request that is not being handled. *)
LEMMA IdleIsHandler == Idle \in Handlers /\ Idle.at = "idle"
  BY Zenon DEF Idle, Handlers, Places, NoProof, Proofs

(* A handler that may rely on something still may when tables only grow. *)
LEMMA GoodGrows ==
  ASSUME NEW h \in Handlers, Good(h), Grows, Base
  PROVE  Good(h)'
  <1>1. h.next \in Nat /\ h.nonce \in Nat /\ issued \in Nat
    BY Constants DEF Handlers, Base, Tables
  <1>2. CASE h = Idle
    BY <1>2, Zenon DEF Good
  <1>3. CASE h # Idle
    BY <1>1, <1>3 DEF Good, Grows
  <1> QED BY <1>2, <1>3

(* One handler moves and the others stay. *)
LEMMA Moves ==
  ASSUME Base, Grows, NEW r \in Requests, NEW h \in Handlers, req' = [req EXCEPT ![r] = h], Good(h)'
  PROVE  Running'
  <1>1. req \in [Requests -> Handlers]
    BY Zenon DEF Base, Running
  <1>2. req' \in [Requests -> Handlers]
    BY <1>1, Zenon
  <1>3. ASSUME NEW q \in Requests PROVE Good(req[q])'
    <2>1. CASE q = r
      <3>1. req'[q] = h
        BY <1>1, <2>1, Zenon
      <3> QED BY <3>1 DEF Good
    <2>2. CASE q # r
      <3>1. PICK g \in Handlers : g = req[q]
        BY <1>1, Zenon
      <3>2. req'[q] = g /\ Good(g)
        BY <1>1, <2>2, <3>1, Zenon DEF Base, Running
      <3>3. Good(g)'
        BY <3>2, GoodGrows, Zenon
      <3> QED BY <3>2, <3>3 DEF Good
    <2> QED BY <2>1, <2>2
  <1> QED BY <1>2, <1>3 DEF Running

(* A handler that returns. *)
LEMMA Returns ==
  ASSUME Base, Grows, NEW r \in Requests, req' = [req EXCEPT ![r] = Idle]
  PROVE  Running'
  <1>1. Good(Idle)'
    BY Zenon DEF Good
  <1> QED BY <1>1, IdleIsHandler, Moves, Zenon

(* No handler moves. *)
LEMMA Stays ==
  ASSUME Base, Grows, UNCHANGED req
  PROVE  Running'
  <1>1. req \in [Requests -> Handlers]
    BY Zenon DEF Base, Running
  <1>3. ASSUME NEW q \in Requests PROVE Good(req[q])'
    <2>1. PICK g \in Handlers : g = req[q]
      BY <1>1, Zenon
    <2>2. Good(g)
      BY <2>1, Zenon DEF Base, Running
    <2>3. Good(g)'
      BY <2>2, GoodGrows, Zenon
    <2> QED BY <2>1, <2>3 DEF Good
  <1> QED BY <1>1, <1>3 DEF Running

(* The client's view keeps its meaning when the tables only grow. *)
LEMMA ClientKept ==
  ASSUME Base, Grows, UNCHANGED <<proofs, held>>, known' \in 0 .. issued'
  PROVE  Client'
  <1>1. \A p \in proofs : p.id \in 1 .. MaxTokens /\ access[p.id].status # "NONE"
    BY Zenon DEF Base, Client
  <1>2. \A p \in proofs : access'[p.id].status # "NONE"
    BY <1>1, Zenon DEF Grows
  <1>3. held \in 1 .. MaxTokens /\ access'[held].status # "NONE"
    BY Zenon DEF Base, Client, Grows
  <1> QED BY <1>2, <1>3 DEF Base, Client

(* Rows that are marked keep their place, their expiry and their type. *)
LEMMA MarkedRows ==
  ASSUME NEW N \in Nat, NEW table \in [1 .. N -> CredentialRows], NEW from \in SUBSET CredentialStatus,
         NEW to \in CredentialStatus
  PROVE  /\ Marked(table, from, to) \in [1 .. N -> CredentialRows]
         /\ \A k \in 1 .. N : /\ Marked(table, from, to)[k].expires = table[k].expires
                              /\ Marked(table, from, to)[k].status =
                                    IF table[k].status \in from THEN to ELSE table[k].status
  <1>1. \A k \in 1 .. N : table[k] \in CredentialRows
    BY Zenon
  <1>2. ASSUME NEW k \in 1 .. N
        PROVE  /\ [table[k] EXCEPT !.status = to] \in CredentialRows
               /\ [table[k] EXCEPT !.status = to].status = to
               /\ [table[k] EXCEPT !.status = to].expires = table[k].expires
    BY <1>1, Zenon DEF CredentialRows
  <1>3. DOMAIN table = 1 .. N
    BY Zenon
  <1> QED BY <1>1, <1>2, <1>3 DEF Marked

(* The case of a rotation. *)
LEMMA RotatedRows ==
  ASSUME NEW N \in Nat, NEW table \in [1 .. N -> CredentialRows]
  PROVE  /\ Marked(table, {"ACTIVE"}, "ROTATED") \in [1 .. N -> CredentialRows]
         /\ \A k \in 1 .. N : Marked(table, {"ACTIVE"}, "ROTATED")[k].status =
                IF table[k].status = "ACTIVE" THEN "ROTATED" ELSE table[k].status
  <1>1. PICK a \in SUBSET CredentialStatus : a = {"ACTIVE"}
    BY Zenon DEF CredentialStatus
  <1>2. PICK b \in CredentialStatus : b = "ROTATED"
    BY Zenon DEF CredentialStatus
  <1>3. /\ Marked(table, a, b) \in [1 .. N -> CredentialRows]
        /\ \A k \in 1 .. N : Marked(table, a, b)[k].status = IF table[k].status \in a THEN b ELSE table[k].status
    BY MarkedRows
  <1>4. \A x : x \in a <=> x = "ACTIVE"
    BY <1>1, Zenon
  <1> QED BY <1>1, <1>2, <1>3, <1>4, Zenon

(* A row written by a rotation is an active one. *)
LEMMA ActiveRow ==
  ASSUME NEW t \in Nat, NEW ttl \in Nat
  PROVE  /\ [status |-> "ACTIVE", expires |-> t + ttl] \in CredentialRows
         /\ [status |-> "ACTIVE", expires |-> t + ttl].status = "ACTIVE"
  <1>1. PICK e \in Nat : e = t + ttl
    OBVIOUS
  <1> QED BY <1>1, Zenon DEF CredentialRows, CredentialStatus

(* The tickets when the revocation of the endpoint commits. *)
LEMMA RevokedTickets ==
  ASSUME ticket \in [1 .. MaxTickets -> TicketRows], Revoke
  PROVE  /\ ticket' \in [1 .. MaxTickets -> TicketRows]
         /\ \A t \in 1 .. MaxTickets : ticket'[t].status = (IF t \in marked THEN "REVOKED" ELSE ticket[t].status)
         /\ \A t \in 1 .. MaxTickets : ticket'[t].id = ticket[t].id
  <1> DEFINE row(t) == [ticket[t] EXCEPT !.status = "REVOKED"]
  <1>1. \A t \in 1 .. MaxTickets : ticket[t] \in TicketRows
    BY Zenon
  <1>2. ASSUME NEW t \in 1 .. MaxTickets
        PROVE  row(t) \in TicketRows /\ row(t).status = "REVOKED" /\ row(t).id = ticket[t].id
    BY <1>1, Zenon DEF TicketRows
  <1>3. DOMAIN ticket = 1 .. MaxTickets
    BY Zenon
  <1>4. ticket' = [t \in 1 .. MaxTickets |-> IF t \in marked THEN row(t) ELSE ticket[t]]
    BY <1>3, Zenon DEF Revoke
  <1> HIDE DEF row
  <1> QED BY <1>1, <1>2, <1>4

(* The initial tables, with the generation the endpoint was enrolled with. *)
LEMMA BaseInit == Init => Base
  <1> SUFFICES ASSUME Init PROVE Base
    BY Zenon
  <1>1. /\ NoRow \in CredentialRows
        /\ [status |-> "ACTIVE", expires |-> AccessTTL] \in CredentialRows
        /\ [status |-> "ACTIVE", expires |-> RefreshTTL] \in CredentialRows
        /\ [status |-> "NONE", expires |-> 0, id |-> 0] \in TicketRows
    BY Constants, Zenon DEF NoRow, CredentialRows, CredentialStatus, TicketRows
  <1>2. Tables
    <2>1. access \in [1 .. MaxTokens -> CredentialRows]
      BY <1>1, Zenon DEF Init
    <2>2. refresh \in [1 .. MaxTokens -> CredentialRows]
      BY <1>1, Zenon DEF Init
    <2>3. ticket \in [1 .. MaxTickets -> TicketRows]
      BY <1>1, Zenon DEF Init
    <2>4. nonce \in [value : 0 .. issued, expires : Nat] /\ issued \in 0 .. MaxNonces /\ now \in 0 .. MaxTime
      BY Constants DEF Init
    <2>5. endpoint \in {"ACTIVE", "SUSPENDED", "REVOKED"} /\ replay = {}
      BY Zenon DEF Init
    <2> QED BY <2>1, <2>2, <2>3, <2>4, <2>5 DEF Tables
  <1>3. Client
    <2>1. 1 \in 1 .. MaxTokens /\ 0 \in 0 .. issued
      BY Constants DEF Init
    <2>2. access[1].status = "ACTIVE"
      BY <2>1, Zenon DEF Init
    <2>3. IsFiniteSet(proofs)
      BY FS_EmptySet, Zenon DEF Init
    <2> QED BY <2>1, <2>2, <2>3 DEF Client, Init
  <1>4. Counts
    BY Zenon DEF Counts, Init
  <1>5. Running
    BY IdleIsHandler, Zenon DEF Running, Init, Good
  <1> QED BY <1>2, <1>3, <1>4, <1>5 DEF Base

(* A request that begins names a credential of the family and a signed proof or none. *)
LEMMA Begins ==
  ASSUME Base, Grows, NEW r \in Requests, NEW kind \in Kinds, NEW i \in 1 .. MaxTokens,
         access[i].status # "NONE", NEW p \in Proofs, p \in proofs' \/ p = NoProof,
         Begin(r, kind, i, p)
  PROVE  Running'
  <1> DEFINE h == [kind |-> kind, at |-> "nonce", now |-> now, id |-> i, proof |-> p, nonce |-> 0, next |-> 0]
  <1>1. req' = [req EXCEPT ![r] = h]
    BY Zenon DEF Begin
  <1>2. now \in Nat /\ issued \in Nat
    BY Constants DEF Base, Tables
  <1>8. h \in Handlers /\ h.at = "nonce" /\ h.now = now /\ h.id = i /\ h.proof = p /\ h.next = 0
    BY <1>2 DEF Handlers, Places
  <1> HIDE DEF h
  <1>3. PICK g \in Handlers : g = h /\ g.at = "nonce" /\ g.now = now /\ g.id = i /\ g.proof = p /\ g.next = 0
    BY <1>8, Zenon
  <1>4. now <= now + MaxStall
    BY <1>2, Constants
  <1>7. issued' \in Nat /\ 0 <= issued' /\ now' = now /\ access'[i].status # "NONE"
    BY DEF Grows
  <1>5. Good(g)'
    BY <1>2, <1>3, <1>4, <1>7 DEF Good
  <1> QED BY <1>1, <1>3, <1>5, Moves, Zenon

(* The client signs a proof with a new jti, or sends none. *)
LEMMA SendStep ==
  ASSUME Base, NEW r \in Requests, NEW kind \in Kinds, NEW skew \in Skews, Send(r, kind, skew)
  PROVE  Base' /\ UNCHANGED <<now, rows, held, known, counts>>
  <1>0. UNCHANGED <<now, endpoint, access, refresh, nonce, replay, ticket, issued, held, known,
                    verified, spent, opened>>
    BY Zenon DEF Send, rows, counts
  <1>1. Tables' /\ Counts'
    BY <1>0, Zenon DEF Base, Tables, Counts
  <1>2. PICK i \in 1 .. MaxTokens : i = held /\ access[i].status # "NONE"
    BY Zenon DEF Base, Client
  <1>3. now \in Nat /\ issued \in Nat /\ known \in Nat /\ skew \in Nat
    BY Constants DEF Base, Tables, Client
  <1>4. NoProof \in Proofs
    BY Zenon DEF NoProof, Proofs
  <1>5. CASE Begin(r, kind, held, NoProof) /\ UNCHANGED proofs
    <2>1. Grows
      BY <1>0, <1>3, <1>5 DEF Grows
    <2>2. Running'
      BY <1>2, <1>4, <1>5, <2>1, Begins, Zenon
    <2>3. Client'
      BY <1>0, <1>5, Zenon DEF Base, Client
    <2> QED BY <1>0, <1>1, <2>2, <2>3 DEF Base, rows, counts
  <1>6. ASSUME NEW p, p = [jti |-> Cardinality(proofs) + 1, nonce |-> known, iat |-> now + skew,
                           kind |-> kind, id |-> held],
               p.jti <= MaxProofs, Begin(r, kind, held, p), proofs' = proofs \cup {p}
        PROVE  Base'
    <2>1. Cardinality(proofs) \in Nat
      BY FS_CardinalityType, Zenon DEF Base, Client
    <2>2. p \in Proofs /\ p.jti = Cardinality(proofs) + 1 /\ p.id = i /\ p.kind = kind
      BY <1>2, <1>3, <1>6, <2>1 DEF Proofs
    <2>3. \A q \in proofs : q.jti \in Nat /\ q.jti <= Cardinality(proofs)
      BY Zenon DEF Base, Client, Proofs
    <2>4. p \notin proofs
      BY <2>1, <2>2, <2>3
    <2>5. IsFiniteSet(proofs') /\ Cardinality(proofs') = Cardinality(proofs) + 1
      BY <1>6, <2>4, FS_AddElement, Zenon DEF Base, Client
    <2>6. p.jti \in 1 .. MaxProofs
      BY <1>6, <2>1, <2>2, Constants
    <2>7. Grows
      BY <1>0, <1>3, <1>6 DEF Grows
    <2>8. Running'
      BY <1>2, <1>6, <2>2, <2>7, Begins, Zenon
    <2>9. Client'
      <3>1. proofs' \subseteq Proofs
        BY <1>6, <2>2, Zenon DEF Base, Client
      <3>2. \A q \in proofs' : /\ q.jti \in 1 .. MaxProofs /\ q.jti <= Cardinality(proofs')
                               /\ q.kind \in Kinds
                               /\ q.id \in 1 .. MaxTokens /\ access'[q.id].status # "NONE"
        <4> SUFFICES ASSUME NEW q \in proofs'
                     PROVE  /\ q.jti \in 1 .. MaxProofs /\ q.jti <= Cardinality(proofs')
                            /\ q.kind \in Kinds
                            /\ q.id \in 1 .. MaxTokens /\ access'[q.id].status # "NONE"
          BY Zenon
        <4>1. CASE q = p
          BY <1>0, <1>2, <2>1, <2>2, <2>5, <2>6, <4>1
        <4>2. CASE q \in proofs
          BY <1>0, <2>1, <2>3, <2>5, <4>2 DEF Base, Client
        <4> QED BY <1>6, <4>1, <4>2
      <3>3. \A q, s \in proofs' : q.jti = s.jti => q = s
        BY <1>6, <2>1, <2>2, <2>3 DEF Base, Client
      <3> QED BY <1>0, <2>5, <3>1, <3>2, <3>3 DEF Base, Client
    <2> QED BY <1>1, <2>8, <2>9 DEF Base
  <1> QED BY <1>0, <1>5, <1>6 DEF Send, rows, counts

(* A request that was sent before. *)
LEMMA ResendStep ==
  ASSUME Base, NEW r \in Requests, NEW p \in proofs, Resend(r, p)
  PROVE  Base'
  <1>0. UNCHANGED <<now, endpoint, access, refresh, nonce, replay, ticket, issued, proofs, held, known,
                    verified, spent, opened>>
    BY Zenon DEF Resend, rows, client, counts
  <1>1. p \in Proofs /\ p.kind \in Kinds /\ p.id \in 1 .. MaxTokens /\ access[p.id].status # "NONE"
    BY Zenon DEF Base, Client
  <1>2. issued \in Nat
    BY Constants DEF Base, Tables
  <1>3. Grows
    BY <1>0, <1>2 DEF Grows
  <1>4. Running'
    BY <1>0, <1>1, <1>3, Begins, Zenon DEF Resend
  <1>5. Tables' /\ Counts' /\ Client'
    BY <1>0, Zenon DEF Base, Tables, Counts, Client
  <1> QED BY <1>4, <1>5 DEF Base

(* h is the handler of r, gone to another place. *)
Went(r, h, place) ==
    /\ req' = [req EXCEPT ![r] = h] /\ h.at = place
    /\ h.now = req[r].now /\ h.id = req[r].id /\ h.proof = req[r].proof

(* A handler goes to another place. *)
LEMMA Goes ==
  ASSUME Base, NEW r \in Requests, NEW a \in Places, req' = [req EXCEPT ![r].at = a]
  PROVE  \E h \in Handlers : Went(r, h, a) /\ h.nonce = req[r].nonce /\ h.next = req[r].next
  <1> DEFINE h == [req[r] EXCEPT !.at = a]
  <1>1. req[r] \in Handlers
    BY Zenon DEF Base, Running
  <1>2. h \in Handlers /\ h.at = a /\ h.now = req[r].now /\ h.id = req[r].id /\ h.proof = req[r].proof
        /\ h.nonce = req[r].nonce /\ h.next = req[r].next
    BY <1>1, Zenon DEF Handlers
  <1>3. req' = [req EXCEPT ![r] = h]
    BY Zenon
  <1> HIDE DEF h
  <1> QED BY <1>2, <1>3, Zenon DEF Went

(* It also remembers the nonce it has read. *)
LEMMA GoesWithNonce ==
  ASSUME Base, NEW r \in Requests, NEW a \in Places, NEW v \in Nat,
         req' = [req EXCEPT ![r].at = a, ![r].nonce = v]
  PROVE  \E h \in Handlers : Went(r, h, a) /\ h.nonce = v /\ h.next = req[r].next
  <1> DEFINE m == [req[r] EXCEPT !.at = a]
             h == [m EXCEPT !.nonce = v]
             s == [req EXCEPT ![r].at = a]
  <1>1. req[r] \in Handlers /\ req \in [Requests -> Handlers]
    BY Zenon DEF Base, Running
  <1>2. m \in Handlers /\ m.at = a /\ m.now = req[r].now /\ m.id = req[r].id /\ m.proof = req[r].proof
        /\ m.next = req[r].next
    BY <1>1, Zenon DEF Handlers
  <1>3. s = [req EXCEPT ![r] = m] /\ s[r] = m
    BY <1>1, Zenon
  <1>4. req' = [s EXCEPT ![r].nonce = v]
    BY Zenon
  <1> HIDE DEF m, s
  <1>5. h \in Handlers /\ h.at = a /\ h.now = req[r].now /\ h.id = req[r].id /\ h.proof = req[r].proof
        /\ h.next = req[r].next /\ h.nonce = v
    BY <1>2, Zenon DEF Handlers
  <1>6. req' = [s EXCEPT ![r] = h]
    BY <1>3, <1>4, Zenon
  <1>7. req' = [req EXCEPT ![r] = h]
    BY <1>1, <1>3, <1>6, Zenon
  <1> HIDE DEF h
  <1> QED BY <1>5, <1>7, Zenon DEF Went

(* It also remembers the nonce that follows. *)
LEMMA GoesWithNext ==
  ASSUME Base, NEW r \in Requests, NEW a \in Places, NEW v \in Nat,
         req' = [req EXCEPT ![r].at = a, ![r].next = v]
  PROVE  \E h \in Handlers : Went(r, h, a) /\ h.next = v
  <1> DEFINE m == [req[r] EXCEPT !.at = a]
             h == [m EXCEPT !.next = v]
             s == [req EXCEPT ![r].at = a]
  <1>1. req[r] \in Handlers /\ req \in [Requests -> Handlers]
    BY Zenon DEF Base, Running
  <1>2. m \in Handlers /\ m.at = a /\ m.now = req[r].now /\ m.id = req[r].id /\ m.proof = req[r].proof
    BY <1>1, Zenon DEF Handlers
  <1>3. s = [req EXCEPT ![r] = m] /\ s[r] = m
    BY <1>1, Zenon
  <1>4. req' = [s EXCEPT ![r].next = v]
    BY Zenon
  <1> HIDE DEF m, s
  <1>5. h \in Handlers /\ h.at = a /\ h.now = req[r].now /\ h.id = req[r].id /\ h.proof = req[r].proof
        /\ h.next = v
    BY <1>2, Zenon DEF Handlers
  <1>6. req' = [s EXCEPT ![r] = h]
    BY <1>3, <1>4, Zenon
  <1>7. req' = [req EXCEPT ![r] = h]
    BY <1>1, <1>3, <1>6, Zenon
  <1> HIDE DEF h
  <1> QED BY <1>5, <1>7, Zenon DEF Went

(* A nonce row that is written holds the nonce generated last. *)
LEMMA NonceWritten ==
  ASSUME Base, NEW r \in Requests, PutNonce(r)
  PROVE  /\ issued' \in 0 .. MaxNonces /\ issued' = issued + 1 /\ nonce'.value = issued'
         /\ nonce' \in [value : 0 .. issued', expires : Nat]
  <1>1. req[r].now \in Nat /\ issued \in Nat
    BY Constants DEF Base, Running, Handlers, Tables
  <1> QED BY <1>1, Constants DEF PutNonce

(* A step of a handler that changes no table but the nonce row. *)
LEMMA HandlerStep ==
  ASSUME Base, NEW r \in Requests,
         \/ ReadNonce(r) \/ WriteNonceChallenge(r) \/ Reject(r) \/ RotateNonce(r)
         \/ RefuseRefresh(r) \/ Authenticated(r) \/ CheckCredential(r) \/ Abort(r)
         \/ \E t \in 1 .. MaxTickets : BeginConnect(r, t)
  PROVE  Base'
  <1>0. UNCHANGED <<now, endpoint, access, refresh, replay, ticket, proofs, held, verified, opened>>
    BY Zenon DEF ReadNonce, WriteNonceChallenge, Reject, RotateNonce, RefuseRefresh, Authenticated,
           CheckCredential, Abort, BeginConnect, rows, client, counts
  <1>1. UNCHANGED <<nonce, issued>> \/ PutNonce(r)
    BY Zenon DEF ReadNonce, WriteNonceChallenge, Reject, RotateNonce, RefuseRefresh, Authenticated,
           CheckCredential, Abort, BeginConnect, rows
  <1>2. /\ issued \in Nat /\ issued' \in 0 .. MaxNonces /\ issued <= issued'
        /\ nonce' \in [value : 0 .. issued', expires : Nat]
    <2>1. issued \in Nat /\ issued \in 0 .. MaxNonces /\ nonce \in [value : 0 .. issued, expires : Nat]
      BY Constants DEF Base, Tables
    <2> QED BY <1>1, <2>1, NonceWritten
  <1>3. Grows
    BY <1>0, <1>2 DEF Grows
  <1>4. Tables'
    BY <1>0, <1>2, Zenon DEF Base, Tables
  <1>5. req[r] \in Handlers /\ Good(req[r]) /\ req[r].next \in Nat /\ req[r].nonce \in Nat /\ now \in Nat
    BY Constants DEF Base, Running, Handlers, Tables
  <1>6. Counts'
    <2>1. CASE UNCHANGED spent
      BY <1>0, <2>1, Zenon DEF Base, Counts
    <2>2. CASE RotateNonce(r) /\ spent' # spent
      <3>1. spent' = [spent EXCEPT ![req[r].nonce] = @ + 1]
        BY <2>2, Zenon DEF RotateNonce
      <3>2. spent \in [1 .. MaxNonces -> Nat]
        BY Zenon DEF Base, Counts
      <3>4. PICK n \in Nat : n = req[r].nonce /\ n \in 1 .. MaxNonces
        <4>1. req[r].nonce \in 1 .. issued
          BY <1>5, <2>2, IdleIsHandler, Zenon DEF RotateNonce, Good
        <4>2. issued \in 0 .. MaxNonces
          BY Zenon DEF Base, Tables
        <4>3. ASSUME NEW m \in 0 .. MaxNonces, NEW q \in 1 .. m
              PROVE  q \in Nat /\ q \in 1 .. MaxNonces
          BY Constants
        <4> QED BY <4>1, <4>2, <4>3, Zenon
      <3>5. spent' = [spent EXCEPT ![n] = spent[n] + 1]
        BY <3>1, <3>4, Zenon
      <3>3. spent' \in [1 .. MaxNonces -> Nat]
        BY <3>2, <3>4, <3>5
      <3> QED BY <1>0, <3>3 DEF Base, Counts
    <2> QED BY <2>1, <2>2 DEF ReadNonce, WriteNonceChallenge, Reject, RefuseRefresh, Authenticated,
           CheckCredential, Abort, BeginConnect, rows, client, counts
  <1>7. Client'
    <2>1. known \in 0 .. issued
      BY Zenon DEF Base, Client
    <2>2. known' \in {known, issued', req[r].next}
      BY Zenon DEF ReadNonce, WriteNonceChallenge, Reject, RotateNonce, RefuseRefresh, Authenticated,
             CheckCredential, Abort, BeginConnect, Respond, client
    <2>3. CASE known' \in {known, issued'}
      <3>1. known' \in 0 .. issued'
        BY <1>2, <2>1, <2>3
      <3> QED BY <1>0, <1>3, <3>1, ClientKept
    <2>4. CASE Authenticated(r)
      <3>1. req[r].next <= issued
        BY <1>5, <2>4, IdleIsHandler, Zenon DEF Authenticated, Granted, Good
      <3>2. known' \in 0 .. issued'
        BY <1>2, <1>5, <2>1, <2>2, <3>1
      <3> QED BY <1>0, <1>3, <3>2, ClientKept
    <2>5. ReadNonce(r) \/ RotateNonce(r) \/ RefuseRefresh(r) \/ CheckCredential(r) \/ Abort(r)
          \/ (\E t \in 1 .. MaxTickets : BeginConnect(r, t)) => known' = known
      BY Zenon DEF ReadNonce, RotateNonce, RefuseRefresh, CheckCredential, Abort, BeginConnect, client
    <2>6. WriteNonceChallenge(r) \/ Reject(r) => known' \in {known, issued'}
      BY Zenon DEF WriteNonceChallenge, Reject, Respond
    <2> QED BY <2>3, <2>4, <2>5, <2>6
  <1>8. CASE req' = [req EXCEPT ![r] = Idle]
    BY <1>3, <1>4, <1>6, <1>7, <1>8, Returns, Zenon DEF Base
  <1>9. CASE ReadNonce(r)
    <2>0. req[r].at = "nonce" /\ req[r] # Idle
      BY <1>9, IdleIsHandler, Zenon DEF ReadNonce
    <2>1. CASE req' = [req EXCEPT ![r].at = "challenge"]
      <3>1. PICK h \in Handlers : Went(r, h, "challenge") /\ h.next = req[r].next
        BY <2>1, Goes, Zenon DEF Places
      <3>2. Good(h)'
        <4>1. req[r].next <= issued
          BY <1>5, <2>0, Zenon DEF Good
        <4>2. h.next <= issued'
          <5>1. issued' \in Nat
            BY <1>2, Constants
          <5> QED BY <1>2, <1>5, <3>1, <4>1, <5>1
        <4> QED BY <1>0, <1>5, <2>0, <3>1, <4>2, Zenon DEF Good, Went
      <3> QED BY <1>3, <1>4, <1>6, <1>7, <3>1, <3>2, Moves, Zenon DEF Base, Went
    <2>2. CASE nonce.value # 0 /\ req[r].proof # NoProof
               /\ req' = [req EXCEPT ![r].at = "verify", ![r].nonce = nonce.value]
      <3>1. PICK v \in Nat : v = nonce.value /\ v \in 1 .. issued
        BY <1>2, <2>2 DEF Base, Tables
      <3>2. PICK h \in Handlers : Went(r, h, "verify") /\ h.nonce = v /\ h.next = req[r].next
        <4>1. req' = [req EXCEPT ![r].at = "verify", ![r].nonce = v] /\ "verify" \in Places
          BY <2>2, <3>1, Zenon DEF Places
        <4> QED BY <4>1, GoesWithNonce, Zenon
      <3>3. req[r].proof \in proofs
        BY <1>5, <2>0, <2>2, Zenon DEF Good
      <3>4. v \in 1 .. issued'
        BY <1>2, <3>1
      <3>5. Good(h)'
        BY <1>0, <1>2, <1>5, <2>0, <3>2, <3>3, <3>4 DEF Good, Went
      <3> QED BY <1>3, <1>4, <1>6, <1>7, <3>2, <3>5, Moves, Zenon DEF Base, Went
    <2>3. IF nonce.value = 0 \/ req[r].now >= nonce.expires \/ req[r].proof = NoProof
          THEN req' = [req EXCEPT ![r].at = "challenge"]
          ELSE req' = [req EXCEPT ![r].at = "verify", ![r].nonce = nonce.value]
      BY <1>9, Zenon DEF ReadNonce
    <2>4. CASE nonce.value = 0 \/ req[r].now >= nonce.expires \/ req[r].proof = NoProof
      BY <2>1, <2>3, <2>4, Zenon
    <2>5. CASE ~ (nonce.value = 0 \/ req[r].now >= nonce.expires \/ req[r].proof = NoProof)
      BY <2>2, <2>3, <2>5, Zenon
    <2> QED BY <2>4, <2>5
  <1>10. CASE RotateNonce(r) /\ req' = [req EXCEPT ![r].at = "grant", ![r].next = issued']
    <2>0. req[r].at = "rotate" /\ req[r] # Idle
      BY <1>10, IdleIsHandler, Zenon DEF RotateNonce
    <2>1. PICK v \in Nat : v = issued'
      BY <1>2
    <2>2. PICK h \in Handlers : Went(r, h, "grant") /\ h.next = v
      BY <1>10, <2>1, GoesWithNext, Zenon DEF Places
    <2>3. Good(h)'
      BY <1>0, <1>2, <1>5, <2>0, <2>1, <2>2 DEF Good, Went
    <2> QED BY <1>3, <1>4, <1>6, <1>7, <2>2, <2>3, Moves, Zenon DEF Base, Went
  <1>11. CASE CheckCredential(r) /\ req' = [req EXCEPT ![r].at = "consume"]
    <2>0. req[r].at = "credential" /\ req[r] # Idle
      BY <1>11, IdleIsHandler, Zenon DEF CheckCredential
    <2>1. PICK h \in Handlers : Went(r, h, "consume") /\ h.next = req[r].next
      BY <1>11, Goes, Zenon DEF Places
    <2>2. Good(h)'
      BY <1>0, <1>2, <1>5, <2>0, <2>1, Zenon DEF Good, Went
    <2> QED BY <1>3, <1>4, <1>6, <1>7, <2>1, <2>2, Moves, Zenon DEF Base, Went
  <1>12. ASSUME NEW t \in 1 .. MaxTickets, BeginConnect(r, t)
         PROVE  Base'
    <2> DEFINE h == [kind |-> "connect", at |-> "credential", now |-> now, id |-> t,
                     proof |-> NoProof, nonce |-> 0, next |-> 0]
    <2>1. req' = [req EXCEPT ![r] = h] /\ ticket[t].status = "ISSUED"
      BY <1>12, Zenon DEF BeginConnect
    <2>2. NoProof \in Proofs /\ t \in Nat /\ now <= now + MaxStall
      BY <1>5, Constants DEF NoProof, Proofs
    <2>3. h \in Handlers /\ h.at = "credential" /\ h.now = now /\ h.id = t
      BY <1>5, <2>2, Zenon DEF Handlers, Places
    <2> HIDE DEF h
    <2>4. PICK g \in Handlers : g = h /\ g.at = "credential" /\ g.now = now /\ g.id = t
      BY <2>3, Zenon
    <2>5. Good(g)'
      <3>1. g.now <= now' /\ now' <= g.now + MaxStall
        BY <1>0, <1>5, <2>2, <2>4
      <3>2. ticket'[g.id].status # "NONE"
        BY <1>0, <2>1, <2>4, Zenon
      <3> QED BY <2>4, <3>1, <3>2, Zenon DEF Good
    <2> QED BY <1>3, <1>4, <1>6, <1>7, <2>1, <2>4, <2>5, Moves, Zenon DEF Base
  <1> QED BY <1>8, <1>9, <1>10, <1>11, <1>12 DEF WriteNonceChallenge, Reject, RotateNonce, RefuseRefresh,
          Authenticated, CheckCredential, Abort, Respond

(* The generations of the family are numbered without a gap. *)
Reaches(g) ==
    \A k \in 1 .. MaxTokens : /\ access[k].status # "NONE" <=> k <= g
                              /\ refresh[k].status # "NONE" <=> k <= g

Chain == \E g \in 1 .. MaxTokens : Reaches(g)

(* Max picks the last generation. *)
LEMMA LastGeneration ==
  ASSUME Base, NEW g \in 1 .. MaxTokens, Reaches(g)
  PROVE  Max(Generations) = g
  <1>1. Generations = 1 .. g
    BY Constants DEF Generations, Reaches
  <1>2. g \in 1 .. g /\ \A y \in 1 .. g : g >= y
    BY Constants
  <1>3. \A x \in 1 .. g : (\A y \in 1 .. g : x >= y) => x = g
    BY Constants
  <1> QED BY <1>1, <1>2, <1>3 DEF Max

(* What a rotation does to the family. *)
LEMMA RotateFacts ==
  ASSUME Base, Chain, NEW r \in Requests, Rotate(r)
  PROVE  \E g \in 1 .. MaxTokens, n \in 1 .. MaxTokens, i \in 1 .. MaxTokens :
            /\ Reaches(g) /\ n = g + 1 /\ i # n /\ i = req[r].id
            /\ endpoint = "ACTIVE" /\ refresh[i].status = "ACTIVE"
            /\ access' \in [1 .. MaxTokens -> CredentialRows]
            /\ refresh' \in [1 .. MaxTokens -> CredentialRows]
            /\ access'[n].status = "ACTIVE" /\ refresh'[n].status = "ACTIVE"
            /\ refresh'[i].status = "ROTATED"
            /\ \A k \in 1 .. MaxTokens \ {n} : access'[k].status =
                    IF access[k].status = "ACTIVE" THEN "ROTATED" ELSE access[k].status
            /\ \A k \in 1 .. MaxTokens \ {n, i} : refresh'[k].status = refresh[k].status
            /\ (held' = n /\ known' = req[r].next) \/ UNCHANGED <<held, known>>
  <1>1. PICK g \in 1 .. MaxTokens : Reaches(g)
    BY Zenon DEF Chain
  <1>2. Max(Generations) = g
    BY <1>1, LastGeneration, Zenon
  <1>3. PICK n \in 1 .. MaxTokens : n = g + 1 /\ n = Max(Generations) + 1
    BY <1>2, Constants DEF Rotate
  <1>4. req[r] \in Handlers /\ Good(req[r]) /\ req[r].at = "grant"
    BY Zenon DEF Base, Running, Rotate, Granted
  <1>5. PICK i \in 1 .. MaxTokens : i = req[r].id /\ access[i].status # "NONE"
    BY <1>4, IdleIsHandler, Zenon DEF Good
  <1>6. i # n
    BY <1>1, <1>3, <1>5 DEF Reaches
  <1>7. endpoint = "ACTIVE" /\ refresh[i].status = "ACTIVE"
    BY <1>5, Zenon DEF Rotate, Rotatable, Live
  <1>8. access \in [1 .. MaxTokens -> CredentialRows] /\ refresh \in [1 .. MaxTokens -> CredentialRows]
        /\ req[r].now \in Nat
    BY <1>4, Zenon DEF Base, Tables, Handlers
  <1>9. /\ NextAccess(r) \in CredentialRows /\ NextAccess(r).status = "ACTIVE"
        /\ NextRefresh(r) \in CredentialRows /\ NextRefresh(r).status = "ACTIVE"
    <2>1. AccessTTL \in Nat /\ RefreshTTL \in Nat /\ req[r].now \in Nat
      BY <1>8, Constants, Zenon
    <2> QED BY <2>1, ActiveRow, Zenon DEF NextAccess, NextRefresh
  <1>10. /\ access' \in [1 .. MaxTokens -> CredentialRows] /\ access'[n].status = "ACTIVE"
         /\ \A k \in 1 .. MaxTokens \ {n} : access'[k].status =
                IF access[k].status = "ACTIVE" THEN "ROTATED" ELSE access[k].status
    <2> DEFINE m == Marked(access, {"ACTIVE"}, "ROTATED")
    <2>1. /\ m \in [1 .. MaxTokens -> CredentialRows]
          /\ \A k \in 1 .. MaxTokens : m[k].status =
                IF access[k].status = "ACTIVE" THEN "ROTATED" ELSE access[k].status
      <3>1. MaxTokens \in Nat
        BY Constants, Zenon
      <3> QED BY <1>8, <3>1, RotatedRows, Zenon
    <2>2. access' = [m EXCEPT ![n] = NextAccess(r)]
      BY <1>3, Zenon DEF Rotate
    <2> HIDE DEF m
    <2> QED BY <1>9, <2>1, <2>2
  <1>11. /\ refresh' \in [1 .. MaxTokens -> CredentialRows] /\ refresh'[n].status = "ACTIVE"
         /\ refresh'[i].status = "ROTATED"
         /\ \A k \in 1 .. MaxTokens \ {n, i} : refresh'[k].status = refresh[k].status
    <2> DEFINE m == [refresh EXCEPT ![i].status = "ROTATED"]
    <2>3. [refresh[i] EXCEPT !.status = "ROTATED"] \in CredentialRows
          /\ [refresh[i] EXCEPT !.status = "ROTATED"].status = "ROTATED"
      BY <1>8, Zenon DEF CredentialRows, CredentialStatus
    <2>4. m = [refresh EXCEPT ![i] = [refresh[i] EXCEPT !.status = "ROTATED"]]
      BY Zenon
    <2>1. m \in [1 .. MaxTokens -> CredentialRows] /\ m[i].status = "ROTATED"
          /\ \A k \in 1 .. MaxTokens \ {i} : m[k] = refresh[k]
      BY <1>8, <2>3, <2>4, Zenon
    <2>2. refresh' = [m EXCEPT ![n] = NextRefresh(r)]
      <3>1. refresh' = [refresh EXCEPT ![req[r].id].status = "ROTATED", ![Max(Generations) + 1] = NextRefresh(r)]
        BY Zenon DEF Rotate
      <3> QED BY <1>3, <1>5, <3>1, Zenon
    <2> HIDE DEF m
    <2> QED BY <1>6, <1>9, <2>1, <2>2
  <1>12. (held' = n /\ known' = req[r].next) \/ UNCHANGED <<held, known>>
    BY <1>3, Zenon DEF Rotate
  <1> QED BY <1>1, <1>3, <1>5, <1>6, <1>7, <1>10, <1>11, <1>12

(* The family moves on: the old generations stay in the tables. *)
LEMMA RotateStep ==
  ASSUME Base, Chain, NEW r \in Requests, Rotate(r)
  PROVE  Base' /\ Chain'
  <1>0. UNCHANGED <<now, endpoint, nonce, replay, ticket, issued, proofs, verified, spent, opened>>
        /\ req' = [req EXCEPT ![r] = Idle]
    BY Zenon DEF Rotate, counts
  <1>1. PICK g \in 1 .. MaxTokens, n \in 1 .. MaxTokens, i \in 1 .. MaxTokens :
            /\ Reaches(g) /\ n = g + 1 /\ i # n /\ i = req[r].id
            /\ endpoint = "ACTIVE" /\ refresh[i].status = "ACTIVE"
            /\ access' \in [1 .. MaxTokens -> CredentialRows]
            /\ refresh' \in [1 .. MaxTokens -> CredentialRows]
            /\ access'[n].status = "ACTIVE" /\ refresh'[n].status = "ACTIVE"
            /\ refresh'[i].status = "ROTATED"
            /\ \A k \in 1 .. MaxTokens \ {n} : access'[k].status =
                    IF access[k].status = "ACTIVE" THEN "ROTATED" ELSE access[k].status
            /\ \A k \in 1 .. MaxTokens \ {n, i} : refresh'[k].status = refresh[k].status
            /\ (held' = n /\ known' = req[r].next) \/ UNCHANGED <<held, known>>
    BY RotateFacts, Zenon
  <1>2. \A k \in 1 .. MaxTokens : access[k].status # "NONE" => access'[k].status # "NONE"
    BY <1>1, Zenon
  <1>3. issued \in Nat /\ issued <= issued
    BY Constants DEF Base, Tables
  <1>4. Grows
    BY <1>0, <1>2, <1>3, Zenon DEF Grows
  <1>5. Tables' /\ Counts'
    BY <1>0, <1>1, Zenon DEF Base, Tables, Counts
  <1>6. Running'
    BY <1>0, <1>4, Returns, Zenon
  <1>7. Client'
    <2>1. \A p \in proofs : p.id \in 1 .. MaxTokens /\ access'[p.id].status # "NONE"
      BY <1>2, Zenon DEF Base, Client
    <2>2. held' \in 1 .. MaxTokens /\ access'[held'].status # "NONE"
      BY <1>1, <1>2, Zenon DEF Base, Client
    <2>3. req[r].next \in Nat /\ req[r].next <= issued
      BY IdleIsHandler, Zenon DEF Base, Running, Handlers, Good, Rotate, Granted
    <2>4. known' \in 0 .. issued'
      BY <1>0, <1>1, <1>3, <2>3 DEF Base, Client
    <2> QED BY <1>0, <2>1, <2>2, <2>4 DEF Base, Client
  <1>8. Chain'
    <2>1. Reaches(n)'
      <3> SUFFICES ASSUME NEW k \in 1 .. MaxTokens
                   PROVE  /\ access'[k].status # "NONE" <=> k <= n
                          /\ refresh'[k].status # "NONE" <=> k <= n
        BY Zenon DEF Reaches
      <3>1. CASE k = n
        BY <1>1, <3>1
      <3>2. CASE k # n
        <4>1. k <= g <=> k <= n
          BY <1>1, <3>2
        <4> QED BY <1>1, <3>2, <4>1 DEF Reaches
      <3> QED BY <3>1, <3>2
    <2> QED BY <2>1 DEF Chain
  <1> QED BY <1>5, <1>6, <1>7, <1>8 DEF Base

(* The family as a revocation leaves it. *)
LEMMA FamilyMarked ==
  ASSUME Base, NEW from \in SUBSET {"ACTIVE", "ROTATED"},
         access' = Marked(access, {"ACTIVE"}, "REVOKED"), refresh' = Marked(refresh, from, "REVOKED")
  PROVE  /\ access' \in [1 .. MaxTokens -> CredentialRows]
         /\ refresh' \in [1 .. MaxTokens -> CredentialRows]
         /\ \A k \in 1 .. MaxTokens : access'[k].status =
                IF access[k].status = "ACTIVE" THEN "REVOKED" ELSE access[k].status
         /\ \A k \in 1 .. MaxTokens : refresh'[k].status =
                IF refresh[k].status \in from THEN "REVOKED" ELSE refresh[k].status
         /\ Chain => Chain'
  <1>1. access \in [1 .. MaxTokens -> CredentialRows] /\ refresh \in [1 .. MaxTokens -> CredentialRows]
    BY Zenon DEF Base, Tables
  <1>2. /\ {"ACTIVE"} \in SUBSET CredentialStatus /\ "REVOKED" \in CredentialStatus /\ MaxTokens \in Nat
        /\ from \in SUBSET CredentialStatus /\ "NONE" \notin from
    BY Constants, Zenon DEF CredentialStatus
  <1>3. /\ access' \in [1 .. MaxTokens -> CredentialRows]
        /\ \A k \in 1 .. MaxTokens : access'[k].status =
                IF access[k].status \in {"ACTIVE"} THEN "REVOKED" ELSE access[k].status
    <2>1. PICK a \in SUBSET CredentialStatus : a = {"ACTIVE"}
      BY <1>2, Zenon
    <2>2. access' = Marked(access, a, "REVOKED")
      BY <2>1, Zenon
    <2>3. /\ access' \in [1 .. MaxTokens -> CredentialRows]
          /\ \A k \in 1 .. MaxTokens : access'[k].status =
                IF access[k].status \in a THEN "REVOKED" ELSE access[k].status
      BY <1>1, <1>2, <2>2, MarkedRows
    <2> QED BY <2>1, <2>3
  <1>4. /\ refresh' \in [1 .. MaxTokens -> CredentialRows]
        /\ \A k \in 1 .. MaxTokens : refresh'[k].status =
                IF refresh[k].status \in from THEN "REVOKED" ELSE refresh[k].status
    BY <1>1, <1>2, MarkedRows
  <1>5. ASSUME NEW k \in 1 .. MaxTokens
        PROVE  /\ access'[k].status # "NONE" <=> access[k].status # "NONE"
               /\ refresh'[k].status # "NONE" <=> refresh[k].status # "NONE"
    BY <1>2, <1>3, <1>4, Zenon
  <1>6. \A g \in 1 .. MaxTokens : Reaches(g) => Reaches(g)'
    BY <1>5, Zenon DEF Reaches
  <1> QED BY <1>3, <1>4, <1>6 DEF Chain

(* Steps that end a handler or touch no handler at all. *)
LEMMA FamilyStep ==
  ASSUME Base, (\E r \in Requests : Reuse(r)) \/ Revoke \/ SuspendOrResume \/ Sweep
  PROVE  Base' /\ (Chain => Chain')
  <1>0. UNCHANGED <<now, nonce, issued, proofs, held, known, verified, spent, opened>>
    BY Zenon DEF Reuse, Revoke, SuspendOrResume, Sweep, client, counts
  <1>1. issued \in Nat /\ issued <= issued
    BY Constants DEF Base, Tables
  <1>2. CASE Sweep \/ SuspendOrResume
    <2>1. UNCHANGED <<access, refresh, ticket, req>> /\ replay' \subseteq replay
          /\ endpoint' \in {endpoint, "SUSPENDED", "ACTIVE"}
      BY <1>2, Zenon DEF Sweep, SuspendOrResume, Remembered
    <2>2. Grows
      BY <1>0, <1>1, <2>1, Zenon DEF Grows
    <2>3. Tables' /\ Counts'
      BY <1>0, <2>1, Zenon DEF Base, Tables, Counts
    <2>4. Client'
      BY <1>0, <2>1, Zenon DEF Base, Client
    <2>5. Chain => Chain'
      BY <2>1, Zenon DEF Chain, Reaches
    <2> QED BY <2>1, <2>2, <2>3, <2>4, <2>5, Stays DEF Base
  <1>3. ASSUME NEW r \in Requests, Reuse(r) PROVE Base' /\ (Chain => Chain')
    <2>1. UNCHANGED <<endpoint, replay, ticket>> /\ req' = [req EXCEPT ![r] = Idle]
          /\ access' = Marked(access, {"ACTIVE"}, "REVOKED") /\ refresh' = Marked(refresh, FamilyStatuses, "REVOKED")
      BY <1>3, Zenon DEF Reuse
    <2>2. /\ access' \in [1 .. MaxTokens -> CredentialRows] /\ refresh' \in [1 .. MaxTokens -> CredentialRows]
          /\ \A k \in 1 .. MaxTokens : access'[k].status =
                IF access[k].status = "ACTIVE" THEN "REVOKED" ELSE access[k].status
          /\ Chain => Chain'
      <3>1. FamilyStatuses \in SUBSET {"ACTIVE", "ROTATED"}
        BY Zenon DEF FamilyStatuses
      <3> QED BY <2>1, <3>1, FamilyMarked
    <2>3. Grows
      BY <1>0, <1>1, <2>1, <2>2, Zenon DEF Grows
    <2>4. Tables' /\ Counts'
      BY <1>0, <2>1, <2>2, Zenon DEF Base, Tables, Counts
    <2>5. Client'
      <3>1. known' \in 0 .. issued'
        BY <1>0, Zenon DEF Base, Client
      <3> QED BY <1>0, <2>3, <3>1, ClientKept
    <2> QED BY <2>1, <2>2, <2>3, <2>4, <2>5, Returns, Zenon DEF Base
  <1>4. CASE Revoke
    <2>1. UNCHANGED <<replay, req>> /\ endpoint' = "REVOKED"
          /\ access' = Marked(access, {"ACTIVE"}, "REVOKED") /\ refresh' = Marked(refresh, {"ACTIVE"}, "REVOKED")
      BY <1>4, Zenon DEF Revoke
    <2>2. /\ access' \in [1 .. MaxTokens -> CredentialRows] /\ refresh' \in [1 .. MaxTokens -> CredentialRows]
          /\ \A k \in 1 .. MaxTokens : access'[k].status =
                IF access[k].status = "ACTIVE" THEN "REVOKED" ELSE access[k].status
          /\ Chain => Chain'
      <3>1. {"ACTIVE"} \in SUBSET {"ACTIVE", "ROTATED"}
        BY Zenon
      <3> QED BY <2>1, <3>1, FamilyMarked
    <2>3. /\ ticket' \in [1 .. MaxTickets -> TicketRows]
          /\ \A t \in 1 .. MaxTickets : ticket[t].status # "NONE" => ticket'[t].status # "NONE"
      <3>1. ticket \in [1 .. MaxTickets -> TicketRows]
        BY Zenon DEF Base, Tables
      <3>2. /\ ticket' \in [1 .. MaxTickets -> TicketRows]
            /\ \A t \in 1 .. MaxTickets : ticket'[t].status = (IF t \in marked THEN "REVOKED" ELSE ticket[t].status)
        BY <1>4, <3>1, RevokedTickets, Zenon
      <3> QED BY <3>2, Zenon
    <2>4. Grows
      BY <1>0, <1>1, <2>2, <2>3, Zenon DEF Grows
    <2>5. Tables' /\ Counts'
      BY <1>0, <2>1, <2>2, <2>3, Zenon DEF Base, Tables, Counts
    <2>6. Client'
      <3>1. known' \in 0 .. issued'
        BY <1>0, Zenon DEF Base, Client
      <3> QED BY <1>0, <2>4, <3>1, ClientKept
    <2> QED BY <2>1, <2>2, <2>4, <2>5, <2>6, Stays DEF Base
  <1> QED BY <1>2, <1>3, <1>4

(* A proof is accepted, a ticket issued or consumed. *)
LEMMA UseStep ==
  ASSUME Base, NEW r \in Requests,
         Verify(r) \/ (\E t \in 1 .. MaxTickets : CreateTicket(r, t)) \/ ConsumeTicket(r)
  PROVE  Base'
  <1>0. UNCHANGED <<now, endpoint, access, refresh, nonce, issued, proofs, held, spent>>
    BY Zenon DEF Verify, CreateTicket, ConsumeTicket, client, counts
  <1>1. issued \in Nat /\ issued <= issued
    BY Constants DEF Base, Tables
  <1>2. req[r] \in Handlers /\ Good(req[r]) /\ req[r].now \in Nat /\ req[r].next \in Nat
        /\ req[r].id \in Nat
    BY Zenon DEF Base, Running, Handlers
  <1>3. CASE Verify(r)
    <2>1. UNCHANGED <<ticket, known, opened>> /\ req' = [req EXCEPT ![r].at = "rotate"] /\ req[r].at = "verify"
      BY <1>3, Zenon DEF Verify, client
    <2>2. PICK p \in proofs : p = req[r].proof
      BY <1>2, <2>1, IdleIsHandler, Zenon DEF Good
    <2>3. PICK j \in 1 .. MaxProofs : j = p.jti
      BY <2>2, Zenon DEF Base, Client
    <2>4. verified' = [verified EXCEPT ![j] = verified[j] + 1]
      BY <1>3, <2>2, <2>3, Zenon DEF Verify
    <2>5. ReplayUntil(p) \in Nat
      BY <2>2, Constants DEF ReplayUntil, Base, Client, Proofs
    <2>6. replay' \subseteq replay \cup {[jti |-> j, expires |-> ReplayUntil(p)]}
      BY <1>3, <2>2, <2>3, Zenon DEF Verify, Remembered
    <2>7. Tables'
      BY <1>0, <2>1, <2>5, <2>6 DEF Base, Tables
    <2>8. Counts'
      BY <1>0, <2>1, <2>4 DEF Base, Counts
    <2>9. Grows
      BY <1>0, <1>1, <2>1, Zenon DEF Grows
    <2>10. Client'
      BY <1>0, <2>1, Zenon DEF Base, Client
    <2>11. PICK h \in Handlers : Went(r, h, "rotate") /\ h.nonce = req[r].nonce /\ h.next = req[r].next
      BY <2>1, Goes, Zenon DEF Places
    <2>12. Good(h)'
      BY <1>0, <1>2, <2>1, <2>11, IdleIsHandler, Zenon DEF Good, Went
    <2> QED BY <2>7, <2>8, <2>9, <2>10, <2>11, <2>12, Moves, Zenon DEF Base, Went
  <1>4. ASSUME NEW t \in 1 .. MaxTickets, CreateTicket(r, t) PROVE Base'
    <2> DEFINE row == [status |-> "ISSUED", id |-> TicketCredential(r), expires |-> req[r].now + TicketTTL]
    <2>1. UNCHANGED <<replay, verified, opened>> /\ req' = [req EXCEPT ![r] = Idle]
          /\ known' \in {known, req[r].next} /\ ticket' = [ticket EXCEPT ![t] = row] /\ req[r].at = "grant"
      BY <1>4, Zenon DEF CreateTicket, Respond, counts, Granted
    <2>2. row \in TicketRows /\ row.status = "ISSUED"
      BY <1>2, Constants DEF TicketRows, TicketCredential
    <2> HIDE DEF row
    <2>3. ticket' \in [1 .. MaxTickets -> TicketRows]
          /\ \A s \in 1 .. MaxTickets : ticket[s].status # "NONE" => ticket'[s].status # "NONE"
      BY <2>1, <2>2, Zenon DEF Base, Tables
    <2>4. Grows
      BY <1>0, <1>1, <2>3, Zenon DEF Grows
    <2>5. Tables' /\ Counts'
      BY <1>0, <2>1, <2>3, Zenon DEF Base, Tables, Counts
    <2>6. req[r].next <= issued
      BY <1>2, <2>1, IdleIsHandler, Zenon DEF Good
    <2>7. known' \in 0 .. issued'
      <3>1. known \in 0 .. issued
        BY Zenon DEF Base, Client
      <3> QED BY <1>0, <1>1, <1>2, <2>1, <2>6, <3>1
    <2>8. Client'
      BY <1>0, <2>4, <2>7, ClientKept, Zenon
    <2> QED BY <2>1, <2>4, <2>5, <2>8, Returns, Zenon DEF Base
  <1>5. CASE ConsumeTicket(r)
    <2>1. UNCHANGED <<replay, verified, known>> /\ req' = [req EXCEPT ![r] = Idle] /\ req[r].at = "consume"
      BY <1>5, Zenon DEF ConsumeTicket, client
    <2>2. PICK t \in 1 .. MaxTickets : t = req[r].id
      BY <1>2, <2>1, IdleIsHandler, Zenon DEF Good
    <2>3. \/ UNCHANGED <<ticket, opened>>
          \/ /\ ticket' = [ticket EXCEPT ![t] = [ticket[t] EXCEPT !.status = "CONSUMED"]]
             /\ opened' = [opened EXCEPT ![t] = opened[t] + 1]
      BY <1>5, <2>2, Zenon DEF ConsumeTicket
    <2>4. [ticket[t] EXCEPT !.status = "CONSUMED"] \in TicketRows
          /\ [ticket[t] EXCEPT !.status = "CONSUMED"].status = "CONSUMED"
      BY Zenon DEF Base, Tables, TicketRows
    <2>5. /\ ticket' \in [1 .. MaxTickets -> TicketRows]
          /\ \A s \in 1 .. MaxTickets : ticket[s].status # "NONE" => ticket'[s].status # "NONE"
      BY <2>3, <2>4, Zenon DEF Base, Tables
    <2>6. opened' \in [1 .. MaxTickets -> Nat]
      BY <2>3 DEF Base, Counts
    <2>7. Grows
      BY <1>0, <1>1, <2>5, Zenon DEF Grows
    <2>8. Tables' /\ Counts'
      BY <1>0, <2>1, <2>5, <2>6, Zenon DEF Base, Tables, Counts
    <2>9. Client'
      BY <1>0, <2>1, Zenon DEF Base, Client
    <2> QED BY <2>1, <2>7, <2>8, <2>9, Returns, Zenon DEF Base
  <1> QED BY <1>3, <1>4, <1>5

(* Time passes only while every request is younger than MaxStall. *)
LEMMA TickStep ==
  ASSUME Base, Tick
  PROVE  Base'
  <1>0. UNCHANGED <<endpoint, access, refresh, nonce, replay, ticket, issued, req, proofs, held, known,
                    verified, spent, opened>> /\ now < MaxTime /\ now' = now + 1
    BY Zenon DEF Tick, rows, client, counts
  <1>1. Tables' /\ Client' /\ Counts'
    <2>1. now' \in 0 .. MaxTime
      BY <1>0, Constants DEF Base, Tables
    <2> QED BY <1>0, <2>1 DEF Base, Tables, Client, Counts
  <1>2. ASSUME NEW r \in Requests PROVE Good(req[r])'
    <2>1. req[r] \in Handlers /\ Good(req[r]) /\ now \in Nat /\ req[r].now \in Nat
      BY Constants DEF Base, Running, Tables, Handlers
    <2>2. CASE req[r] = Idle
      BY <1>0, <2>2, Zenon DEF Good
    <2>3. CASE req[r] # Idle
      <3>1. now' - req[r].now <= MaxStall
        BY <2>3, Zenon DEF Tick
      <3>2. req[r].now <= now' /\ now' <= req[r].now + MaxStall
        BY <1>0, <2>1, <2>3, <3>1, Constants DEF Good
      <3> QED BY <1>0, <2>1, <2>3, <3>2 DEF Good
    <2> QED BY <2>2, <2>3
  <1> QED BY <1>0, <1>1, <1>2 DEF Base, Running

(* Steps of a revocation before its commit and of an open WebSocket change no *)
(* row, no handler and no count.                                              *)
Aside == RevokeTickets \/ Rollback \/ \E t \in DOMAIN ticket : MarkSeen(t) \/ CloseSocket(t)

Unmoved == UNCHANGED <<now, endpoint, access, refresh, nonce, replay, ticket, issued, req, proofs, held, known,
                       verified, spent, opened>>

LEMMA AsideUnmoved == Aside => Unmoved
  BY Zenon DEF Aside, Unmoved, RevokeTickets, Rollback, MarkSeen, CloseSocket, rows, client, counts

LEMMA BaseUnmoved ==
  ASSUME Base, Unmoved
  PROVE  Base'
  <1>1. Tables' /\ Client' /\ Counts'
    BY Zenon DEF Unmoved, Base, Tables, Client, Counts
  <1>2. Running'
    BY Zenon DEF Unmoved, Base, Running, Good
  <1> QED BY <1>1, <1>2 DEF Base

(* Each part of the invariant is about some of the variables, and few actions *)
(* change those. What changes the endpoint or its credentials.                *)
LEMMA FamilyFrame ==
  ASSUME Next
  PROVE  \/ UNCHANGED <<endpoint, access, refresh>>
         \/ SuspendOrResume \/ Revoke \/ \E r \in Requests : Rotate(r) \/ Reuse(r)
  <1>1. ASSUME NEW r \in Requests,
               \/ \E kind \in Kinds, skew \in Skews : Send(r, kind, skew)
               \/ \E p \in proofs : Resend(r, p)
               \/ ReadNonce(r) \/ WriteNonceChallenge(r) \/ Verify(r) \/ Reject(r) \/ RotateNonce(r)
        PROVE  UNCHANGED <<endpoint, access, refresh>>
    BY <1>1, Zenon DEF Send, Resend, ReadNonce, WriteNonceChallenge, Verify, Reject, RotateNonce, rows
  <1>2. ASSUME NEW r \in Requests,
               \/ RefuseRefresh(r) \/ Authenticated(r)
               \/ \E t \in DOMAIN ticket : CreateTicket(r, t) \/ BeginConnect(r, t)
               \/ CheckCredential(r) \/ ConsumeTicket(r) \/ Abort(r)
        PROVE  UNCHANGED <<endpoint, access, refresh>>
    BY <1>2, Zenon DEF RefuseRefresh, Authenticated, CreateTicket, BeginConnect, CheckCredential, ConsumeTicket,
         Abort, rows
  <1>3. Sweep \/ Tick \/ Aside => UNCHANGED <<endpoint, access, refresh>>
    BY AsideUnmoved, Zenon DEF Sweep, Tick, rows, Unmoved
  <1> QED BY <1>1, <1>2, <1>3 DEF Next, Aside

(* What changes the clock, the replay table or the proofs. *)
LEMMA WindowFrame ==
  ASSUME Next
  PROVE  \/ UNCHANGED <<now, replay, proofs, verified>>
         \/ Sweep \/ Tick
         \/ \E r \in Requests : Verify(r) \/ \E kind \in Kinds, skew \in Skews : Send(r, kind, skew)
  <1>1. ASSUME NEW r \in Requests,
               \/ \E p \in proofs : Resend(r, p)
               \/ ReadNonce(r) \/ WriteNonceChallenge(r) \/ Reject(r) \/ RotateNonce(r)
        PROVE  UNCHANGED <<now, replay, proofs, verified>>
    BY <1>1, Zenon DEF Resend, ReadNonce, WriteNonceChallenge, Reject, RotateNonce, rows, client, counts
  <1>2. ASSUME NEW r \in Requests,
               \/ Rotate(r) \/ Reuse(r) \/ RefuseRefresh(r) \/ Authenticated(r)
               \/ \E t \in DOMAIN ticket : CreateTicket(r, t) \/ BeginConnect(r, t)
               \/ CheckCredential(r) \/ ConsumeTicket(r) \/ Abort(r)
        PROVE  UNCHANGED <<now, replay, proofs, verified>>
    BY <1>2, Zenon DEF Rotate, Reuse, RefuseRefresh, Authenticated, CreateTicket, BeginConnect, CheckCredential,
         ConsumeTicket, Abort, rows, client, counts, Respond
  <1>3. Revoke \/ SuspendOrResume \/ Aside => UNCHANGED <<now, replay, proofs, verified>>
    BY AsideUnmoved, Zenon DEF Revoke, SuspendOrResume, client, counts, Unmoved
  <1> QED BY <1>1, <1>2, <1>3 DEF Next, Aside

(* What changes the nonce row. *)
LEMMA NonceFrame ==
  ASSUME Next
  PROVE  \/ UNCHANGED <<nonce, issued, spent>>
         \/ \E r \in Requests : PutNonce(r) /\ UNCHANGED spent
         \/ \E r \in Requests : RotateNonce(r)
  <1>1. ASSUME NEW r \in Requests, WriteNonceChallenge(r) \/ Reject(r)
        PROVE  UNCHANGED <<nonce, issued, spent>> \/ (PutNonce(r) /\ UNCHANGED spent)
    BY <1>1, Zenon DEF WriteNonceChallenge, Reject, counts
  <1>2. ASSUME NEW r \in Requests,
               \/ \E kind \in Kinds, skew \in Skews : Send(r, kind, skew)
               \/ \E p \in proofs : Resend(r, p)
               \/ ReadNonce(r) \/ Verify(r) \/ Rotate(r) \/ Reuse(r) \/ RefuseRefresh(r)
               \/ Authenticated(r) \/ CheckCredential(r) \/ ConsumeTicket(r) \/ Abort(r)
               \/ \E t \in DOMAIN ticket : CreateTicket(r, t) \/ BeginConnect(r, t)
        PROVE  UNCHANGED <<nonce, issued, spent>>
    BY <1>2, Zenon DEF Send, Resend, ReadNonce, Verify, Rotate, Reuse, RefuseRefresh, Authenticated, CreateTicket,
         BeginConnect, CheckCredential, ConsumeTicket, Abort, rows, counts
  <1>3. Sweep \/ Revoke \/ SuspendOrResume \/ Tick \/ Aside => UNCHANGED <<nonce, issued, spent>>
    BY AsideUnmoved, Zenon DEF Sweep, Revoke, SuspendOrResume, Tick, rows, counts, Unmoved
  <1> QED BY <1>1, <1>2, <1>3 DEF Next, Aside

(* What changes the tickets. *)
LEMMA TicketFrame ==
  ASSUME Next
  PROVE  \/ UNCHANGED <<ticket, opened>>
         \/ Revoke
         \/ \E r \in Requests : ConsumeTicket(r) \/ \E t \in DOMAIN ticket : CreateTicket(r, t)
  <1>1. ASSUME NEW r \in Requests,
               \/ \E kind \in Kinds, skew \in Skews : Send(r, kind, skew)
               \/ \E p \in proofs : Resend(r, p)
               \/ ReadNonce(r) \/ WriteNonceChallenge(r) \/ Verify(r) \/ Reject(r) \/ RotateNonce(r)
        PROVE  UNCHANGED <<ticket, opened>>
    BY <1>1, Zenon DEF Send, Resend, ReadNonce, WriteNonceChallenge, Verify, Reject, RotateNonce, rows, counts
  <1>2. ASSUME NEW r \in Requests,
               \/ Rotate(r) \/ Reuse(r) \/ RefuseRefresh(r) \/ Authenticated(r)
               \/ CheckCredential(r) \/ Abort(r) \/ \E t \in DOMAIN ticket : BeginConnect(r, t)
        PROVE  UNCHANGED <<ticket, opened>>
    BY <1>2, Zenon DEF Rotate, Reuse, RefuseRefresh, Authenticated, BeginConnect, CheckCredential, Abort, rows, counts
  <1>3. Sweep \/ SuspendOrResume \/ Tick \/ Aside => UNCHANGED <<ticket, opened>>
    BY AsideUnmoved, Zenon DEF Sweep, SuspendOrResume, Tick, rows, counts, Unmoved
  <1> QED BY <1>1, <1>2, <1>3 DEF Next, Aside

(* What changes the state of a revocation in progress, and the WebSockets. *)
LEMMA AdmissionFrame ==
  ASSUME Next
  PROVE  \/ UNCHANGED admission
         \/ Aside \/ Revoke
         \/ \E r \in Requests : ConsumeTicket(r) \/ \E t \in DOMAIN ticket : CreateTicket(r, t)
  <1>1. ASSUME NEW r \in Requests,
               \/ \E kind \in Kinds, skew \in Skews : Send(r, kind, skew)
               \/ \E p \in proofs : Resend(r, p)
               \/ ReadNonce(r) \/ WriteNonceChallenge(r) \/ Verify(r) \/ Reject(r) \/ RotateNonce(r)
        PROVE  UNCHANGED admission
    BY <1>1, Zenon DEF Send, Resend, ReadNonce, WriteNonceChallenge, Verify, Reject, RotateNonce
  <1>2. ASSUME NEW r \in Requests,
               \/ Rotate(r) \/ Reuse(r) \/ RefuseRefresh(r) \/ Authenticated(r)
               \/ CheckCredential(r) \/ Abort(r) \/ \E t \in DOMAIN ticket : BeginConnect(r, t)
        PROVE  UNCHANGED admission
    BY <1>2, Zenon DEF Rotate, Reuse, RefuseRefresh, Authenticated, BeginConnect, CheckCredential, Abort
  <1>3. Sweep \/ SuspendOrResume \/ Tick => UNCHANGED admission
    BY Zenon DEF Sweep, SuspendOrResume, Tick
  <1> QED BY <1>1, <1>2, <1>3 DEF Next, Aside

(* Every step preserves the types, the handlers' assumptions and the chain of generations. *)
LEMMA BaseStep == Base /\ Chain /\ Next => Base' /\ Chain'
  <1> SUFFICES ASSUME Base, Chain, Next PROVE Base' /\ Chain'
    BY Zenon
  <1>1. UNCHANGED <<access, refresh>> => Chain'
    BY Zenon DEF Chain, Reaches
  <1>2. (\E r \in Requests : Rotate(r) \/ Reuse(r)) \/ Revoke \/ SuspendOrResume => Base' /\ Chain'
    BY RotateStep, FamilyStep, Zenon
  <1>3. DOMAIN ticket = 1 .. MaxTickets
    BY Zenon DEF Base, Tables
  <1>4. ASSUME NEW r \in Requests,
               \/ \E kind \in Kinds, skew \in Skews : Send(r, kind, skew)
               \/ \E p \in proofs : Resend(r, p)
        PROVE  Base'
    BY <1>4, SendStep, ResendStep, Zenon
  <1>5. ASSUME NEW r \in Requests,
               \/ ReadNonce(r) \/ WriteNonceChallenge(r) \/ Reject(r) \/ RotateNonce(r)
               \/ RefuseRefresh(r) \/ Authenticated(r) \/ CheckCredential(r) \/ Abort(r)
               \/ \E t \in DOMAIN ticket : BeginConnect(r, t)
        PROVE  Base'
    BY <1>3, <1>5, HandlerStep, Zenon
  <1>6. ASSUME NEW r \in Requests,
               Verify(r) \/ (\E t \in DOMAIN ticket : CreateTicket(r, t)) \/ ConsumeTicket(r)
        PROVE  Base'
    BY <1>3, <1>6, UseStep, Zenon
  <1>7. Sweep \/ Tick \/ Aside => Base'
    BY FamilyStep, TickStep, AsideUnmoved, BaseUnmoved, Zenon
  <1>8. Base'
    BY <1>2, <1>4, <1>5, <1>6, <1>7, Zenon DEF Next, Aside
  <1> QED BY <1>1, <1>2, <1>8, FamilyFrame

-----------------------------------------------------------------------------
(* A rotation ends the generation it was made with; a revocation ends all. *)
LEMMA FamilyInvariant == Base /\ Chain /\ Lineage /\ RevokedIsDead /\ Next => Lineage' /\ RevokedIsDead'
  <1> SUFFICES ASSUME Base, Chain, Lineage, RevokedIsDead, Next PROVE Lineage' /\ RevokedIsDead'
    BY Zenon
  <1>1. CASE UNCHANGED <<endpoint, access, refresh>>
    BY <1>1, Zenon DEF Lineage, RevokedIsDead
  <1>2. CASE SuspendOrResume
    BY <1>2, Zenon DEF SuspendOrResume, Lineage, RevokedIsDead
  <1>3. ASSUME NEW from \in SUBSET {"ACTIVE", "ROTATED"}, "ACTIVE" \in from,
               access' = Marked(access, {"ACTIVE"}, "REVOKED"), refresh' = Marked(refresh, from, "REVOKED")
        PROVE  Lineage' /\ RevokedIsDead'
    <2>1. /\ \A k \in 1 .. MaxTokens : access'[k].status =
                IF access[k].status = "ACTIVE" THEN "REVOKED" ELSE access[k].status
          /\ \A k \in 1 .. MaxTokens : refresh'[k].status =
                IF refresh[k].status \in from THEN "REVOKED" ELSE refresh[k].status
      BY <1>3, FamilyMarked, Zenon
    <2>2. \A k \in 1 .. MaxTokens : access'[k].status # "ACTIVE" /\ refresh'[k].status # "ACTIVE"
      BY <1>3, <2>1, Zenon
    <2> QED BY <2>2 DEF Lineage, RevokedIsDead
  <1>4. CASE Revoke
    <2>1. PICK a \in SUBSET {"ACTIVE", "ROTATED"} : a = {"ACTIVE"}
      BY Zenon
    <2>2. access' = Marked(access, {"ACTIVE"}, "REVOKED") /\ refresh' = Marked(refresh, a, "REVOKED")
      BY <1>4, <2>1, Zenon DEF Revoke
    <2> QED BY <1>3, <2>1, <2>2
  <1>5. ASSUME NEW r \in Requests, Reuse(r) PROVE Lineage' /\ RevokedIsDead'
    <2>0. FamilyStatuses \in SUBSET {"ACTIVE", "ROTATED"} /\ "ACTIVE" \in FamilyStatuses
      BY Zenon DEF FamilyStatuses
    <2>1. PICK a \in SUBSET {"ACTIVE", "ROTATED"} : a = FamilyStatuses /\ "ACTIVE" \in a
      BY <2>0, Zenon
    <2>2. access' = Marked(access, {"ACTIVE"}, "REVOKED") /\ refresh' = Marked(refresh, a, "REVOKED")
      BY <1>5, <2>1, Zenon DEF Reuse
    <2> QED BY <1>3, <2>1, <2>2
  <1>6. ASSUME NEW r \in Requests, Rotate(r) PROVE Lineage' /\ RevokedIsDead'
    <2>0. endpoint' = endpoint
      BY <1>6, Zenon DEF Rotate
    <2>1. PICK g \in 1 .. MaxTokens, n \in 1 .. MaxTokens, i \in 1 .. MaxTokens :
            /\ i # n /\ endpoint = "ACTIVE" /\ refresh[i].status = "ACTIVE"
            /\ access'[n].status = "ACTIVE" /\ refresh'[n].status = "ACTIVE"
            /\ refresh'[i].status = "ROTATED"
            /\ \A k \in 1 .. MaxTokens \ {n} : access'[k].status =
                    IF access[k].status = "ACTIVE" THEN "ROTATED" ELSE access[k].status
            /\ \A k \in 1 .. MaxTokens \ {n, i} : refresh'[k].status = refresh[k].status
      BY <1>6, RotateFacts
    <2>2. \A k \in 1 .. MaxTokens \ {n} : access'[k].status # "ACTIVE" /\ refresh'[k].status # "ACTIVE"
      BY <2>1, Zenon DEF Lineage
    <2>3. Lineage'
      BY <2>1, <2>2, Zenon DEF Lineage
    <2>4. \A k \in 1 .. MaxTokens : refresh[k].status # "REVOKED"
      BY <2>1, Zenon DEF RevokedIsDead
    <2>5. \A k \in 1 .. MaxTokens : refresh'[k].status # "REVOKED"
      BY <2>1, <2>4, Zenon
    <2> QED BY <2>0, <2>1, <2>3, <2>5 DEF RevokedIsDead
  <1> QED BY <1>1, <1>2, <1>4, <1>5, <1>6, FamilyFrame

(* A proof that was accepted is remembered until no request can be old enough to accept it. *)
Window ==
    /\ ProofOnce
    /\ \A j \in 1 .. MaxProofs : verified[j] # 0 => \E p \in proofs : p.jti = j
    /\ \A p \in proofs : verified[p.jti] # 0 =>
        [jti |-> p.jti, expires |-> ReplayUntil(p)] \in replay \/ ReplayUntil(p) <= now

(* Verify and the sweep respect the window: MaxStall is less than FutureSkew. *)
LEMMA WindowInvariant == Base /\ Window /\ Next => Window'
  <1> SUFFICES ASSUME Base, Window, Next PROVE Window'
    BY Zenon
  <1>0. /\ now \in Nat /\ proofs \subseteq Proofs
        /\ \A p \in proofs : p.jti \in 1 .. MaxProofs /\ ReplayUntil(p) \in Nat /\ p.iat \in Nat
        /\ verified \in [1 .. MaxProofs -> Nat]
    <2>1. now \in Nat /\ proofs \subseteq Proofs /\ verified \in [1 .. MaxProofs -> Nat]
          /\ \A p \in proofs : p.jti \in 1 .. MaxProofs
      BY Constants DEF Base, Tables, Client, Counts
    <2>2. \A p \in proofs : p.iat \in Nat
      BY <2>1, Zenon DEF Proofs
    <2>3. \A p \in proofs : ReplayUntil(p) \in Nat
      BY <2>2, Constants DEF ReplayUntil
    <2> QED BY <2>1, <2>2, <2>3
  <1>1. CASE UNCHANGED <<now, replay, proofs, verified>>
    BY <1>1, Zenon DEF Window, ProofOnce
  <1>2. CASE Tick
    <2>1. UNCHANGED <<replay, proofs, verified>> /\ now' = now + 1
      BY <1>2, Zenon DEF Tick, rows, client, counts
    <2> QED BY <1>0, <2>1 DEF Window, ProofOnce
  <1>3. ASSUME NEW p \in proofs, NEW t \in Nat, t <= now, Remembered(t) \subseteq replay',
               [jti |-> p.jti, expires |-> ReplayUntil(p)] \in replay
        PROVE  [jti |-> p.jti, expires |-> ReplayUntil(p)] \in replay' \/ ReplayUntil(p) <= now
    <2>1. CASE ReplayUntil(p) > t
      BY <1>3, <2>1, Zenon DEF Remembered
    <2>2. CASE ~ (ReplayUntil(p) > t)
      BY <1>0, <1>3, <2>2
    <2> QED BY <2>1, <2>2
  <1>4. CASE Sweep
    <2>1. UNCHANGED <<now, proofs, verified>> /\ replay' = Remembered(now) /\ now <= now
      BY <1>0, <1>4 DEF Sweep, client, counts
    <2>2. \A p \in proofs : verified[p.jti] # 0 =>
            [jti |-> p.jti, expires |-> ReplayUntil(p)] \in replay' \/ ReplayUntil(p) <= now
      BY <1>0, <1>3, <2>1, Zenon DEF Window
    <2> QED BY <2>1, <2>2 DEF Window, ProofOnce
  <1>5. ASSUME NEW r \in Requests, NEW kind \in Kinds, NEW skew \in Skews, Send(r, kind, skew)
        PROVE  Window'
    <2>1. UNCHANGED <<now, replay, verified>>
      BY <1>5, Zenon DEF Send, rows, counts
    <2>2. CASE proofs' = proofs
      BY <1>1, <2>1, <2>2, Zenon
    <2>3. ASSUME NEW p, p.jti = Cardinality(proofs) + 1, p.jti <= MaxProofs, proofs' = proofs \cup {p}
          PROVE  Window'
      <3>1. Cardinality(proofs) \in Nat
        BY FS_CardinalityType, Zenon DEF Base, Client
      <3>2. \A q \in proofs : q.jti \in Nat /\ q.jti <= Cardinality(proofs)
        BY Zenon DEF Base, Client, Proofs
      <3>3. \A q \in proofs : q.jti # p.jti
        BY <2>3, <3>1, <3>2
      <3>4. p.jti \in 1 .. MaxProofs
        BY <2>3, <3>1, Constants
      <3>5. verified[p.jti] = 0
        BY <3>3, <3>4, Zenon DEF Window
      <3> QED BY <2>1, <2>3, <3>5 DEF Window, ProofOnce
    <2>4. proofs' = proofs \/ \E p : p.jti = Cardinality(proofs) + 1 /\ p.jti <= MaxProofs /\ proofs' = proofs \cup {p}
      <3> DEFINE p == [jti |-> Cardinality(proofs) + 1, nonce |-> known, iat |-> now + skew,
                       kind |-> kind, id |-> held]
      <3>1. proofs' = proofs \/ (p.jti <= MaxProofs /\ proofs' = proofs \cup {p})
        BY <1>5, Zenon DEF Send
      <3>2. p.jti = Cardinality(proofs) + 1
        BY Zenon
      <3> HIDE DEF p
      <3> QED BY <3>1, <3>2
    <2> QED BY <2>2, <2>3, <2>4
  <1>6. ASSUME NEW r \in Requests, Verify(r) PROVE Window'
    <2>0. req[r] \in Handlers /\ Good(req[r]) /\ req[r].at = "verify" /\ req[r].now \in Nat
      BY <1>6, Zenon DEF Verify, Base, Running, Handlers
    <2>1. PICK p \in proofs : p = req[r].proof
      BY <2>0, IdleIsHandler, Zenon DEF Good
    <2>2. PICK t \in Nat : t = req[r].now /\ t <= now /\ now <= t + MaxStall
      BY <2>0, IdleIsHandler, Zenon DEF Good
    <2>3. p.jti \in 1 .. MaxProofs /\ ReplayUntil(p) = p.iat + MaxAge + FutureSkew /\ p.iat \in Nat
      BY <1>0, Zenon DEF ReplayUntil
    <2>4. /\ UNCHANGED <<now, proofs>> /\ p.iat >= t - MaxAge
          /\ \A x \in Remembered(t) : x.jti # p.jti
          /\ replay' = Remembered(t) \cup {[jti |-> p.jti, expires |-> ReplayUntil(p)]}
          /\ verified' = [verified EXCEPT ![p.jti] = verified[p.jti] + 1]
      BY <1>6, <2>1, <2>2, Zenon DEF Verify, Acceptable, Unused, client
    <2>5. verified[p.jti] = 0
      <3> SUFFICES ASSUME verified[p.jti] # 0 PROVE FALSE
        BY Zenon
      <3>1. CASE ReplayUntil(p) <= now
        <4> PICK u \in Nat : u = now
          BY <1>0, Zenon
        <4> PICK q \in Nat : q = p.iat
          BY <2>3, Zenon
        <4>1. q + MaxAge + FutureSkew <= u /\ u <= t + MaxStall /\ q >= t - MaxAge
          BY <2>2, <2>3, <2>4, <3>1, Zenon
        <4> QED BY <4>1, Constants
      <3>2. CASE [jti |-> p.jti, expires |-> ReplayUntil(p)] \in replay
        <4>1. ReplayUntil(p) > t
          BY <2>2, <2>3, <2>4, Constants
        <4>2. [jti |-> p.jti, expires |-> ReplayUntil(p)] \in Remembered(t)
          BY <3>2, <4>1, Zenon DEF Remembered
        <4> QED BY <2>4, <4>2
      <3> QED BY <3>1, <3>2 DEF Window
    <2>6. verified'[p.jti] = 1 /\ \A j \in 1 .. MaxProofs : j # p.jti => verified'[j] = verified[j]
      BY <1>0, <2>3, <2>4, <2>5
    <2>7. ProofOnce'
      BY <2>6 DEF Window, ProofOnce
    <2>8. \A j \in 1 .. MaxProofs : verified'[j] # 0 => \E q \in proofs' : q.jti = j
      BY <2>4, <2>6, Zenon DEF Window
    <2>9. ASSUME NEW q \in proofs, verified'[q.jti] # 0
          PROVE  [jti |-> q.jti, expires |-> ReplayUntil(q)] \in replay' \/ ReplayUntil(q) <= now
      <3>1. CASE q.jti = p.jti
        BY <2>4, <3>1, Zenon DEF Base, Client
      <3>2. CASE q.jti # p.jti
        <4>1. verified[q.jti] # 0
          BY <1>0, <2>6, <2>9, <3>2, Zenon
        <4>2. Remembered(t) \subseteq replay'
          BY <2>4, Zenon
        <4> QED BY <1>3, <2>2, <4>1, <4>2 DEF Window
      <3> QED BY <3>1, <3>2
    <2> QED BY <2>4, <2>7, <2>8, <2>9 DEF Window
  <1> QED BY <1>1, <1>2, <1>4, <1>5, <1>6, WindowFrame

(* A nonce that was exchanged never comes back: every new row holds a later one. *)
Exchanged ==
    \A n \in 1 .. MaxNonces : spent[n] <= 1 /\ (spent[n] # 0 => n <= issued /\ nonce.value # n)

(* The update compares the row with the nonce it exchanges. *)
LEMMA NonceInvariant == Base /\ Exchanged /\ Next => Exchanged'
  <1> SUFFICES ASSUME Base, Exchanged, Next PROVE Exchanged'
    BY Zenon
  <1>0. issued \in Nat /\ spent \in [1 .. MaxNonces -> Nat] /\ nonce.value \in 0 .. issued
    BY Constants DEF Base, Tables, Counts
  <1>1. CASE UNCHANGED <<nonce, issued, spent>>
    BY <1>1, Zenon DEF Exchanged
  <1>2. ASSUME NEW r \in Requests, PutNonce(r), UNCHANGED spent PROVE Exchanged'
    <2>1. issued' = issued + 1 /\ nonce'.value = issued'
      BY <1>2, NonceWritten, Zenon
    <2> QED BY <1>0, <1>2, <2>1 DEF Exchanged
  <1>3. ASSUME NEW r \in Requests, RotateNonce(r) PROVE Exchanged'
    <2>1. CASE UNCHANGED <<nonce, issued, spent>>
      BY <1>1, <2>1, Zenon
    <2>2. CASE SameNonce(r) /\ PutNonce(r) /\ spent' = [spent EXCEPT ![req[r].nonce] = @ + 1]
      <3>1. req[r] \in Handlers /\ Good(req[r]) /\ req[r].at = "rotate"
        BY <1>3, Zenon DEF RotateNonce, Base, Running
      <3>2. PICK n \in 1 .. issued : n = req[r].nonce
        BY <3>1, IdleIsHandler, Zenon DEF Good
      <3>3. n \in 1 .. MaxNonces /\ nonce.value = n
        BY <2>2, <3>2, Constants DEF SameNonce, Base, Tables
      <3>4. issued' = issued + 1 /\ nonce'.value = issued'
        BY <2>2, NonceWritten, Zenon
      <3>5. spent[n] = 0
        BY <1>0, <3>3, Zenon DEF Exchanged
      <3>6. spent' = [spent EXCEPT ![n] = 1]
        BY <2>2, <3>2, <3>5
      <3>7. spent'[n] = 1 /\ \A m \in 1 .. MaxNonces : m # n => spent'[m] = spent[m]
        BY <1>0, <3>3, <3>6, Zenon
      <3>8. ASSUME NEW m \in 1 .. MaxNonces
            PROVE  spent'[m] <= 1 /\ (spent'[m] # 0 => m <= issued' /\ nonce'.value # m)
        <4>1. CASE m = n
          BY <1>0, <3>2, <3>4, <3>7, <4>1
        <4>2. CASE m # n
          BY <1>0, <3>4, <3>7, <4>2 DEF Exchanged
        <4> QED BY <4>1, <4>2
      <3> QED BY <3>8 DEF Exchanged
    <2> QED BY <1>3, <2>1, <2>2 DEF RotateNonce
  <1> QED BY <1>1, <1>2, <1>3, NonceFrame

(* A ticket that opened a WebSocket is consumed, and an issued one names a credential. *)
Admitted ==
    /\ \A t \in 1 .. MaxTickets : opened[t] <= 1 /\ (opened[t] # 0 => ticket[t].status = "CONSUMED")
    /\ \A t \in 1 .. MaxTickets : ticket[t].status # "NONE" =>
            ticket[t].id \in 1 .. MaxTokens /\ access[ticket[t].id].status # "NONE"

(* While a revocation is in progress it has marked every issued ticket that is *)
(* not late; once the endpoint is revoked, a request that passed the           *)
(* credential check finds its ticket issued only if that is late.              *)
Overtaken ==
    /\ revoking \in BOOLEAN /\ marked \cup late \cup challenged \cup ready \subseteq 1 .. MaxTickets
    /\ \A t \in marked : ticket[t].status = "ISSUED"
    /\ revoking => \A t \in 1 .. MaxTickets : ticket[t].status = "ISSUED" => t \in marked \cup late
    /\ endpoint = "REVOKED" =>
            \A r \in Requests : req[r].at = "consume" /\ ticket[req[r].id].status = "ISSUED" => req[r].id \in late

(* Only the credential check lets a request come to consume its ticket. *)
LEMMA ConsumersKept ==
  ASSUME Base, Next, NEW q \in Requests, req'[q].at = "consume", req'[q] # req[q]
  PROVE  CheckCredential(q) /\ endpoint = "ACTIVE"
  <1>0. req \in [Requests -> Handlers]
    BY Zenon DEF Base, Running
  <1>1. ASSUME NEW r \in Requests, req' = [req EXCEPT ![r] = Idle] PROVE FALSE
    BY <1>0, <1>1, IdleIsHandler, Zenon
  <1>2. ASSUME NEW r \in Requests, NEW h, req' = [req EXCEPT ![r] = h], h.at # "consume" PROVE FALSE
    BY <1>0, <1>2, Zenon
  <1>3. ASSUME NEW r \in Requests, NEW a \in Places, a # "consume", req' = [req EXCEPT ![r].at = a]
        PROVE  FALSE
    <2>1. PICK h \in Handlers : Went(r, h, a)
      BY <1>3, Goes, Zenon
    <2> QED BY <1>2, <1>3, <2>1 DEF Went
  <1>4. ASSUME NEW r \in Requests, NEW kind, NEW i, NEW p, Begin(r, kind, i, p) PROVE FALSE
    <2> DEFINE h == [kind |-> kind, at |-> "nonce", now |-> now, id |-> i, proof |-> p, nonce |-> 0, next |-> 0]
    <2>1. req' = [req EXCEPT ![r] = h] /\ h.at = "nonce"
      BY <1>4, Zenon DEF Begin
    <2> HIDE DEF h
    <2> QED BY <1>2, <2>1
  <1>5. ASSUME NEW r \in Requests, NEW t, BeginConnect(r, t) PROVE FALSE
    <2> DEFINE h == [kind |-> "connect", at |-> "credential", now |-> now, id |-> t,
                     proof |-> NoProof, nonce |-> 0, next |-> 0]
    <2>1. req' = [req EXCEPT ![r] = h] /\ h.at = "credential"
      BY <1>5, Zenon DEF BeginConnect
    <2> HIDE DEF h
    <2> QED BY <1>2, <2>1
  <1>6. ASSUME NEW r \in Requests, ReadNonce(r) PROVE FALSE
    <2>1. "challenge" \in Places /\ "verify" \in Places
      BY Zenon DEF Places
    <2>2. PICK v \in Nat : v = nonce.value
      BY DEF Base, Tables
    <2>3. req' = [req EXCEPT ![r].at = "challenge"] \/ req' = [req EXCEPT ![r].at = "verify", ![r].nonce = v]
      BY <1>6, <2>2, Zenon DEF ReadNonce
    <2>4. CASE req' = [req EXCEPT ![r].at = "verify", ![r].nonce = v]
      <3>1. PICK h \in Handlers : Went(r, h, "verify")
        BY <2>1, <2>4, GoesWithNonce, Zenon
      <3> QED BY <1>2, <3>1 DEF Went
    <2> QED BY <1>3, <2>1, <2>3, <2>4
  <1>7. ASSUME NEW r \in Requests, RotateNonce(r) PROVE FALSE
    <2>1. CASE req' = [req EXCEPT ![r] = Idle]
      BY <1>1, <2>1, Zenon
    <2>2. CASE PutNonce(r) /\ req' = [req EXCEPT ![r].at = "grant", ![r].next = issued']
      <3>1. PICK v \in Nat : v = issued'
        BY <2>2, NonceWritten
      <3>2. req' = [req EXCEPT ![r].at = "grant", ![r].next = v] /\ "grant" \in Places
        BY <2>2, <3>1, Zenon DEF Places
      <3>3. PICK h \in Handlers : Went(r, h, "grant")
        BY <3>2, GoesWithNext, Zenon
      <3> QED BY <1>2, <3>3 DEF Went
    <2> QED BY <1>7, <2>1, <2>2 DEF RotateNonce
  <1>8. ASSUME NEW r \in Requests, Verify(r) PROVE FALSE
    <2>1. req' = [req EXCEPT ![r].at = "rotate"] /\ "rotate" \in Places
      BY <1>8, Zenon DEF Verify, Places
    <2> QED BY <1>3, <2>1
  <1>9. ASSUME NEW r \in Requests, CheckCredential(r) PROVE r = q /\ endpoint = "ACTIVE"
    <2>1. endpoint = "ACTIVE" /\ req' = [req EXCEPT ![r].at = "consume"]
      BY <1>1, <1>9, Zenon DEF CheckCredential
    <2> QED BY <1>0, <2>1
  <1>10. ASSUME NEW r \in Requests,
                \/ WriteNonceChallenge(r) \/ Reject(r) \/ Rotate(r) \/ Reuse(r) \/ RefuseRefresh(r)
                \/ Authenticated(r) \/ (\E t \in DOMAIN ticket : CreateTicket(r, t))
                \/ ConsumeTicket(r) \/ Abort(r)
         PROVE  FALSE
    <2>1. req' = [req EXCEPT ![r] = Idle]
      BY <1>10, Zenon DEF WriteNonceChallenge, Reject, Rotate, Reuse, RefuseRefresh, Authenticated, CreateTicket,
             ConsumeTicket, Abort, Respond
    <2> QED BY <1>1, <2>1, Zenon
  <1>11. ~ (Sweep \/ Revoke \/ SuspendOrResume \/ Tick \/ Aside)
    BY AsideUnmoved, Zenon DEF Sweep, Revoke, SuspendOrResume, Tick, Unmoved
  <1>12. ASSUME NEW r \in Requests, NEW kind \in Kinds, NEW skew \in Skews, Send(r, kind, skew) PROVE FALSE
    BY <1>4, <1>12, Zenon DEF Send
  <1>13. ASSUME NEW r \in Requests, NEW p \in proofs, Resend(r, p) PROVE FALSE
    BY <1>4, <1>13, Zenon DEF Resend
  <1> QED BY <1>5, <1>6, <1>7, <1>8, <1>9, <1>10, <1>11, <1>12, <1>13, Zenon DEF Next, Aside

(* A ticket is consumed once. *)
LEMMA TicketInvariant == Base /\ Chain /\ Admitted /\ Overtaken /\ Next => Admitted'
  <1> SUFFICES ASSUME Base, Chain, Admitted, Overtaken, Next PROVE Admitted'
    BY Zenon
  <1>0. /\ req \in [Requests -> Handlers] /\ (\A r \in Requests : Good(req[r]))
        /\ opened \in [1 .. MaxTickets -> Nat] /\ ticket \in [1 .. MaxTickets -> TicketRows]
    BY Zenon DEF Base, Running, Counts, Tables
  <1>1. \A k \in 1 .. MaxTokens : access[k].status # "NONE" => access'[k].status # "NONE"
    <2>1. CASE UNCHANGED <<endpoint, access, refresh>> \/ SuspendOrResume
      BY <2>1, Zenon DEF SuspendOrResume
    <2>2. ASSUME NEW r \in Requests, Rotate(r)
          PROVE  \A k \in 1 .. MaxTokens : access[k].status # "NONE" => access'[k].status # "NONE"
      <3>1. PICK n \in 1 .. MaxTokens : /\ access'[n].status = "ACTIVE"
                /\ \A k \in 1 .. MaxTokens \ {n} : access'[k].status =
                        IF access[k].status = "ACTIVE" THEN "ROTATED" ELSE access[k].status
        BY <2>2, RotateFacts, Zenon
      <3> QED BY <3>1
    <2>3. ASSUME NEW r \in Requests, Reuse(r)
          PROVE  \A k \in 1 .. MaxTokens : access[k].status # "NONE" => access'[k].status # "NONE"
      <3>2. access' = Marked(access, {"ACTIVE"}, "REVOKED")
            /\ \E b \in SUBSET {"ACTIVE", "ROTATED"} : refresh' = Marked(refresh, b, "REVOKED")
        <4>1. FamilyStatuses \in SUBSET {"ACTIVE", "ROTATED"}
          BY Zenon DEF FamilyStatuses
        <4> QED BY <2>3, <4>1 DEF Reuse
      <3>3. \A k \in 1 .. MaxTokens : access'[k].status =
                IF access[k].status = "ACTIVE" THEN "REVOKED" ELSE access[k].status
        BY <3>2, FamilyMarked, Zenon
      <3> QED BY <3>3
    <2>4. CASE Revoke
      <3>1. access' = Marked(access, {"ACTIVE"}, "REVOKED")
            /\ \E b \in SUBSET {"ACTIVE", "ROTATED"} : refresh' = Marked(refresh, b, "REVOKED")
        <4>1. {"ACTIVE"} \in SUBSET {"ACTIVE", "ROTATED"}
          BY Zenon
        <4> QED BY <2>4, <4>1 DEF Revoke
      <3>2. \A k \in 1 .. MaxTokens : access'[k].status =
                IF access[k].status = "ACTIVE" THEN "REVOKED" ELSE access[k].status
        BY <3>1, FamilyMarked, Zenon
      <3> QED BY <3>2
    <2> QED BY <2>1, <2>2, <2>3, <2>4, FamilyFrame
  <1>2. \A q \in Requests : req[q].at = "consume" =>
            req[q].id \in 1 .. MaxTickets /\ ticket[req[q].id].status # "NONE"
    BY <1>0, IdleIsHandler, Zenon DEF Good
  <1>5. CASE UNCHANGED <<ticket, opened>>
    BY <1>1, <1>5, Zenon DEF Admitted
  <1>6. CASE Revoke
    <2>1. /\ \A t \in 1 .. MaxTickets : ticket'[t].status = (IF t \in marked THEN "REVOKED" ELSE ticket[t].status)
          /\ \A t \in 1 .. MaxTickets : ticket'[t].id = ticket[t].id
      BY <1>0, <1>6, RevokedTickets, Zenon
    <2>2. opened' = opened /\ \A t \in 1 .. MaxTickets : t \in marked => ticket[t].status = "ISSUED"
      BY <1>6, Zenon DEF Revoke, counts, Overtaken
    <2>3. \A t \in 1 .. MaxTickets : ticket'[t].status # "NONE" => ticket[t].status # "NONE"
      BY <2>1, <2>2, Zenon
    <2>4. \A t \in 1 .. MaxTickets : ticket[t].status = "CONSUMED" => ticket'[t].status = "CONSUMED"
      BY <2>1, <2>2, Zenon
    <2> QED BY <1>1, <2>1, <2>2, <2>3, <2>4, Zenon DEF Admitted
  <1>7. ASSUME NEW r \in Requests, ConsumeTicket(r), ~ UNCHANGED <<ticket, opened>> PROVE Admitted'
    <2>1. PICK t \in 1 .. MaxTickets : t = req[r].id
      BY <1>2, <1>7, Zenon DEF ConsumeTicket
    <2>2. /\ ticket' = [ticket EXCEPT ![t] = [ticket[t] EXCEPT !.status = "CONSUMED"]]
          /\ opened' = [opened EXCEPT ![t] = opened[t] + 1] /\ ticket[t].status = "ISSUED"
          /\ UNCHANGED <<endpoint, access>>
      BY <1>7, <2>1, Zenon DEF ConsumeTicket, Consumable
    <2>3. ticket[t] \in TicketRows
      BY <1>0, Zenon
    <2>4. /\ [ticket[t] EXCEPT !.status = "CONSUMED"].status = "CONSUMED"
          /\ [ticket[t] EXCEPT !.status = "CONSUMED"].id = ticket[t].id
      BY <2>3, Zenon DEF TicketRows
    <2>5. /\ ticket'[t].status = "CONSUMED" /\ ticket'[t].id = ticket[t].id
          /\ \A s \in 1 .. MaxTickets : s # t => ticket'[s] = ticket[s] /\ opened'[s] = opened[s]
          /\ opened'[t] = opened[t] + 1
      BY <1>0, <2>2, <2>4, Zenon
    <2>6. opened[t] = 0
      BY <1>0, <2>2, Zenon DEF Admitted
    <2>9. \A s \in 1 .. MaxTickets : opened'[s] <= 1 /\ (opened'[s] # 0 => ticket'[s].status = "CONSUMED")
      BY <2>5, <2>6 DEF Admitted
    <2>10. \A s \in 1 .. MaxTickets : ticket'[s].status # "NONE" =>
              ticket'[s].id \in 1 .. MaxTokens /\ access'[ticket'[s].id].status # "NONE"
      BY <2>2, <2>5 DEF Admitted
    <2> QED BY <2>9, <2>10 DEF Admitted
  <1>8. ASSUME NEW r \in Requests, NEW t \in 1 .. MaxTickets, CreateTicket(r, t) PROVE Admitted'
    <2> DEFINE row == [status |-> "ISSUED", id |-> TicketCredential(r), expires |-> req[r].now + TicketTTL]
    <2>1. /\ ticket' = [ticket EXCEPT ![t] = row] /\ ticket[t].status = "NONE" /\ req[r].at = "grant"
          /\ UNCHANGED <<endpoint, access, opened>>
      BY <1>8, Zenon DEF CreateTicket, Granted, counts
    <2>2. row.id = req[r].id /\ row.status = "ISSUED"
      BY Zenon DEF TicketCredential
    <2> HIDE DEF row
    <2>3. ticket'[t] = row /\ \A s \in 1 .. MaxTickets : s # t => ticket'[s] = ticket[s]
      BY <1>0, <2>1, Zenon
    <2>4. req[r].id \in 1 .. MaxTokens /\ access[req[r].id].status # "NONE"
      BY <1>0, <2>1, IdleIsHandler, Zenon DEF Good
    <2>6. \A s \in 1 .. MaxTickets : opened'[s] <= 1 /\ (opened'[s] # 0 => ticket'[s].status = "CONSUMED")
      BY <2>1, <2>3, Zenon DEF Admitted
    <2>7. \A s \in 1 .. MaxTickets : ticket'[s].status # "NONE" =>
              ticket'[s].id \in 1 .. MaxTokens /\ access'[ticket'[s].id].status # "NONE"
      BY <2>1, <2>2, <2>3, <2>4 DEF Admitted
    <2> QED BY <2>6, <2>7 DEF Admitted
  <1>9. DOMAIN ticket = 1 .. MaxTickets
    BY <1>0, Zenon
  <1> QED BY <1>5, <1>6, <1>7, <1>8, <1>9, TicketFrame

(* A revocation misses only the tickets inserted after its update, and a request *)
(* that read the endpoint before the commit finds no other ticket after it.      *)
LEMMA OvertakenInvariant == Base /\ Overtaken /\ Next => Overtaken'
  <1> SUFFICES ASSUME Base, Overtaken, Next PROVE Overtaken'
    BY Zenon
  <1> DEFINE Typed == revoking \in BOOLEAN /\ marked \cup late \cup challenged \cup ready \subseteq 1 .. MaxTickets
             Locked == \A t \in marked : ticket[t].status = "ISSUED"
             Missed == revoking => \A t \in 1 .. MaxTickets : ticket[t].status = "ISSUED" => t \in marked \cup late
             Found == endpoint = "REVOKED" =>
                \A r \in Requests : req[r].at = "consume" /\ ticket[req[r].id].status = "ISSUED" => req[r].id \in late
  <1>0. /\ req \in [Requests -> Handlers] /\ (\A r \in Requests : Good(req[r]))
        /\ ticket \in [1 .. MaxTickets -> TicketRows] /\ DOMAIN ticket = 1 .. MaxTickets
        /\ Typed /\ Locked /\ Missed /\ Found
    BY Zenon DEF Base, Running, Tables, Overtaken
  <1>1. \A q \in Requests : req[q].at = "consume" =>
            req[q].id \in 1 .. MaxTickets /\ ticket[req[q].id].status # "NONE"
    BY <1>0, IdleIsHandler, Zenon DEF Good
  <1>2. \A q \in Requests : endpoint = "REVOKED" /\ req'[q].at = "consume" => req'[q] = req[q]
    BY ConsumersKept, Zenon
  <1>3. endpoint' = "REVOKED" => endpoint = "REVOKED" \/ Revoke
    BY FamilyFrame, Zenon DEF SuspendOrResume, Rotate, Reuse
  <1>4. ASSUME \A t \in 1 .. MaxTickets : ticket'[t].status = "ISSUED" => ticket[t].status = "ISSUED",
               late \subseteq late', ~ Revoke
        PROVE  Found'
    <2>1. SUFFICES ASSUME endpoint' = "REVOKED", NEW q \in Requests, req'[q].at = "consume",
                          ticket'[req'[q].id].status = "ISSUED"
                   PROVE  req'[q].id \in late'
      BY Zenon
    <2>2. endpoint = "REVOKED" /\ req'[q] = req[q]
      BY <1>2, <1>3, <1>4, <2>1, Zenon
    <2> QED BY <1>0, <1>1, <1>4, <2>1, <2>2, Zenon
  <1>5. CASE UNCHANGED <<admission, ticket>> /\ ~ Revoke
    <2>1. UNCHANGED <<revoking, marked, late, challenged, ready, ticket>>
      BY <1>5, Zenon DEF admission
    <2>2. Typed' /\ Locked' /\ Missed'
      BY <1>0, <2>1, Zenon
    <2>3. Found'
      BY <1>4, <1>5, <2>1, Zenon
    <2> QED BY <2>2, <2>3, Zenon DEF Overtaken
  <1>6. CASE Revoke
    <2>1. /\ \A t \in 1 .. MaxTickets : ticket'[t].status = (IF t \in marked THEN "REVOKED" ELSE ticket[t].status)
          /\ revoking /\ revoking' = FALSE /\ marked' = {} /\ late' = late \ marked
          /\ UNCHANGED <<req, challenged, ready>>
      BY <1>0, <1>6, RevokedTickets, Zenon DEF Revoke
    <2>2. Typed' /\ Locked' /\ Missed'
      BY <1>0, <2>1, Zenon
    <2>3. ASSUME NEW q \in Requests, req[q].at = "consume", ticket'[req[q].id].status = "ISSUED"
          PROVE  req[q].id \in late'
      <3>1. req[q].id \in 1 .. MaxTickets
        BY <1>1, <2>3, Zenon
      <3>2. req[q].id \notin marked /\ ticket[req[q].id].status = "ISSUED"
        BY <2>1, <2>3, <3>1, Zenon
      <3> QED BY <1>0, <2>1, <3>1, <3>2, Zenon
    <2> QED BY <2>1, <2>2, <2>3, Zenon DEF Overtaken
  <1>7. ASSUME NEW r \in Requests, ConsumeTicket(r) PROVE Overtaken'
    <2>1. PICK t \in 1 .. MaxTickets : t = req[r].id
      BY <1>1, <1>7, Zenon DEF ConsumeTicket
    <2>2. /\ t \notin marked /\ UNCHANGED <<revoking, marked, late, ready>>
          /\ challenged' \in {challenged, challenged \cup {t}}
          /\ ticket' = ticket \/ ticket' = [ticket EXCEPT ![t] = [ticket[t] EXCEPT !.status = "CONSUMED"]]
      BY <1>7, <2>1, Zenon DEF ConsumeTicket
    <2>3. [ticket[t] EXCEPT !.status = "CONSUMED"].status = "CONSUMED"
      BY <1>0, Zenon DEF TicketRows
    <2>4. /\ \A u \in 1 .. MaxTickets : u # t => ticket'[u] = ticket[u]
          /\ \A u \in 1 .. MaxTickets : ticket'[u].status = "ISSUED" => ticket[u].status = "ISSUED"
      BY <1>0, <2>2, <2>3, Zenon
    <2>5. Typed'
      BY <1>0, <2>2, Zenon
    <2>6. Locked' /\ Missed'
      BY <1>0, <2>2, <2>4, Zenon
    <2>7. ~ Revoke
      BY <1>0, <1>7, Zenon DEF ConsumeTicket, Revoke
    <2>8. Found'
      BY <1>4, <2>2, <2>4, <2>7, Zenon
    <2> QED BY <2>5, <2>6, <2>8, Zenon DEF Overtaken
  <1>8. ASSUME NEW r \in Requests, NEW t \in 1 .. MaxTickets, CreateTicket(r, t) PROVE Overtaken'
    <2> DEFINE row == [status |-> "ISSUED", id |-> TicketCredential(r), expires |-> req[r].now + TicketTTL]
    <2>1. /\ ticket' = [ticket EXCEPT ![t] = row] /\ ticket[t].status = "NONE"
          /\ UNCHANGED <<endpoint, revoking, marked, challenged, ready>>
          /\ late' = IF revoking THEN late \cup {t} ELSE late
      BY <1>8, Zenon DEF CreateTicket
    <2>2. row.status = "ISSUED"
      BY Zenon
    <2> HIDE DEF row
    <2>3. ticket'[t] = row /\ \A u \in 1 .. MaxTickets : u # t => ticket'[u] = ticket[u]
      BY <1>0, <2>1, Zenon
    <2>4. Typed' /\ Locked' /\ Missed'
      BY <1>0, <2>1, <2>2, <2>3, Zenon
    <2>5. ASSUME endpoint' = "REVOKED", NEW q \in Requests, req'[q].at = "consume",
                 ticket'[req'[q].id].status = "ISSUED"
          PROVE  req'[q].id \in late'
      <3>1. req'[q] = req[q] /\ req[q].id \in 1 .. MaxTickets /\ req[q].id # t
        BY <1>1, <1>2, <2>1, <2>5, Zenon
      <3> QED BY <1>0, <2>1, <2>3, <2>5, <3>1, Zenon
    <2> QED BY <2>4, <2>5, Zenon DEF Overtaken
  <1>9. CASE Aside
    <2>1. UNCHANGED <<endpoint, ticket, req>>
      BY <1>9, AsideUnmoved, Zenon DEF Unmoved
    <2>2. /\ late' = late
          /\ revoking' \in BOOLEAN /\ marked' \subseteq 1 .. MaxTickets
          /\ challenged' \subseteq challenged /\ ready' \subseteq ready \cup challenged
          /\ \/ UNCHANGED <<revoking, marked>>
             \/ marked' = {} /\ revoking' = FALSE
             \/ marked' = TicketsRevoked
      <3>1. CASE RevokeTickets \/ Rollback
        BY <1>0, <3>1, Zenon DEF RevokeTickets, Rollback, TicketsRevoked
      <3>2. ASSUME NEW t \in DOMAIN ticket, MarkSeen(t) \/ CloseSocket(t)
            PROVE  /\ UNCHANGED <<late, revoking, marked>>
                   /\ challenged' \subseteq challenged /\ ready' \subseteq ready \cup challenged
        BY <3>2, Zenon DEF MarkSeen, CloseSocket
      <3> QED BY <1>0, <1>9, <3>1, <3>2, Zenon DEF Aside
    <2>3. Typed'
      BY <1>0, <2>2, Zenon
    <2>4. Locked' /\ Missed'
      BY <1>0, <2>1, <2>2, Zenon DEF TicketsRevoked
    <2>5. Found'
      BY <1>0, <2>1, <2>2, Zenon
    <2> QED BY <2>3, <2>4, <2>5, Zenon DEF Overtaken
  <1>10. (\E r \in Requests : ConsumeTicket(r) \/ \E t \in DOMAIN ticket : CreateTicket(r, t)) => Overtaken'
    BY <1>0, <1>7, <1>8, Zenon
  <1> QED BY <1>5, <1>6, <1>9, <1>10, AdmissionFrame, TicketFrame, Zenon

-----------------------------------------------------------------------------
CInv == Base /\ Chain /\ Lineage /\ RevokedIsDead /\ Window /\ Exchanged /\ Admitted /\ Overtaken

(* The family as it was enrolled, and nothing used. *)
LEMMA CInvInit == Init => CInv
  <1> SUFFICES ASSUME Init PROVE CInv
    BY Zenon
  <1>1. 1 \in 1 .. MaxTokens
    BY Constants
  <1>2. /\ access[1].status = "ACTIVE" /\ refresh[1].status = "ACTIVE"
        /\ \A k \in 1 .. MaxTokens : k # 1 => access[k].status = "NONE" /\ refresh[k].status = "NONE"
    BY <1>1, Zenon DEF Init, NoRow
  <1>3. Chain
    BY <1>1, <1>2 DEF Chain, Reaches
  <1>4. Lineage /\ RevokedIsDead
    BY <1>2, Zenon DEF Lineage, RevokedIsDead, Init
  <1>5. Window
    BY DEF Window, ProofOnce, Init
  <1>6. Exchanged
    BY DEF Exchanged, Init
  <1>7. Admitted
    BY DEF Admitted, Init
  <1>8. Overtaken
    BY Zenon DEF Overtaken, Init
  <1> QED BY BaseInit, <1>3, <1>4, <1>5, <1>6, <1>7, <1>8 DEF CInv

(* Every step preserves the invariant. *)
LEMMA CInvStep == CInv /\ [Next]_vars => CInv'
  <1> SUFFICES ASSUME CInv, [Next]_vars PROVE CInv'
    BY Zenon
  <1>1. CASE Next
    BY <1>1, BaseStep, FamilyInvariant, WindowInvariant, NonceInvariant, TicketInvariant,
       OvertakenInvariant, Zenon DEF CInv
  <1>2. CASE UNCHANGED vars
    <2>1. Unmoved /\ UNCHANGED <<revoking, marked, late, challenged, ready>>
      BY <1>2, Zenon DEF vars, rows, client, counts, admission, Unmoved
    <2>2. Base'
      BY <2>1, BaseUnmoved, Zenon DEF CInv
    <2>4. Chain' /\ Lineage' /\ RevokedIsDead'
      BY <2>1, Zenon DEF CInv, Chain, Reaches, Lineage, RevokedIsDead, Unmoved
    <2>5. Window' /\ Exchanged'
      BY <2>1, Zenon DEF CInv, Window, ProofOnce, Exchanged, Unmoved
    <2>6. Admitted' /\ Overtaken'
      BY <2>1, Zenon DEF CInv, Admitted, Overtaken, Unmoved
    <2> QED BY <2>2, <2>4, <2>5, <2>6, Zenon DEF CInv
  <1> QED BY <1>1, <1>2

(* The invariant holds throughout. *)
THEOREM CredentialsInvariance == Spec => []CInv
  BY CInvInit, CInvStep, PTL DEF Spec

(* Every variable keeps its type, for every instance. *)
THEOREM CredentialsTypeCorrect == Spec => []TypeOK
  <1>1. CInv => TypeOK
    <2> SUFFICES ASSUME CInv PROVE TypeOK
      BY Zenon
    <2>1. \A k \in 1 .. MaxTokens : {access[k].status, refresh[k].status} \subseteq CredentialStatus
      BY DEF CInv, Base, Tables, CredentialRows
    <2>2. \A t \in DOMAIN ticket :
            \/ ticket[t].status = "NONE"
            \/ ticket[t].status \in {"ISSUED", "CONSUMED", "REVOKED"} /\ ticket[t].id \in Generations
      BY Zenon DEF CInv, Base, Tables, TicketRows, Admitted, Generations
    <2>3. \A r \in Requests : req[r].at \in Places
      BY Zenon DEF CInv, Base, Running, Handlers
    <2>4. held \in Generations /\ known \in 0 .. issued
      BY Zenon DEF CInv, Base, Client, Generations
    <2>5. nonce.value \in 0 .. issued /\ \A x \in replay : x.jti \in 1 .. MaxProofs
      BY Zenon DEF CInv, Base, Tables
    <2>6. now \in 0 .. MaxTime /\ endpoint \in {"ACTIVE", "SUSPENDED", "REVOKED"} /\ issued \in 0 .. MaxNonces
      BY Zenon DEF CInv, Base, Tables
    <2>7. revoking \in BOOLEAN /\ marked \cup late \cup challenged \cup ready \subseteq DOMAIN ticket
      BY Zenon DEF CInv, Base, Tables, Overtaken
    <2> HIDE DEF TypeOK
    <2> QED BY <2>1, <2>2, <2>3, <2>4, <2>5, <2>6, <2>7, Zenon DEF TypeOK, Places
  <1> QED BY <1>1, CredentialsInvariance, PTL

(* However many refresh requests race, the family has one line of descent. *)
THEOREM OneLineOfDescent == Spec => []Lineage
  <1>1. CInv => Lineage
    BY Zenon DEF CInv
  <1> QED BY <1>1, CredentialsInvariance, PTL

(* No rotation, in flight or later, revives a family that was revoked. *)
THEOREM RevocationIsFinal == Spec => []RevokedIsDead
  <1>1. CInv => RevokedIsDead
    BY Zenon DEF CInv
  <1> QED BY <1>1, CredentialsInvariance, PTL

(* A proof is accepted once, for all ages, skews and stalls with MaxStall < FutureSkew. *)
THEOREM ProofsAreUsedOnce == Spec => []ProofOnce
  <1>1. CInv => ProofOnce
    BY Zenon DEF CInv, Window
  <1> QED BY <1>1, CredentialsInvariance, PTL

(* A nonce is exchanged once, however often challenges overwrite it. *)
THEOREM NoncesAreUsedOnce == Spec => []NonceOnce
  <1>1. CInv => NonceOnce
    BY Zenon DEF CInv, Exchanged, NonceOnce
  <1> QED BY <1>1, CredentialsInvariance, PTL

(* A ticket opens one WebSocket, however many requests inspected it. *)
THEOREM TicketsAreUsedOnce == Spec => []TicketOnce
  <1>1. CInv => TicketOnce
    BY Zenon DEF CInv, Admitted, TicketOnce
  <1> QED BY <1>1, CredentialsInvariance, PTL

(***************************************************************************)
(* After a revocation no WebSocket becomes ready, and the only ticket that *)
(* is consumed is one inserted between the update of the tickets by        *)
(* RevokeEndpointForOwner and its commit, for any number of requests and   *)
(* tickets and whatever they read before it.                               *)
(***************************************************************************)
THEOREM RevocationLocksOut == Spec => RevokedNeverReady
  <1> DEFINE Shut == /\ ready' = ready
                     /\ \A t \in 1 .. MaxTickets : opened'[t] # opened[t] => t \in late
  <1>1. ASSUME CInv, Next, endpoint = "REVOKED" PROVE Shut
    <2>1. ready' = ready
      <3>1. ASSUME NEW t \in DOMAIN ticket, MarkSeen(t) \/ CloseSocket(t) PROVE ready' = ready
        BY <1>1, <3>1, Zenon DEF MarkSeen, CloseSocket, Present
      <3>2. Aside => ready' = ready
        BY <3>1, Zenon DEF Aside, RevokeTickets, Rollback
      <3>3. Revoke => ready' = ready
        BY Zenon DEF Revoke
      <3>4. ASSUME NEW r \in Requests, NEW t, ConsumeTicket(r) \/ CreateTicket(r, t) PROVE ready' = ready
        BY <3>4, Zenon DEF ConsumeTicket, CreateTicket
      <3>5. UNCHANGED admission => ready' = ready
        BY Zenon DEF admission
      <3> QED BY <1>1, <3>2, <3>3, <3>4, <3>5, AdmissionFrame, Zenon
    <2>2. ASSUME NEW t \in 1 .. MaxTickets, opened'[t] # opened[t] PROVE t \in late
      <3>1. ~ Revoke
        BY <2>2, Zenon DEF Revoke, counts
      <3>2. ASSUME NEW r \in Requests, NEW u, CreateTicket(r, u) PROVE FALSE
        BY <2>2, <3>2, Zenon DEF CreateTicket, counts
      <3>3. PICK r \in Requests : ConsumeTicket(r)
        BY <1>1, <2>2, <3>1, <3>2, TicketFrame, Zenon
      <3>4. req[r].at = "consume" /\ ticket[req[r].id].status = "ISSUED"
            /\ opened' = [opened EXCEPT ![req[r].id] = opened[req[r].id] + 1]
        BY <2>2, <3>3, Zenon DEF ConsumeTicket, Consumable
      <3>5. t = req[r].id
        BY <1>1, <2>2, <3>4, Zenon DEF CInv, Base, Counts
      <3> QED BY <1>1, <3>4, <3>5, Zenon DEF CInv, Overtaken
    <2> QED BY <2>1, <2>2, Zenon
  <1>2. CInv /\ [Next]_vars => [endpoint = "REVOKED" => Shut]_vars
    BY <1>1, Zenon
  <1> QED BY <1>2, CredentialsInvariance, PTL DEF Spec, RevokedNeverReady
=============================================================================
