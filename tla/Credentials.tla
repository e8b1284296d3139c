----------------------------- MODULE Credentials -----------------------------
(***************************************************************************)
(* The credential family of one endpoint and the requests that use it:     *)
(* refreshing tokens (refreshToken), asking for a WebSocket ticket         *)
(* (issueTicket), managing sessions (authenticateHCRequest) and opening a  *)
(* WebSocket with a ticket (websocket). Each handler is a sequence of      *)
(* database statements with no lock held between them, so concurrent       *)
(* requests interleave between any two.                                    *)
(*                                                                         *)
(* A generation k of the family is an access credential and the refresh    *)
(* credential created with it. Nonces, proofs, credentials and tickets are *)
(* numbered in the order they are created. Time is a counter of ticks; a   *)
(* handler reads the clock once, when it starts.                           *)
(***************************************************************************)
EXTENDS Integers, FiniteSets, FiniteSetsExt

CONSTANTS Requests,
          Kinds,                                    \* the kinds of request the client makes
          Skews,                                    \* how far the client's clock is ahead
          MaxAge, FutureSkew,                       \* dpop.Verifier
          NonceTTL, TicketTTL, AccessTTL, RefreshTTL, \* gateway.Config
          ReplayLimit,                              \* Config.ReplayMaxEntries
          MaxStall,                                 \* assumed: no request lasts longer
          MaxTime, MaxProofs, MaxNonces, MaxTokens, MaxTickets  \* bounds

ASSUME CredentialsAssumption ==
    /\ {MaxAge, FutureSkew, NonceTTL, TicketTTL, AccessTTL, RefreshTTL} \subseteq Nat \ {0}
    /\ ReplayLimit \in Nat \ {0} /\ Skews \subseteq Nat
    /\ Kinds \subseteq {"refresh", "ticket", "session"}
    /\ MaxStall \in Nat /\ MaxStall < FutureSkew
    /\ {MaxTime, MaxProofs, MaxNonces, MaxTokens, MaxTickets} \subseteq Nat /\ MaxTokens # 0

VARIABLES
    now,
    endpoint,   \* endpointRow.Status
    access,     \* credentialRow, by generation: status and expiry
    refresh,    \* refreshCredentialRow, by generation
    nonce,      \* endpointNonceRow: value (0: no row) and expiry
    replay,     \* dpopReplayRow: jti and expiry
    ticket,     \* ticketRow, by ticket: status, generation, expiry
    issued,     \* how many nonces have been generated
    req,        \* the handlers in progress
    proofs,     \* the proofs the client has signed
    held,       \* the generation of the tokens the client holds
    known,      \* the last nonce the client was given
    verified,   \* how often a proof was accepted
    spent,      \* how often a nonce was exchanged
    opened,     \* how often a ticket opened a WebSocket
    revoking,   \* a revocation holds the endpoint's row lock
    marked,     \* the tickets it has updated and not yet committed
    late,       \* the issued tickets inserted since then
    challenged, \* the tickets whose WebSocket is open and not yet ready
    ready       \* the tickets whose WebSocket became ready

rows == <<endpoint, access, refresh, nonce, replay, ticket, issued>>
client == <<proofs, held, known>>
counts == <<verified, spent, opened>>
admission == <<revoking, marked, late, challenged, ready>>
vars == <<now, rows, req, client, counts, admission>>

NoProof == [jti |-> 0, nonce |-> 0, iat |-> 0, kind |-> "none", id |-> 0]
Idle == [kind |-> "none", at |-> "idle", now |-> 0, id |-> 0, proof |-> NoProof, nonce |-> 0, next |-> 0]
NoRow == [status |-> "NONE", expires |-> 0]

Generations == {k \in 1 .. MaxTokens : access[k].status # "NONE"}
Marked(table, from, to) ==
    [k \in DOMAIN table |->
        IF table[k].status \in from THEN [table[k] EXCEPT !.status = to] ELSE table[k]]
Live(row, t) == row.status = "ACTIVE" /\ t < row.expires

Init ==
    /\ now = 0 /\ endpoint = "ACTIVE"
    /\ access = [k \in 1 .. MaxTokens |->
                    IF k = 1 THEN [status |-> "ACTIVE", expires |-> AccessTTL] ELSE NoRow]
    /\ refresh = [k \in 1 .. MaxTokens |->
                    IF k = 1 THEN [status |-> "ACTIVE", expires |-> RefreshTTL] ELSE NoRow]
    /\ nonce = [value |-> 0, expires |-> 0]
    /\ replay = {}
    /\ ticket = [t \in 1 .. MaxTickets |-> [status |-> "NONE", expires |-> 0, id |-> 0]]
    /\ issued = 0
    /\ req = [r \in Requests |-> Idle]
    /\ proofs = {} /\ held = 1 /\ known = 0
    /\ verified = [j \in 1 .. MaxProofs |-> 0]
    /\ spent = [n \in 1 .. MaxNonces |-> 0]
    /\ opened = [t \in 1 .. MaxTickets |-> 0]
    /\ revoking = FALSE /\ marked = {} /\ late = {} /\ challenged = {} /\ ready = {}

-----------------------------------------------------------------------------
(* InspectRefreshCredential: a rotated credential is let through, so that *)
(* its reuse is met under the lock, and only with a valid proof.          *)
InspectRefresh(id) ==
    refresh[id].status \in {"ACTIVE", "ROTATED"} /\ now < refresh[id].expires

(* AuthenticateAccessToken. *)
AuthenticateAccess(id) == Live(access[id], now)

Begin(r, kind, id, proof) ==
    /\ req[r] = Idle /\ endpoint = "ACTIVE"
    /\ IF kind = "refresh" THEN InspectRefresh(id) ELSE AuthenticateAccess(id)
    /\ req' = [req EXCEPT ![r] = [kind |-> kind, at |-> "nonce", now |-> now, id |-> id,
                                  proof |-> proof, nonce |-> 0, next |-> 0]]

(* The client sends a request without a proof, or with one signed over the *)
(* last nonce it was given; its clock may be ahead of the gateway's.       *)
Send(r, kind, skew) ==
    LET p == [jti |-> Cardinality(proofs) + 1, nonce |-> known, iat |-> now + skew,
              kind |-> kind, id |-> held] IN
    /\ \/ Begin(r, kind, held, NoProof) /\ UNCHANGED proofs
       \/ /\ known # 0 /\ p.jti <= MaxProofs
          /\ Begin(r, kind, held, p) /\ proofs' = proofs \cup {p}
    /\ UNCHANGED <<now, rows, held, known, counts, admission>>

(* A request that was sent arrives again: a retry, or a duplicate. *)
Resend(r, p) ==
    /\ Begin(r, p.kind, p.id, p)
    /\ UNCHANGED <<now, rows, client, counts, admission>>

(* GetEndpointNonceHash: without a fresh nonce or a proof the client is challenged. *)
ReadNonce(r) ==
    /\ req[r].at = "nonce"
    /\ IF nonce.value = 0 \/ req[r].now >= nonce.expires \/ req[r].proof = NoProof
       THEN req' = [req EXCEPT ![r].at = "challenge"]
       ELSE req' = [req EXCEPT ![r].at = "verify", ![r].nonce = nonce.value]
    /\ UNCHANGED <<now, rows, client, counts, admission>>

(* PutEndpointNonce: the row is replaced, whatever it held. *)
PutNonce(r) ==
    /\ issued < MaxNonces /\ issued' = issued + 1
    /\ nonce' = [value |-> issued', expires |-> req[r].now + NonceTTL]

(* The handler ends; its response, with the nonce n, may be lost. *)
Respond(r, n) ==
    /\ known' \in {known, n}
    /\ req' = [req EXCEPT ![r] = Idle]

WriteNonceChallenge(r) ==
    /\ req[r].at = "challenge"
    /\ PutNonce(r) /\ Respond(r, issued')
    /\ UNCHANGED <<now, endpoint, access, refresh, replay, ticket, proofs, held, counts, admission>>

(* What Verify checks before it consults the replay cache. A proof that is *)
(* malformed or made for another request fails like one for another nonce. *)
Acceptable(r) ==
    LET p == req[r].proof IN
    /\ p.nonce = req[r].nonce
    /\ p.iat <= req[r].now + FutureSkew /\ p.iat >= req[r].now - MaxAge

(* Variant: a proof is forgotten one tick too early. *)
ReplayUntilEarly(p) == p.iat + MaxAge + FutureSkew - 1

ReplayUntil(p) == p.iat + MaxAge + FutureSkew

Remembered(t) == {x \in replay : x.expires > t}

(* UseDPoPReplay: expired rows go, the jti must be new and the table not full. *)
Unused(r) ==
    /\ \A x \in Remembered(req[r].now) : x.jti # req[r].proof.jti
    /\ Cardinality(Remembered(req[r].now)) < ReplayLimit

Verify(r) ==
    LET p == req[r].proof IN
    /\ req[r].at = "verify" /\ Acceptable(r) /\ Unused(r)
    /\ replay' = Remembered(req[r].now) \cup {[jti |-> p.jti, expires |-> ReplayUntil(p)]}
    /\ verified' = [verified EXCEPT ![p.jti] = @ + 1]
    /\ req' = [req EXCEPT ![r].at = "rotate"]
    /\ UNCHANGED <<now, endpoint, access, refresh, nonce, ticket, issued, client, spent, opened, admission>>

(* writeDPoPError: an unacceptable proof earns a new nonce; a replay or a *)
(* full cache does not, and rolls its deletion of expired rows back.      *)
Reject(r) ==
    /\ req[r].at = "verify"
    /\ \/ /\ ~ Acceptable(r)
          /\ PutNonce(r) /\ Respond(r, issued')
       \/ /\ Acceptable(r) /\ ~ Unused(r)
          /\ req' = [req EXCEPT ![r] = Idle]
          /\ UNCHANGED <<nonce, issued, known>>
    /\ UNCHANGED <<now, endpoint, access, refresh, replay, ticket, proofs, held, counts, admission>>

(* Requests of other endpoints delete expired rows of the shared table too. *)
Sweep ==
    /\ replay' = Remembered(now)
    /\ UNCHANGED <<now, endpoint, access, refresh, nonce, ticket, issued, req, client, counts, admission>>

(* Variant: only the age of the nonce row is compared. *)
SameNonceAge(r) == req[r].now < nonce.expires

(* The condition of RotateEndpointNonce's update. *)
SameNonce(r) == nonce.value = req[r].nonce /\ req[r].now < nonce.expires

RotateNonce(r) ==
    /\ req[r].at = "rotate"
    /\ IF SameNonce(r)
       THEN /\ PutNonce(r)
            /\ spent' = [spent EXCEPT ![req[r].nonce] = @ + 1]
            /\ req' = [req EXCEPT ![r].at = "grant", ![r].next = issued']
       ELSE req' = [req EXCEPT ![r] = Idle] /\ UNCHANGED <<nonce, issued, spent>>
    /\ UNCHANGED <<now, endpoint, access, refresh, replay, ticket, client, verified, opened, admission>>

-----------------------------------------------------------------------------
(* Refresh rotation: one transaction, under the endpoint's row lock, which a *)
(* revocation holds until it commits.                                        *)

Granted(r, kind) == req[r].at = "grant" /\ req[r].kind = kind

(* Variant: the status read before the proof was verified is trusted. *)
RotatableStale(r) == endpoint = "ACTIVE" /\ req[r].now < refresh[req[r].id].expires

Rotatable(r) == endpoint = "ACTIVE" /\ Live(refresh[req[r].id], req[r].now)

Reused(r) ==
    /\ endpoint = "ACTIVE" /\ refresh[req[r].id].status = "ROTATED"
    /\ req[r].now < refresh[req[r].id].expires

(* The tokens refreshToken generates for the next generation. *)
NextAccess(r) == [status |-> "ACTIVE", expires |-> req[r].now + AccessTTL]

NextRefresh(r) == [status |-> "ACTIVE", expires |-> req[r].now + RefreshTTL]

(* The family moves to its next generation; the response may be lost. *)
Rotate(r) ==
    LET n == Max(Generations) + 1 IN
    /\ Granted(r, "refresh") /\ ~ revoking /\ Rotatable(r) /\ n <= MaxTokens
    /\ \E k \in Generations : access[k].status = "ACTIVE"
    /\ access' = [Marked(access, {"ACTIVE"}, "ROTATED") EXCEPT ![n] = NextAccess(r)]
    /\ refresh' = [refresh EXCEPT ![req[r].id].status = "ROTATED", ![n] = NextRefresh(r)]
    /\ \/ held' = n /\ known' = req[r].next
       \/ UNCHANGED <<held, known>>
    /\ req' = [req EXCEPT ![r] = Idle]
    /\ UNCHANGED <<now, endpoint, nonce, replay, ticket, issued, proofs, counts, admission>>

(* Variant: the credential in use survives the reuse of an older one. *)
FamilyRotated == {"ROTATED"}

(* The refresh credentials that revokeCredentialFamily revokes. *)
FamilyStatuses == {"ACTIVE", "ROTATED"}

(* A rotated refresh credential is presented again: the family is revoked. *)
Reuse(r) ==
    /\ Granted(r, "refresh") /\ ~ revoking /\ Reused(r)
    /\ access' = Marked(access, {"ACTIVE"}, "REVOKED")
    /\ refresh' = Marked(refresh, FamilyStatuses, "REVOKED")
    /\ req' = [req EXCEPT ![r] = Idle]
    /\ UNCHANGED <<now, endpoint, nonce, replay, ticket, issued, client, counts, admission>>

(* The endpoint or the family was revoked or suspended after it was inspected. *)
RefuseRefresh(r) ==
    /\ Granted(r, "refresh") /\ ~ revoking /\ ~ Rotatable(r) /\ ~ Reused(r)
    /\ req' = [req EXCEPT ![r] = Idle]
    /\ UNCHANGED <<now, rows, client, counts, admission>>

-----------------------------------------------------------------------------
(* Variant: the ticket is not tied to a credential. *)
NoCredential(r) == 0

(* The credential issueTicket binds the ticket to. *)
TicketCredential(r) == req[r].id

(* CreateTicket: an insert that looks at nothing else. *)
CreateTicket(r, t) ==
    /\ Granted(r, "ticket") /\ ticket[t].status = "NONE"
    /\ ticket' = [ticket EXCEPT ![t] = [status |-> "ISSUED", id |-> TicketCredential(r),
                                        expires |-> req[r].now + TicketTTL]]
    /\ late' = IF revoking THEN late \cup {t} ELSE late
    /\ Respond(r, req[r].next)
    /\ UNCHANGED <<now, endpoint, access, refresh, nonce, replay, issued, proofs, held, counts,
                   revoking, marked, challenged, ready>>

(* A session request is authenticated; what it then does is SessionStore's. *)
Authenticated(r) ==
    /\ Granted(r, "session")
    /\ Respond(r, req[r].next)
    /\ UNCHANGED <<now, rows, proofs, held, counts, admission>>

(* InspectTicket. *)
BeginConnect(r, t) ==
    /\ req[r] = Idle
    /\ ticket[t].status = "ISSUED" /\ now < ticket[t].expires
    /\ req' = [req EXCEPT ![r] = [kind |-> "connect", at |-> "credential", now |-> now, id |-> t,
                                  proof |-> NoProof, nonce |-> 0, next |-> 0]]
    /\ UNCHANGED <<now, rows, client, counts, admission>>

(* GetEndpointCredential, for the credential the ticket was issued to. *)
CheckCredential(r) ==
    /\ req[r].at = "credential"
    /\ IF endpoint = "ACTIVE" /\ Live(access[ticket[req[r].id].id], req[r].now)
       THEN req' = [req EXCEPT ![r].at = "consume"] ELSE req' = [req EXCEPT ![r] = Idle]
    /\ UNCHANGED <<now, rows, client, counts, admission>>

(* Variant: what InspectTicket read is trusted. *)
ConsumableOnceInspected(t) == ticket[t].status \in {"ISSUED", "CONSUMED"}

(* ConsumeTicket reads the status again under the ticket's row lock, for *)
(* which it waits while a revocation holds it.                           *)
Consumable(t) == ticket[t].status = "ISSUED"

ConsumeTicket(r) ==
    LET t == req[r].id IN
    /\ req[r].at = "consume" /\ t \notin marked
    /\ IF Consumable(t)
       THEN /\ ticket' = [ticket EXCEPT ![t].status = "CONSUMED"]
            /\ opened' = [opened EXCEPT ![t] = @ + 1]
            /\ challenged' = challenged \cup {t}
       ELSE UNCHANGED <<ticket, opened, challenged>>
    /\ req' = [req EXCEPT ![r] = Idle]
    /\ UNCHANGED <<now, endpoint, access, refresh, nonce, replay, issued, client, verified, spent,
                   revoking, marked, late, ready>>

(* Variant: the presence of the endpoint is recorded whatever its status. *)
PresentAlways == TRUE

(* The condition of MarkEndpointSeen's update. *)
Present == endpoint = "ACTIVE"

(* After the challenge, MarkEndpointSeen updates the endpoint's row, and so *)
(* waits for a revocation in progress; without it the WebSocket is closed.  *)
MarkSeen(t) ==
    /\ t \in challenged /\ ~ revoking
    /\ challenged' = challenged \ {t}
    /\ ready' = IF Present THEN ready \cup {t} ELSE ready
    /\ UNCHANGED <<now, rows, req, client, counts, revoking, marked, late>>

(* The challenge fails or times out, or the client goes away. *)
CloseSocket(t) ==
    /\ t \in challenged /\ challenged' = challenged \ {t}
    /\ UNCHANGED <<now, rows, req, client, counts, revoking, marked, late, ready>>

-----------------------------------------------------------------------------
(* RevokeEndpointForOwner: one READ COMMITTED transaction that holds the    *)
(* endpoint's row lock. Revoking a revoked endpoint runs the cascade again. *)

(* Variant: the tickets of a revoked endpoint stay issued. *)
TicketsKept == {}

(* The tickets its update finds; one inserted afterwards is not among them. *)
TicketsRevoked == {t \in DOMAIN ticket : ticket[t].status = "ISSUED"}

(* Its updates, the one of the tickets last: no other request sees them yet. *)
RevokeTickets ==
    /\ ~ revoking /\ revoking' = TRUE /\ marked' = TicketsRevoked
    /\ UNCHANGED <<now, rows, req, client, counts, late, challenged, ready>>

(* COMMIT. *)
Revoke ==
    /\ revoking /\ revoking' = FALSE /\ marked' = {} /\ late' = late \ marked
    /\ endpoint' = "REVOKED"
    /\ access' = Marked(access, {"ACTIVE"}, "REVOKED")
    /\ refresh' = Marked(refresh, {"ACTIVE"}, "REVOKED")
    /\ ticket' = [t \in DOMAIN ticket |->
                    IF t \in marked THEN [ticket[t] EXCEPT !.status = "REVOKED"] ELSE ticket[t]]
    /\ UNCHANGED <<now, nonce, replay, issued, req, client, counts, challenged, ready>>

(* A later statement fails, or the gateway stops. *)
Rollback ==
    /\ revoking /\ revoking' = FALSE /\ marked' = {}
    /\ UNCHANGED <<now, rows, req, client, counts, late, challenged, ready>>

(* UpdateEndpointForOwner: Endpoint.Suspend and Endpoint.Resume. *)
SuspendOrResume ==
    /\ ~ revoking
    /\ \/ endpoint = "ACTIVE" /\ endpoint' = "SUSPENDED"
       \/ endpoint = "SUSPENDED" /\ endpoint' = "ACTIVE"
    /\ UNCHANGED <<now, access, refresh, nonce, replay, ticket, issued, req, client, counts, admission>>

(* The client goes away or the gateway stops between two statements. *)
Abort(r) ==
    /\ req[r] # Idle
    /\ req' = [req EXCEPT ![r] = Idle]
    /\ UNCHANGED <<now, rows, client, counts, admission>>

(* No request outlasts MaxStall: the HTTP server's timeouts are half the skew. *)
Tick ==
    /\ now < MaxTime /\ now' = now + 1
    /\ \A r \in Requests : req[r] # Idle => now' - req[r].now <= MaxStall
    /\ UNCHANGED <<rows, req, client, counts, admission>>

Next ==
    \/ \E r \in Requests :
        \/ \E kind \in Kinds, skew \in Skews : Send(r, kind, skew)
        \/ \E p \in proofs : Resend(r, p)
        \/ ReadNonce(r) \/ WriteNonceChallenge(r) \/ Verify(r) \/ Reject(r) \/ RotateNonce(r)
        \/ Rotate(r) \/ Reuse(r) \/ RefuseRefresh(r) \/ Authenticated(r)
        \/ \E t \in DOMAIN ticket : CreateTicket(r, t) \/ BeginConnect(r, t)
        \/ CheckCredential(r) \/ ConsumeTicket(r) \/ Abort(r)
    \/ \E t \in DOMAIN ticket : MarkSeen(t) \/ CloseSocket(t)
    \/ Sweep \/ RevokeTickets \/ Revoke \/ Rollback \/ SuspendOrResume \/ Tick

Spec == Init /\ [][Next]_vars

-----------------------------------------------------------------------------
CredentialStatus == {"NONE", "ACTIVE", "ROTATED", "REVOKED"}

(* Every variable has its type, and an issued ticket names a credential. *)
TypeOK ==
    /\ now \in 0 .. MaxTime /\ endpoint \in {"ACTIVE", "SUSPENDED", "REVOKED"}
    /\ \A k \in 1 .. MaxTokens : {access[k].status, refresh[k].status} \subseteq CredentialStatus
    /\ nonce.value \in 0 .. issued /\ issued \in 0 .. MaxNonces
    /\ \A x \in replay : x.jti \in 1 .. MaxProofs
    /\ \A t \in DOMAIN ticket :
        \/ ticket[t].status = "NONE"
        \/ ticket[t].status \in {"ISSUED", "CONSUMED", "REVOKED"} /\ ticket[t].id \in Generations
    /\ \A r \in Requests : req[r].at \in {"idle", "nonce", "challenge", "verify", "rotate", "grant",
                                          "credential", "consume"}
    /\ held \in Generations /\ known \in 0 .. issued
    /\ revoking \in BOOLEAN /\ marked \cup late \cup challenged \cup ready \subseteq DOMAIN ticket

(* RotateRefreshCredential keeps one line of descent: however many refresh   *)
(* requests race, at most one generation is ACTIVE, and its access and its   *)
(* refresh credential are ACTIVE together.                                   *)
Lineage ==
    /\ \A j, k \in 1 .. MaxTokens :
        refresh[j].status = "ACTIVE" /\ refresh[k].status = "ACTIVE" => j = k
    /\ \A k \in 1 .. MaxTokens : access[k].status = "ACTIVE" <=> refresh[k].status = "ACTIVE"

(* Once the endpoint is revoked, or any refresh credential of the family is, *)
(* no credential of the family is ACTIVE: neither the rotation of a request  *)
(* in flight nor a later one brings the family back.                         *)
RevokedIsDead ==
    (endpoint = "REVOKED" \/ \E k \in 1 .. MaxTokens : refresh[k].status = "REVOKED")
        => \A k \in 1 .. MaxTokens : "ACTIVE" \notin {access[k].status, refresh[k].status}

(* A proof is accepted once. A replay row may only be deleted when no request *)
(* that still accepts the proof by its age can be running: UseDPoPReplay and  *)
(* Verify compute the two ends of that window separately.                     *)
ProofOnce == \A j \in 1 .. MaxProofs : verified[j] <= 1

(* A nonce is exchanged once, although every request reads it long before the *)
(* update of RotateEndpointNonce and challenges overwrite it at any time.     *)
NonceOnce == \A n \in 1 .. MaxNonces : spent[n] <= 1

(* A ticket opens one WebSocket, however many connection requests inspected it. *)
TicketOnce == \A t \in 1 .. MaxTickets : opened[t] <= 1

(* Once the endpoint is revoked no WebSocket of it becomes ready, and the only *)
(* ticket that is still consumed is one inserted while the revocation was      *)
(* between its update of the tickets and its commit: not an older one whose    *)
(* credential was checked before the commit, nor one issued after it by a      *)
(* request that the revocation overtook.                                       *)
RevokedNeverReady ==
    [][endpoint = "REVOKED" =>
        /\ ready' = ready
        /\ \A t \in 1 .. MaxTickets : opened'[t] # opened[t] => t \in late]_vars
=============================================================================
