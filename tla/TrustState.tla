----------------------------- MODULE TrustState -----------------------------
(***************************************************************************)
(* The gateway's trust: the signer file that survives its restarts         *)
(* (LoadOrCreateTrustState), the manifest it signs and caches              *)
(* (currentTrustManifest), and the clients that pin what they verified and *)
(* then meet the gateway's challenge (verify_and_pin, open_websocket, and  *)
(* pinTrustRoot of the HC, which applies the same rule).                   *)
(*                                                                         *)
(* keys numbers the pairs of root and online signers that were generated;  *)
(* 0 stands for none. A temporary file that a crash leaves behind is never *)
(* read, so writing the file is the step of its rename.                    *)
(***************************************************************************)
EXTENDS Integers

CONSTANTS Procs,            \* gateway processes of the node
          ABAs, HCs,        \* the clients
          TTL,              \* trustManifestTTL
          RefreshInterval,  \* trustManifestRefreshInterval
          RetryInterval,    \* trustManifestRetryInterval
          Timeout,          \* of the clients' HTTP requests
          MaxRevision,      \* the largest uint64
          MaxKeys, MaxTime  \* bounds

ASSUME TrustAssumption ==
    /\ {TTL, RefreshInterval, RetryInterval, MaxRevision, MaxKeys} \subseteq Nat \ {0}
    /\ Timeout \in Nat /\ RefreshInterval + Timeout <= TTL /\ MaxTime \in Nat

VARIABLES
    now,
    file,   \* the signer file
    made,   \* how many pairs of signers have been generated
    proc,   \* the gateway processes
    pin,    \* what each client has pinned
    call    \* each client's attempt to connect

vars == <<now, file, made, proc, pin, call>>

Clients == ABAs \cup HCs

(* trustState: the file, and a manifest, which clients pin. *)
NoFile == [keys |-> 0, revision |-> 0]
NoManifest == [keys |-> 0, revision |-> 0, expires |-> 0]

(* TrustBundle, with the manifest cached by Server: its expiry, when it is to be *)
(* refreshed, and whether the last refresh failed.                               *)
Process(at, keys, revision, expires, refresh, failed) ==
    [at |-> at, keys |-> keys, revision |-> revision, expires |-> expires, refresh |-> refresh, failed |-> failed]

Down == Process("down", 0, 0, 0, 0, FALSE)

(* A client's attempt to connect: t is the time the gateway read for its manifest *)
(* request, kept that the manifest was served after a failed refresh, and met the *)
(* revision of the gateway's challenge.                                           *)
Attempt(at, on, t, manifest, kept, met) ==
    [at |-> at, on |-> on, t |-> t, manifest |-> manifest, kept |-> kept, met |-> met]

Idle == Attempt("idle", "none", 0, NoManifest, FALSE, 0)

(* readTrustState finds a whole state or, before the first write, none. *)
Readable == file # NoFile

(* The bundle that LoadOrCreateTrustState returns. *)
Loaded(keys, revision) == Process("loaded", keys, revision, 0, 0, FALSE)

Serving(p) == proc[p].at = "serving"

Init ==
    /\ now = 0 /\ file = NoFile /\ made = 0
    /\ proc = [p \in Procs |-> Down]
    /\ pin = [c \in Clients |-> NoManifest]
    /\ call = [c \in Clients |-> Idle]

-----------------------------------------------------------------------------
(* LoadOrCreateTrustState reads the file or generates signers, and takes the next *)
(* revision. It owns the file: starts do not overlap, though an earlier process  *)
(* may still serve.                                                               *)
Load(p) ==
    /\ proc[p] = Down /\ \A q \in Procs : proc[q].at \notin {"loaded", "written"}
    /\ \/ /\ ~ Readable /\ made < MaxKeys /\ made' = made + 1
          /\ proc' = [proc EXCEPT ![p] = Loaded(made', 1)]
       \/ /\ Readable /\ file.revision # MaxRevision /\ UNCHANGED made
          /\ proc' = [proc EXCEPT ![p] = Loaded(file.keys, file.revision + 1)]
    /\ UNCHANGED <<now, file, pin, call>>

(* writeTrustState: the rename makes the new state durable. *)
WriteTrustState(p) ==
    /\ proc[p].at = "loaded"
    /\ file' = [keys |-> proc[p].keys, revision |-> proc[p].revision]
    /\ proc' = [proc EXCEPT ![p] = Process("written", proc[p].keys, proc[p].revision, 0, 0, FALSE)]
    /\ UNCHANGED <<now, made, pin, call>>

(* Variant: the process listens before its state is durable. *)
ListenableEarly(p) == proc[p].at \in {"loaded", "written"}

Listenable(p) == proc[p].at = "written"

(* The expiry of a manifest signed at t. *)
ManifestAt(t) == t + TTL

(* Variant: two processes share the address. *)
TakenNever == FALSE

(* The listening address belongs to one process at a time. *)
Taken == \E q \in Procs : Serving(q)

(* NewHandler signs the first manifest; ListenAndServe ends the process when *)
(* another one still has the address.                                        *)
Listen(p) ==
    /\ Listenable(p)
    /\ proc' = [proc EXCEPT ![p] =
                  IF Taken THEN Down
                  ELSE Process("serving", proc[p].keys, proc[p].revision, ManifestAt(now), now + RefreshInterval, FALSE)]
    /\ UNCHANGED <<now, file, made, pin, call>>

(* The process ends, at any point: requests in progress and connections fail. *)
Crash(p) ==
    /\ proc[p] # Down
    /\ proc' = [proc EXCEPT ![p] = Down]
    /\ call' = [c \in Clients |->
                  IF call[c].at \in {"asked", "connected"} /\ call[c].on = p THEN Idle ELSE call[c]]
    /\ UNCHANGED <<now, file, made, pin>>

-----------------------------------------------------------------------------
(* A client asks for the manifest and the handler reads the clock. *)
Ask(c) ==
    /\ call[c] = Idle
    /\ \E p \in Procs :
          /\ Serving(p)
          /\ call' = [call EXCEPT ![c] = Attempt("asked", p, now, NoManifest, FALSE, 0)]
    /\ UNCHANGED <<now, file, made, proc, pin>>

(* The manifest of process p with the expiry given. *)
Manifest(p, expires) == [keys |-> proc[p].keys, revision |-> proc[p].revision, expires |-> expires]

Answered(c, manifest, kept) ==
    call' = [call EXCEPT ![c] = Attempt("answered", call[c].on, call[c].t, manifest, kept, 0)]

(* The process caches a manifest, or keeps the one it has, until refresh. *)
Cached(p, expires, refresh, failed) ==
    proc' = [proc EXCEPT ![p] = Process("serving", proc[p].keys, proc[p].revision, expires, refresh, failed)]

(* Variant: the manifest is refreshed when it expires. *)
FreshUntilExpiry(p, t) == t < proc[p].expires

(* The cached manifest is served until it is time to refresh it. *)
Fresh(p, t) == t < proc[p].refresh

(* currentTrustManifest, holding manifestMu: the cached manifest is fresh, ... *)
AnswerCached(c) ==
    LET p == call[c].on IN
    /\ call[c].at = "asked" /\ Fresh(p, call[c].t)
    /\ Answered(c, Manifest(p, proc[p].expires), proc[p].failed)
    /\ UNCHANGED <<now, file, made, proc, pin>>

(* Variant: an expired manifest is not signed again. *)
AnswerSignedValid(c) ==
    LET p == call[c].on
        t == call[c].t IN
    /\ call[c].at = "asked" /\ ~ Fresh(p, t) /\ t < proc[p].expires
    /\ Cached(p, ManifestAt(t), t + RefreshInterval, FALSE)
    /\ Answered(c, Manifest(p, ManifestAt(t)), FALSE)
    /\ UNCHANGED <<now, file, made, pin>>

(* ... or signed again for the time the handler read, ... *)
AnswerSigned(c) ==
    LET p == call[c].on
        t == call[c].t IN
    /\ call[c].at = "asked" /\ ~ Fresh(p, t)
    /\ Cached(p, ManifestAt(t), t + RefreshInterval, FALSE)
    /\ Answered(c, Manifest(p, ManifestAt(t)), FALSE)
    /\ UNCHANGED <<now, file, made, pin>>

(* ... or cannot be signed: the cached one is kept while it is valid, and after *)
(* that the answer is 503, which the client retries.                            *)
AnswerUnsigned(c) ==
    LET p == call[c].on
        t == call[c].t IN
    /\ call[c].at = "asked" /\ ~ Fresh(p, t)
    /\ \/ /\ t < proc[p].expires
          /\ Cached(p, proc[p].expires, t + RetryInterval, TRUE)
          /\ Answered(c, Manifest(p, proc[p].expires), TRUE)
       \/ /\ t >= proc[p].expires
          /\ call' = [call EXCEPT ![c] = Idle] /\ UNCHANGED proc
    /\ UNCHANGED <<now, file, made, pin>>

(* pin_gateway_trust, pinTrustRoot: the root stays, the revision does not go back, *)
(* and within a revision neither the signer changes nor the expiry goes back.      *)
Acceptable(old, new) ==
    \/ old.keys = 0
    \/ /\ new.keys = old.keys
       /\ new.revision > old.revision \/ (new.revision = old.revision /\ new.expires >= old.expires)

(* verify_and_pin: a manifest that is expired or contradicts the pin is refused. *)
Verified(c) == call[c].manifest.expires > now /\ Acceptable(pin[c], call[c].manifest)

VerifyAndPin(c) ==
    /\ call[c].at = "answered"
    /\ \/ /\ Verified(c)
          /\ pin' = [pin EXCEPT ![c] = call[c].manifest]
          /\ call' = [call EXCEPT ![c] = Attempt("trusting", "none", 0, call[c].manifest, FALSE, 0)]
       \/ /\ ~ Verified(c) /\ UNCHANGED pin
          /\ call' = [call EXCEPT ![c] = Attempt("refused", "none", 0, call[c].manifest, call[c].kept, 0)]
    /\ UNCHANGED <<now, file, made, proc>>

(* open_websocket against performChallenge: the challenge must name the revision *)
(* of the manifest and be signed by its online key; without a gateway the client *)
(* tries again.                                                                  *)
OpenWebSocket(c) ==
    /\ call[c].at = "trusting"
    /\ \/ \E p \in Procs :
            /\ Serving(p)
            /\ IF proc[p].revision = call[c].manifest.revision /\ proc[p].keys = call[c].manifest.keys
               THEN call' = [call EXCEPT ![c] = Attempt("connected", p, 0, call[c].manifest, FALSE, 0)]
               ELSE call' = [call EXCEPT ![c] = Attempt("mismatch", "none", 0, call[c].manifest, FALSE, proc[p].revision)]
       \/ /\ \A p \in Procs : ~ Serving(p)
          /\ call' = [call EXCEPT ![c] = Idle]
    /\ UNCHANGED <<now, file, made, proc, pin>>

(* The HTTP request fails, after Timeout at the latest, or the connection is lost: *)
(* the ABA sleeps and tries again, the HC waits for its user.                      *)
Retry(c) ==
    /\ call[c].at \in {"asked", "answered", "connected"}
    /\ call' = [call EXCEPT ![c] = Idle]
    /\ UNCHANGED <<now, file, made, proc, pin>>

(* An error that is not retried ends the ABA process, or is shown by the HC: *)
(* somebody starts it again, with the pin it stored.                         *)
StartAgain(c) ==
    /\ call[c].at \in {"refused", "mismatch"}
    /\ call' = [call EXCEPT ![c] = Idle]
    /\ UNCHANGED <<now, file, made, proc, pin>>

(* A request that reached its timeout fails before time goes on. *)
Tick ==
    /\ now < MaxTime /\ now' = now + 1
    /\ \A c \in Clients : call[c].at \in {"asked", "answered"} => now < call[c].t + Timeout
    /\ UNCHANGED <<file, made, proc, pin, call>>

Answer(c) == AnswerCached(c) \/ AnswerSigned(c) \/ AnswerUnsigned(c)
Connect(c) == Ask(c) \/ Answer(c) \/ VerifyAndPin(c) \/ OpenWebSocket(c)

Next ==
    \/ Tick
    \/ \E p \in Procs : Load(p) \/ WriteTrustState(p) \/ Listen(p) \/ Crash(p)
    \/ \E c \in Clients : Connect(c) \/ Retry(c) \/ StartAgain(c)

Spec == Init /\ [][Next]_vars

(* The ABA's loop goes on, however often it has to try; of the requests it makes for *)
(* ever, the signer does not fail every one, nor the network every answer. Nobody    *)
(* makes an HC connect: it does so when its page is opened or its user asks for it.  *)
Fairness ==
    \A c \in ABAs :
        /\ WF_vars(Ask(c)) /\ WF_vars(OpenWebSocket(c))
        /\ SF_vars(AnswerCached(c) \/ AnswerSigned(c)) /\ SF_vars(VerifyAndPin(c))

FairSpec == Spec /\ Fairness

-----------------------------------------------------------------------------
Files == [keys : 0 .. MaxKeys, revision : 0 .. MaxRevision]
Manifests == [keys : 0 .. MaxKeys, revision : 0 .. MaxRevision, expires : Nat]
Processes == [at : {"down", "loaded", "written", "serving"}, keys : 0 .. MaxKeys,
              revision : 0 .. MaxRevision, expires : Nat, refresh : Nat, failed : BOOLEAN]
Attempts == [at : {"idle", "asked", "answered", "trusting", "refused", "connected", "mismatch"},
             on : Procs \cup {"none"}, t : Nat, manifest : Manifests, kept : BOOLEAN, met : 0 .. MaxRevision]

(* Types, and one process at most serves (run, TrustBundle, TrustPin). *)
TypeOK ==
    /\ now \in 0 .. MaxTime /\ made \in 0 .. MaxKeys /\ file \in Files
    /\ proc \in [Procs -> Processes]
    /\ pin \in [Clients -> Manifests]
    /\ call \in [Clients -> Attempts]
    /\ \A p, q \in Procs : Serving(p) /\ Serving(q) => p = q

(* Through crashes at any point of a start, and starts beside a gateway that still *)
(* serves, every client can go on: the file has the keys each client pinned and no *)
(* lower revision, and the manifest of the gateway that serves is one that no pin  *)
(* contradicts (LoadOrCreateTrustState, currentTrustManifest, pin_gateway_trust).  *)
TrustContinues ==
    /\ \A c \in Clients : pin[c].keys # 0 =>
          pin[c].keys = file.keys /\ pin[c].revision <= file.revision
    /\ \A c \in Clients, p \in Procs : Serving(p) => Acceptable(pin[c], Manifest(p, proc[p].expires))

(* A client refuses the gateway for two reasons only: the manifest was kept beyond *)
(* a failed refresh until it expired, or the gateway was restarted after it served *)
(* the manifest and challenges with a higher revision (verify_and_pin,             *)
(* open_websocket, currentTrustManifest).                                          *)
RefusalsHaveReasons ==
    \A c \in Clients :
        /\ call[c].at = "refused" => call[c].kept /\ call[c].manifest.expires <= now
        /\ call[c].at = "mismatch" => call[c].met > call[c].manifest.revision

(* While a gateway serves, an ABA ends up connected or with an error that is not     *)
(* retried, however often its requests fail before: an expired manifest is signed    *)
(* again, so that 503 answers end when the signer works, and no answer sends the ABA *)
(* back to the start of its loop (GatewayClient::run, connect, currentTrustManifest). *)
Connects ==
    \A c \in ABAs :
        []<>((\E p \in Procs : Serving(p)) => call[c].at \in {"connected", "refused", "mismatch"})
=============================================================================
