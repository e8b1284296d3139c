-------------------------- MODULE TrustStateProofs --------------------------
(* Theorems about TrustState: trust that a client pinned is never lost, and a *)
(* client refuses the gateway for the stated reasons only.                    *)
EXTENDS TrustState, TLAPS

(* A process that starts has the next state to be written, or wrote the last. *)
ProcInv(p) ==
    /\ proc[p].at = "loaded" =>
          /\ proc[p].keys # 0 /\ proc[p].revision = file.revision + 1
          /\ file.keys # 0 => proc[p].keys = file.keys
    /\ proc[p].at = "written" => proc[p].keys = file.keys /\ proc[p].revision = file.revision
    /\ proc[p].at = "serving" => proc[p].keys = file.keys /\ proc[p].revision <= file.revision
    /\ proc[p].at \in {"written", "serving"} => proc[p].keys # 0 /\ proc[p].revision # 0

(* Starts do not overlap, and what is written but not served is ahead of the *)
(* process that serves.                                                      *)
StartInv(p, q) ==
    /\ proc[p].at \in {"loaded", "written"} /\ proc[q].at \in {"loaded", "written"} => p = q
    /\ proc[p].at = "serving" /\ proc[q].at = "serving" => p = q
    /\ proc[p].at = "written" /\ proc[q].at = "serving" => proc[q].revision < proc[p].revision

(* The cached manifest expires soon enough to be replaced by a later one, and, *)
(* unless a refresh failed, late enough for a delayed answer.                  *)
CacheInv(p) ==
    proc[p].at = "serving" =>
        /\ proc[p].expires <= proc[p].refresh + TTL
        /\ ~ proc[p].failed => proc[p].expires + RefreshInterval = proc[p].refresh + TTL

(* A manifest is nothing, or one of the file's keys. *)
Known(m) == m.keys \in {0, file.keys} /\ m.revision <= file.revision

(* Process p serves a manifest no older than m; while it only starts, m is older. *)
Behind(m, p) ==
    /\ proc[p].at = "written" => m.revision < proc[p].revision
    /\ proc[p].at = "serving" =>
          m.revision < proc[p].revision \/ (m.revision = proc[p].revision /\ m.expires <= proc[p].expires)

ClientInv(c) ==
    /\ Known(pin[c]) /\ Known(call[c].manifest)
    /\ \A p \in Procs : Behind(pin[c], p) /\ Behind(call[c].manifest, p)

CallInv(c) ==
    /\ call[c].at \in {"asked", "answered"} => call[c].t <= now /\ now <= call[c].t + Timeout
    /\ call[c].at = "asked" => call[c].on \in Procs /\ proc[call[c].on].at = "serving"
    /\ call[c].at = "answered" =>
          /\ Acceptable(pin[c], call[c].manifest)
          /\ ~ call[c].kept => call[c].manifest.expires > call[c].t + Timeout
    /\ call[c].at \in {"answered", "trusting"} => call[c].manifest.keys # 0
    /\ call[c].at = "refused" => call[c].kept /\ call[c].manifest.expires <= now
    /\ call[c].at = "mismatch" => call[c].met > call[c].manifest.revision

Typed ==
    /\ now \in 0 .. MaxTime /\ made \in 0 .. MaxKeys /\ file \in Files
    /\ proc \in [Procs -> Processes]
    /\ pin \in [Clients -> Manifests]
    /\ call \in [Clients -> Attempts]

TInv ==
    /\ Typed
    /\ file.keys = 0 <=> file.revision = 0
    /\ \A p \in Procs : ProcInv(p) /\ CacheInv(p)
    /\ \A p, q \in Procs : StartInv(p, q)
    /\ \A c \in Clients : ClientInv(c) /\ CallInv(c)
-----------------------------------------------------------------------------
(* The initial state satisfies the invariant. *)
LEMMA TInvInit == Init => TInv
<1> SUFFICES ASSUME Init PROVE TInv
    OBVIOUS
<1>1. Typed
    BY TrustAssumption DEF Init, Typed, NoFile, NoManifest, Down, Idle, Process, Attempt, Files, Manifests, Processes, Attempts
<1>2. file.keys = 0 /\ file.revision = 0
    BY DEF Init, NoFile
<1>3. \A p \in Procs : proc[p].at = "down"
    BY Zenon DEF Init, Down, Process
<1>4. \A c \in Clients : pin[c].keys = 0 /\ pin[c].revision = 0 /\ call[c].manifest.keys = 0
                         /\ call[c].manifest.revision = 0 /\ call[c].at = "idle"
    BY DEF Init, Idle, Attempt, NoManifest
<1>5. \A p, q \in Procs : ProcInv(p) /\ CacheInv(p) /\ StartInv(p, q)
    BY <1>3 DEF ProcInv, CacheInv, StartInv
<1>6. \A c \in Clients : ClientInv(c) /\ CallInv(c)
    BY <1>2, <1>3, <1>4 DEF ClientInv, CallInv, Known, Behind
<1> QED
    BY <1>1, <1>2, <1>5, <1>6 DEF TInv

(* Load, WriteTrustState, Listen and Crash of one process keep the invariant. *)
LEMMA LoadKeeps == ASSUME TInv, NEW p \in Procs, Load(p) PROVE TInv'
<1> USE TrustAssumption
<1>procs. \A q \in Procs : ProcInv(q)
    BY Zenon DEF TInv
<1>caches. \A q \in Procs : CacheInv(q)
    BY Zenon DEF TInv
<1>starts. \A q, s \in Procs : StartInv(q, s)
    BY Zenon DEF TInv
<1>clients. \A d \in Clients : ClientInv(d)
    BY Zenon DEF TInv
<1>calls. \A d \in Clients : CallInv(d)
    BY Zenon DEF TInv
<1>1. PICK k \in 1 .. MaxKeys, r \in 1 .. MaxRevision :
         /\ proc' = [proc EXCEPT ![p] = Loaded(k, r)]
         /\ r = file.revision + 1 /\ (file.keys # 0 => k = file.keys)
  <2>1. CASE ~ Readable
    <3>1. file.keys = 0 /\ file.revision = 0
        BY <2>1 DEF Readable, NoFile
    <3>2. made + 1 \in 1 .. MaxKeys /\ 1 \in 1 .. MaxRevision
        BY <2>1 DEF Load, TInv, Typed
    <3> QED
        BY <2>1, <3>1, <3>2 DEF Load
  <2>2. CASE Readable
    <3>1. file.keys # 0
        BY <2>2 DEF Readable, NoFile, TInv, Typed, Files
    <3>2. file.keys \in 1 .. MaxKeys /\ file.revision + 1 \in 1 .. MaxRevision
        BY <2>2, <3>1 DEF Load, TInv, Typed, Files
    <3> QED
        BY <2>2, <3>2 DEF Load
  <2> QED
      BY <2>1, <2>2
<1>2. made' \in 0 .. MaxKeys
    BY DEF Load, TInv, Typed
<1>3. now' = now /\ file' = file /\ pin' = pin /\ call' = call
    BY DEF Load
<1>4. proc' \in [Procs -> Processes]
    BY <1>1 DEF TInv, Typed, Loaded, Process, Processes
<1>5. proc'[p].at = "loaded" /\ proc'[p].keys = k /\ proc'[p].revision = r
    BY <1>1 DEF TInv, Typed, Loaded, Process
<1>6. \A q \in Procs : q # p => proc'[q] = proc[q] /\ proc[q].at \notin {"loaded", "written"}
    BY <1>1 DEF TInv, Typed, Load
<1>7. \A q \in Procs : ProcInv(q)' /\ CacheInv(q)'
    BY <1>1, <1>3, <1>5, <1>6, <1>procs, <1>caches DEF ProcInv, CacheInv
<1>8. \A q, s \in Procs : StartInv(q, s)'
    BY <1>5, <1>6, <1>starts DEF StartInv
<1>9. ASSUME NEW c \in Clients PROVE ClientInv(c)' /\ CallInv(c)'
  <2>1. ClientInv(c)'
      BY <1>3, <1>5, <1>6, <1>clients DEF ClientInv, Known, Behind
  <2>2. proc[p].at = "down"
      BY DEF Load, Down, Process
  <2>3. CallInv(c)'
      BY <1>3, <1>6, <2>2, <1>calls DEF CallInv, Acceptable
  <2> QED
      BY <2>1, <2>3
<1> QED
    BY <1>2, <1>3, <1>4, <1>7, <1>8, <1>9 DEF TInv, Typed

LEMMA WriteKeeps == ASSUME TInv, NEW p \in Procs, WriteTrustState(p) PROVE TInv'
<1> USE TrustAssumption
<1>procs. \A q \in Procs : ProcInv(q)
    BY Zenon DEF TInv
<1>caches. \A q \in Procs : CacheInv(q)
    BY Zenon DEF TInv
<1>starts. \A q, s \in Procs : StartInv(q, s)
    BY Zenon DEF TInv
<1>clients. \A d \in Clients : ClientInv(d)
    BY Zenon DEF TInv
<1>calls. \A d \in Clients : CallInv(d)
    BY Zenon DEF TInv
<1>1. proc[p].at = "loaded" /\ proc[p].keys # 0 /\ proc[p].revision = file.revision + 1
      /\ (file.keys # 0 => proc[p].keys = file.keys)
    BY <1>procs DEF WriteTrustState, ProcInv
<1>2. file'.keys = proc[p].keys /\ file'.revision = file.revision + 1 /\ file' \in Files
    BY <1>1 DEF WriteTrustState, TInv, Typed, Files, Processes
<1>3. now' = now /\ made' = made /\ pin' = pin /\ call' = call
    BY DEF WriteTrustState
<1>4. proc' \in [Procs -> Processes]
    BY DEF WriteTrustState, TInv, Typed, Process, Processes
<1>5. proc'[p].at = "written" /\ proc'[p].keys = proc[p].keys /\ proc'[p].revision = file.revision + 1
    BY <1>1 DEF WriteTrustState, TInv, Typed, Process
<1>6. \A q \in Procs : q # p => proc'[q] = proc[q] /\ proc[q].at \notin {"loaded", "written"}
    BY <1>1 DEF WriteTrustState, TInv, Typed, StartInv
<1>7. file.revision \in Nat /\ (\A q \in Procs : proc[q].revision \in Nat)
    BY DEF TInv, Typed, Files, Processes
<1>8. \A q \in Procs : ProcInv(q)' /\ CacheInv(q)'
    BY <1>1, <1>2, <1>5, <1>6, <1>7, <1>procs, <1>caches DEF ProcInv, CacheInv
<1>9. \A q, s \in Procs : StartInv(q, s)'
    BY <1>5, <1>6, <1>7, <1>procs, <1>starts DEF StartInv, ProcInv
<1>10. ASSUME NEW c \in Clients PROVE ClientInv(c)' /\ CallInv(c)'
  <2>1. pin[c].revision \in Nat /\ call[c].manifest.revision \in Nat
      BY DEF TInv, Typed, Manifests, Attempts
  <2>2. ClientInv(c)'
      BY <1>1, <1>2, <1>3, <1>5, <1>6, <1>7, <2>1, <1>clients DEF ClientInv, Known, Behind
  <2>3. CallInv(c)'
      BY <1>1, <1>3, <1>6, <1>calls DEF CallInv, Acceptable
  <2> QED
      BY <2>2, <2>3
<1>11. file'.keys # 0 /\ file'.revision # 0
    BY <1>1, <1>2, <1>7
<1> QED
    BY <1>2, <1>3, <1>4, <1>8, <1>9, <1>10, <1>11 DEF TInv, Typed

LEMMA ListenKeeps == ASSUME TInv, NEW p \in Procs, Listen(p) PROVE TInv'
<1> USE TrustAssumption
<1>procs. \A q \in Procs : ProcInv(q)
    BY Zenon DEF TInv
<1>caches. \A q \in Procs : CacheInv(q)
    BY Zenon DEF TInv
<1>starts. \A q, s \in Procs : StartInv(q, s)
    BY Zenon DEF TInv
<1>clients. \A d \in Clients : ClientInv(d)
    BY Zenon DEF TInv
<1>calls. \A d \in Clients : CallInv(d)
    BY Zenon DEF TInv
<1>1. proc[p].at = "written"
    BY DEF Listen, Listenable
<1>2. now' = now /\ made' = made /\ file' = file /\ pin' = pin /\ call' = call
    BY DEF Listen
<1>3. \A q \in Procs : q # p => proc'[q] = proc[q]
    BY DEF Listen, TInv, Typed
<1>4. \A c \in Clients : CallInv(c)'
    BY <1>1, <1>2, <1>3, <1>calls DEF CallInv, Acceptable
<1>5. CASE Taken
  <2>1. proc'[p] = Down /\ proc' \in [Procs -> Processes]
      BY <1>5 DEF Listen, TInv, Typed, Down, Process, Processes
  <2>2. proc'[p].at = "down"
      BY <2>1 DEF Down, Process
  <2>3. \A q, s \in Procs : ProcInv(q)' /\ CacheInv(q)' /\ StartInv(q, s)'
      BY <1>2, <1>3, <2>2, <1>procs, <1>caches, <1>starts DEF ProcInv, CacheInv, StartInv
  <2>4. \A c \in Clients : ClientInv(c)'
      BY <1>2, <1>3, <2>2, <1>clients DEF ClientInv, Known, Behind
  <2> QED
      BY <1>2, <1>4, <2>1, <2>3, <2>4 DEF TInv, Typed
<1>6. CASE ~ Taken
  <2>1. proc'[p] = Process("serving", proc[p].keys, proc[p].revision, now + TTL, now + RefreshInterval, FALSE)
      BY <1>6 DEF Listen, TInv, Typed, ManifestAt
  <2>2. proc' \in [Procs -> Processes]
      BY <1>6 DEF Listen, TInv, Typed, Process, Processes, ManifestAt
  <2>3. /\ proc'[p].at = "serving" /\ proc'[p].keys = proc[p].keys /\ proc'[p].revision = proc[p].revision
        /\ proc'[p].expires = now + TTL /\ proc'[p].refresh = now + RefreshInterval
      BY <2>1 DEF Process
  <2>4. \A q \in Procs : q # p => proc[q].at \notin {"loaded", "written", "serving"}
      BY <1>1, <1>6, <1>starts DEF Taken, Serving, StartInv
  <2>5. now \in Nat /\ file.revision \in Nat /\ proc[p].revision \in Nat
      BY DEF TInv, Typed, Files, Processes
  <2>6. \A q \in Procs : ProcInv(q)' /\ CacheInv(q)'
      BY <1>1, <1>2, <1>3, <2>3, <2>4, <2>5, <1>procs, <1>caches DEF ProcInv, CacheInv
  <2>7. \A q, s \in Procs : StartInv(q, s)'
      BY <1>3, <2>3, <2>4, <1>starts DEF StartInv
  <2>8. \A c \in Clients : ClientInv(c)'
      BY <1>1, <1>2, <1>3, <2>3, <2>4, <1>clients DEF ClientInv, Known, Behind
  <2> QED
      BY <1>2, <1>4, <2>2, <2>6, <2>7, <2>8 DEF TInv, Typed
<1> QED
    BY <1>5, <1>6

LEMMA CrashKeeps == ASSUME TInv, NEW p \in Procs, Crash(p) PROVE TInv'
<1>procs. \A q \in Procs : ProcInv(q)
    BY Zenon DEF TInv
<1>caches. \A q \in Procs : CacheInv(q)
    BY Zenon DEF TInv
<1>starts. \A q, s \in Procs : StartInv(q, s)
    BY Zenon DEF TInv
<1>clients. \A d \in Clients : ClientInv(d)
    BY Zenon DEF TInv
<1>calls. \A d \in Clients : CallInv(d)
    BY Zenon DEF TInv
<1>1. now' = now /\ made' = made /\ file' = file /\ pin' = pin
    BY DEF Crash
<1>2. proc' \in [Procs -> Processes] /\ proc'[p].at = "down"
    BY TrustAssumption DEF Crash, TInv, Typed, Down, Process, Processes
<1>3. \A q \in Procs : q # p => proc'[q] = proc[q]
    BY DEF Crash, TInv, Typed
<1>4. \A q, s \in Procs : ProcInv(q)' /\ CacheInv(q)' /\ StartInv(q, s)'
    BY <1>1, <1>2, <1>3, <1>procs, <1>caches, <1>starts DEF ProcInv, CacheInv, StartInv
<1>5. call' \in [Clients -> Attempts]
    BY TrustAssumption DEF Crash, TInv, Typed, Idle, Attempt, NoManifest, Attempts, Manifests
<1>6. ASSUME NEW c \in Clients PROVE ClientInv(c)' /\ CallInv(c)'
  <2>1. CASE call'[c] = Idle
    <3>1. call'[c].at = "idle" /\ call'[c].manifest.keys = 0 /\ call'[c].manifest.revision = 0
        BY <2>1 DEF Idle, Attempt, NoManifest
    <3>2. \A q \in Procs : proc[q].at \in {"written", "serving"} => 0 < proc[q].revision
        BY DEF TInv, Typed, Processes, ProcInv
    <3>3. file.revision \in Nat
        BY DEF TInv, Typed, Files
    <3>4. ClientInv(c)'
        BY <1>1, <1>2, <1>3, <3>1, <3>2, <3>3, <1>clients DEF ClientInv, Known, Behind
    <3> QED
        BY <3>1, <3>4 DEF CallInv
  <2>2. CASE call'[c] = call[c] /\ ~ (call[c].at = "asked" /\ call[c].on = p)
    <3>1. ClientInv(c)'
        BY <1>1, <1>2, <1>3, <2>2, <1>clients DEF ClientInv, Known, Behind
    <3>2. CallInv(c)'
        BY <1>1, <1>2, <1>3, <2>2, <1>calls DEF CallInv, Acceptable
    <3> QED
        BY <3>1, <3>2
  <2> QED
      BY <2>1, <2>2 DEF Crash
<1> QED
    BY <1>1, <1>2, <1>4, <1>5, <1>6 DEF TInv, Typed

-----------------------------------------------------------------------------
(* A client's step that leaves the gateway alone keeps the invariant when what it *)
(* makes of the client's own attempt and pin does.                                *)
LEMMA ClientKeeps ==
    ASSUME TInv, NEW c \in Clients, NEW a \in Attempts, NEW m \in Manifests,
           now' = now, made' = made, file' = file, proc' = proc,
           pin' = [pin EXCEPT ![c] = m], call' = [call EXCEPT ![c] = a],
           ClientInv(c)', CallInv(c)'
    PROVE  TInv'
<1>procs. \A q \in Procs : ProcInv(q)
    BY Zenon DEF TInv
<1>caches. \A q \in Procs : CacheInv(q)
    BY Zenon DEF TInv
<1>starts. \A q, s \in Procs : StartInv(q, s)
    BY Zenon DEF TInv
<1>clients. \A d \in Clients : ClientInv(d)
    BY Zenon DEF TInv
<1>calls. \A d \in Clients : CallInv(d)
    BY Zenon DEF TInv
<1>1. pin' \in [Clients -> Manifests] /\ call' \in [Clients -> Attempts]
    BY DEF TInv, Typed
<1>2. \A p, q \in Procs : ProcInv(p)' /\ CacheInv(p)' /\ StartInv(p, q)'
    BY <1>procs, <1>caches, <1>starts, Zenon DEF ProcInv, CacheInv, StartInv
<1>3. ASSUME NEW d \in Clients, d # c PROVE ClientInv(d)' /\ CallInv(d)'
  <2>1. pin'[d] = pin[d] /\ call'[d] = call[d]
      BY <1>3 DEF TInv, Typed
  <2>2. ClientInv(d)'
      BY <2>1, <1>clients, Zenon DEF ClientInv, Known, Behind
  <2>3. Acceptable(pin[d], call[d].manifest)' <=> Acceptable(pin[d], call[d].manifest)
      BY <2>1, Zenon DEF Acceptable
  <2>4. CallInv(d)'
      BY <2>1, <2>3, <1>calls, ZenonT(30) DEF CallInv
  <2> QED
      BY <2>2, <2>4
<1> QED
    BY <1>1, <1>2, <1>3 DEF TInv, Typed

(* A client without a manifest satisfies the invariant. *)
LEMMA BackToIdle ==
    ASSUME TInv, NEW c \in Clients, UNCHANGED <<now, file, made, proc, pin>>,
           call' = [call EXCEPT ![c] = Idle]
    PROVE  TInv'
<1>clients. \A d \in Clients : ClientInv(d)
    BY Zenon DEF TInv
<1>1. Idle \in Attempts
    BY TrustAssumption DEF Idle, Attempt, NoManifest, Attempts, Manifests
<1>2. call'[c].at = "idle" /\ call'[c].manifest.keys = 0 /\ call'[c].manifest.revision = 0
    BY DEF Idle, Attempt, NoManifest, TInv, Typed
<1>3. \A q \in Procs : proc[q].at \in {"written", "serving"} => 0 < proc[q].revision
    BY DEF TInv, Typed, Processes, ProcInv
<1>4. file.revision \in Nat /\ pin[c] \in Manifests /\ pin' = [pin EXCEPT ![c] = pin[c]]
    BY DEF TInv, Typed, Files
<1>5. ClientInv(c)'
    BY <1>2, <1>3, <1>4, <1>clients DEF ClientInv, Known, Behind
<1>6. CallInv(c)'
    BY <1>2 DEF CallInv
<1> QED
    BY <1>1, <1>4, <1>5, <1>6, ClientKeeps, Zenon

LEMMA AskKeeps == ASSUME TInv, NEW c \in Clients, Ask(c) PROVE TInv'
<1>clients. \A d \in Clients : ClientInv(d)
    BY Zenon DEF TInv
<1>1. PICK p \in Procs : Serving(p) /\ call' = [call EXCEPT ![c] = Attempt("asked", p, now, NoManifest, FALSE, 0)]
    BY Zenon DEF Ask
<1> DEFINE a == Attempt("asked", p, now, NoManifest, FALSE, 0)
<1>2. a \in Attempts
    BY TrustAssumption DEF Attempt, NoManifest, Attempts, Manifests, TInv, Typed
<1>3. /\ call'[c].at = "asked" /\ call'[c].on = p /\ call'[c].t = now
      /\ call'[c].manifest.keys = 0 /\ call'[c].manifest.revision = 0
    BY <1>1 DEF Attempt, NoManifest, TInv, Typed
<1>4. \A q \in Procs : proc[q].at \in {"written", "serving"} => 0 < proc[q].revision
    BY DEF TInv, Typed, Processes, ProcInv
<1>5. file.revision \in Nat /\ pin[c] \in Manifests /\ pin' = [pin EXCEPT ![c] = pin[c]]
    BY DEF TInv, Typed, Files, Ask
<1>6. now \in Nat /\ now' = now /\ made' = made /\ file' = file /\ proc' = proc /\ pin' = pin
    BY DEF Ask, TInv, Typed
<1>7. ClientInv(c)'
    BY <1>3, <1>4, <1>5, <1>6, <1>clients DEF ClientInv, Known, Behind
<1>8. CallInv(c)'
  <2>1. now <= now /\ now <= now + Timeout
      BY <1>6, TrustAssumption
  <2>2. proc'[p].at = "serving" /\ call'[c].at = "asked" /\ call'[c].on = p /\ call'[c].t = now /\ now' = now
      BY <1>1, <1>3, <1>6, Zenon DEF Serving
  <2> QED
      BY <2>1, <2>2 DEF CallInv
<1> QED
    BY <1>1, <1>2, <1>5, <1>6, <1>7, <1>8, ClientKeeps, Zenon

LEMMA VerifyKeeps == ASSUME TInv, NEW c \in Clients, VerifyAndPin(c) PROVE TInv'
<1>clients. \A d \in Clients : ClientInv(d)
    BY Zenon DEF TInv
<1>1. now' = now /\ made' = made /\ file' = file /\ proc' = proc /\ call[c].at = "answered"
    BY DEF VerifyAndPin
<1>2. PICK m \in Manifests : m = call[c].manifest
    BY DEF TInv, Typed, Attempts
<1>3. pin[c] \in Manifests /\ m.keys # 0 /\ Acceptable(pin[c], m)
    BY <1>1, <1>2, Zenon DEF TInv, Typed, CallInv
<1>kept. call[c].kept \in BOOLEAN
    BY Zenon DEF TInv, Typed, Attempts
<1>4. CASE Verified(c)
  <2> DEFINE a == Attempt("trusting", "none", 0, m, FALSE, 0)
  <2>1. pin' = [pin EXCEPT ![c] = m] /\ call' = [call EXCEPT ![c] = a]
      BY <1>2, <1>4, Zenon DEF VerifyAndPin
  <2>2. a \in Attempts
      BY TrustAssumption DEF Attempt, Attempts
  <2>3. pin'[c] = m /\ call'[c].at = "trusting" /\ call'[c].manifest = m
      BY <2>1 DEF Attempt, TInv, Typed
  <2>4. ClientInv(c)'
      BY <1>1, <1>2, <2>3, <1>clients DEF ClientInv, Known, Behind
  <2>5. CallInv(c)'
      BY <1>3, <2>3 DEF CallInv
  <2> QED
      BY <1>1, <2>1, <2>2, <2>4, <2>5, ClientKeeps, Zenon
<1>5. CASE ~ Verified(c)
  <2> DEFINE a == Attempt("refused", "none", 0, m, call[c].kept, 0)
  <2>1. pin' = [pin EXCEPT ![c] = pin[c]] /\ pin' = pin /\ call' = [call EXCEPT ![c] = a]
      BY <1>2, <1>5, Zenon DEF VerifyAndPin, TInv, Typed
  <2>2. a \in Attempts
    <3>1. 0 \in 0 .. MaxRevision /\ 0 \in Nat
        BY TrustAssumption
    <3> QED
        BY <1>kept, <3>1, Zenon DEF Attempt, Attempts
  <2>3. call'[c].at = "refused" /\ call'[c].manifest = m
      BY <2>1 DEF Attempt, TInv, Typed
  <2>kept. call'[c].kept = call[c].kept
      BY <2>1, Zenon DEF Attempt, TInv, Typed
  <2>4. ClientInv(c)'
      BY <1>1, <1>2, <2>1, <2>3, <1>clients DEF ClientInv, Known, Behind
  <2>5. m.expires <= now
      BY <1>2, <1>3, <1>5 DEF Verified, TInv, Typed, Manifests
  <2>6. ~ (m.expires > call[c].t + Timeout)
    <3>1. now <= call[c].t + Timeout
        BY <1>1, Zenon DEF TInv, CallInv
    <3>2. now \in Nat /\ m.expires \in Nat /\ call[c].t \in Nat
        BY <1>2 DEF TInv, Typed, Attempts, Manifests
    <3> QED
        BY <2>5, <3>1, <3>2, TrustAssumption
  <2>7. call[c].kept
      BY <1>1, <1>2, <2>6, Zenon DEF TInv, CallInv
  <2>8. CallInv(c)'
      BY <1>1, <2>3, <2>kept, <2>5, <2>7, Zenon DEF CallInv
  <2> QED
      BY <1>1, <1>3, <2>1, <2>2, <2>4, <2>8, ClientKeeps, Zenon
<1> QED
    BY <1>4, <1>5
LEMMA OpenKeeps == ASSUME TInv, NEW c \in Clients, OpenWebSocket(c) PROVE TInv'
<1>procs. \A q \in Procs : ProcInv(q)
    BY Zenon DEF TInv
<1>clients. \A d \in Clients : ClientInv(d)
    BY Zenon DEF TInv
<1>calls. \A d \in Clients : CallInv(d)
    BY Zenon DEF TInv
<1>1. UNCHANGED <<now, file, made, proc, pin>> /\ call[c].at = "trusting"
    BY DEF OpenWebSocket
<1>2. CASE call' = [call EXCEPT ![c] = Idle]
    BY <1>1, <1>2, BackToIdle, Zenon
<1>3. ASSUME NEW p \in Procs, Serving(p), call' # [call EXCEPT ![c] = Idle],
             IF proc[p].revision = call[c].manifest.revision /\ proc[p].keys = call[c].manifest.keys
             THEN call' = [call EXCEPT ![c] = Attempt("connected", p, 0, call[c].manifest, FALSE, 0)]
             ELSE call' = [call EXCEPT ![c] = Attempt("mismatch", "none", 0, call[c].manifest, FALSE, proc[p].revision)]
      PROVE  TInv'
  <2>1. PICK m \in Manifests : m = call[c].manifest
      BY DEF TInv, Typed, Attempts
  <2>2. PICK r \in 0 .. MaxRevision : r = proc[p].revision
      BY DEF TInv, Typed, Processes
  <2>3. pin[c] \in Manifests /\ pin' = [pin EXCEPT ![c] = pin[c]]
      BY <1>1 DEF TInv, Typed
  <2>4. proc[p].keys = m.keys /\ (m.revision < r \/ m.revision = r)
    <3>1. m.keys # 0 /\ Known(m) /\ Behind(m, p) /\ proc[p].at = "serving" /\ proc[p].keys = file.keys
        BY <1>1, <1>3, <2>1, <1>procs, <1>clients, <1>calls, Zenon DEF CallInv, ClientInv, ProcInv, Serving
    <3> QED
        BY <2>2, <3>1 DEF Known, Behind
  <2>5. CASE r = m.revision
    <3> DEFINE a == Attempt("connected", p, 0, m, FALSE, 0)
    <3>1. call' = [call EXCEPT ![c] = a]
        BY <1>3, <2>1, <2>2, <2>4, <2>5, Zenon
    <3>2. a \in Attempts
        BY TrustAssumption DEF Attempt, Attempts
    <3>3. call'[c].at = "connected" /\ call'[c].manifest = m
        BY <3>1 DEF Attempt, TInv, Typed
    <3>4. ClientInv(c)'
        BY <1>1, <2>1, <3>3, <1>clients DEF ClientInv, Known, Behind
    <3>5. CallInv(c)'
        BY <3>3 DEF CallInv
    <3> QED
        BY <1>1, <2>3, <3>1, <3>2, <3>4, <3>5, ClientKeeps, Zenon
  <2>6. CASE r # m.revision
    <3> DEFINE a == Attempt("mismatch", "none", 0, m, FALSE, r)
    <3>1. call' = [call EXCEPT ![c] = a]
        BY <1>3, <2>1, <2>2, <2>4, <2>6, Zenon
    <3>2. a \in Attempts
        BY TrustAssumption DEF Attempt, Attempts
    <3>3. call'[c].at = "mismatch" /\ call'[c].manifest = m /\ call'[c].met = r
        BY <3>1 DEF Attempt, TInv, Typed
    <3>4. ClientInv(c)'
        BY <1>1, <2>1, <3>3, <1>clients DEF ClientInv, Known, Behind
    <3>5. r > m.revision
        BY <2>4, <2>6 DEF Manifests
    <3>6. CallInv(c)'
        BY <3>3, <3>5 DEF CallInv
    <3> QED
        BY <1>1, <2>3, <3>1, <3>2, <3>4, <3>6, ClientKeeps, Zenon
  <2> QED
      BY <2>5, <2>6
<1> QED
    BY <1>2, <1>3, Zenon DEF OpenWebSocket

-----------------------------------------------------------------------------
(* Expiry e, refresh time f and the two marks suit an answer to client c: e does not *)
(* go back, is soon enough and, unless marked, late enough.                        *)
Timely(c, p, e, f, k, failed) ==
    /\ e >= proc[p].expires /\ e <= f + TTL
    /\ ~ failed => e + RefreshInterval = f + TTL
    /\ ~ k => e > call[c].t + Timeout

Marks(k, failed) == k \in BOOLEAN /\ failed \in BOOLEAN

(* An answer to client c, with the manifest process p has cached or caches now: *)
(* what it must satisfy to keep the invariant.                                  *)
LEMMA AnswerKeeps ==
    ASSUME TInv, NEW c \in Clients, NEW p \in Procs, NEW e \in Nat, NEW f \in Nat,
           NEW k, NEW failed, Marks(k, failed),
           call[c].at = "asked", p = call[c].on, UNCHANGED <<now, file, made, pin>>,
           Cached(p, e, f, failed), Answered(c, Manifest(p, e), k),
           Timely(c, p, e, f, k, failed)
    PROVE  TInv'
<1>procs. \A q \in Procs : ProcInv(q)
    BY Zenon DEF TInv
<1>caches. \A q \in Procs : CacheInv(q)
    BY Zenon DEF TInv
<1>starts. \A q, s \in Procs : StartInv(q, s)
    BY Zenon DEF TInv
<1>clients. \A d \in Clients : ClientInv(d)
    BY Zenon DEF TInv
<1>calls. \A d \in Clients : CallInv(d)
    BY Zenon DEF TInv
<1>1. proc[p].at = "serving" /\ proc[p].keys # 0 /\ proc[p].keys = file.keys
      /\ call[c].t <= now /\ now <= call[c].t + Timeout
    BY <1>procs, <1>calls, Zenon DEF CallInv, ProcInv
<1>2. /\ proc'[p].at = "serving" /\ proc'[p].keys = proc[p].keys /\ proc'[p].revision = proc[p].revision
      /\ proc'[p].expires = e /\ proc'[p].refresh = f
    BY Zenon DEF TInv, Typed, Process, Cached
<1>failed. proc'[p].failed = failed
    BY Zenon DEF TInv, Typed, Process, Cached
<1>3. proc' \in [Procs -> Processes]
  <2>1. Process("serving", proc[p].keys, proc[p].revision, e, f, failed) \in Processes
      BY Zenon DEF TInv, Typed, Process, Processes, Marks
  <2> QED
      BY <2>1 DEF TInv, Typed, Cached
<1>4. \A q \in Procs : q # p => proc'[q] = proc[q]
    BY DEF TInv, Typed, Cached
<1>5. PICK m \in Manifests : m = Manifest(p, e) /\ m.keys = proc[p].keys /\ m.revision = proc[p].revision /\ m.expires = e
    BY DEF Manifest, Manifests, TInv, Typed, Processes
<1>6. PICK t \in Nat : t = call[c].t
    BY DEF TInv, Typed, Attempts
<1> DEFINE a == Attempt("answered", p, t, m, k, 0)
<1>7. call' = [call EXCEPT ![c] = a]
    BY <1>5, <1>6 DEF Answered
<1>8. a \in Attempts
  <2>1. 0 \in 0 .. MaxRevision
      BY TrustAssumption
  <2> QED
      BY <2>1, Zenon DEF Attempt, Attempts, Marks
<1>9. call'[c].at = "answered" /\ call'[c].t = t /\ call'[c].manifest = m
    BY <1>7, Zenon DEF Attempt, TInv, Typed
<1>kept. call'[c].kept = k
    BY <1>7, Zenon DEF Attempt, TInv, Typed
<1>10. call' \in [Clients -> Attempts] /\ (\A d \in Clients : d # c => call'[d] = call[d])
    BY <1>7, <1>8, Zenon DEF TInv, Typed
<1>11. \A q \in Procs : ProcInv(q)' /\ CacheInv(q)'
  <2>1. \A q \in Procs : ProcInv(q)'
      BY <1>1, <1>2, <1>4, <1>procs DEF ProcInv
  <2>2. CacheInv(p)'
      BY <1>2, <1>failed, Zenon DEF CacheInv, Timely
  <2>3. \A q \in Procs : q # p => CacheInv(q)'
      BY <1>4, ZenonT(30), <1>caches DEF CacheInv
  <2> QED
      BY <2>1, <2>2, <2>3, Zenon
<1>12. \A q, s \in Procs : StartInv(q, s)'
    BY <1>1, <1>2, <1>4, <1>starts DEF StartInv
<1>13. proc[p].expires \in Nat /\ (\A d \in Clients : pin[d].expires \in Nat /\ call[d].manifest.expires \in Nat)
    BY SMTT(30) DEF TInv, Typed, Processes, Manifests, Attempts
<1>a. e >= proc[p].expires
    BY Zenon DEF Timely
<1>14. ASSUME NEW d \in Clients, NEW q \in Procs PROVE Behind(pin[d], q)' /\ (d # c => Behind(call[d].manifest, q)')
  <2>0. Behind(pin[d], q) /\ Behind(call[d].manifest, q) /\ pin'[d] = pin[d] /\ (d # c => call'[d] = call[d])
      BY <1>10, <1>clients, Zenon DEF ClientInv
  <2>1. CASE q = p
    <3>1. /\ pin[d].expires <= proc[p].expires => pin[d].expires <= e
          /\ call[d].manifest.expires <= proc[p].expires => call[d].manifest.expires <= e
        BY <1>13, <1>a
    <3> QED
        BY <1>1, <1>2, <2>0, <2>1, <3>1, Zenon DEF Behind
  <2>2. CASE q # p
      BY <1>4, <2>0, <2>2, Zenon DEF Behind
  <2> QED
      BY <2>1, <2>2
<1>15. ASSUME NEW q \in Procs PROVE Behind(call[c].manifest, q)'
  <2>1. CASE q = p
    <3>1. m.expires <= e
        BY <1>5
    <3> QED
        BY <1>2, <1>5, <1>9, <2>1, <3>1, Zenon DEF Behind
  <2>2. CASE q # p
    <3>1. StartInv(q, p)
        BY <1>starts, Zenon
    <3> QED
        BY <1>1, <1>4, <1>5, <1>9, <2>2, <3>1, Zenon DEF StartInv, Behind
  <2> QED
      BY <2>1, <2>2
<1>16. \A d \in Clients : ClientInv(d)'
  <2>1. Known(m)
      BY <1>1, <1>5, <1>procs, Zenon DEF ProcInv, Known
  <2> QED
      BY <1>9, <1>10, <1>14, <1>15, <2>1, <1>clients, Zenon DEF ClientInv, Known
<1>17. Acceptable(pin[c], m)
  <2>1. Behind(pin[c], p) /\ pin[c].keys \in {0, file.keys}
      BY <1>clients, Zenon DEF ClientInv, Known
  <2>2. pin[c].revision \in Nat /\ proc[p].revision \in Nat
      BY DEF TInv, Typed, Manifests, Processes
  <2>3. /\ pin[c].expires <= proc[p].expires => m.expires >= pin[c].expires
        /\ pin[c].revision < m.revision => m.revision > pin[c].revision
      BY <1>5, <1>13, <1>a, <2>2
  <2> QED
      BY <1>1, <1>5, <2>1, <2>3, Zenon DEF Behind, Acceptable
<1>18. CallInv(c)'
  <2>1. ~ k => m.expires > t + Timeout
      BY <1>5, <1>6, Zenon DEF Timely
  <2>2. Acceptable(pin[c], call[c].manifest)'
      BY <1>9, <1>17, Zenon DEF Acceptable
  <2>3. call'[c].t <= now' /\ now' <= call'[c].t + Timeout /\ call'[c].manifest.keys # 0
      BY <1>1, <1>5, <1>6, <1>9
  <2> QED
      BY <1>9, <1>kept, <2>1, <2>2, <2>3, Zenon DEF CallInv
<1>19. ASSUME NEW d \in Clients, d # c PROVE CallInv(d)'
  <2>1. CallInv(d) /\ call'[d] = call[d] /\ pin'[d] = pin[d]
      BY <1>10, <1>19, <1>calls, Zenon
  <2>2. \A q \in Procs : proc[q].at = "serving" => proc'[q].at = "serving"
      BY <1>2, <1>4, Zenon
  <2>3. Acceptable(pin[d], call[d].manifest)' <=> Acceptable(pin[d], call[d].manifest)
      BY <2>1, Zenon DEF Acceptable
  <2> QED
      BY <2>1, <2>2, <2>3, ZenonT(30) DEF CallInv
<1> QED
    BY <1>3, <1>10, <1>11, <1>12, <1>16, <1>18, <1>19 DEF TInv, Typed

LEMMA AnswersKeep == ASSUME TInv, NEW c \in Clients, Answer(c) PROVE TInv'
<1> USE TrustAssumption
<1>caches. \A q \in Procs : CacheInv(q)
    BY Zenon DEF TInv
<1>calls. \A d \in Clients : CallInv(d)
    BY Zenon DEF TInv
<1>1. call[c].at = "asked" /\ UNCHANGED <<now, file, made, pin>>
    BY Zenon DEF Answer, AnswerCached, AnswerSigned, AnswerUnsigned
<1>2. PICK p \in Procs : p = call[c].on /\ proc[p].at = "serving"
    BY <1>1, <1>calls DEF CallInv
<1>3. PICK t \in Nat : t = call[c].t
    BY DEF TInv, Typed, Attempts
<1>4. PICK e \in Nat, f \in Nat : e = proc[p].expires /\ f = proc[p].refresh
    BY DEF TInv, Typed, Processes
<1>5. e <= f + TTL /\ (~ proc[p].failed => e + RefreshInterval = f + TTL)
    BY <1>2, <1>4, <1>caches, Zenon DEF CacheInv
<1>6. CASE AnswerCached(c)
  <2>1. PICK b : b = proc[p].failed /\ Marks(b, b)
      BY Zenon DEF TInv, Typed, Processes, Marks
  <2>2. t < f /\ Answered(c, Manifest(p, e), b) /\ proc' = proc
      BY <1>2, <1>3, <1>4, <1>6, <2>1, Zenon DEF AnswerCached, Fresh
  <2>3. Cached(p, e, f, b)
    <3>1. proc[p] = Process("serving", proc[p].keys, proc[p].revision, e, f, b)
        BY <1>2, <1>4, <2>1, Zenon DEF TInv, Typed, Process, Processes
    <3>2. proc = [proc EXCEPT ![p] = proc[p]]
        BY DEF TInv, Typed
    <3> QED
        BY <2>2, <3>1, <3>2, Zenon DEF Cached
  <2>4. e + RefreshInterval = f + TTL => e > t + Timeout
      BY <2>2
  <2>5. e >= proc[p].expires
      BY <1>4
  <2>6. Timely(c, p, e, f, b, b)
      BY <1>3, <1>5, <2>1, <2>4, <2>5, Zenon DEF Timely
  <2> QED
      BY <1>1, <1>2, <2>1, <2>2, <2>3, <2>6, AnswerKeeps, Zenon
<1>7. CASE AnswerSigned(c)
  <2>1. PICK e2 \in Nat, f2 \in Nat : e2 = t + TTL /\ f2 = t + RefreshInterval
      OBVIOUS
  <2>2. /\ ~ (t < f) /\ Answered(c, Manifest(p, e2), FALSE)
        /\ Cached(p, e2, f2, FALSE)
      BY <1>2, <1>3, <1>4, <1>7, <2>1, Zenon DEF AnswerSigned, Fresh, ManifestAt
  <2>3. e2 >= e /\ e2 <= f2 + TTL /\ e2 + RefreshInterval = f2 + TTL /\ e2 > t + Timeout
      BY <1>5, <2>1, <2>2
  <2>4. e2 >= proc[p].expires /\ e2 > call[c].t + Timeout
      BY <1>3, <1>4, <2>3
  <2> QED
      BY <1>1, <1>2, <2>2, <2>3, <2>4, AnswerKeeps, Zenon DEF Marks, Timely
<1>8. CASE AnswerUnsigned(c)
  <2>1. CASE call' = [call EXCEPT ![c] = Idle] /\ proc' = proc
      BY <1>1, <2>1, BackToIdle, Zenon
  <2>2. CASE ~ (call' = [call EXCEPT ![c] = Idle] /\ proc' = proc)
    <3>1. PICK f2 \in Nat : f2 = t + RetryInterval
        OBVIOUS
    <3>2. /\ ~ (t < f) /\ Answered(c, Manifest(p, e), TRUE)
          /\ Cached(p, e, f2, TRUE)
        BY <1>2, <1>3, <1>4, <1>8, <2>2, <3>1, Zenon DEF AnswerUnsigned, Fresh
    <3>3. e <= f2 + TTL /\ e >= proc[p].expires
        BY <1>4, <1>5, <3>1, <3>2
    <3> QED
        BY <1>1, <1>2, <3>2, <3>3, AnswerKeeps, Zenon DEF Marks, Timely
  <2> QED
      BY <2>1, <2>2
<1> QED
    BY <1>6, <1>7, <1>8 DEF Answer

LEMMA TickKeeps == ASSUME TInv, Tick PROVE TInv'
<1>procs. \A q \in Procs : ProcInv(q)
    BY Zenon DEF TInv
<1>caches. \A q \in Procs : CacheInv(q)
    BY Zenon DEF TInv
<1>starts. \A q, s \in Procs : StartInv(q, s)
    BY Zenon DEF TInv
<1>clients. \A d \in Clients : ClientInv(d)
    BY Zenon DEF TInv
<1>calls. \A d \in Clients : CallInv(d)
    BY Zenon DEF TInv
<1>1. UNCHANGED <<file, made, proc, pin, call>> /\ now' = now + 1 /\ now \in Nat /\ now' \in 0 .. MaxTime
    BY TrustAssumption DEF Tick, TInv, Typed
<1>2. \A p, q \in Procs : ProcInv(p)' /\ CacheInv(p)' /\ StartInv(p, q)'
    BY <1>1, <1>procs, <1>caches, <1>starts DEF ProcInv, CacheInv, StartInv
<1>3. \A c \in Clients : ClientInv(c)'
    BY <1>1, <1>clients DEF ClientInv, Known, Behind
<1>4. ASSUME NEW c \in Clients PROVE CallInv(c)'
  <2>1. call[c].t \in Nat /\ call[c].manifest.expires \in Nat
      BY DEF TInv, Typed, Attempts, Manifests
  <2>2. call[c].at \in {"asked", "answered"} => call[c].t <= now' /\ now' <= call[c].t + Timeout
      BY <1>1, <2>1, TrustAssumption, <1>calls DEF Tick, CallInv
  <2>3. call[c].manifest.expires <= now => call[c].manifest.expires <= now'
      BY <1>1, <2>1
  <2> QED
      BY <1>1, <2>2, <2>3, Zenon, <1>calls DEF CallInv, Acceptable
<1> QED
    BY <1>1, <1>2, <1>3, <1>4 DEF TInv, Typed

-----------------------------------------------------------------------------
(* Every step keeps the invariant. *)
LEMMA TInvStep == TInv /\ [Next]_vars => TInv'
<1> SUFFICES ASSUME TInv, [Next]_vars PROVE TInv'
    OBVIOUS
<1>1. CASE UNCHANGED vars
    BY <1>1, ZenonT(30) DEF vars, TInv, Typed, ProcInv, CacheInv, StartInv, ClientInv, CallInv, Known, Behind, Acceptable
<1>2. ASSUME NEW p \in Procs, Load(p) \/ WriteTrustState(p) \/ Listen(p) \/ Crash(p) PROVE TInv'
    BY <1>2, LoadKeeps, WriteKeeps, ListenKeeps, CrashKeeps
<1>3. ASSUME NEW c \in Clients, Connect(c) PROVE TInv'
    BY <1>3, AskKeeps, AnswersKeep, VerifyKeeps, OpenKeeps DEF Connect
<1>4. ASSUME NEW c \in Clients, Retry(c) \/ StartAgain(c) PROVE TInv'
    BY <1>4, BackToIdle DEF Retry, StartAgain
<1>5. CASE Tick
    BY <1>5, TickKeeps
<1> QED
    BY <1>1, <1>2, <1>3, <1>4, <1>5 DEF Next

(* The inductive invariant holds throughout. *)
THEOREM TrustInvariance == Spec => []TInv
    BY TInvInit, TInvStep, PTL DEF Spec

(* The signer file, the processes, pins and attempts keep their types, and one *)
(* gateway at most serves (run, LoadOrCreateTrustState).                       *)
THEOREM TrustTypeCorrect == Spec => []TypeOK
<1>1. TInv => TypeOK
    BY DEF TInv, Typed, StartInv, Serving, TypeOK
<1> QED
    BY <1>1, TrustInvariance, PTL

(* However often and wherever a gateway ends while it starts or serves, every pin *)
(* has the keys of the file, and every serving gateway's manifest passes it       *)
(* (LoadOrCreateTrustState, currentTrustManifest, pin_gateway_trust).             *)
THEOREM PinsStayGood == Spec => []TrustContinues
<1>1. TInv => TrustContinues
  <2> SUFFICES ASSUME TInv PROVE TrustContinues
      OBVIOUS
  <2>1. \A c \in Clients : Known(pin[c])
      BY DEF TInv, ClientInv
  <2>2. ASSUME NEW c \in Clients, NEW p \in Procs, Serving(p)
        PROVE  Acceptable(pin[c], Manifest(p, proc[p].expires))
    <3>1. Behind(pin[c], p) /\ Known(pin[c]) /\ proc[p].keys = file.keys
        BY SMTT(30), <2>2 DEF TInv, ClientInv, ProcInv, Serving
    <3>2. pin[c] \in Manifests /\ proc[p] \in Processes
        BY DEF TInv, Typed
    <3> QED
        BY <2>2, <3>1, <3>2 DEF Behind, Known, Acceptable, Manifest, Serving, Manifests, Processes
  <2> QED
      BY <2>1, <2>2 DEF TrustContinues, Known
<1> QED
    BY <1>1, TrustInvariance, PTL

(* A client refuses the gateway only for a manifest kept past its expiry after a *)
(* failed refresh, or for a gateway restarted since it served the manifest       *)
(* (verify_and_pin, open_websocket, currentTrustManifest).                       *)
THEOREM RefusalsAreExplained == Spec => []RefusalsHaveReasons
<1>1. TInv => RefusalsHaveReasons
    BY Zenon DEF TInv, CallInv, RefusalsHaveReasons
<1> QED
    BY <1>1, TrustInvariance, PTL
=============================================================================
