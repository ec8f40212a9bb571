------------------------ MODULE AdmissionWebhooksProofs ------------------------
(***************************************************************************)
(* However many replicas start, fail and restart while certificates are    *)
(* renewed, each publishes a bundle that trusts what it serves, and leaves *)
(* no key behind when it fails.                                            *)
(***************************************************************************)
EXTENDS AdmissionWebhooks, TLAPS

\* The phases in which certDir holds nothing yet, and those in which the replica
\* has its bundle.
Early == {"setup", "polling"}
Bundled == {"patching", "updating", "serving"}

\* The files of a replica are a certificate of a known authority from the moment
\* they are read, and none before or after a failure.
FilesFollowPhase ==
    \A r \in Replicas :
        /\ pc[r] \in Early => files[r] = 0
        /\ pc[r] = "read" => files[r] \in 1 .. ca

WebhookInv == TypeOK /\ FilesFollowPhase /\ OwnCertificateTrusted /\ NothingLeftBehind

LEMMA WebhookInit == Init => WebhookInv
  BY BoundsAssumption DEF Init, WebhookInv, TypeOK, FilesFollowPhase, Early,
     OwnCertificateTrusted, NothingLeftBehind

\* The controllers only add authorities, so what a replica trusts stays known.
LEMMA ControllersKeep ==
    ASSUME WebhookInv, Controllers
    PROVE  WebhookInv'
  <1> USE BoundsAssumption
  <1>1. TypeOK'
    BY DEF WebhookInv, TypeOK, Controllers, GenerateCa, SignTls, pods
  <1>2. FilesFollowPhase'
    BY DEF WebhookInv, TypeOK, FilesFollowPhase, Controllers, GenerateCa, SignTls, pods
  <1> QED
    BY <1>1, <1>2 DEF WebhookInv, OwnCertificateTrusted, NothingLeftBehind, Controllers,
       GenerateCa, SignTls, pods

\* A step of one replica that leaves the secrets alone keeps the invariant if the
\* replica ends up in a phase its files and its bundle fit.
LEMMA ReplicaKeeps ==
    ASSUME WebhookInv, NEW r \in Replicas, NEW phase, NEW file, NEW authorities,
           UNCHANGED secrets, restarts' \in 0 .. MaxRestarts,
           config'.bundle \subseteq 1 .. ca, config'.version \in Nat,
           seen' \in [Replicas -> 0 .. config'.version],
           phase \in {"setup", "polling", "read", "patching", "updating", "serving", "failed"},
           file \in 0 .. ca, authorities \subseteq 1 .. ca,
           pc' = [pc EXCEPT ![r] = phase],
           files' = [files EXCEPT ![r] = file],
           bundle' = [bundle EXCEPT ![r] = authorities],
           phase \in Early \cup {"failed"} => file = 0,
           phase = "read" => file \in 1 .. ca,
           phase \in Bundled => file \in authorities
    PROVE  WebhookInv'
  <1>1. TypeOK'
    BY DEF WebhookInv, TypeOK, secrets
  <1>2. \A q \in Replicas :
          /\ pc'[q] = IF q = r THEN phase ELSE pc[q]
          /\ files'[q] = IF q = r THEN file ELSE files[q]
          /\ bundle'[q] = IF q = r THEN authorities ELSE bundle[q]
    BY DEF WebhookInv, TypeOK
  <1>3. ca' = ca
    BY DEF secrets
  <1> QED
    BY <1>1, <1>2, <1>3 DEF WebhookInv, FilesFollowPhase, OwnCertificateTrusted,
       NothingLeftBehind, Bundled

\* A step that changes nothing of the pods but the phase.
LEMMA PhaseKeeps ==
    ASSUME WebhookInv, NEW r \in Replicas, NEW from, NEW to, Step(r, from, to),
           UNCHANGED <<config, files, bundle>>,
           seen' \in [Replicas -> 0 .. config.version],
           \/ from \in Early /\ to \in Early \cup {"failed"}
           \/ from \in Bundled /\ to \in Bundled
    PROVE  WebhookInv'
  <1>1. /\ files' = [files EXCEPT ![r] = files[r]]
        /\ bundle' = [bundle EXCEPT ![r] = bundle[r]]
        /\ files[r] \in 0 .. ca /\ bundle[r] \subseteq 1 .. ca
    BY DEF WebhookInv, TypeOK
  <1>2. /\ from \in Early => files[r] = 0
        /\ from \in Bundled => files[r] \in bundle[r]
    BY DEF Step, WebhookInv, FilesFollowPhase, OwnCertificateTrusted, Bundled
  <1>3. /\ pc' = [pc EXCEPT ![r] = to] /\ UNCHANGED secrets /\ restarts' = restarts
    BY DEF Step
  <1>4. /\ to \in {"setup", "polling", "patching", "updating", "serving", "failed"}
        /\ to \in Early \cup {"failed"} => files[r] = 0
        /\ to \in Bundled => files[r] \in bundle[r]
    BY <1>2 DEF Early, Bundled
  <1> QED
    BY <1>1, <1>3, <1>4, ReplicaKeeps DEF WebhookInv, TypeOK

LEMMA BootstrapKeeps ==
    ASSUME WebhookInv, NEW r \in Replicas, Bootstrap(r)
    PROVE  WebhookInv'
  <1>0. TypeOK
    BY DEF WebhookInv
  <1>1. CASE Synced(r) \/ GiveUp(r) \/ Cancelled(r)
    <2>1. PICK from \in Early, to \in Early \cup {"failed"} :
             Step(r, from, to) /\ UNCHANGED <<config, pods>>
      BY <1>1 DEF Synced, GiveUp, Cancelled, Early
    <2> QED
      BY <1>0, <2>1, PhaseKeeps DEF pods, TypeOK
  <1>2. CASE NotPatched(r)
    <2>1. PICK from \in Bundled : Step(r, from, "serving") /\ UNCHANGED <<config, pods>>
      BY <1>2 DEF NotPatched, Bundled
    <2> QED
      BY <1>0, <2>1, PhaseKeeps DEF pods, TypeOK, Bundled
  <1>3. CASE GetConfig(r)
    <2>1. seen' \in [Replicas -> 0 .. config.version]
      BY <1>0, <1>3 DEF GetConfig, TypeOK
    <2> QED
      BY <1>3, <2>1, PhaseKeeps DEF GetConfig, Bundled
  <1>4. CASE ReadTls(r)
    <2>1. /\ UNCHANGED <<secrets, restarts, config, seen>>
          /\ bundle' = [bundle EXCEPT ![r] = bundle[r]]
      BY <1>0, <1>4 DEF ReadTls, Step, TypeOK
    <2>2. PICK phase, file :
             /\ pc' = [pc EXCEPT ![r] = phase] /\ files' = [files EXCEPT ![r] = file]
             /\ \/ phase = "read" /\ file = tls
                \/ phase = "failed" /\ file = 0
      BY <1>4 DEF ReadTls, Step
    <2>3. /\ tls \in 1 .. ca /\ restarts' \in 0 .. MaxRestarts
          /\ config'.bundle \subseteq 1 .. ca /\ config'.version \in Nat
          /\ seen' \in [Replicas -> 0 .. config'.version]
          /\ bundle[r] \subseteq 1 .. ca
      BY <1>0, <1>4, <2>1 DEF ReadTls, TypeOK
    <2>4. /\ phase \in {"read", "failed"} /\ phase \notin Bundled /\ file \in 0 .. ca
          /\ phase \in Early \cup {"failed"} => file = 0
          /\ phase = "read" => file \in 1 .. ca
      BY <1>0, <2>2, <2>3 DEF Early, Bundled, TypeOK
    <2> QED
      BY <2>1, <2>2, <2>3, <2>4, ReplicaKeeps
  <1>5. CASE ReadCa(r)
    <2>1. files[r] \in 1 .. ca
      BY <1>5 DEF ReadCa, Step, WebhookInv, FilesFollowPhase
    <2>2. /\ UNCHANGED <<secrets, restarts, config, seen>>
          /\ pc' = [pc EXCEPT ![r] = "patching"]
          /\ files' = [files EXCEPT ![r] = files[r]]
          /\ bundle' = [bundle EXCEPT ![r] = 1 .. ca]
      BY <1>0, <1>5 DEF ReadCa, Step, TypeOK, Authorities
    <2> QED
      BY <1>0, <2>1, <2>2, ReplicaKeeps DEF TypeOK, Early, Bundled
  <1>6. CASE CaFails(r)
    <2>1. /\ UNCHANGED <<secrets, restarts, config, seen>>
          /\ pc' = [pc EXCEPT ![r] = "failed"]
          /\ files' = [files EXCEPT ![r] = 0]
          /\ bundle' = [bundle EXCEPT ![r] = bundle[r]]
      BY <1>0, <1>6 DEF CaFails, Step, TypeOK
    <2>2. /\ restarts' \in 0 .. MaxRestarts /\ 0 \in 0 .. ca
          /\ config'.bundle \subseteq 1 .. ca /\ config'.version \in Nat
          /\ seen' \in [Replicas -> 0 .. config'.version]
          /\ bundle[r] \subseteq 1 .. ca
      BY <1>0, <2>1 DEF TypeOK
    <2>3. "failed" \notin Bundled
      BY DEF Bundled
    <2> QED
      BY <2>1, <2>2, <2>3, ReplicaKeeps
  <1>7. CASE UpdateConfig(r)
    <2>1. files[r] \in bundle[r]
      BY <1>7 DEF UpdateConfig, Step, WebhookInv, OwnCertificateTrusted
    <2>2. /\ UNCHANGED <<secrets, restarts, seen>>
          /\ pc' = [pc EXCEPT ![r] = "serving"]
          /\ files' = [files EXCEPT ![r] = files[r]]
          /\ bundle' = [bundle EXCEPT ![r] = bundle[r]]
          /\ config' = [bundle |-> bundle[r], version |-> config.version + 1]
      BY <1>0, <1>7 DEF UpdateConfig, Step, TypeOK, pods
    <2>3. /\ config'.bundle \subseteq 1 .. ca /\ config'.version \in Nat
          /\ seen' \in [Replicas -> 0 .. config'.version]
      BY <1>0, <2>2 DEF TypeOK
    <2>4. files[r] \in 0 .. ca /\ bundle[r] \subseteq 1 .. ca /\ restarts' \in 0 .. MaxRestarts
      BY <1>0, <2>2 DEF TypeOK
    <2> QED
      BY <2>1, <2>2, <2>3, <2>4, ReplicaKeeps DEF Early, Bundled
  <1> QED
    BY <1>1, <1>2, <1>3, <1>4, <1>5, <1>6, <1>7 DEF Bootstrap

LEMMA RestartKeeps ==
    ASSUME WebhookInv, NEW r \in Replicas, Restart(r)
    PROVE  WebhookInv'
  <1>1. /\ UNCHANGED <<secrets, config, seen>> /\ restarts' \in 0 .. MaxRestarts
        /\ pc' = [pc EXCEPT ![r] = "setup"]
        /\ files' = [files EXCEPT ![r] = 0]
        /\ bundle' = [bundle EXCEPT ![r] = {}]
    BY BoundsAssumption DEF Restart, WebhookInv, TypeOK
  <1>2. /\ config'.bundle \subseteq 1 .. ca /\ config'.version \in Nat /\ 0 \in 0 .. ca
        /\ seen' \in [Replicas -> 0 .. config'.version]
    BY <1>1 DEF WebhookInv, TypeOK
  <1>3. "setup" \notin Bundled
    BY DEF Bundled
  <1> QED
    BY <1>1, <1>2, <1>3, ReplicaKeeps

\* The invariant holds of every history of the replicas.
THEOREM WebhooksSound == Spec => []WebhookInv
  <1>1. WebhookInv /\ [Next]_vars => WebhookInv'
    <2> SUFFICES ASSUME WebhookInv, [Next]_vars PROVE WebhookInv'
      OBVIOUS
    <2>1. CASE UNCHANGED vars
      BY <2>1 DEF WebhookInv, TypeOK, FilesFollowPhase, OwnCertificateTrusted,
         NothingLeftBehind, vars
    <2> QED
      BY <2>1, ControllersKeep, BootstrapKeeps, RestartKeeps DEF Next
  <1> QED
    BY <1>1, WebhookInit, PTL DEF Spec

\* Every replica publishes a bundle that trusts the certificate it serves, however
\* often the certificates are renewed while it starts.
THEOREM ServedIsTrusted == Spec => []OwnCertificateTrusted
  <1>1. WebhookInv => OwnCertificateTrusted
    BY DEF WebhookInv
  <1> QED
    BY <1>1, WebhooksSound, PTL

\* A bootstrap that fails leaves no private key in certDir.
THEOREM NoKeyLeftBehind == Spec => []NothingLeftBehind
  <1>1. WebhookInv => NothingLeftBehind
    BY DEF WebhookInv
  <1> QED
    BY <1>1, WebhooksSound, PTL

================================================================================
