-------------------------- MODULE AdmissionWebhooks --------------------------
(***************************************************************************)
(* The certificates of the webhooks (pkg/certmanager).  Every replica      *)
(* reads the secrets once, when it starts, while the certificate           *)
(* controllers go on renewing them.                                        *)
(***************************************************************************)
EXTENDS Naturals

CONSTANTS
    Replicas,
    MaxCa, MaxRestarts   \* bounds: authorities ever made, restarts

ASSUME BoundsAssumption == MaxCa \in Nat /\ MaxRestarts \in Nat

VARIABLES
    ca,        \* authorities made so far; the CA secret holds them all, 1 .. ca
    tls,       \* the authority that signed the certificate in the TLS secret, 0: none
    config,    \* the webhook configuration: [bundle, version]
    pc,        \* pc[r]: "setup", "polling", "read", "patching", "updating",
               \* "serving" or "failed"
    files,     \* files[r]: the authority of the certificate in certDir, 0: no files
    bundle,    \* bundle[r]: the authorities replica r takes for the caBundle
    seen,      \* seen[r]: the version of the configuration that r has got
    restarts

secrets == <<ca, tls>>
pods == <<files, bundle, seen>>
vars == <<ca, tls, config, pc, files, bundle, seen, restarts>>

Init ==
    /\ ca = 0 /\ tls = 0
    /\ config = [bundle |-> {}, version |-> 0]
    /\ pc = [r \in Replicas |-> "setup"]
    /\ files = [r \in Replicas |-> 0]
    /\ bundle = [r \in Replicas |-> {}]
    /\ seen = [r \in Replicas |-> 0]
    /\ restarts = 0

-----------------------------------------------------------------------------
(* The certificate controllers: an authority is added to those in the      *)
(* secret, and the certificate is renewed with the latest.                 *)

GenerateCa ==
    /\ ca < MaxCa
    /\ ca' = ca + 1
    /\ UNCHANGED <<tls, config, pc, pods, restarts>>

SignTls ==
    /\ tls < ca
    /\ tls' = ca
    /\ UNCHANGED <<ca, config, pc, pods, restarts>>

-----------------------------------------------------------------------------
(* BootstrapWebhookCerts *)

Step(r, from, to) ==
    /\ pc[r] = from
    /\ pc' = [pc EXCEPT ![r] = to]
    /\ UNCHANGED <<secrets, restarts>>

\* Setup returns when the informer is in sync; it has no time limit.
Synced(r) ==
    /\ Step(r, "setup", "polling")
    /\ UNCHANGED <<config, pods>>

\* Fault: the wait has no deadline.
GiveUpNever(r) ==
    /\ tls # 0
    /\ Step(r, "polling", "failed")
    /\ UNCHANGED <<config, pods>>

\* The deadline passes without a secret, or with errors only.
GiveUp(r) ==
    /\ Step(r, "polling", "failed")
    /\ UNCHANGED <<config, pods>>

\* The context is done; in Setup it ends the wait for the informer.
Cancelled(r) ==
    /\ \/ Step(r, "setup", "failed")
       \/ Step(r, "polling", "failed")
    /\ UNCHANGED <<config, pods>>

\* Certificate and key come from one Get; either file may fail to be written.
ReadTls(r) ==
    /\ tls # 0
    /\ \/ Step(r, "polling", "read") /\ files' = [files EXCEPT ![r] = tls]
       \/ Step(r, "polling", "failed") /\ files' = [files EXCEPT ![r] = 0]
    /\ UNCHANGED <<config, bundle, seen>>

\* Fault: the bundle is the latest authority only.
LatestAuthority == {ca} \ {0}

Authorities == 1 .. ca

ReadCa(r) ==
    /\ Authorities # {}
    /\ Step(r, "read", "patching")
    /\ bundle' = [bundle EXCEPT ![r] = Authorities]
    /\ UNCHANGED <<config, files, seen>>

\* Fault: the directory is left when the CA secret cannot be read.
CaFailsQuickly(r) ==
    /\ Step(r, "read", "failed")
    /\ UNCHANGED <<config, pods>>

\* The one Get fails, or the secret is empty: the directory is removed.
CaFails(r) ==
    /\ Step(r, "read", "failed")
    /\ files' = [files EXCEPT ![r] = 0]
    /\ UNCHANGED <<config, bundle, seen>>

\* PatchValidatingWebhookConfigCA, PatchMutatingWebhookConfigCA: the Get.
GetConfig(r) ==
    /\ Step(r, "patching", "updating")
    /\ seen' = [seen EXCEPT ![r] = config.version]
    /\ UNCHANGED <<config, files, bundle>>

\* No name is given, the configuration does not exist, or a call fails, which
\* is logged.
NotPatched(r) ==
    /\ \/ Step(r, "patching", "serving")
       \/ Step(r, "updating", "serving")
    /\ UNCHANGED <<config, pods>>

UpdateConfig(r) ==
    /\ config.version = seen[r]
    /\ Step(r, "updating", "serving")
    /\ config' = [bundle |-> bundle[r], version |-> config.version + 1]
    /\ UNCHANGED pods

Restart(r) ==
    /\ pc[r] \in {"serving", "failed"} /\ restarts < MaxRestarts
    /\ restarts' = restarts + 1
    /\ pc' = [pc EXCEPT ![r] = "setup"]
    /\ files' = [files EXCEPT ![r] = 0]
    /\ bundle' = [bundle EXCEPT ![r] = {}]
    /\ UNCHANGED <<secrets, config, seen>>

-----------------------------------------------------------------------------
(* The system. *)

Controllers == GenerateCa \/ SignTls

Bootstrap(r) ==
    \/ Synced(r)
    \/ GiveUp(r)
    \/ Cancelled(r)
    \/ ReadTls(r)
    \/ ReadCa(r)
    \/ CaFails(r)
    \/ GetConfig(r)
    \/ NotPatched(r)
    \/ UpdateConfig(r)

Next ==
    \/ Controllers
    \/ \E r \in Replicas : Bootstrap(r) \/ Restart(r)

\* The poll ends at its deadline, and every call to the API server returns.
Returns(r) ==
    \/ GiveUp(r)
    \/ ReadCa(r)
    \/ CaFails(r)
    \/ GetConfig(r)
    \/ NotPatched(r)

Spec == Init /\ [][Next]_vars /\ \A r \in Replicas : WF_vars(Returns(r))

-----------------------------------------------------------------------------

TypeOK ==
    /\ ca \in 0 .. MaxCa /\ tls \in 0 .. ca
    /\ config.bundle \subseteq 1 .. ca /\ config.version \in Nat
    /\ pc \in [Replicas -> {"setup", "polling", "read", "patching", "updating",
                            "serving", "failed"}]
    /\ files \in [Replicas -> 0 .. ca]
    /\ bundle \in [Replicas -> SUBSET (1 .. ca)]
    /\ seen \in [Replicas -> 0 .. config.version]
    /\ restarts \in 0 .. MaxRestarts

\* The certificate is read before the authorities, and a renewal adds one:
\* whatever is renewed in between, the caBundle that a replica publishes
\* trusts the certificate that it serves.
OwnCertificateTrusted ==
    \A r \in Replicas :
        pc[r] \in {"patching", "updating", "serving"} => files[r] \in bundle[r]

\* A bootstrap that fails after certDir was made removes the private key.
NothingLeftBehind ==
    \A r \in Replicas : pc[r] = "failed" => files[r] = 0

\* Once the informer is in sync the bootstrap comes to an end, with or without
\* a certificate.
BootstrapEnds ==
    \A r \in Replicas : pc[r] = "polling" ~> pc[r] \in {"serving", "failed"}
===============================================================================
