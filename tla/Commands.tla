------------------------------ MODULE Commands ------------------------------
(***************************************************************************)
(* The set-up of each command of pkg/commands/serve as the sequence of its *)
(* steps that can return early, wait, or start a task.                     *)
(***************************************************************************)
EXTENDS Sequences, Naturals

Tasks == {"manager", "probes", "server"}

(* A step named like a task starts it; "sync" waits for the caches and     *)
(* "subscribe" logs its errors; every other step may return early.         *)
Fallible == {"clients", "namespace", "registry", "sources", "newManager",
             "config", "certs", "sidecar"}

Steps == Fallible \union Tasks \union {"sync", "subscribe"}

(* The HTTP authz server.  "subscribe" starts the event handlers: the      *)
(* writer always, Kubernetes events and open reports if enabled and, for   *)
(* the latter, if the CRD exists.                                          *)
HttpKube == <<"clients", "namespace", "subscribe", "registry", "sources">>
HttpKubeSource == <<"newManager", "manager", "sync">>
HttpPlain == <<"registry", "sources">>
HttpServe(probes) == (IF probes THEN <<"probes">> ELSE <<>>) \o <<"server">>

HttpAuthz ==
    {[front |-> "http", steps |-> setup \o HttpServe(probes)] :
        setup \in {HttpKube \o HttpKubeSource, HttpKube, HttpPlain}, probes \in BOOLEAN}

(* The Envoy authz server makes the same calls in the same order.          *)
EnvoyKube == HttpKube
EnvoyKubeSource == HttpKubeSource
EnvoyPlain == HttpPlain
EnvoyServe(probes) == HttpServe(probes)

EnvoyAuthz ==
    {[front |-> "grpc", steps |-> setup \o EnvoyServe(probes)] :
        setup \in {EnvoyKube \o EnvoyKubeSource, EnvoyKube, EnvoyPlain}, probes \in BOOLEAN}

(* The two validation webhooks; that of Envoy makes a client of its own.   *)
Certificates(internal) == IF internal THEN <<"certs", "clients">> ELSE <<>>
HttpValidation(internal) ==
    <<"config">> \o Certificates(internal) \o <<"newManager", "manager", "probes">>
EnvoyValidation(internal) ==
    <<"config">> \o Certificates(internal) \o <<"clients", "newManager", "manager", "probes">>

(* The sidecar injector runs its server itself, which is to start it as    *)
(* the only task and wait.                                                 *)
SidecarInjector(internal) ==
    (IF internal THEN <<"config">> \o Certificates(TRUE) ELSE <<>>) \o <<"sidecar", "server">>

Webhooks ==
    {[front |-> "http", steps |-> steps] :
        steps \in UNION {{HttpValidation(internal), EnvoyValidation(internal),
                          SidecarInjector(internal)} : internal \in BOOLEAN}}

AllCommands == HttpAuthz \union EnvoyAuthz \union Webhooks
=============================================================================
