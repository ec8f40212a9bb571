----------------------------- MODULE Lifecycle -----------------------------
(***************************************************************************)
(* A command of the server from its first line to the end of its process:  *)
(* the set-up in RunE of pkg/commands/serve, the tasks it starts in one    *)
(* wait group, the HTTP and gRPC servers with the goroutine that shuts     *)
(* them down, the controller manager, and the signals.                     *)
(***************************************************************************)
EXTENDS Commands

CONSTANTS
    Started,     \* the commands to consider: which front end decides and the steps
    MaxRequests, \* at most this many requests in flight
    MaxArrivals  \* bound: requests that arrive

Servers == {"probes", "server"}
Main == "main"
Members == Tasks \union {Main}

(* Once a task runs nothing but the wait for the caches may return early.  *)
StartsLast(s) ==
    \A i, j \in 1..Len(s) : i < j /\ s[i] \in Tasks => s[j] \notin Fallible

(* A task is started once.                                                 *)
StartsOnce(s) ==
    \A i, j \in 1..Len(s) : i < j /\ s[i] \in Tasks => s[i] # s[j]

(* The servers start behind the wait for the caches.                       *)
SyncsFirst(s) ==
    \A i, j \in 1..Len(s) : s[i] = "sync" /\ s[j] \in Servers => i < j

ASSUME CommandsAssumption ==
    \A c \in Started :
        /\ c \in [front : {"http", "grpc"}, steps : Seq(Steps)]
        /\ StartsLast(c.steps) /\ StartsOnce(c.steps) /\ SyncsFirst(c.steps)

ASSUME BoundsAssumption == MaxRequests \in Nat /\ MaxArrivals \in Nat

(* Why something ended with an error.                                      *)
Causes == {"setup", "serve", "stopped", "shutdown"}

VARIABLES
    command,        \* what runs, chosen once
    main,           \* "setup", "waiting" in group.Wait, or "exited"
    at,             \* the next step of the set-up
    cancelled,      \* is the context of the tasks done?
    signals,        \* "watched", "caught", or back at the "default" of the OS
    killed,         \* did a signal kill the process?
    task,           \* task[t]: "idle", "running" or "ended"
    serve,          \* serve[t]: "none", "setup", "starting", "serving", "returned"
    closer,         \* closer[t]: "none", "watching", "draining", "done"
    errs,           \* errs[m]: the errors that the variable for m holds
    result,         \* what the command returned
    synced,         \* have the caches of the manager synced?
    inflight,       \* requests the front end is working on
    arrived         \* requests that ever arrived

processVars == <<command, signals, killed>>
mainVars == <<main, at, result>>
serverVars == <<serve, closer, inflight, arrived>>
vars == <<processVars, mainVars, serverVars, cancelled, task, errs, synced>>

TypeOK ==
    /\ command \in Started
    /\ main \in {"setup", "waiting", "exited"}
    /\ at \in 1..Len(command.steps) + 1
    /\ cancelled \in BOOLEAN
    /\ signals \in {"watched", "caught", "default"}
    /\ killed \in BOOLEAN
    /\ task \in [Tasks -> {"idle", "running", "ended"}]
    /\ serve \in [Servers -> {"none", "setup", "starting", "serving", "returned"}]
    /\ closer \in [Servers -> {"none", "watching", "draining", "done"}]
    /\ errs \in [Members -> SUBSET Causes]
    /\ result \in SUBSET (Members \X Causes)
    /\ synced \in BOOLEAN
    /\ inflight \in 0..MaxRequests /\ arrived \in 0..MaxArrivals

Init ==
    /\ command \in Started
    /\ main = "setup" /\ at = 1 /\ result = {}
    /\ cancelled = FALSE
    /\ signals = "watched" /\ killed = FALSE
    /\ task = [t \in Tasks |-> "idle"]
    /\ serve = [t \in Servers |-> "none"]
    /\ closer = [t \in Servers |-> "none"]
    /\ errs = [m \in Members |-> {}]
    /\ synced = FALSE
    /\ inflight = 0 /\ arrived = 0

Alive == main # "exited" /\ ~ killed
Fail(m, cause) == errs' = [errs EXCEPT ![m] = @ \union {cause}]

-----------------------------------------------------------------------------
(* The main goroutine.                                                     *)

Doing(step) == main = "setup" /\ at \in 1..Len(command.steps) /\ command.steps[at] = step
Proceed == main' = main /\ at' = at + 1 /\ UNCHANGED result

(* An early return: the deferred group.Wait comes first.                   *)
ReturnEarly ==
    /\ main' = "waiting" /\ UNCHANGED <<at, result>>
    /\ Fail(Main, "setup")
    /\ UNCHANGED <<processVars, serverVars, task, synced>>

StepDone ==
    /\ \E step \in Fallible \union {"subscribe"} : Doing(step)
    /\ Proceed
    /\ UNCHANGED <<processVars, serverVars, cancelled, task, errs, synced>>

StepFails ==
    /\ \E step \in Fallible : Doing(step)
    /\ ReturnEarly
    /\ UNCHANGED cancelled

StartTask(t) ==
    /\ Doing(t)
    /\ Proceed
    /\ task' = [task EXCEPT ![t] = "running"]
    /\ serve' = IF t \in Servers THEN [serve EXCEPT ![t] = "setup"] ELSE serve
    /\ UNCHANGED <<processVars, cancelled, errs, synced, closer, inflight, arrived>>

(* Fault: the result of WaitForCacheSync is ignored.                       *)
CachesAssumed ==
    /\ Doing("sync")
    /\ Proceed
    /\ UNCHANGED <<processVars, serverVars, cancelled, task, errs, synced>>

CachesSynced ==
    /\ Doing("sync") /\ synced
    /\ Proceed
    /\ UNCHANGED <<processVars, serverVars, cancelled, task, errs, synced>>

(* Fault: the caller does not cancel when the caches do not sync.          *)
SyncFailsNoCancel ==
    /\ Doing("sync")
    /\ ReturnEarly
    /\ UNCHANGED cancelled

(* WaitForCacheSync gave up: a second cancel is deferred, and so runs      *)
(* before group.Wait.                                                      *)
SyncFails ==
    /\ Doing("sync")
    /\ ReturnEarly
    /\ cancelled' = TRUE

SetUpDone ==
    /\ main = "setup" /\ at = Len(command.steps) + 1
    /\ main' = "waiting"
    /\ UNCHANGED <<processVars, serverVars, at, result, cancelled, task, errs, synced>>

(* group.Wait is over: the deferred cancel, the combined errors, and stop  *)
(* of signals.Do.  With the process go the event loops, which listen to    *)
(* the context and are in no group.                                        *)
Return ==
    /\ main = "waiting" /\ (\A t \in Tasks : task[t] # "running")
    /\ main' = "exited" /\ cancelled' = TRUE /\ signals' = "default"
    /\ result' = {e \in Members \X Causes : e[2] \in errs[e[1]]}
    /\ UNCHANGED <<command, killed, serverVars, at, task, errs, synced>>

-----------------------------------------------------------------------------
(* Signals: the first one cancels, and gives the signals back to the OS.   *)

Signal ==
    /\ signals = "watched"
    /\ signals' = "caught" /\ cancelled' = TRUE
    /\ UNCHANGED <<command, killed, mainVars, serverVars, task, errs, synced>>

Restore ==
    /\ signals = "caught"
    /\ signals' = "default"
    /\ UNCHANGED <<command, killed, mainVars, serverVars, cancelled, task, errs, synced>>

SignalAgain ==
    /\ signals = "default"
    /\ killed' = TRUE
    /\ UNCHANGED <<command, signals, mainVars, serverVars, cancelled, task, errs, synced>>

-----------------------------------------------------------------------------
(* The tasks.  A task ends with the deferred cancel.                       *)

(* Fault: a task that ends does not cancel the context of the others.      *)
EndsQuietly(t, causes) ==
    /\ task[t] = "running"
    /\ task' = [task EXCEPT ![t] = "ended"]
    /\ errs' = [errs EXCEPT ![t] = @ \union causes]
    /\ UNCHANGED <<processVars, mainVars, cancelled, synced>>

Ends(t, causes) ==
    /\ task[t] = "running"
    /\ task' = [task EXCEPT ![t] = "ended"]
    /\ errs' = [errs EXCEPT ![t] = @ \union causes]
    /\ cancelled' = TRUE
    /\ UNCHANGED <<processVars, mainVars, synced>>

ManagerSyncs ==
    /\ task["manager"] = "running" /\ ~ synced
    /\ synced' = TRUE
    /\ UNCHANGED <<processVars, mainVars, serverVars, cancelled, task, errs>>

(* The manager stops when told to, with or without an error, and may fail  *)
(* at any time.                                                            *)
ManagerEnds(causes) ==
    /\ cancelled \/ causes # {}
    /\ Ends("manager", causes)
    /\ UNCHANGED serverVars

(* An error before the server runs: an expression that does not compile,   *)
(* an address that is taken.  The probes server has nothing to set up.     *)
ServerSetUpFails ==
    /\ serve["server"] = "setup"
    /\ serve' = [serve EXCEPT !["server"] = "returned"]
    /\ Ends("server", {"setup"})
    /\ UNCHANGED <<closer, inflight, arrived>>

Protocol(t) == IF t = "server" THEN command.front ELSE "http"
Closing(t) == closer[t] \in {"draining", "done"}

(* RunHttp and RunGrpc start the goroutine that will shut the server down, *)
RunServer(t) ==
    /\ serve[t] = "setup"
    /\ serve' = [serve EXCEPT ![t] = "starting"]
    /\ closer' = [closer EXCEPT ![t] = "watching"]
    /\ UNCHANGED <<processVars, mainVars, cancelled, task, errs, synced, inflight, arrived>>

ServeReturns(t, causes) ==
    /\ serve' = [serve EXCEPT ![t] = "returned"]
    /\ errs' = [errs EXCEPT ![t] = @ \union causes]
    /\ UNCHANGED <<processVars, mainVars, cancelled, task, synced, closer, inflight, arrived>>

(* and serve.  A gRPC server that was stopped before refuses with an error,*)
(* an HTTP server with ErrServerClosed, which is none.                     *)
Listen(t) ==
    /\ serve[t] = "starting" /\ ~ Closing(t)
    /\ serve' = [serve EXCEPT ![t] = "serving"]
    /\ UNCHANGED <<processVars, mainVars, cancelled, task, errs, synced, closer, inflight, arrived>>

ListenTooLate(t) ==
    /\ serve[t] = "starting" /\ Closing(t)
    /\ ServeReturns(t, IF Protocol(t) = "grpc" THEN {"stopped"} ELSE {})

ServeFails(t) ==
    /\ serve[t] \in {"starting", "serving"}
    /\ ServeReturns(t, {"serve"})

(* Serve of HTTP returns as soon as Shutdown begins, that of gRPC when     *)
(* GracefulStop is done.                                                   *)
ServeStops(t) ==
    /\ serve[t] = "serving"
    /\ IF Protocol(t) = "grpc" THEN closer[t] = "done" ELSE Closing(t)
    /\ ServeReturns(t, {})

(* The closer wakes up when the task's context or its own is done; the     *)
(* latter is cancelled when serve has returned.                            *)
Wake(t) ==
    /\ closer[t] = "watching"
    /\ cancelled \/ serve[t] = "returned"
    /\ closer' = [closer EXCEPT ![t] = "draining"]
    /\ UNCHANGED <<processVars, mainVars, cancelled, task, errs, synced, serve, inflight, arrived>>

(* Fault: the closer stops the server without waiting for its requests.    *)
DrainedAtOnce(t) ==
    /\ closer[t] = "draining"
    /\ closer' = [closer EXCEPT ![t] = "done"]
    /\ UNCHANGED <<processVars, mainVars, cancelled, task, errs, synced, serve, inflight, arrived>>

Drained(t) ==
    /\ closer[t] = "draining" /\ (t = "server" => inflight = 0)
    /\ closer' = [closer EXCEPT ![t] = "done"]
    /\ UNCHANGED <<processVars, mainVars, cancelled, task, errs, synced, serve, inflight, arrived>>

(* Only the HTTP server gives up after ten seconds.                        *)
ShutdownTimesOut(t) ==
    /\ closer[t] = "draining" /\ Protocol(t) = "http"
    /\ t = "server" /\ inflight > 0
    /\ closer' = [closer EXCEPT ![t] = "done"]
    /\ Fail(t, "shutdown")
    /\ UNCHANGED <<processVars, mainVars, cancelled, task, synced, serve, inflight, arrived>>

(* RunHttp and RunGrpc wait for their closer.                              *)
ServerEnds(t) ==
    /\ serve[t] = "returned" /\ closer[t] = "done"
    /\ Ends(t, {})
    /\ UNCHANGED serverVars

Arrive ==
    /\ serve["server"] = "serving" /\ ~ Closing("server")
    /\ inflight < MaxRequests /\ arrived < MaxArrivals
    /\ inflight' = inflight + 1 /\ arrived' = arrived + 1
    /\ UNCHANGED <<processVars, mainVars, cancelled, task, errs, synced, serve, closer>>

(* Fault: a request is counted out twice.                                  *)
AnswerTwice ==
    /\ inflight' = inflight - 1
    /\ UNCHANGED <<processVars, mainVars, cancelled, task, errs, synced, serve, closer, arrived>>

Answer ==
    /\ inflight > 0
    /\ inflight' = inflight - 1
    /\ UNCHANGED <<processVars, mainVars, cancelled, task, errs, synced, serve, closer, arrived>>

-----------------------------------------------------------------------------
MainStep ==
    \/ StepDone \/ StepFails \/ CachesSynced \/ SyncFails \/ SetUpDone \/ Return
    \/ \E t \in Tasks : StartTask(t)

Serve(t) ==
    \/ RunServer(t) \/ Listen(t) \/ ListenTooLate(t) \/ ServeFails(t) \/ ServeStops(t)
    \/ ServerEnds(t)

Close(t) == Wake(t) \/ Drained(t) \/ ShutdownTimesOut(t)

ManagerStep == ManagerSyncs \/ \E causes \in {{}, {"serve"}} : ManagerEnds(causes)

Next ==
    /\ Alive
    /\ \/ MainStep
       \/ Signal \/ Restore \/ SignalAgain
       \/ ManagerStep
       \/ ServerSetUpFails
       \/ \E t \in Servers : Serve(t) \/ Close(t)
       \/ Arrive \/ Answer

Spec == Init /\ [][Next]_vars

(* Every goroutine runs, and the manager obeys its context.  Nothing       *)
(* obliges a request to end or the caches to sync.                         *)
FairSpec ==
    /\ Spec
    /\ WF_vars(Alive /\ MainStep)
    /\ WF_vars(Alive /\ cancelled /\ ManagerStep)
    /\ \A t \in Servers : WF_vars(Alive /\ Serve(t)) /\ WF_vars(Alive /\ Close(t))

-----------------------------------------------------------------------------
(* Refinement: the command is a group of its main goroutine and its tasks, *)
(* which keeps its promises (TaskGroup): one that ends, or fails behind a  *)
(* started task, tells all; the command returns when all have ended, with  *)
(* the errors of all (RunE in every command.go, signals.Do).               *)
GroupMember ==
    [m \in Members |-> IF m \in Tasks THEN task[m]
                       ELSE IF main = "setup" THEN "running" ELSE "ended"]
GroupFailed == {m \in Members : errs[m] # {} /\ (m \in Tasks => task[m] = "ended")}
GroupOutcome == {e[1] : e \in result}

Group == INSTANCE TaskGroup WITH
    member <- GroupMember, told <- cancelled, failed <- GroupFailed,
    finished <- main = "exited", outcome <- GroupOutcome

ImplementsGroup == Group!Spec

(* With the kube policy source nothing is served, and the pod is not ready,*)
(* before the caches of the manager have synced (command.go:211).          *)
ServedInSync ==
    (\E i \in 1..Len(command.steps) : command.steps[i] = "sync")
        => \A t \in Servers : serve[t] = "serving" => synced

(* A process that ends by itself has answered every request, unless it     *)
(* reports that the bounded shutdown gave up (server/http.go:38-41).       *)
NoneCutOff == main = "exited" /\ inflight > 0 => <<"server", "shutdown">> \in result

(* Liveness: once a signal has come, a task has ended or the set-up has    *)
(* failed, the process ends, if need be without its requests; only gRPC    *)
(* waits for them without a bound (server/grpc.go:31).                     *)
Stopping == cancelled \/ errs[Main] # {} \/ \E t \in Tasks : task[t] = "ended"
Stuck == command.front = "grpc" /\ inflight > 0
AlwaysEnds == Stopping ~> [](~ Alive \/ Stuck)
=============================================================================
