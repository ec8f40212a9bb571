--------------------------- MODULE LifecycleProofs --------------------------
(***************************************************************************)
(* A command implements a task group, for any set-up whose steps can fail  *)
(* only before a task runs, any number of requests and either front end.   *)
(***************************************************************************)
EXTENDS Lifecycle, TLAPS

Steps1 == 1..Len(command.steps)

(* Who has begun was started by a step behind us, and nobody serves or     *)
(* drains before or after that.                                            *)
Begun ==
    /\ \A t \in Tasks :
            task[t] # "idle" => \E i \in Steps1 : i < at /\ command.steps[i] = t
    /\ \A i \in Steps1 : i < at /\ command.steps[i] = "sync" => synced

ServersSound ==
    \A t \in Servers :
        /\ task[t] = "idle" => serve[t] = "none" /\ closer[t] = "none"
        /\ task[t] = "ended" => serve[t] = "returned" /\ closer[t] \in {"none", "done"}

RequestsSound ==
    /\ closer["server"] = "none" => inflight = 0
    /\ serve["server"] \in {"none", "setup", "starting"} => inflight = 0
    /\ serve["server"] \in {"none", "setup"} => closer["server"] = "none"
    /\ serve["server"] \in {"starting", "serving"} => closer["server"] # "none"
    /\ closer["server"] = "done" => inflight = 0 \/ "shutdown" \in errs["server"]

Combined == {e \in Members \X Causes : e[2] \in errs[e[1]]}

Over ==
    /\ main = "setup" => errs[Main] = {}
    /\ \A t \in Tasks : task[t] = "idle" => errs[t] = {}
    /\ main = "exited" =>
            result = Combined /\ cancelled /\ \A t \in Tasks : task[t] # "running"

LifecycleInv == TypeOK /\ Begun /\ ServersSound /\ RequestsSound /\ Over

-----------------------------------------------------------------------------
LEMMA CommandFacts ==
    ASSUME NEW c \in Started
    PROVE  /\ c.front \in {"http", "grpc"}
           /\ c.steps \in Seq(Steps) /\ Len(c.steps) \in Nat
           /\ StartsLast(c.steps) /\ StartsOnce(c.steps) /\ SyncsFirst(c.steps)
  BY CommandsAssumption

LEMMA InitInv == Init => LifecycleInv
<1> SUFFICES ASSUME Init PROVE LifecycleInv
  OBVIOUS
<1> USE DEF Init
<1>0. Len(command.steps) \in Nat
  BY CommandFacts
<1>1. TypeOK
  <2>1. at \in 1..Len(command.steps) + 1
    BY <1>0
  <2>2. inflight \in 0..MaxRequests /\ arrived \in 0..MaxArrivals
    BY BoundsAssumption
  <2>3. result \in SUBSET (Members \X Causes)
    OBVIOUS
  <2>4. errs \in [Members -> SUBSET Causes]
    OBVIOUS
  <2>5. /\ task \in [Tasks -> {"idle", "running", "ended"}]
        /\ serve \in [Servers -> {"none", "setup", "starting", "serving", "returned"}]
        /\ closer \in [Servers -> {"none", "watching", "draining", "done"}]
    OBVIOUS
  <2>6. QED
    BY <2>1, <2>2, <2>3, <2>4, <2>5 DEF TypeOK
<1>2. Begun
  BY <1>0 DEF Begun, Steps1
<1>3. ServersSound /\ RequestsSound /\ Over
  BY DEF ServersSound, RequestsSound, Over, Servers, Members, Tasks, Main
<1>4. QED
  BY <1>1, <1>2, <1>3 DEF LifecycleInv

-----------------------------------------------------------------------------
LEMMA TypeStep ==
    ASSUME TypeOK, Len(command.steps) \in Nat, [Next]_vars
    PROVE  TypeOK'
<1> USE DEF TypeOK, processVars, mainVars, serverVars, Proceed, ReturnEarly, Fail, Ends,
   ServeReturns, Doing, Tasks, Servers, Members, Main, Causes
<1>1. ASSUME Alive, StepDone
     PROVE  TypeOK'
  BY <1>1 DEF StepDone
<1>2. ASSUME Alive, StepFails
     PROVE  TypeOK'
  BY <1>2 DEF StepFails
<1>3. ASSUME Alive, CachesSynced
     PROVE  TypeOK'
  BY <1>3 DEF CachesSynced
<1>4. ASSUME Alive, SyncFails
     PROVE  TypeOK'
  BY <1>4 DEF SyncFails
<1>5. ASSUME Alive, SetUpDone
     PROVE  TypeOK'
  BY <1>5 DEF SetUpDone
<1>6. ASSUME Alive, Return
     PROVE  TypeOK'
  BY <1>6 DEF Return
<1>7. ASSUME NEW t \in Tasks, Alive, StartTask(t)
     PROVE  TypeOK'
  BY <1>7 DEF StartTask
<1>8. ASSUME Alive, Signal
     PROVE  TypeOK'
  BY <1>8 DEF Signal
<1>9. ASSUME Alive, Restore
     PROVE  TypeOK'
  BY <1>9 DEF Restore
<1>10. ASSUME Alive, SignalAgain
     PROVE  TypeOK'
  BY <1>10 DEF SignalAgain
<1>11. ASSUME Alive, ManagerSyncs
     PROVE  TypeOK'
  BY <1>11 DEF ManagerSyncs
<1>12. ASSUME NEW causes \in {{}, {"serve"}}, Alive, ManagerEnds(causes)
     PROVE  TypeOK'
  BY <1>12 DEF ManagerEnds
<1>13. ASSUME Alive, ServerSetUpFails
     PROVE  TypeOK'
  BY <1>13 DEF ServerSetUpFails
<1>14. ASSUME NEW t \in Servers, Alive, RunServer(t)
     PROVE  TypeOK'
  BY <1>14 DEF RunServer
<1>15. ASSUME NEW t \in Servers, Alive, Listen(t)
     PROVE  TypeOK'
  BY <1>15 DEF Listen
<1>16. ASSUME NEW t \in Servers, Alive, ListenTooLate(t)
     PROVE  TypeOK'
  BY <1>16 DEF ListenTooLate
<1>17. ASSUME NEW t \in Servers, Alive, ServeFails(t)
     PROVE  TypeOK'
  BY <1>17 DEF ServeFails
<1>18. ASSUME NEW t \in Servers, Alive, ServeStops(t)
     PROVE  TypeOK'
  BY <1>18 DEF ServeStops
<1>19. ASSUME NEW t \in Servers, Alive, ServerEnds(t)
     PROVE  TypeOK'
  BY <1>19 DEF ServerEnds
<1>20. ASSUME NEW t \in Servers, Alive, Wake(t)
     PROVE  TypeOK'
  BY <1>20 DEF Wake
<1>21. ASSUME NEW t \in Servers, Alive, Drained(t)
     PROVE  TypeOK'
  BY <1>21 DEF Drained
<1>22. ASSUME NEW t \in Servers, Alive, ShutdownTimesOut(t)
     PROVE  TypeOK'
  BY <1>22 DEF ShutdownTimesOut
<1>23. ASSUME Alive, Arrive
     PROVE  TypeOK'
  BY <1>23, BoundsAssumption DEF Arrive
<1>24. ASSUME Alive, Answer
     PROVE  TypeOK'
  BY <1>24, BoundsAssumption DEF Answer
<1>25. CASE UNCHANGED vars
  BY <1>25 DEF vars
<1>26. QED
  BY <1>1, <1>2, <1>3, <1>4, <1>5, <1>6, <1>7, <1>8, <1>9, <1>10, <1>11, <1>12, <1>13,
     <1>14, <1>15, <1>16, <1>17, <1>18, <1>19, <1>20, <1>21, <1>22, <1>23, <1>24, <1>25
     DEF Next, MainStep, Serve, Close, ManagerStep

LEMMA BegunStep ==
    ASSUME TypeOK, Begun, [Next]_vars
    PROVE  Begun'
<1> USE DEF TypeOK, Begun, Steps1, processVars, mainVars, serverVars, Proceed,
   ReturnEarly, Fail, Ends, ServeReturns, Doing, Tasks, Servers, Fallible
<1>1. ASSUME Alive, StepDone
     PROVE  Begun'
  BY <1>1 DEF StepDone
<1>2. ASSUME Alive, StepFails
     PROVE  Begun'
  BY <1>2 DEF StepFails
<1>3. ASSUME Alive, CachesSynced
     PROVE  Begun'
  BY <1>3 DEF CachesSynced
<1>4. ASSUME Alive, SyncFails
     PROVE  Begun'
  BY <1>4 DEF SyncFails
<1>5. ASSUME Alive, SetUpDone
     PROVE  Begun'
  BY <1>5 DEF SetUpDone
<1>6. ASSUME Alive, Return
     PROVE  Begun'
  BY <1>6 DEF Return
<1>7. ASSUME NEW t \in Tasks, Alive, StartTask(t)
     PROVE  Begun'
  BY <1>7 DEF StartTask
<1>8. ASSUME Alive, Signal
     PROVE  Begun'
  BY <1>8 DEF Signal
<1>9. ASSUME Alive, Restore
     PROVE  Begun'
  BY <1>9 DEF Restore
<1>10. ASSUME Alive, SignalAgain
     PROVE  Begun'
  BY <1>10 DEF SignalAgain
<1>11. ASSUME Alive, ManagerSyncs
     PROVE  Begun'
  BY <1>11 DEF ManagerSyncs
<1>12. ASSUME NEW causes \in {{}, {"serve"}}, Alive, ManagerEnds(causes)
     PROVE  Begun'
  BY <1>12 DEF ManagerEnds
<1>13. ASSUME Alive, ServerSetUpFails
     PROVE  Begun'
  BY <1>13 DEF ServerSetUpFails
<1>14. ASSUME NEW t \in Servers, Alive, RunServer(t)
     PROVE  Begun'
  BY <1>14 DEF RunServer
<1>15. ASSUME NEW t \in Servers, Alive, Listen(t)
     PROVE  Begun'
  BY <1>15 DEF Listen
<1>16. ASSUME NEW t \in Servers, Alive, ListenTooLate(t)
     PROVE  Begun'
  BY <1>16 DEF ListenTooLate
<1>17. ASSUME NEW t \in Servers, Alive, ServeFails(t)
     PROVE  Begun'
  BY <1>17 DEF ServeFails
<1>18. ASSUME NEW t \in Servers, Alive, ServeStops(t)
     PROVE  Begun'
  BY <1>18 DEF ServeStops
<1>19. ASSUME NEW t \in Servers, Alive, ServerEnds(t)
     PROVE  Begun'
  BY <1>19 DEF ServerEnds
<1>20. ASSUME NEW t \in Servers, Alive, Wake(t)
     PROVE  Begun'
  BY <1>20 DEF Wake
<1>21. ASSUME NEW t \in Servers, Alive, Drained(t)
     PROVE  Begun'
  BY <1>21 DEF Drained
<1>22. ASSUME NEW t \in Servers, Alive, ShutdownTimesOut(t)
     PROVE  Begun'
  BY <1>22 DEF ShutdownTimesOut
<1>23. ASSUME Alive, Arrive
     PROVE  Begun'
  BY <1>23 DEF Arrive
<1>24. ASSUME Alive, Answer
     PROVE  Begun'
  BY <1>24 DEF Answer
<1>25. CASE UNCHANGED vars
  BY <1>25 DEF vars
<1>26. QED
  BY <1>1, <1>2, <1>3, <1>4, <1>5, <1>6, <1>7, <1>8, <1>9, <1>10, <1>11, <1>12, <1>13,
     <1>14, <1>15, <1>16, <1>17, <1>18, <1>19, <1>20, <1>21, <1>22, <1>23, <1>24, <1>25
     DEF Next, MainStep, Serve, Close, ManagerStep

(* A task is started from idle, because no step behind us started it.      *)
LEMMA StartsIdle ==
    ASSUME TypeOK, Begun, NEW t \in Tasks, StartTask(t)
    PROVE  task[t] = "idle"
<1>1. StartsOnce(command.steps)
  BY CommandFacts DEF TypeOK
<1>2. at \in Steps1 /\ command.steps[at] = t
  BY DEF StartTask, Doing, Steps1
<1>3. QED
  BY <1>1, <1>2 DEF Begun, StartsOnce, Steps1

LEMMA ServersStep ==
    ASSUME TypeOK, RequestsSound, ServersSound, [Next]_vars
    PROVE  ServersSound'
<1> USE DEF TypeOK, ServersSound, RequestsSound, processVars, mainVars, serverVars,
   Proceed, ReturnEarly, Fail, Ends, ServeReturns, Doing, Tasks, Servers
<1>1. ASSUME Alive, StepDone
     PROVE  ServersSound'
  BY <1>1 DEF StepDone
<1>2. ASSUME Alive, StepFails
     PROVE  ServersSound'
  BY <1>2 DEF StepFails
<1>3. ASSUME Alive, CachesSynced
     PROVE  ServersSound'
  BY <1>3 DEF CachesSynced
<1>4. ASSUME Alive, SyncFails
     PROVE  ServersSound'
  BY <1>4 DEF SyncFails
<1>5. ASSUME Alive, SetUpDone
     PROVE  ServersSound'
  BY <1>5 DEF SetUpDone
<1>6. ASSUME Alive, Return
     PROVE  ServersSound'
  BY <1>6 DEF Return
<1>7. ASSUME NEW t \in Tasks, Alive, StartTask(t)
     PROVE  ServersSound'
  BY <1>7 DEF StartTask
<1>8. ASSUME Alive, Signal
     PROVE  ServersSound'
  BY <1>8 DEF Signal
<1>9. ASSUME Alive, Restore
     PROVE  ServersSound'
  BY <1>9 DEF Restore
<1>10. ASSUME Alive, SignalAgain
     PROVE  ServersSound'
  BY <1>10 DEF SignalAgain
<1>11. ASSUME Alive, ManagerSyncs
     PROVE  ServersSound'
  BY <1>11 DEF ManagerSyncs
<1>12. ASSUME NEW causes \in {{}, {"serve"}}, Alive, ManagerEnds(causes)
     PROVE  ServersSound'
  BY <1>12 DEF ManagerEnds
<1>13. ASSUME Alive, ServerSetUpFails
     PROVE  ServersSound'
  BY <1>13 DEF ServerSetUpFails
<1>14. ASSUME NEW t \in Servers, Alive, RunServer(t)
     PROVE  ServersSound'
  BY <1>14 DEF RunServer
<1>15. ASSUME NEW t \in Servers, Alive, Listen(t)
     PROVE  ServersSound'
  BY <1>15 DEF Listen
<1>16. ASSUME NEW t \in Servers, Alive, ListenTooLate(t)
     PROVE  ServersSound'
  BY <1>16 DEF ListenTooLate
<1>17. ASSUME NEW t \in Servers, Alive, ServeFails(t)
     PROVE  ServersSound'
  BY <1>17 DEF ServeFails
<1>18. ASSUME NEW t \in Servers, Alive, ServeStops(t)
     PROVE  ServersSound'
  BY <1>18 DEF ServeStops
<1>19. ASSUME NEW t \in Servers, Alive, ServerEnds(t)
     PROVE  ServersSound'
  BY <1>19 DEF ServerEnds
<1>20. ASSUME NEW t \in Servers, Alive, Wake(t)
     PROVE  ServersSound'
  BY <1>20 DEF Wake
<1>21. ASSUME NEW t \in Servers, Alive, Drained(t)
     PROVE  ServersSound'
  BY <1>21 DEF Drained
<1>22. ASSUME NEW t \in Servers, Alive, ShutdownTimesOut(t)
     PROVE  ServersSound'
  BY <1>22 DEF ShutdownTimesOut
<1>23. ASSUME Alive, Arrive
     PROVE  ServersSound'
  BY <1>23 DEF Arrive
<1>24. ASSUME Alive, Answer
     PROVE  ServersSound'
  BY <1>24 DEF Answer
<1>25. CASE UNCHANGED vars
  BY <1>25 DEF vars
<1>26. QED
  BY <1>1, <1>2, <1>3, <1>4, <1>5, <1>6, <1>7, <1>8, <1>9, <1>10, <1>11, <1>12, <1>13,
     <1>14, <1>15, <1>16, <1>17, <1>18, <1>19, <1>20, <1>21, <1>22, <1>23, <1>24, <1>25
     DEF Next, MainStep, Serve, Close, ManagerStep

LEMMA RequestsStep ==
    ASSUME TypeOK, Begun, ServersSound, RequestsSound, [Next]_vars
    PROVE  RequestsSound'
<1> USE DEF TypeOK, RequestsSound, ServersSound, processVars, mainVars, serverVars,
   Proceed, ReturnEarly, Fail, Ends, ServeReturns, Doing, Tasks, Servers, Members, Main,
   Causes, Closing, Protocol
<1>1. ASSUME Alive, StepDone
     PROVE  RequestsSound'
  BY <1>1 DEF StepDone
<1>2. ASSUME Alive, StepFails
     PROVE  RequestsSound'
  BY <1>2 DEF StepFails
<1>3. ASSUME Alive, CachesSynced
     PROVE  RequestsSound'
  BY <1>3 DEF CachesSynced
<1>4. ASSUME Alive, SyncFails
     PROVE  RequestsSound'
  BY <1>4 DEF SyncFails
<1>5. ASSUME Alive, SetUpDone
     PROVE  RequestsSound'
  BY <1>5 DEF SetUpDone
<1>6. ASSUME Alive, Return
     PROVE  RequestsSound'
  BY <1>6 DEF Return
<1>7. ASSUME NEW t \in Tasks, Alive, StartTask(t)
     PROVE  RequestsSound'
  BY <1>7, StartsIdle DEF StartTask
<1>8. ASSUME Alive, Signal
     PROVE  RequestsSound'
  BY <1>8 DEF Signal
<1>9. ASSUME Alive, Restore
     PROVE  RequestsSound'
  BY <1>9 DEF Restore
<1>10. ASSUME Alive, SignalAgain
     PROVE  RequestsSound'
  BY <1>10 DEF SignalAgain
<1>11. ASSUME Alive, ManagerSyncs
     PROVE  RequestsSound'
  BY <1>11 DEF ManagerSyncs
<1>12. ASSUME NEW causes \in {{}, {"serve"}}, Alive, ManagerEnds(causes)
     PROVE  RequestsSound'
  BY <1>12 DEF ManagerEnds
<1>13. ASSUME Alive, ServerSetUpFails
     PROVE  RequestsSound'
  BY <1>13 DEF ServerSetUpFails
<1>14. ASSUME NEW t \in Servers, Alive, RunServer(t)
     PROVE  RequestsSound'
  BY <1>14 DEF RunServer
<1>15. ASSUME NEW t \in Servers, Alive, Listen(t)
     PROVE  RequestsSound'
  BY <1>15 DEF Listen
<1>16. ASSUME NEW t \in Servers, Alive, ListenTooLate(t)
     PROVE  RequestsSound'
  BY <1>16 DEF ListenTooLate
<1>17. ASSUME NEW t \in Servers, Alive, ServeFails(t)
     PROVE  RequestsSound'
  BY <1>17 DEF ServeFails
<1>18. ASSUME NEW t \in Servers, Alive, ServeStops(t)
     PROVE  RequestsSound'
  BY <1>18 DEF ServeStops
<1>19. ASSUME NEW t \in Servers, Alive, ServerEnds(t)
     PROVE  RequestsSound'
  BY <1>19 DEF ServerEnds
<1>20. ASSUME NEW t \in Servers, Alive, Wake(t)
     PROVE  RequestsSound'
  BY <1>20 DEF Wake
<1>21. ASSUME NEW t \in Servers, Alive, Drained(t)
     PROVE  RequestsSound'
  BY <1>21 DEF Drained
<1>22. ASSUME NEW t \in Servers, Alive, ShutdownTimesOut(t)
     PROVE  RequestsSound'
  BY <1>22 DEF ShutdownTimesOut
<1>23. ASSUME Alive, Arrive
     PROVE  RequestsSound'
  BY <1>23 DEF Arrive
<1>24. ASSUME Alive, Answer
     PROVE  RequestsSound'
  BY <1>24 DEF Answer
<1>25. CASE UNCHANGED vars
  BY <1>25 DEF vars
<1>26. QED
  BY <1>1, <1>2, <1>3, <1>4, <1>5, <1>6, <1>7, <1>8, <1>9, <1>10, <1>11, <1>12, <1>13,
     <1>14, <1>15, <1>16, <1>17, <1>18, <1>19, <1>20, <1>21, <1>22, <1>23, <1>24, <1>25
     DEF Next, MainStep, Serve, Close, ManagerStep

LEMMA OverStep ==
    ASSUME TypeOK, ServersSound, Over, [Next]_vars
    PROVE  Over'
<1> USE DEF TypeOK, ServersSound, Over, Combined, Alive, processVars, mainVars,
   serverVars, Proceed, ReturnEarly, Fail, Ends, ServeReturns, Doing, Tasks, Servers,
   Members, Main, Causes
<1>1. ASSUME Alive, StepDone
     PROVE  Over'
  BY <1>1 DEF StepDone
<1>2. ASSUME Alive, StepFails
     PROVE  Over'
  BY <1>2 DEF StepFails
<1>3. ASSUME Alive, CachesSynced
     PROVE  Over'
  BY <1>3 DEF CachesSynced
<1>4. ASSUME Alive, SyncFails
     PROVE  Over'
  BY <1>4 DEF SyncFails
<1>5. ASSUME Alive, SetUpDone
     PROVE  Over'
  BY <1>5 DEF SetUpDone
<1>6. ASSUME Alive, Return
     PROVE  Over'
  BY <1>6 DEF Return
<1>7. ASSUME NEW t \in Tasks, Alive, StartTask(t)
     PROVE  Over'
  BY <1>7 DEF StartTask
<1>8. ASSUME Alive, Signal
     PROVE  Over'
  BY <1>8 DEF Signal
<1>9. ASSUME Alive, Restore
     PROVE  Over'
  BY <1>9 DEF Restore
<1>10. ASSUME Alive, SignalAgain
     PROVE  Over'
  BY <1>10 DEF SignalAgain
<1>11. ASSUME Alive, ManagerSyncs
     PROVE  Over'
  BY <1>11 DEF ManagerSyncs
<1>12. ASSUME NEW causes \in {{}, {"serve"}}, Alive, ManagerEnds(causes)
     PROVE  Over'
  BY <1>12 DEF ManagerEnds
<1>13. ASSUME Alive, ServerSetUpFails
     PROVE  Over'
  BY <1>13 DEF ServerSetUpFails
<1>14. ASSUME NEW t \in Servers, Alive, RunServer(t)
     PROVE  Over'
  BY <1>14 DEF RunServer
<1>15. ASSUME NEW t \in Servers, Alive, Listen(t)
     PROVE  Over'
  BY <1>15 DEF Listen
<1>16. ASSUME NEW t \in Servers, Alive, ListenTooLate(t)
     PROVE  Over'
  BY <1>16 DEF ListenTooLate
<1>17. ASSUME NEW t \in Servers, Alive, ServeFails(t)
     PROVE  Over'
  BY <1>17 DEF ServeFails
<1>18. ASSUME NEW t \in Servers, Alive, ServeStops(t)
     PROVE  Over'
  BY <1>18 DEF ServeStops
<1>19. ASSUME NEW t \in Servers, Alive, ServerEnds(t)
     PROVE  Over'
  BY <1>19 DEF ServerEnds
<1>20. ASSUME NEW t \in Servers, Alive, Wake(t)
     PROVE  Over'
  BY <1>20 DEF Wake
<1>21. ASSUME NEW t \in Servers, Alive, Drained(t)
     PROVE  Over'
  BY <1>21 DEF Drained
<1>22. ASSUME NEW t \in Servers, Alive, ShutdownTimesOut(t)
     PROVE  Over'
  BY <1>22 DEF ShutdownTimesOut
<1>23. ASSUME Alive, Arrive
     PROVE  Over'
  BY <1>23 DEF Arrive
<1>24. ASSUME Alive, Answer
     PROVE  Over'
  BY <1>24 DEF Answer
<1>25. CASE UNCHANGED vars
  BY <1>25 DEF vars
<1>26. QED
  BY <1>1, <1>2, <1>3, <1>4, <1>5, <1>6, <1>7, <1>8, <1>9, <1>10, <1>11, <1>12, <1>13,
     <1>14, <1>15, <1>16, <1>17, <1>18, <1>19, <1>20, <1>21, <1>22, <1>23, <1>24, <1>25
     DEF Next, MainStep, Serve, Close, ManagerStep

-----------------------------------------------------------------------------
\* The phases of a command, of its servers and of their requests fit together,
\* however its goroutines interleave.
THEOREM LifecycleSound == Spec => []LifecycleInv
<1>1. LifecycleInv /\ [Next]_vars => LifecycleInv'
  <2> SUFFICES ASSUME LifecycleInv, [Next]_vars
               PROVE  LifecycleInv'
    OBVIOUS
  <2>1. Len(command.steps) \in Nat
    BY CommandFacts DEF LifecycleInv, TypeOK
  <2>2. QED
    BY <2>1, TypeStep, BegunStep, ServersStep, RequestsStep, OverStep DEF LifecycleInv
<1>2. QED
  BY InitInv, <1>1, PTL DEF Spec

-----------------------------------------------------------------------------
(* The step of the group that a step of the command is.                    *)
LEMMA Quiet ==
    ASSUME LifecycleInv, Alive,
           UNCHANGED <<main, cancelled, task, result>>,
           \A m \in Members : errs'[m] = errs[m] \/ (m \in Tasks /\ task[m] # "ended")
    PROVE  UNCHANGED Group!vars
<1>1. GroupMember' = GroupMember /\ GroupOutcome' = GroupOutcome
  BY DEF GroupMember, GroupOutcome
<1>2. GroupFailed' = GroupFailed
  BY DEF GroupFailed
<1>3. QED
  BY <1>1, <1>2 DEF Group!vars

LEMMA TaskEndsInGroup ==
    ASSUME LifecycleInv, NEW t \in Tasks, NEW causes, Ends(t, causes)
    PROVE  Group!TaskEnds(t, errs'[t] # {})
<1>0. TypeOK /\ t \in Members /\ Main \notin Tasks
  BY DEF LifecycleInv, Members, Main, Tasks
<1>1. GroupMember[t] = "running" /\ GroupMember' = [GroupMember EXCEPT ![t] = "ended"]
  BY <1>0 DEF GroupMember, Ends, TypeOK, mainVars
<1>2. GroupFailed' = IF errs'[t] # {} THEN GroupFailed \union {t} ELSE GroupFailed
  BY <1>0 DEF GroupFailed, Ends, TypeOK
<1>3. GroupOutcome' = GroupOutcome /\ main' = main /\ cancelled' = TRUE
  BY DEF Ends, GroupOutcome, mainVars
<1>4. QED
  BY <1>1, <1>2, <1>3 DEF Group!TaskEnds, Group!Ends, Group!Running

LEMMA MainEndsInGroup ==
    ASSUME LifecycleInv, main = "setup", main' = "waiting",
           UNCHANGED <<task, result>>, NEW bad \in BOOLEAN,
           IF bad THEN Fail(Main, "setup") ELSE UNCHANGED errs,
           cancelled' = cancelled \/ cancelled' = TRUE,
           bad /\ (\E t \in Tasks : task[t] = "running") => cancelled' = TRUE
    PROVE  Group!MainEnds(bad)
<1>0. TypeOK /\ Main \in Members /\ Main \notin Tasks /\ Over
  BY DEF LifecycleInv, Members, Main, Tasks
<1>1. GroupMember[Main] = "running" /\ GroupMember' = [GroupMember EXCEPT ![Main] = "ended"]
  BY <1>0 DEF GroupMember, TypeOK, Members
<1>2. GroupFailed' = IF bad THEN GroupFailed \union {Main} ELSE GroupFailed
  <2>1. CASE bad
    <3>1. errs' = [errs EXCEPT ![Main] = @ \union {"setup"}]
      BY <2>1 DEF Fail
    <3>2. errs'[Main] # {} /\ \A m \in Members : m # Main => errs'[m] = errs[m]
      BY <1>0, <3>1 DEF TypeOK
    <3>3. QED
      BY <1>0, <2>1, <3>2 DEF GroupFailed
  <2>2. CASE ~ bad
    BY <2>2 DEF GroupFailed
  <2>3. QED
    BY <2>1, <2>2
<1>3. GroupOutcome' = GroupOutcome
  BY DEF GroupOutcome
<1>4. \A t \in Tasks : GroupMember[t] = task[t]
  BY DEF GroupMember, Members
<1>5. cancelled' \in BOOLEAN /\ (cancelled => cancelled' = TRUE)
  BY <1>0 DEF TypeOK
<1>6. QED
  BY <1>0, <1>1, <1>2, <1>3, <1>4, <1>5 DEF Group!MainEnds, Group!Ends, Group!Running

(* No step that returns early is behind a started task.                    *)
LEMMA NoTaskYet ==
    ASSUME LifecycleInv, StepFails
    PROVE  \A t \in Tasks : task[t] # "running"
<1>1. StartsLast(command.steps)
  BY CommandFacts DEF LifecycleInv, TypeOK
<1>2. at \in Steps1 /\ command.steps[at] \in Fallible
  BY DEF StepFails, Doing, Steps1
<1>3. QED
  BY <1>1, <1>2 DEF LifecycleInv, Begun, StartsLast, Steps1

LEMMA GroupStep ==
    ASSUME LifecycleInv, [Next]_vars
    PROVE  [Group!Next]_(Group!vars)
<1> USE DEF processVars, mainVars, serverVars, Proceed
<1>0. /\ TypeOK /\ ServersSound /\ Over /\ Main \notin Tasks /\ Main \in Members
      /\ Servers \subseteq Tasks /\ Tasks \subseteq Members
  BY DEF LifecycleInv, Members, Main, Tasks, Servers
<1>1. ASSUME Alive, StepDone
     PROVE  [Group!Next]_(Group!vars)
  BY <1>1, Quiet DEF StepDone
<1>2. ASSUME Alive, StepFails
     PROVE  [Group!Next]_(Group!vars)
  <2>1. Group!MainEnds(TRUE)
    BY <1>2, MainEndsInGroup, NoTaskYet DEF StepFails, ReturnEarly, Doing
  <2>2. QED
    BY <2>1 DEF Group!Next
<1>3. ASSUME Alive, CachesSynced
     PROVE  [Group!Next]_(Group!vars)
  BY <1>3, Quiet DEF CachesSynced
<1>4. ASSUME Alive, SyncFails
     PROVE  [Group!Next]_(Group!vars)
  <2>1. Group!MainEnds(TRUE)
    BY <1>4, MainEndsInGroup DEF SyncFails, ReturnEarly, Doing
  <2>2. QED
    BY <2>1 DEF Group!Next
<1>5. ASSUME Alive, SetUpDone
     PROVE  [Group!Next]_(Group!vars)
  <2>1. Group!MainEnds(FALSE)
    BY <1>5, MainEndsInGroup DEF SetUpDone, ReturnEarly, Doing
  <2>2. QED
    BY <2>1 DEF Group!Next
<1>6. ASSUME Alive, Return
     PROVE  [Group!Next]_(Group!vars)
  <2>1. GroupMember' = GroupMember /\ GroupFailed' = GroupFailed
    BY <1>6 DEF Return, GroupMember, GroupFailed
  <2>2. \A m \in Members : GroupMember[m] # "running"
    BY <1>6, <1>0 DEF Return, GroupMember
  <2>3. \A m \in Members : errs[m] \subseteq Causes
    BY <1>0 DEF TypeOK
  <2>4. \A m \in Tasks : errs[m] # {} => task[m] = "ended"
    BY <1>6, <1>0 DEF Return, TypeOK, Over
  <2>5. GroupOutcome' = {m \in Members : errs[m] # {}}
    <3>1. result' = Combined
      BY <1>6 DEF Return, Combined
    <3>2. \A e \in Combined : e[1] \in Members /\ errs[e[1]] # {}
      BY DEF Combined
    <3>3. ASSUME NEW m \in Members, errs[m] # {}
          PROVE  \E e \in Combined : e[1] = m
      <4>1. PICK cause \in Causes : cause \in errs[m]
        BY <2>3, <3>3
      <4>2. <<m, cause>> \in Combined
        BY <4>1 DEF Combined
      <4>3. QED
        BY <4>2
    <3>4. QED
      BY <3>1, <3>2, <3>3 DEF GroupOutcome
  <2>6. GroupOutcome' = GroupFailed
    BY <2>4, <2>5 DEF GroupFailed
  <2>7. Group!Finish
    BY <1>6, <2>1, <2>2, <2>6 DEF Return, Group!Finish, Group!Running, Group!Members,
       Members
  <2>8. QED
    BY <2>7 DEF Group!Next
<1>7. ASSUME NEW t \in Tasks, Alive, StartTask(t)
     PROVE  [Group!Next]_(Group!vars)
  <2>1. task[t] = "idle" /\ main = "setup"
    BY <1>7, StartsIdle DEF LifecycleInv, StartTask, Doing
  <2>2. GroupMember' = [GroupMember EXCEPT ![t] = "running"]
    BY <1>7, <1>0 DEF StartTask, GroupMember, TypeOK
  <2>3. GroupFailed' = GroupFailed /\ GroupOutcome' = GroupOutcome
    BY <1>7, <1>0, <2>1 DEF StartTask, GroupFailed, GroupOutcome, TypeOK, Over
  <2>4. GroupMember[Main] = "running" /\ GroupMember[t] = "idle"
    BY <1>0, <2>1 DEF GroupMember
  <2>5. Group!Start(t)
    BY <1>7, <2>2, <2>3, <2>4 DEF StartTask, Group!Start, Group!Running
  <2>6. QED
    BY <2>5 DEF Group!Next
<1>8. ASSUME Alive, Signal
     PROVE  [Group!Next]_(Group!vars)
  <2>1. Group!Tell
    BY <1>8 DEF Signal, Group!Tell, GroupMember, GroupFailed, GroupOutcome
  <2>2. QED
    BY <2>1 DEF Group!Next
<1>9. ASSUME Alive, Restore
     PROVE  [Group!Next]_(Group!vars)
  BY <1>9, Quiet DEF Restore
<1>10. ASSUME Alive, SignalAgain
     PROVE  [Group!Next]_(Group!vars)
  BY <1>10, Quiet DEF SignalAgain
<1>11. ASSUME Alive, ManagerSyncs
     PROVE  [Group!Next]_(Group!vars)
  BY <1>11, Quiet DEF ManagerSyncs
<1>12. ASSUME NEW causes \in {{}, {"serve"}}, Alive, ManagerEnds(causes)
     PROVE  [Group!Next]_(Group!vars)
  <2>1. "manager" \in Tasks /\ Ends("manager", causes)
    BY <1>12, <1>0 DEF ManagerEnds, Tasks
  <2>2. Group!TaskEnds("manager", errs'["manager"] # {})
    BY <2>1, TaskEndsInGroup
  <2>3. QED
    BY <2>1, <2>2 DEF Group!Next
<1>13. ASSUME Alive, ServerSetUpFails
     PROVE  [Group!Next]_(Group!vars)
  <2>1. "server" \in Tasks /\ Ends("server", {"setup"})
    BY <1>13, <1>0 DEF ServerSetUpFails, Tasks
  <2>2. Group!TaskEnds("server", errs'["server"] # {})
    BY <2>1, TaskEndsInGroup
  <2>3. QED
    BY <2>1, <2>2 DEF Group!Next
<1>14. ASSUME NEW t \in Servers, Alive, RunServer(t)
     PROVE  [Group!Next]_(Group!vars)
  BY <1>14, Quiet DEF RunServer
<1>15. ASSUME NEW t \in Servers, Alive, Listen(t)
     PROVE  [Group!Next]_(Group!vars)
  BY <1>15, Quiet DEF Listen
<1>16. ASSUME NEW t \in Servers, Alive, ListenTooLate(t)
     PROVE  [Group!Next]_(Group!vars)
  <2>1. \A m \in Members : errs'[m] = errs[m] \/ (m \in Tasks /\ task[m] # "ended")
    BY <1>16, <1>0 DEF ListenTooLate, ServeReturns, ServersSound, TypeOK
  <2>2. QED
    BY <2>1, <1>16, Quiet DEF ListenTooLate, ServeReturns
<1>17. ASSUME NEW t \in Servers, Alive, ServeFails(t)
     PROVE  [Group!Next]_(Group!vars)
  <2>1. \A m \in Members : errs'[m] = errs[m] \/ (m \in Tasks /\ task[m] # "ended")
    BY <1>17, <1>0 DEF ServeFails, ServeReturns, ServersSound, TypeOK
  <2>2. QED
    BY <2>1, <1>17, Quiet DEF ServeFails, ServeReturns
<1>18. ASSUME NEW t \in Servers, Alive, ServeStops(t)
     PROVE  [Group!Next]_(Group!vars)
  <2>1. \A m \in Members : errs'[m] = errs[m] \/ (m \in Tasks /\ task[m] # "ended")
    BY <1>18, <1>0 DEF ServeStops, ServeReturns, ServersSound, TypeOK
  <2>2. QED
    BY <2>1, <1>18, Quiet DEF ServeStops, ServeReturns
<1>19. ASSUME NEW t \in Servers, Alive, ServerEnds(t)
     PROVE  [Group!Next]_(Group!vars)
  <2>1. t \in Tasks /\ Ends(t, {})
    BY <1>19, <1>0 DEF ServerEnds, Tasks
  <2>2. Group!TaskEnds(t, errs'[t] # {})
    BY <2>1, TaskEndsInGroup
  <2>3. QED
    BY <2>1, <2>2 DEF Group!Next
<1>20. ASSUME NEW t \in Servers, Alive, Wake(t)
     PROVE  [Group!Next]_(Group!vars)
  BY <1>20, Quiet DEF Wake
<1>21. ASSUME NEW t \in Servers, Alive, Drained(t)
     PROVE  [Group!Next]_(Group!vars)
  BY <1>21, Quiet DEF Drained
<1>22. ASSUME NEW t \in Servers, Alive, ShutdownTimesOut(t)
     PROVE  [Group!Next]_(Group!vars)
  <2>1. \A m \in Members : errs'[m] = errs[m] \/ (m \in Tasks /\ task[m] # "ended")
    BY <1>22, <1>0 DEF ShutdownTimesOut, Fail, ServersSound, TypeOK
  <2>2. QED
    BY <2>1, <1>22, Quiet DEF ShutdownTimesOut
<1>23. ASSUME Alive, Arrive
     PROVE  [Group!Next]_(Group!vars)
  BY <1>23, Quiet DEF Arrive
<1>24. ASSUME Alive, Answer
     PROVE  [Group!Next]_(Group!vars)
  BY <1>24, Quiet DEF Answer
<1>25. CASE UNCHANGED vars
  BY <1>25 DEF vars, Group!vars, GroupMember, GroupFailed, GroupOutcome
<1>26. QED
  BY <1>1, <1>2, <1>3, <1>4, <1>5, <1>6, <1>7, <1>8, <1>9, <1>10, <1>11, <1>12, <1>13,
     <1>14, <1>15, <1>16, <1>17, <1>18, <1>19, <1>20, <1>21, <1>22, <1>23, <1>24, <1>25
     DEF Next, MainStep, Serve, Close, ManagerStep

(* Every command implements the task group: whatever ends or fails, the    *)
(* others are told, none is left running when the command returns, and it  *)
(* returns every error.                                                    *)
THEOREM CommandImplementsGroup == Spec => ImplementsGroup
<1>1. Init => Group!Init
  <2> SUFFICES ASSUME Init PROVE Group!Init
    OBVIOUS
  <2>1. GroupMember = [m \in Members |-> IF m = Main THEN "running" ELSE "idle"]
    BY DEF Init, GroupMember, Members, Tasks, Main
  <2>2. GroupFailed = {} /\ GroupOutcome = {}
    BY DEF Init, GroupFailed, GroupOutcome
  <2>3. QED
    BY <2>1, <2>2 DEF Init, Group!Init, Group!Members, Members
<1>2. QED
  BY <1>1, GroupStep, LifecycleSound, PTL DEF Spec, ImplementsGroup, Group!Spec

(* The group keeps its promises: nobody is left when it has finished, all  *)
(* failures are in its outcome, and a task that ended has told the others. *)
LEMMA GroupKeepsPromises == Group!Spec => []Group!GroupInv
<1> USE DEF Group!Members, Group!Running
<1>0. Main \notin Tasks
  BY DEF Main, Tasks
<1>1. Group!Init => Group!GroupInv
  BY <1>0 DEF Group!Init, Group!GroupInv, Group!TypeOK, Group!NoneLeft,
              Group!AllReported, Group!EndIsTold
<1>2. Group!GroupInv /\ [Group!Next]_(Group!vars) => Group!GroupInv'
  <2> SUFFICES ASSUME Group!GroupInv, [Group!Next]_(Group!vars)
               PROVE  Group!GroupInv'
    OBVIOUS
  <2> USE <1>0 DEF Group!GroupInv, Group!TypeOK, Group!NoneLeft, Group!AllReported,
                   Group!EndIsTold
  <2>1. ASSUME NEW t \in Tasks, Group!Start(t) PROVE Group!GroupInv'
    BY <2>1 DEF Group!Start
  <2>2. ASSUME NEW t \in Tasks, NEW bad \in BOOLEAN, Group!TaskEnds(t, bad)
        PROVE  Group!GroupInv'
    BY <2>2 DEF Group!TaskEnds, Group!Ends
  <2>3. ASSUME NEW bad \in BOOLEAN, Group!MainEnds(bad) PROVE Group!GroupInv'
    BY <2>3 DEF Group!MainEnds, Group!Ends
  <2>4. CASE Group!Tell
    BY <2>4 DEF Group!Tell
  <2>5. CASE Group!Finish
    BY <2>5 DEF Group!Finish
  <2>6. CASE UNCHANGED Group!vars
    BY <2>6 DEF Group!vars
  <2> QED
    BY <2>1, <2>2, <2>3, <2>4, <2>5, <2>6 DEF Group!Next
<1> QED
  BY <1>1, <1>2, PTL DEF Group!Spec

(* So every command keeps them: no goroutine works behind the back of a    *)
(* command that has returned, its error is the errors of all, and a task   *)
(* that ended has cancelled the context of the others.                     *)
THEOREM CommandKeepsPromises == Spec => []Group!GroupInv
<1>1. QED
  BY CommandImplementsGroup, GroupKeepsPromises, PTL DEF ImplementsGroup

(* Types of the command, for any set of commands and any bounds.           *)
THEOREM LifecycleTypeCorrect == Spec => []TypeOK
<1>1. LifecycleInv => TypeOK
  BY DEF LifecycleInv
<1>2. QED
  BY <1>1, LifecycleSound, PTL

(* No server serves before the caches have synced, when there are any.     *)
THEOREM SyncedWhenServing == Spec => []ServedInSync
<1>1. LifecycleInv => ServedInSync
  <2> SUFFICES ASSUME LifecycleInv,
                      NEW j \in Steps1, command.steps[j] = "sync",
                      NEW t \in Servers, serve[t] = "serving"
               PROVE  synced
    BY DEF ServedInSync, Steps1
  <2>1. t \in Tasks /\ task[t] # "idle"
    BY DEF LifecycleInv, ServersSound, Servers, Tasks
  <2>2. PICK i \in Steps1 : i < at /\ command.steps[i] = t
    BY <2>1 DEF LifecycleInv, Begun
  <2>3. SyncsFirst(command.steps) /\ at \in Nat /\ Steps1 \subseteq Nat
    <3>1. command \in Started /\ at \in 1..Len(command.steps) + 1
      BY DEF LifecycleInv, TypeOK
    <3>2. QED
      BY <3>1, CommandFacts DEF Steps1
  <2>4. j < i
    BY <2>2, <2>3 DEF SyncsFirst, Steps1
  <2>5. j < at
    BY <2>2, <2>3, <2>4 DEF Steps1
  <2>6. QED
    BY <2>5 DEF LifecycleInv, Begun
<1>2. QED
  BY <1>1, LifecycleSound, PTL

(* A command that returns has answered its requests or says that it gave   *)
(* up on them, for any number of requests.                                 *)
THEOREM RequestsAreAnswered == Spec => []NoneCutOff
<1>1. LifecycleInv => NoneCutOff
  <2> SUFFICES ASSUME LifecycleInv, main = "exited", inflight > 0
               PROVE  <<"server", "shutdown">> \in result
    BY DEF NoneCutOff
  <2> USE DEF LifecycleInv, TypeOK, Tasks, Servers, Members, Main
  <2>1. inflight # 0
    BY BoundsAssumption
  <2>2. task["server"] = "ended"
    BY <2>1 DEF Over, ServersSound, RequestsSound
  <2>3. "shutdown" \in errs["server"]
    BY <2>1, <2>2 DEF ServersSound, RequestsSound
  <2>4. QED
    <3>1. <<"server", "shutdown">> \in Combined
      BY <2>3 DEF Combined, Causes
    <3>2. QED
      BY <3>1 DEF Over
<1>2. QED
  BY <1>1, LifecycleSound, PTL
=============================================================================
