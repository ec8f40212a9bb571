--------------------------- MODULE KubeSourceProofs ---------------------------
(***************************************************************************)
(* Proofs about the composite store and the kube source on top of it, for  *)
(* any number of policies, exceptions and concurrent requests and without  *)
(* the bounds of the model checker: the links and versions of the store,   *)
(* the source as an implementation of the store, the freshness of its      *)
(* cache, the text of its keys, and what its answers contain.              *)
(***************************************************************************)
EXTENDS KubeSource, SequenceTheorems, WellFoundedInduction, TLAPS

-----------------------------------------------------------------------------
(* What the handlers of the store do to its policies.                        *)

\* An exception event leaves a policy state a policy state, sets one exception,
\* counts one event and touches nothing else.
LEMMA WithExceptionLemma ==
    ASSUME NEW ps \in PolicyState, NEW e \in Exceptions,
           NEW exc \in ExceptionObject \cup {None}
    PROVE  LET new == WithException(ps, e, exc) IN
           /\ new \in PolicyState
           /\ new.policy = ps.policy
           /\ new.exceptions[e] = exc
           /\ \A d \in Exceptions \ {e} : new.exceptions[d] = ps.exceptions[d]
           /\ new.exceptionEventCounter = ps.exceptionEventCounter + 1
  <1> DEFINE links == [ps.exceptions EXCEPT ![e] = exc]
             count == ps.exceptionEventCounter + 1
  <1>1. /\ links \in [Exceptions -> ExceptionObject \cup {None}]
        /\ links[e] = exc
        /\ \A d \in Exceptions \ {e} : links[d] = ps.exceptions[d]
    BY DEF PolicyState
  <1>2. count \in Nat
    BY DEF PolicyState
  <1>3. WithException(ps, e, exc) = [ps EXCEPT !.exceptions = links,
                                               !.exceptionEventCounter = count]
    BY DEF WithException
  <1> HIDE DEF links, count
  <1>4. WithException(ps, e, exc) =
           [policy |-> ps.policy, exceptions |-> links, exceptionEventCounter |-> count]
    BY <1>3 DEF PolicyState
  <1>5. ps.policy \in PolicyObject
    BY DEF PolicyState
  <1> QED
    BY <1>1, <1>2, <1>4, <1>5 DEF PolicyState, links, count

\* What the handlers make of the map of policies.
LEMMA UnlinkedLemma ==
    ASSUME TypeOK, NEW e \in Exceptions
    PROVE  /\ Unlinked(e) \in [Policies -> PolicyState \cup {None}]
           /\ \A p \in Policies : Unlinked(e)[p] # None <=> p \in Live
           /\ \A p \in Live : Unlinked(e)[p] = WithException(policies[p], e, None)
  <1>1. \A p \in Live : WithException(policies[p], e, None) \in PolicyState
    BY WithExceptionLemma DEF TypeOK, Live
  <1> QED
    BY <1>1, NoneAssumption DEF Unlinked, Live, TypeOK

LEMMA LinkedLemma ==
    ASSUME TypeOK, NEW e \in Exceptions, NEW exc \in ExceptionObject
    PROVE  /\ Linked(e, exc) \in [Policies -> PolicyState \cup {None}]
           /\ \A p \in Policies : Linked(e, exc)[p] # None <=> p \in Live
           /\ \A p \in exc.refs \cap Live :
                 Linked(e, exc)[p] = WithException(policies[p], e, exc)
           /\ \A p \in Policies : p \notin exc.refs \cap Live =>
                 Linked(e, exc)[p] = policies[p]
  <1>1. \A p \in Live : WithException(policies[p], e, exc) \in PolicyState
    BY WithExceptionLemma DEF TypeOK, Live
  <1> QED
    BY <1>1, NoneAssumption DEF Linked, Live, TypeOK

-----------------------------------------------------------------------------
(* The types of the store.                                                   *)

LEMMA InitType == Init => TypeOK
  BY DEF Init, TypeOK

LEMMA ApiType == TypeOK /\ ApiNext => TypeOK'
  <1> SUFFICES ASSUME TypeOK, ApiNext PROVE TypeOK'
    OBVIOUS
  <1> USE DEF TypeOK, storeVars
  <1>1. ASSUME NEW p \in Policies, RemovePolicy(p) PROVE TypeOK'
    BY <1>1 DEF RemovePolicy
  <1>2. ASSUME NEW p \in Policies, NEW step \in RvSteps, NEW m \in PolicyModes,
               WritePolicy(p, step, m)
        PROVE  TypeOK'
    <2>1. apiRv' \in Nat
      BY <1>2, RvAssumption DEF WritePolicy, Commit
    <2>2. [rv |-> apiRv', mode |-> m] \in PolicyObject
      BY <2>1, ModesAssumption DEF PolicyObject
    <2> QED
      BY <1>2, <2>1, <2>2 DEF WritePolicy
  <1>3. ASSUME NEW e \in Exceptions, RemoveException(e) PROVE TypeOK'
    BY <1>3 DEF RemoveException
  <1>4. ASSUME NEW e \in Exceptions, NEW step \in RvSteps, NEW m \in Modes,
               NEW refs \in SUBSET Policies, WriteException(e, step, m, refs)
        PROVE  TypeOK'
    <2>1. apiRv' \in Nat
      BY <1>4, RvAssumption DEF WriteException, Commit
    <2>2. [rv |-> apiRv', mode |-> m, refs |-> refs] \in ExceptionObject
      BY <2>1 DEF ExceptionObject
    <2> QED
      BY <1>4, <2>1, <2>2 DEF WriteException
  <1> QED
    BY <1>1, <1>2, <1>3, <1>4 DEF ApiNext

LEMMA QueueType == TypeOK /\ QueueNext => TypeOK'
  <1> SUFFICES ASSUME TypeOK, QueueNext PROVE TypeOK'
    OBVIOUS
  <1> USE DEF TypeOK, apiVars, storeVars
  <1>1. ASSUME NEW p \in Policies, ResyncPolicy(p) PROVE TypeOK'
    BY <1>1 DEF ResyncPolicy
  <1>2. ASSUME NEW p \in Policies, TakePolicy(p) PROVE TypeOK'
    BY <1>2 DEF TakePolicy, PolicyCall
  <1>3. ASSUME NEW e \in Exceptions, ResyncException(e) PROVE TypeOK'
    BY <1>3 DEF ResyncException
  <1>4. ASSUME NEW e \in Exceptions, TakeException(e) PROVE TypeOK'
    BY <1>4 DEF TakeException, ExceptionCall
  <1> QED
    BY <1>1, <1>2, <1>3, <1>4 DEF QueueNext

LEMMA HandlePolicyType == TypeOK /\ HandlePolicy => TypeOK'
  <1> SUFFICES ASSUME TypeOK, HandlePolicy PROVE TypeOK'
    OBVIOUS
  <1> USE DEF TypeOK, apiVars
  <1>1. CASE HandlePolicyDelete
    BY <1>1 DEF HandlePolicyDelete, Removed, Dereferenced, PolicyCall
  <1>2. CASE HandlePolicyUpdate
    <2>1. [policies[vpolWork.key] EXCEPT !.policy = vpolWork.obj] \in PolicyState
      BY <1>2 DEF HandlePolicyUpdate, IsUpdate, PolicyCall, PolicyState
    <2> QED
      BY <1>2, <2>1 DEF HandlePolicyUpdate, IsUpdate, PolicyCall
  <1>3. CASE HandlePolicyCreate
    <2> DEFINE p == vpolWork.key
               new == policies'[p]
    <2>1. p \in Policies /\ vpolWork.obj \in PolicyObject
      BY <1>3 DEF HandlePolicyCreate, PolicyCall
    <2>2. new \in PolicyState
      BY <1>3, <2>1 DEF HandlePolicyCreate, PolicyState, Referring
    <2>3. policies' = [policies EXCEPT ![p] = new]
      BY <1>3, <2>1 DEF HandlePolicyCreate
    <2> QED
      BY <1>3, <2>1, <2>2, <2>3 DEF HandlePolicyCreate
  <1> QED
    BY <1>1, <1>2, <1>3 DEF HandlePolicy

LEMMA HandlePolexType == TypeOK /\ HandlePolex => TypeOK'
  <1> SUFFICES ASSUME TypeOK, HandlePolex PROVE TypeOK'
    OBVIOUS
  <1> USE DEF apiVars
  <1>1. CASE HandlePolexDelete
    <2>1. polexWork.key \in Exceptions
      BY <1>1 DEF HandlePolexDelete, TypeOK, ExceptionCall
    <2> QED
      BY <1>1, <2>1, UnlinkedLemma DEF HandlePolexDelete, TypeOK
  <1>2. CASE HandlePolexUpsert
    <2>1. polexWork.key \in Exceptions /\ polexWork.obj \in ExceptionObject
      BY <1>2 DEF HandlePolexUpsert, TypeOK, ExceptionCall
    <2>2. policies' \in [Policies -> PolicyState \cup {None}]
      BY <1>2, <2>1, LinkedLemma DEF HandlePolexUpsert
    <2> QED
      BY <1>2, <2>1, <2>2 DEF HandlePolexUpsert, TypeOK, Live
  <1> QED
    BY <1>1, <1>2 DEF HandlePolex

LEMMA RestartType == TypeOK /\ Restart => TypeOK'
  BY DEF TypeOK, Restart, NewStore, apiVars

LEMMA StepType == TypeOK /\ [Next]_csVars => TypeOK'
  <1> SUFFICES ASSUME TypeOK, [Next]_csVars PROVE TypeOK'
    OBVIOUS
  <1>1. CASE UNCHANGED csVars
    BY <1>1 DEF TypeOK, csVars, apiVars, queueVars, storeVars
  <1>2. CASE Next
    BY <1>2, ApiType, QueueType, HandlePolicyType, HandlePolexType, RestartType DEF Next
  <1> QED
    BY <1>1, <1>2

\* Every variable of the store keeps its type.
THEOREM TypeCorrect == Spec => []TypeOK
  BY InitType, StepType, PTL DEF Spec

-----------------------------------------------------------------------------
(* The links between policies and exceptions.                                *)

LinksInv == LinksConsistent /\ LinkedAreStored

LEMMA InitLinks == Init => LinksInv
  BY DEF Init, LinksInv, LinksConsistent, LinkedAreStored, Live, LinkedTo

\* Only the calls to the store and a restart write what the links are made of.
LEMMA OtherLinks ==
    LinksInv /\ UNCHANGED storeVars => LinksInv'
  BY DEF LinksInv, LinksConsistent, LinkedAreStored, Live, LinkedTo, storeVars

LEMMA DeleteLinks == TypeOK /\ LinksInv /\ HandlePolicyDelete => LinksInv'
  <1> SUFFICES ASSUME TypeOK, LinksInv, HandlePolicyDelete PROVE LinksInv'
    OBVIOUS
  <1> DEFINE k == vpolWork.key
  <1>1. k \in Policies
    BY DEF HandlePolicyDelete, TypeOK, PolicyCall
  <1>2. /\ Live' = Live \ {k}
        /\ \A p \in Live' : policies'[p] = policies[p]
        /\ exceptions' = exceptions
        /\ \A e \in Exceptions : references'[e] = references[e] \ {k}
    BY <1>1 DEF HandlePolicyDelete, Removed, Dereferenced, TypeOK, Live
  <1>3. LinksConsistent'
    <2> SUFFICES ASSUME NEW e \in Exceptions
                 PROVE  /\ exceptions'[e] = None => references'[e] = {}
                        /\ exceptions'[e] # None =>
                             /\ references'[e] = exceptions'[e].refs \cap Live'
                             /\ \A p \in references'[e] :
                                   policies'[p].exceptions[e] = exceptions'[e]
      BY DEF LinksConsistent
    <2> QED
      BY <1>2 DEF LinksInv, LinksConsistent
  <1>4. LinkedAreStored'
    BY <1>2 DEF LinksInv, LinkedAreStored, LinkedTo
  <1> QED
    BY <1>3, <1>4 DEF LinksInv

LEMMA UpdateLinks == TypeOK /\ LinksInv /\ HandlePolicyUpdate => LinksInv'
  <1> SUFFICES ASSUME TypeOK, LinksInv, HandlePolicyUpdate PROVE LinksInv'
    OBVIOUS
  <1> DEFINE k == vpolWork.key
  <1>1. k \in Live
    BY DEF HandlePolicyUpdate, IsUpdate, TypeOK, PolicyCall, Live
  <1>2. policies'[k] = [policies[k] EXCEPT !.policy = vpolWork.obj]
    BY <1>1 DEF HandlePolicyUpdate, TypeOK, Live
  <1>3. policies[k] \in PolicyState
    BY <1>1 DEF TypeOK, Live
  <1>4. policies'[k].exceptions = policies[k].exceptions /\ policies'[k] # None
    <2>1. vpolWork.obj \in PolicyObject
      BY DEF HandlePolicyUpdate, IsUpdate, TypeOK, PolicyCall
    <2>2. policies'[k] \in PolicyState
      BY <1>2, <1>3, <2>1 DEF PolicyState
    <2> QED
      BY <1>2, <1>3, <2>2, NoneAssumption DEF PolicyState
  <1>5. \A p \in Policies \ {k} : policies'[p] = policies[p]
    BY DEF HandlePolicyUpdate, TypeOK
  <1>6. /\ Live' = Live
        /\ \A p \in Live : policies'[p].exceptions = policies[p].exceptions
        /\ UNCHANGED <<exceptions, references>>
    BY <1>1, <1>4, <1>5 DEF HandlePolicyUpdate, Live
  <1> QED
    BY <1>6 DEF LinksInv, LinksConsistent, LinkedAreStored, LinkedTo, TypeOK

LEMMA CreateLinks == TypeOK /\ LinksInv /\ HandlePolicyCreate => LinksInv'
  <1> SUFFICES ASSUME TypeOK, LinksInv, HandlePolicyCreate PROVE LinksInv'
    OBVIOUS
  <1> DEFINE k == vpolWork.key
  <1>1. k \in Policies /\ k \notin Live
    BY DEF HandlePolicyCreate, TypeOK, PolicyCall, Live
  <1>2. /\ policies'[k].exceptions =
              [e \in Exceptions |-> IF e \in Referring(k) THEN exceptions[e] ELSE None]
        /\ policies'[k] # None
    <2>1. policies'[k] = [policy     |-> vpolWork.obj,
                          exceptions |-> [e \in Exceptions |->
                                 IF e \in Referring(k) THEN exceptions[e] ELSE None],
                          exceptionEventCounter |-> 0]
      BY <1>1 DEF HandlePolicyCreate, TypeOK
    <2>2. policies'[k] \in PolicyState
      BY <2>1 DEF HandlePolicyCreate, TypeOK, PolicyCall, PolicyState, Referring
    <2> QED
      BY <2>1, <2>2, NoneAssumption
  <1>3. /\ Live' = Live \cup {k}
        /\ \A p \in Live : policies'[p] = policies[p]
        /\ exceptions' = exceptions
        /\ \A e \in Exceptions :
              references'[e] = IF e \in Referring(k) THEN references[e] \cup {k}
                               ELSE references[e]
    BY <1>1, <1>2 DEF HandlePolicyCreate, TypeOK, Live
  <1>4. LinksConsistent'
    <2> SUFFICES ASSUME NEW e \in Exceptions
                 PROVE  /\ exceptions'[e] = None => references'[e] = {}
                        /\ exceptions'[e] # None =>
                             /\ references'[e] = exceptions'[e].refs \cap Live'
                             /\ \A p \in references'[e] :
                                   policies'[p].exceptions[e] = exceptions'[e]
      BY DEF LinksConsistent
    <2>1. CASE e \in Referring(k)
      <3>1. exceptions[e] # None /\ k \in exceptions[e].refs
        BY <2>1 DEF Referring
      <3>2. policies'[k].exceptions[e] = exceptions[e]
        BY <1>2, <2>1
      <3>3. exceptions'[e] = exceptions[e] /\ references'[e] = references[e] \cup {k}
        BY <1>3, <2>1
      <3>4. references[e] \cup {k} = exceptions[e].refs \cap Live'
        BY <1>3, <3>1 DEF LinksInv, LinksConsistent
      <3>5. \A p \in references[e] : policies'[p].exceptions[e] = exceptions[e]
        BY <1>3, <3>1 DEF LinksInv, LinksConsistent
      <3> QED
        BY <3>1, <3>2, <3>3, <3>4, <3>5
    <2>2. CASE e \notin Referring(k)
      <3>1. exceptions[e] # None => k \notin exceptions[e].refs
        BY <2>2 DEF Referring
      <3>2. exceptions'[e] = exceptions[e] /\ references'[e] = references[e]
        BY <1>3, <2>2
      <3>3. exceptions[e] # None => references[e] = exceptions[e].refs \cap Live'
        BY <1>1, <1>3, <3>1 DEF LinksInv, LinksConsistent
      <3>4. exceptions[e] # None =>
               \A p \in references[e] : policies'[p].exceptions[e] = exceptions[e]
        BY <1>3 DEF LinksInv, LinksConsistent
      <3> QED
        BY <3>2, <3>3, <3>4 DEF LinksInv, LinksConsistent
    <2> QED
      BY <2>1, <2>2
  <1>5. LinkedAreStored'
    BY <1>2, <1>3 DEF LinksInv, LinkedAreStored, LinkedTo
  <1> QED
    BY <1>4, <1>5 DEF LinksInv

LEMMA PolexDeleteLinks == TypeOK /\ LinksInv /\ HandlePolexDelete => LinksInv'
  <1> SUFFICES ASSUME TypeOK, LinksInv, HandlePolexDelete PROVE LinksInv'
    OBVIOUS
  <1> DEFINE k == polexWork.key
  <1>1. k \in Exceptions
    BY DEF HandlePolexDelete, TypeOK, ExceptionCall
  <1>2. Live' = Live
    BY <1>1, UnlinkedLemma DEF HandlePolexDelete, Live
  <1>3. ASSUME NEW p \in Live
        PROVE  /\ policies'[p].exceptions[k] = None
               /\ \A e \in Exceptions \ {k} :
                     policies'[p].exceptions[e] = policies[p].exceptions[e]
    <2>1. policies[p] \in PolicyState
      BY DEF Live, TypeOK
    <2>2. policies'[p] = WithException(policies[p], k, None)
      BY <1>1, UnlinkedLemma DEF HandlePolexDelete
    <2> QED
      BY <1>1, <2>1, <2>2, WithExceptionLemma
  <1>4. /\ exceptions'[k] = None /\ references'[k] = {}
        /\ \A e \in Exceptions \ {k} :
              exceptions'[e] = exceptions[e] /\ references'[e] = references[e]
    BY <1>1 DEF HandlePolexDelete, TypeOK
  <1>5. LinksConsistent'
    <2> SUFFICES ASSUME NEW e \in Exceptions \ {k}, exceptions[e] # None
                 PROVE  \A p \in references[e] : p \in Live
      BY <1>2, <1>3, <1>4 DEF LinksInv, LinksConsistent
    <2> QED
      BY DEF LinksInv, LinksConsistent
  <1>6. LinkedAreStored'
    BY <1>2, <1>3, <1>4 DEF LinksInv, LinkedAreStored, LinkedTo
  <1> QED
    BY <1>5, <1>6 DEF LinksInv

LEMMA PolexUpsertLinks == TypeOK /\ LinksInv /\ HandlePolexUpsert => LinksInv'
  <1> SUFFICES ASSUME TypeOK, LinksInv, HandlePolexUpsert PROVE LinksInv'
    OBVIOUS
  <1> DEFINE k == polexWork.key
             exc == polexWork.obj
             hit == exc.refs \cap Live
  <1>1. k \in Exceptions /\ exc \in ExceptionObject /\ exc # None
    BY DEF HandlePolexUpsert, TypeOK, ExceptionCall
  <1>2. Live' = Live
    BY <1>1, LinkedLemma DEF HandlePolexUpsert, Live
  <1>3. ASSUME NEW p \in hit
        PROVE  /\ policies'[p].exceptions[k] = exc
               /\ \A e \in Exceptions \ {k} :
                     policies'[p].exceptions[e] = policies[p].exceptions[e]
    <2>1. policies[p] \in PolicyState
      BY DEF Live, TypeOK
    <2>2. policies'[p] = WithException(policies[p], k, exc)
      BY <1>1, LinkedLemma DEF HandlePolexUpsert
    <2> QED
      BY <1>1, <2>1, <2>2, WithExceptionLemma
  <1>4. \A p \in Live \ hit : policies'[p] = policies[p]
    BY <1>1, LinkedLemma DEF HandlePolexUpsert, Live
  <1>5. CASE hit = {}
    <2>1. UNCHANGED <<exceptions, references>>
      BY <1>5 DEF HandlePolexUpsert
    <2>2. \A p \in Live : policies'[p] = policies[p]
      BY <1>4, <1>5
    <2> QED
      BY <1>2, <2>1, <2>2 DEF LinksInv, LinksConsistent, LinkedAreStored, LinkedTo
  <1>6. CASE hit # {}
    <2>1. /\ exceptions'[k] = exc /\ references'[k] = hit
          /\ \A e \in Exceptions \ {k} :
                exceptions'[e] = exceptions[e] /\ references'[e] = references[e]
      BY <1>1, <1>6 DEF HandlePolexUpsert, TypeOK
    <2>2. LinksConsistent'
      <3> SUFFICES ASSUME NEW e \in Exceptions
                   PROVE  /\ exceptions'[e] = None => references'[e] = {}
                          /\ exceptions'[e] # None =>
                               /\ references'[e] = exceptions'[e].refs \cap Live'
                               /\ \A p \in references'[e] :
                                     policies'[p].exceptions[e] = exceptions'[e]
        BY DEF LinksConsistent
      <3>1. CASE e = k
        BY <1>1, <1>2, <1>3, <2>1, <3>1
      <3>2. CASE e # k
        BY <1>2, <1>3, <1>4, <2>1, <3>2 DEF LinksInv, LinksConsistent
      <3> QED
        BY <3>1, <3>2
    <2>3. LinkedAreStored'
      <3> SUFFICES ASSUME NEW p \in Live, NEW e \in Exceptions,
                          policies'[p].exceptions[e] # None
                   PROVE  exceptions'[e] # None
        BY <1>2 DEF LinkedAreStored, LinkedTo
      <3>1. CASE e = k
        BY <1>1, <2>1, <3>1
      <3>2. CASE e # k
        <4>1. policies'[p].exceptions[e] = policies[p].exceptions[e]
          BY <1>3, <1>4, <3>2
        <4> QED
          BY <2>1, <3>2, <4>1 DEF LinksInv, LinkedAreStored, LinkedTo
      <3> QED
        BY <3>1, <3>2
    <2> QED
      BY <2>2, <2>3 DEF LinksInv
  <1> QED
    BY <1>5, <1>6

LEMMA StepLinks == TypeOK /\ LinksInv /\ [Next]_csVars => LinksInv'
  <1> SUFFICES ASSUME TypeOK, LinksInv, [Next]_csVars PROVE LinksInv'
    OBVIOUS
  <1>1. CASE UNCHANGED storeVars
    BY <1>1, OtherLinks
  <1>2. CASE ApiNext \/ QueueNext
    <2> UNCHANGED storeVars
      BY <1>2 DEF ApiNext, QueueNext, RemovePolicy, WritePolicy, RemoveException,
                  WriteException, ResyncPolicy, TakePolicy, ResyncException, TakeException
    <2> QED
      BY OtherLinks
  <1>3. CASE HandlePolicy
    BY <1>3, DeleteLinks, UpdateLinks, CreateLinks DEF HandlePolicy
  <1>4. CASE HandlePolex
    BY <1>4, PolexDeleteLinks, PolexUpsertLinks DEF HandlePolex
  <1>5. CASE Restart
    BY <1>5 DEF Restart, NewStore, LinksInv, LinksConsistent, LinkedAreStored, Live, LinkedTo
  <1> QED
    BY <1>1, <1>2, <1>3, <1>4, <1>5 DEF Next, csVars

THEOREM LinksSound == Spec => [](LinksConsistent /\ LinkedAreStored)
  <1>1. Spec => []LinksInv
    BY InitLinks, StepLinks, TypeCorrect, PTL DEF Spec
  <1>2. LinksInv => LinksConsistent /\ LinkedAreStored
    BY DEF LinksInv
  <1> QED
    BY <1>1, <1>2, PTL

\* No policy is compiled with an exception the store has dropped.
THEOREM OnlyStoredLinked == Spec => []LinkedAreStored
  BY LinksSound, PTL

-----------------------------------------------------------------------------
(* The versions of a policy in the API server, in flight and in the store.   *)

\* What an exception event and an update leave of a policy state.
LEMMA PolexPolicies ==
    ASSUME TypeOK, HandlePolex
    PROVE  /\ Live' = Live
           /\ \A p \in Live :
                 /\ policies'[p].policy = policies[p].policy
                 /\ \/ policies'[p] = policies[p]
                    \/ policies'[p].exceptionEventCounter
                          = policies[p].exceptionEventCounter + 1
  <1>1. CASE HandlePolexDelete
    <2>1. polexWork.key \in Exceptions
      BY <1>1 DEF HandlePolexDelete, TypeOK, ExceptionCall
    <2>2. Live' = Live
      BY <1>1, <2>1, UnlinkedLemma DEF HandlePolexDelete, Live
    <2>3. ASSUME NEW p \in Live
          PROVE  /\ policies'[p].policy = policies[p].policy
                 /\ policies'[p].exceptionEventCounter
                       = policies[p].exceptionEventCounter + 1
      <3>1. policies[p] \in PolicyState
        BY DEF TypeOK, Live
      <3>2. policies'[p] = WithException(policies[p], polexWork.key, None)
        BY <1>1, <2>1, UnlinkedLemma DEF HandlePolexDelete
      <3> QED
        BY <2>1, <3>1, <3>2, WithExceptionLemma
    <2> QED
      BY <2>2, <2>3
  <1>2. CASE HandlePolexUpsert
    <2> DEFINE hit == polexWork.obj.refs \cap Live
    <2>1. polexWork.key \in Exceptions /\ polexWork.obj \in ExceptionObject
      BY <1>2 DEF HandlePolexUpsert, TypeOK, ExceptionCall
    <2>2. policies' = Linked(polexWork.key, polexWork.obj)
      BY <1>2 DEF HandlePolexUpsert
    <2>3. Live' = Live
      BY <2>1, <2>2, LinkedLemma DEF Live
    <2>4. ASSUME NEW p \in hit
          PROVE  /\ policies'[p].policy = policies[p].policy
                 /\ policies'[p].exceptionEventCounter
                       = policies[p].exceptionEventCounter + 1
      <3>1. policies[p] \in PolicyState
        BY DEF TypeOK, Live
      <3>2. policies'[p] = WithException(policies[p], polexWork.key, polexWork.obj)
        BY <2>1, <2>2, LinkedLemma
      <3> QED
        BY <2>1, <3>1, <3>2, WithExceptionLemma
    <2>5. \A p \in Live \ hit : policies'[p] = policies[p]
      BY <2>1, <2>2, LinkedLemma DEF Live
    <2> QED
      BY <2>3, <2>4, <2>5
  <1> QED
    BY <1>1, <1>2 DEF HandlePolex

LEMMA UpdatePolicies ==
    ASSUME TypeOK, HandlePolicyUpdate
    PROVE  LET k == vpolWork.key IN
           /\ k \in Live /\ Live' = Live
           /\ vpolWork.obj \in PolicyObject
           /\ policies'[k] = [policies[k] EXCEPT !.policy = vpolWork.obj]
           /\ policies'[k].policy = vpolWork.obj
           /\ policies'[k].exceptionEventCounter = policies[k].exceptionEventCounter
           /\ \A p \in Policies \ {k} : policies'[p] = policies[p]
  <1> DEFINE k == vpolWork.key
  <1>1. k \in Live /\ vpolWork.obj \in PolicyObject /\ policies[k] \in PolicyState
    BY DEF HandlePolicyUpdate, IsUpdate, TypeOK, PolicyCall, Live
  <1>2. policies'[k] = [policies[k] EXCEPT !.policy = vpolWork.obj]
    BY <1>1 DEF HandlePolicyUpdate, TypeOK, Live
  <1>3. policies'[k] \in PolicyState
    BY <1>1, <1>2 DEF PolicyState
  <1>4. /\ policies'[k].policy = vpolWork.obj
        /\ policies'[k].exceptionEventCounter = policies[k].exceptionEventCounter
    BY <1>1, <1>2 DEF PolicyState
  <1>5. \A p \in Policies \ {k} : policies'[p] = policies[p]
    BY DEF HandlePolicyUpdate, TypeOK
  <1>6. Live' = Live
    BY <1>1, <1>3, <1>5, NoneAssumption DEF Live
  <1> QED
    BY <1>1, <1>2, <1>4, <1>5, <1>6

LEMMA CreatePolicies ==
    ASSUME TypeOK, HandlePolicyCreate
    PROVE  LET k == vpolWork.key IN
           /\ k \in Policies \ Live /\ Live' = Live \cup {k}
           /\ vpolWork.obj \in PolicyObject
           /\ policies'[k].policy = vpolWork.obj
           /\ policies'[k].exceptionEventCounter = 0
           /\ \A p \in Policies \ {k} : policies'[p] = policies[p]
  <1> DEFINE k == vpolWork.key
  <1>1. k \in Policies \ Live /\ vpolWork.obj \in PolicyObject
    BY DEF HandlePolicyCreate, TypeOK, PolicyCall, Live
  <1>2. policies'[k] = [policy     |-> vpolWork.obj,
                        exceptions |-> [e \in Exceptions |->
                               IF e \in Referring(k) THEN exceptions[e] ELSE None],
                        exceptionEventCounter |-> 0]
    BY <1>1 DEF HandlePolicyCreate, TypeOK
  <1>3. policies'[k] \in PolicyState
    BY <1>1, <1>2 DEF TypeOK, PolicyState, Referring
  <1>4. \A p \in Policies \ {k} : policies'[p] = policies[p]
    BY <1>1 DEF HandlePolicyCreate, TypeOK
  <1>5. Live' = Live \cup {k}
    BY <1>1, <1>3, <1>4, NoneAssumption DEF Live
  <1> QED
    BY <1>1, <1>2, <1>4, <1>5

LEMMA DeletePolicies ==
    ASSUME TypeOK, HandlePolicyDelete
    PROVE  LET k == vpolWork.key IN
           /\ k \in Policies /\ Live' = Live \ {k}
           /\ \A p \in Policies \ {k} : policies'[p] = policies[p]
  <1>1. vpolWork.key \in Policies
    BY DEF HandlePolicyDelete, TypeOK, PolicyCall
  <1> QED
    BY <1>1 DEF HandlePolicyDelete, Removed, TypeOK, Live

LEMMA InitOrder == Init => VersionsOrdered
  BY DEF Init, VersionsOrdered, CallFor, Live

LEMMA ApiOrder == TypeOK /\ VersionsOrdered /\ ApiNext => VersionsOrdered'
  <1> SUFFICES ASSUME TypeOK, VersionsOrdered, ApiNext PROVE VersionsOrdered'
    OBVIOUS
  <1>0. /\ Live' = Live
        /\ \A p \in Policies : CallFor(p)' <=> CallFor(p)
        /\ UNCHANGED <<vpolWork, policies>>
    BY DEF ApiNext, RemovePolicy, WritePolicy, RemoveException, WriteException,
           storeVars, Live, CallFor
  <1>1. ASSUME NEW q \in Policies, RemovePolicy(q) PROVE VersionsOrdered'
    BY <1>0, <1>1 DEF RemovePolicy, VersionsOrdered, TypeOK
  <1>2. ASSUME NEW q \in Policies, NEW step \in RvSteps, NEW m \in PolicyModes,
               WritePolicy(q, step, m)
        PROVE  VersionsOrdered'
    <2>1. apiRv \in Nat /\ apiRv' \in Nat /\ apiRv' > apiRv
      BY <1>2, RvAssumption DEF WritePolicy, Commit, TypeOK
    <2>2. /\ apiPolicies'[q].rv = apiRv'
          /\ \A p \in Policies \ {q} : apiPolicies'[p] = apiPolicies[p]
      BY <1>2 DEF WritePolicy, TypeOK
    <2>3. \A p \in Policies :
            /\ apiPolicies[p] # None => apiPolicies[p] \in PolicyObject
            /\ p \in Live => policies[p].policy \in PolicyObject
            /\ CallFor(p) /\ vpolWork.obj # None => vpolWork.obj \in PolicyObject
      BY DEF TypeOK, Live, CallFor, PolicyCall, PolicyState
    <2> SUFFICES ASSUME NEW p \in Policies
                 PROVE
        /\ apiPolicies'[p] # None => apiPolicies'[p].rv <= apiRv'
        /\ CallFor(p) /\ vpolWork.obj # None =>
              /\ vpolWork.obj.rv <= apiRv'
              /\ apiPolicies'[p] # None => NotAfter(vpolWork.obj, apiPolicies'[p])
        /\ p \in Live =>
              /\ policies[p].policy.rv <= apiRv'
              /\ apiPolicies'[p] # None => NotAfter(policies[p].policy, apiPolicies'[p])
              /\ CallFor(p) /\ vpolWork.obj # None =>
                    NotAfter(policies[p].policy, vpolWork.obj)
              /\ CallFor(p) /\ vpolWork.obj = None /\ apiPolicies'[p] # None =>
                    policies[p].policy.rv < apiPolicies'[p].rv
      BY <1>0 DEF VersionsOrdered, NotAfter
    <2>4. CASE p = q
      BY <2>1, <2>2, <2>3, <2>4 DEF VersionsOrdered, NotAfter, PolicyObject
    <2>5. CASE p # q
      BY <2>1, <2>2, <2>3, <2>5 DEF VersionsOrdered, NotAfter, PolicyObject
    <2> QED
      BY <2>4, <2>5
  <1>3. ASSUME NEW e \in Exceptions, RemoveException(e) PROVE VersionsOrdered'
    BY <1>0, <1>3 DEF RemoveException, VersionsOrdered
  <1>4. ASSUME NEW e \in Exceptions, NEW step \in RvSteps, NEW m \in Modes,
               NEW refs \in SUBSET Policies, WriteException(e, step, m, refs)
        PROVE  VersionsOrdered'
    <2>1. apiRv \in Nat /\ apiRv' \in Nat /\ apiRv' > apiRv /\ UNCHANGED apiPolicies
      BY <1>4, RvAssumption DEF WriteException, Commit, TypeOK
    <2>2. \A p \in Policies :
            /\ apiPolicies[p] # None => apiPolicies[p].rv \in Nat
            /\ p \in Live => policies[p].policy.rv \in Nat
            /\ CallFor(p) /\ vpolWork.obj # None => vpolWork.obj.rv \in Nat
      BY DEF TypeOK, Live, CallFor, PolicyCall, PolicyState, PolicyObject
    <2> QED
      BY <1>0, <2>1, <2>2 DEF VersionsOrdered, NotAfter
  <1> QED
    BY <1>1, <1>2, <1>3, <1>4 DEF ApiNext

LEMMA QueueOrder == TypeOK /\ VersionsOrdered /\ QueueNext => VersionsOrdered'
  <1> SUFFICES ASSUME TypeOK, VersionsOrdered, QueueNext PROVE VersionsOrdered'
    OBVIOUS
  <1>0. Live' = Live /\ UNCHANGED <<apiVars, policies>>
    BY DEF QueueNext, ResyncPolicy, TakePolicy, ResyncException, TakeException,
           storeVars, Live
  <1>1. CASE UNCHANGED vpolWork
    BY <1>0, <1>1 DEF VersionsOrdered, NotAfter, CallFor, apiVars
  <1>2. ASSUME NEW q \in Policies, TakePolicy(q) PROVE VersionsOrdered'
    <2>1. vpolWork' = [key |-> q, obj |-> apiPolicies[q]]
      BY <1>2 DEF TakePolicy
    <2>2. \A p \in Policies : CallFor(p)' => p = q
      BY <2>1 DEF CallFor
    <2>3. apiPolicies[q] # None => apiPolicies[q].rv \in Nat
      BY DEF TypeOK, PolicyObject
    <2> QED
      BY <1>0, <2>1, <2>2, <2>3 DEF VersionsOrdered, NotAfter, apiVars
  <1> QED
    BY <1>1, <1>2 DEF QueueNext, ResyncPolicy, ResyncException, TakeException

LEMMA HandleOrder ==
    TypeOK /\ VersionsOrdered /\ (HandlePolicy \/ HandlePolex) => VersionsOrdered'
  <1> SUFFICES ASSUME TypeOK, VersionsOrdered, HandlePolicy \/ HandlePolex
               PROVE  VersionsOrdered'
    OBVIOUS
  <1>0. UNCHANGED apiVars
    BY DEF HandlePolicy, HandlePolex, HandlePolicyDelete, HandlePolicyUpdate,
           HandlePolicyCreate, HandlePolexDelete, HandlePolexUpsert
  <1>1. CASE HandlePolicyDelete
    <2>1. \A p \in Policies : ~CallFor(p)'
      BY <1>1 DEF HandlePolicyDelete, CallFor
    <2> QED
      BY <1>0, <1>1, <2>1, DeletePolicies DEF VersionsOrdered, NotAfter, apiVars
  <1>2. CASE HandlePolicyUpdate
    <2>1. \A p \in Policies : ~CallFor(p)'
      BY <1>2 DEF HandlePolicyUpdate, CallFor
    <2>2. CallFor(vpolWork.key) /\ vpolWork.obj # None
      BY <1>2 DEF HandlePolicyUpdate, IsUpdate, CallFor
    <2> QED
      BY <1>0, <1>2, <2>1, <2>2, UpdatePolicies DEF VersionsOrdered, NotAfter, apiVars
  <1>3. CASE HandlePolicyCreate
    <2>1. \A p \in Policies : ~CallFor(p)'
      BY <1>3 DEF HandlePolicyCreate, CallFor
    <2>2. CallFor(vpolWork.key) /\ vpolWork.obj # None
      BY <1>3 DEF HandlePolicyCreate, CallFor
    <2> QED
      BY <1>0, <1>3, <2>1, <2>2, CreatePolicies DEF VersionsOrdered, NotAfter, apiVars
  <1>4. CASE HandlePolex
    <2>1. UNCHANGED vpolWork
      BY <1>4 DEF HandlePolex, HandlePolexDelete, HandlePolexUpsert
    <2> QED
      BY <1>0, <1>4, <2>1, PolexPolicies DEF VersionsOrdered, NotAfter, CallFor, apiVars
  <1> QED
    BY <1>1, <1>2, <1>3, <1>4 DEF HandlePolicy

LEMMA RestartOrder == VersionsOrdered /\ Restart => VersionsOrdered'
  BY DEF VersionsOrdered, NotAfter, Restart, NewStore, CallFor, Live, apiVars

LEMMA StepOrder == TypeOK /\ VersionsOrdered /\ [Next]_csVars => VersionsOrdered'
  <1> SUFFICES ASSUME TypeOK, VersionsOrdered, [Next]_csVars PROVE VersionsOrdered'
    OBVIOUS
  <1>1. CASE UNCHANGED csVars
    BY <1>1 DEF VersionsOrdered, NotAfter, CallFor, Live, csVars, apiVars, queueVars, storeVars
  <1>2. CASE Next
    BY <1>2, ApiOrder, QueueOrder, HandleOrder, RestartOrder DEF Next
  <1> QED
    BY <1>1, <1>2

\* A step of the store takes every policy it keeps to a later version.
LEMMA StepAdvances ==
    ASSUME TypeOK, VersionsOrdered, [Next]_csVars, NEW p \in Policies,
           policies[p] # None, policies'[p] # None
    PROVE  VersionStep(policies[p], policies'[p])
  <1>0. p \in Live /\ policies[p] \in PolicyState
    BY DEF Live, TypeOK
  <1>a. policies[p].policy.rv \in Nat /\ policies[p].exceptionEventCounter \in Nat
    BY <1>0 DEF PolicyState, PolicyObject
  <1>1. CASE policies'[p] = policies[p]
    BY <1>a, <1>1 DEF VersionStep, Version
  <1>2. CASE HandlePolicyUpdate
    <2>1. CASE p # vpolWork.key
      BY <1>1, <1>2, <2>1, UpdatePolicies
    <2>2. CASE p = vpolWork.key
      <3>1. CallFor(p) /\ vpolWork.obj # None
        BY <1>2, <2>2 DEF HandlePolicyUpdate, IsUpdate, CallFor
      <3>2. NotAfter(policies[p].policy, vpolWork.obj)
        BY <1>0, <3>1 DEF VersionsOrdered
      <3>3. /\ policies'[p] = [policies[p] EXCEPT !.policy = vpolWork.obj]
            /\ policies'[p].policy = vpolWork.obj
            /\ policies'[p].exceptionEventCounter = policies[p].exceptionEventCounter
        BY <1>2, <2>2, UpdatePolicies
      <3>4. policies[p].policy = vpolWork.obj => policies'[p] = policies[p]
        BY <1>0, <3>3 DEF PolicyState
      <3> QED
        BY <1>a, <3>2, <3>3, <3>4 DEF VersionStep, Version, NotAfter
    <2> QED
      BY <2>1, <2>2
  <1>3. CASE HandlePolicyCreate
    BY <1>0, <1>1, <1>3, CreatePolicies
  <1>4. CASE HandlePolicyDelete
    <2>1. p # vpolWork.key
      BY <1>4 DEF HandlePolicyDelete, Removed, TypeOK
    <2> QED
      BY <1>1, <1>4, <2>1, DeletePolicies
  <1>5. CASE HandlePolex
    BY <1>0, <1>a, <1>1, <1>5, PolexPolicies DEF VersionStep, Version
  <1>6. CASE ApiNext \/ QueueNext \/ UNCHANGED csVars
    BY <1>1, <1>6 DEF ApiNext, QueueNext, RemovePolicy, WritePolicy, RemoveException,
          WriteException, ResyncPolicy, TakePolicy, ResyncException, TakeException,
          csVars, storeVars
  <1>7. CASE Restart
    BY <1>7 DEF Restart, NewStore
  <1> QED
    BY <1>2, <1>3, <1>4, <1>5, <1>6, <1>7 DEF Next, HandlePolicy

\* While a policy stays in the store its resource version and event counter only
\* advance, and one of them does whenever what it compiles to changes.
THEOREM VersionsAdvance == Spec => VersionAdvances
  <1>1. Spec => []VersionsOrdered
    BY InitOrder, StepOrder, TypeCorrect, PTL DEF Spec
  <1>2. TypeOK /\ VersionsOrdered /\ [Next]_csVars =>
          [\A p \in Policies : policies[p] # None /\ policies'[p] # None =>
              VersionStep(policies[p], policies'[p])]_csVars
    BY StepAdvances
  <1> QED
    BY <1>1, <1>2, TypeCorrect, PTL DEF Spec, VersionAdvances

-----------------------------------------------------------------------------
(* The source makes no step the store alone could not make.                  *)

LEMMA SourceStep == [SourceNext]_vars => [Next]_csVars
  <1> SUFFICES ASSUME [SourceNext]_vars PROVE [Next]_csVars
    OBVIOUS
  <1>1. CASE UNCHANGED vars
    BY <1>1 DEF vars
  <1>2. CASE ApiNext \/ QueueNext
    BY <1>2 DEF Next
  <1>3. CASE SourceHandlePolicy
    BY <1>3 DEF SourceHandlePolicy, Next, HandlePolicy
  <1>4. CASE SourceHandlePolex
    BY <1>4 DEF SourceHandlePolex, Next
  <1>5. CASE SourceRestart
    BY <1>5 DEF SourceRestart, Next
  <1>6. ASSUME NEW r \in Requests, RequestNext(r) PROVE UNCHANGED csVars
    BY <1>6 DEF RequestNext, Load, ComputeKey, CacheHit, CacheMiss, FindPolicyState,
                BuildFails, VisitException, CompilePolicy, CompileFails, Return
  <1>7. CASE Evict
    BY <1>7 DEF Evict
  <1> QED
    BY <1>1, <1>2, <1>3, <1>4, <1>5, <1>6, <1>7 DEF SourceNext

\* Requests, the cache and the leaked mutex add no behaviour of the store: what
\* holds of the store alone holds of the store inside the source.
THEOREM SourceImplementsStore == SourceSpec => Spec
  <1>1. SourceInit => Init
    BY DEF SourceInit
  <1> QED
    BY <1>1, SourceStep, PTL DEF SourceSpec, Spec

-----------------------------------------------------------------------------
(* The types of the source.                                                  *)

LEMMA SourceInitType == SourceInit => SourceTypeOK
  BY DEF SourceInit, SourceTypeOK, NothingHeld, NoLinks

LEMMA FinishType ==
    ASSUME SourceTypeOK, NEW r \in Requests, NEW item \in Item \cup {None},
           cur[r] \in Policies, Finish(r, item)
    PROVE  /\ pc' \in [Requests -> {"idle", "next", "lookup", "build", "range"}]
           /\ held' \in [Requests -> [Policies -> PolicyState \cup {None, InStore}]]
           /\ cur' \in [Requests -> Policies \cup {None}]
           /\ key' \in [Requests -> CacheKey \cup {None}]
           /\ src' \in [Requests -> PolicyState \cup {None, InStore}]
           /\ todo' \in [Requests -> SUBSET Exceptions]
           /\ torn' \in [Requests -> BOOLEAN]
           /\ got' \in [Requests -> [Exceptions -> ExceptionObject \cup {None}]]
           /\ served' \in [Requests -> [Policies -> Item \cup {None}]]
  <1>1. /\ pc' \in [Requests -> {"idle", "next", "lookup", "build", "range"}]
        /\ cur' \in [Requests -> Policies \cup {None}]
        /\ key' \in [Requests -> CacheKey \cup {None}]
        /\ src' \in [Requests -> PolicyState \cup {None, InStore}]
        /\ todo' \in [Requests -> SUBSET Exceptions]
        /\ got' \in [Requests -> [Exceptions -> ExceptionObject \cup {None}]]
    BY DEF SourceTypeOK, Finish, NoLinks
  <1>2. torn' \in [Requests -> BOOLEAN]
    BY DEF SourceTypeOK, Finish
  <1>3. held' \in [Requests -> [Policies -> PolicyState \cup {None, InStore}]]
    BY DEF SourceTypeOK, Finish
  <1>4. served' \in [Requests -> [Policies -> Item \cup {None}]]
    BY DEF SourceTypeOK, Finish
  <1> QED
    BY <1>1, <1>2, <1>3, <1>4

LEMMA RequestType ==
    ASSUME TypeOK, SourceTypeOK, NEW r \in Requests, PointersOK(r), WorkOK(r), RangeOK(r),
           RequestNext(r)
    PROVE  SourceTypeOK'
  <1>1. CASE Load(r)
    BY <1>1 DEF Load, SourceTypeOK, NothingHeld
  <1>2. CASE ComputeKey(r)
    <2>1. PICK p \in Policies :
             /\ IsNext(r, p)
             /\ \/ /\ p \in Live
                   /\ pc' = [pc EXCEPT ![r] = "lookup"]
                   /\ cur' = [cur EXCEPT ![r] = p]
                   /\ key' = [key EXCEPT ![r] = KeyFor(r, p)]
                   /\ UNCHANGED held
                \/ /\ held' = [held EXCEPT ![r][p] = None]
                   /\ UNCHANGED <<pc, cur, key>>
      BY <1>2 DEF ComputeKey
    <2>2. p \in Live => KeyFor(r, p) \in CacheKey
      <3>1. held[r][p] # None /\ held[r][p] \in PolicyState \cup {None, InStore}
        BY <2>1 DEF IsNext, Pending, SourceTypeOK
      <3>2. p \in Live => Pointee(r, p) \in PolicyState /\ policies[p] \in PolicyState
        BY <3>1 DEF Pointee, TypeOK, Live
      <3> QED
        BY <3>2 DEF KeyFor, CacheKey, PolicyState, PolicyObject
    <2>3. /\ UNCHANGED <<lock, cache, src, todo, torn, got, served, revoked>>
      BY <1>2 DEF ComputeKey
    <2>4. CASE /\ p \in Live /\ UNCHANGED held
               /\ pc' = [pc EXCEPT ![r] = "lookup"]
               /\ cur' = [cur EXCEPT ![r] = p]
               /\ key' = [key EXCEPT ![r] = KeyFor(r, p)]
      BY <2>2, <2>3, <2>4 DEF SourceTypeOK
    <2>5. CASE held' = [held EXCEPT ![r][p] = None] /\ UNCHANGED <<pc, cur, key>>
      BY <2>3, <2>5 DEF SourceTypeOK
    <2> QED
      BY <2>1, <2>4, <2>5
  <1>3. CASE CacheHit(r)
    <2>1. PICK i \in cache : Finish(r, i)
      BY <1>3 DEF CacheHit, Cached
    <2>2. i \in Item /\ cur[r] \in Policies
      BY <1>3 DEF CacheHit, SourceTypeOK, WorkOK, Working
    <2> QED
      BY <1>3, <2>1, <2>2, FinishType DEF CacheHit, SourceTypeOK
  <1>4. CASE CacheMiss(r)
    BY <1>4 DEF CacheMiss, SourceTypeOK
  <1>5. CASE FindPolicyState(r)
    BY <1>5 DEF FindPolicyState, SourceTypeOK
  <1>6. CASE BuildFails(r)
    <2>1. cur[r] \in Policies
      BY <1>6 DEF BuildFails, WorkOK, Working
    <2> QED
      BY <1>6, <2>1, FinishType DEF BuildFails, SourceTypeOK
  <1>7. ASSUME NEW e \in Exceptions, VisitException(r, e) PROVE SourceTypeOK'
    <2>1. cur[r] \in Policies /\ src[r] # None /\ (src[r] = InStore => cur[r] \in Live)
      BY <1>7 DEF VisitException, WorkOK, RangeOK, Working
    <2>2. Ranged(r) \in PolicyState
      BY <2>1 DEF Ranged, SourceTypeOK, TypeOK, Live
    <2>3. PICK policy : got' = [got EXCEPT ![r][e] = Kept(policy, Ranged(r).exceptions[e])]
      BY <1>7 DEF VisitException
    <2>5. Kept(policy, Ranged(r).exceptions[e]) \in ExceptionObject \cup {None}
      BY <2>2 DEF Kept, PolicyState
    <2>4. got' \in [Requests -> [Exceptions -> ExceptionObject \cup {None}]]
      BY <2>3, <2>5 DEF SourceTypeOK
    <2> QED
      BY <1>7, <2>4 DEF VisitException, SourceTypeOK
  <1>8. ASSUME RangeOver(r), NEW policy \in Readable(r)
        PROVE  Built(r, policy) \in Item /\ cur[r] \in Policies
    <2>1. cur[r] \in Policies /\ key[r] \in CacheKey /\ held[r][cur[r]] # None
      BY <1>8 DEF RangeOver, WorkOK, Working
    <2>2. Pointee(r, cur[r]) \in PolicyState
      BY <2>1 DEF Pointee, PointersOK, SourceTypeOK, TypeOK, Live
    <2>4. policy \in PolicyObject
      BY <2>1, <2>2 DEF Readable, PolicyState, PolicyObject, CacheKey
    <2>3. [policy |-> policy, exceptions |-> got[r]] \in Entry
      BY <2>4 DEF Entry, SourceTypeOK
    <2> QED
      BY <2>1, <2>3 DEF Built, Item
  <1>9. CASE CompilePolicy(r)
    <2>1. PICK policy \in Readable(r) :
             /\ cache' = (cache \ Cached(key[r])) \cup {Built(r, policy)}
             /\ Finish(r, Built(r, policy))
      BY <1>9 DEF CompilePolicy
    <2>2. Built(r, policy) \in Item /\ cur[r] \in Policies
      BY <1>8, <1>9 DEF CompilePolicy
    <2> QED
      BY <1>9, <2>1, <2>2, FinishType DEF CompilePolicy, SourceTypeOK
  <1>10. CASE CompileFails(r)
    <2>1. cur[r] \in Policies
      BY <1>10 DEF CompileFails, RangeOver, WorkOK, Working
    <2> QED
      BY <1>10, <2>1, FinishType DEF CompileFails, SourceTypeOK
  <1>11. CASE Return(r)
    BY <1>11 DEF Return, SourceTypeOK, NothingHeld
  <1> QED
    BY <1>1, <1>2, <1>3, <1>4, <1>5, <1>6, <1>7, <1>9, <1>10, <1>11 DEF RequestNext

LEMMA StoreType ==
    ASSUME TypeOK, SourceTypeOK,
           SourceHandlePolicy \/ SourceHandlePolex
    PROVE  SourceTypeOK'
  <1>1. CASE SourceHandlePolicy
    <2>1. CASE UNCHANGED <<held, src>>
      BY <1>1, <2>1 DEF SourceHandlePolicy, SourceTypeOK
    <2>2. CASE vpolWork # None /\ Detach(vpolWork.key)
      <3> DEFINE p == vpolWork.key
      <3>1. p \in Policies
        BY <2>2 DEF TypeOK, PolicyCall
      <3>2. policies[p] \in PolicyState \cup {None, InStore}
        BY <3>1 DEF TypeOK
      <3>3. held' \in [Requests -> [Policies -> PolicyState \cup {None, InStore}]]
        BY <2>2, <3>1, <3>2 DEF Detach, SourceTypeOK
      <3>4. src' \in [Requests -> PolicyState \cup {None, InStore}]
        BY <2>2, <3>1, <3>2 DEF Detach, SourceTypeOK
      <3> QED
        BY <1>1, <3>3, <3>4 DEF SourceHandlePolicy, SourceTypeOK
    <2> QED
      BY <1>1, <2>1, <2>2 DEF SourceHandlePolicy, HandlePolicyDelete
  <1>2. CASE SourceHandlePolex
    BY <1>2 DEF SourceHandlePolex, SourceTypeOK
  <1> QED
    BY <1>1, <1>2

LEMMA OtherType ==
    ASSUME SourceTypeOK, UNCHANGED ksVars \/ SourceRestart \/ Evict
    PROVE  SourceTypeOK'
  <1>1. CASE UNCHANGED ksVars
    BY <1>1 DEF ksVars, reqVars, SourceTypeOK
  <1>2. CASE SourceRestart
    BY <1>2 DEF SourceRestart, SourceTypeOK, NothingHeld, NoLinks
  <1>3. CASE Evict
    BY <1>3 DEF Evict, reqVars, SourceTypeOK
  <1> QED
    BY <1>1, <1>2, <1>3

-----------------------------------------------------------------------------
(* Versions under a step of the store.                                       *)

StoreInv == TypeOK /\ VersionsOrdered

\* A step of the running process: anything but a restart.
StoreStep == ApiNext \/ QueueNext \/ HandlePolicy \/ HandlePolex

\* Steps other than the calls to handlePolicy keep the policies and their versions.
LEMMA QuietStep ==
    ASSUME TypeOK, ApiNext \/ QueueNext
    PROVE  UNCHANGED <<policies, exceptions>> /\ Live' = Live /\ apiRv' \in Nat /\ apiRv <= apiRv'
  <1>1. UNCHANGED <<policies, exceptions>>
    BY DEF ApiNext, QueueNext, RemovePolicy, WritePolicy, RemoveException, WriteException,
           ResyncPolicy, TakePolicy, ResyncException, TakeException, storeVars
  <1>2. apiRv' \in Nat /\ apiRv <= apiRv'
    BY RvAssumption DEF ApiNext, QueueNext, RemovePolicy, WritePolicy, RemoveException,
           WriteException, ResyncPolicy, TakePolicy, ResyncException, TakeException,
           apiVars, Commit, TypeOK
  <1> QED
    BY <1>1, <1>2 DEF Live

\* A version that is not ahead of the store never gets ahead of it, and a version
\* that left the store, or was never in it, is outdated when the policy comes back.
LEMMA PastStep ==
    ASSUME StoreInv, StoreStep, NEW p \in Policies, NEW v \in Nat, Past(v, p)
    PROVE  /\ Past(v, p)'
           /\ p \notin Live \/ v < policies[p].policy.rv => Outdated(v, p)'
  <1>0. /\ apiRv \in Nat
        /\ p \in Live => policies[p].policy.rv \in Nat
        /\ apiPolicies[p] # None => apiPolicies[p].rv \in Nat
        /\ CallFor(p) /\ vpolWork.obj # None => vpolWork.obj.rv \in Nat
    BY DEF StoreInv, TypeOK, Live, CallFor, PolicyCall, PolicyState, PolicyObject
  <1>1. CASE ApiNext
    <2>1. Live' = Live /\ policies' = policies /\ apiRv' \in Nat /\ apiRv <= apiRv'
      BY <1>1, QuietStep DEF StoreInv
    <2>2. UNCHANGED vpolWork
      BY <1>1 DEF ApiNext, RemovePolicy, WritePolicy, RemoveException, WriteException
    <2>3. \/ apiPolicies'[p] = apiPolicies[p]
          \/ apiPolicies'[p] = None
          \/ apiPolicies'[p].rv = apiRv' /\ apiRv < apiRv'
      BY <1>1, RvAssumption
         DEF StoreInv, ApiNext, RemovePolicy, WritePolicy, RemoveException, WriteException,
             Commit, TypeOK
    <2> QED
      BY <1>0, <2>1, <2>2, <2>3 DEF Past, Outdated, CallFor
  <1>2. CASE QueueNext
    <2>1. Live' = Live /\ policies' = policies
      BY <1>2, QuietStep DEF StoreInv
    <2>2. UNCHANGED <<apiRv, apiPolicies>>
      BY <1>2 DEF QueueNext, ResyncPolicy, TakePolicy, ResyncException, TakeException, apiVars
    <2>3. CallFor(p)' => \/ vpolWork' = vpolWork
                         \/ vpolWork'.obj = apiPolicies[p]
      BY <1>2 DEF QueueNext, ResyncPolicy, TakePolicy, ResyncException, TakeException, CallFor
    <2> QED
      BY <1>0, <2>1, <2>2, <2>3 DEF Past, Outdated, CallFor
  <1>3. CASE HandlePolicyDelete
    <2>1. ~CallFor(p)' /\ UNCHANGED <<apiRv, apiPolicies>>
      BY <1>3 DEF HandlePolicyDelete, CallFor, apiVars
    <2>2. CASE p = vpolWork.key
      <3>1. CallFor(p) /\ vpolWork.obj = None
        BY <1>3, <2>2 DEF HandlePolicyDelete, CallFor
      <3>2. p \notin Live'
        BY <1>3, <2>2, DeletePolicies DEF StoreInv
      <3> QED
        BY <1>0, <2>1, <3>1, <3>2 DEF Past, Outdated, StoreInv, VersionsOrdered
    <2>3. CASE p # vpolWork.key
      <3>1. (p \in Live' <=> p \in Live) /\ policies'[p] = policies[p]
        BY <1>3, <2>3, DeletePolicies DEF StoreInv
      <3> QED
        BY <1>0, <2>1, <3>1 DEF Past, Outdated
    <2> QED
      BY <2>2, <2>3
  <1>4. CASE HandlePolicyUpdate
    <2>1. ~CallFor(p)' /\ UNCHANGED <<apiRv, apiPolicies>>
      BY <1>4 DEF HandlePolicyUpdate, CallFor, apiVars
    <2>2. CASE p = vpolWork.key
      <3>1. CallFor(p) /\ vpolWork.obj # None
        BY <1>4, <2>2 DEF HandlePolicyUpdate, IsUpdate, CallFor
      <3>2. p \in Live /\ p \in Live' /\ policies'[p].policy = vpolWork.obj
        BY <1>4, <2>2, UpdatePolicies DEF StoreInv
      <3>3. NotAfter(policies[p].policy, vpolWork.obj)
        BY <3>1, <3>2 DEF StoreInv, VersionsOrdered
      <3> QED
        BY <1>0, <2>1, <3>1, <3>2, <3>3 DEF Past, Outdated, NotAfter
    <2>3. CASE p # vpolWork.key
      <3>1. (p \in Live' <=> p \in Live) /\ policies'[p] = policies[p]
        BY <1>4, <2>3, UpdatePolicies DEF StoreInv
      <3> QED
        BY <1>0, <2>1, <3>1 DEF Past, Outdated
    <2> QED
      BY <2>2, <2>3
  <1>5. CASE HandlePolicyCreate
    <2>1. ~CallFor(p)' /\ UNCHANGED <<apiRv, apiPolicies>>
      BY <1>5 DEF HandlePolicyCreate, CallFor, apiVars
    <2>2. CASE p = vpolWork.key
      <3>1. CallFor(p) /\ vpolWork.obj # None
        BY <1>5, <2>2 DEF HandlePolicyCreate, CallFor
      <3>2. p \notin Live /\ p \in Live' /\ policies'[p].policy = vpolWork.obj
        BY <1>5, <2>2, CreatePolicies DEF StoreInv
      <3> QED
        BY <1>0, <2>1, <3>1, <3>2 DEF Past, Outdated
    <2>3. CASE p # vpolWork.key
      <3>1. (p \in Live' <=> p \in Live) /\ policies'[p] = policies[p]
        BY <1>5, <2>3, CreatePolicies DEF StoreInv
      <3> QED
        BY <1>0, <2>1, <3>1 DEF Past, Outdated
    <2> QED
      BY <2>2, <2>3
  <1>6. CASE HandlePolex
    <2>1. UNCHANGED <<apiRv, apiPolicies, vpolWork>>
      BY <1>6 DEF HandlePolex, HandlePolexDelete, HandlePolexUpsert, apiVars
    <2>2. Live' = Live /\ (p \in Live => policies'[p].policy = policies[p].policy)
      BY <1>6, PolexPolicies DEF StoreInv
    <2> QED
      BY <1>0, <2>1, <2>2 DEF Past, Outdated, CallFor
  <1> QED
    BY <1>1, <1>2, <1>3, <1>4, <1>5, <1>6 DEF StoreStep, HandlePolicy

LEMMA OutdatedStep ==
    ASSUME StoreInv, StoreStep, NEW p \in Policies, NEW v \in Nat, Outdated(v, p)
    PROVE  Outdated(v, p)'
  BY PastStep DEF Outdated

\* A policy that is in the store before and after the step has only advanced.
LEMMA LiveStep ==
    ASSUME StoreInv, StoreInv', StoreStep, NEW p \in Policies, p \in Live, p \in Live'
    PROVE  /\ policies[p].policy.rv \in Nat /\ policies'[p].policy.rv \in Nat
           /\ policies[p].exceptionEventCounter \in Nat
           /\ policies'[p].exceptionEventCounter \in Nat
           /\ VersionStep(policies[p], policies'[p])
  <1>1. policies[p] # None /\ policies'[p] # None
    BY DEF Live
  <1>2. VersionStep(policies[p], policies'[p])
    BY <1>1, StepAdvances DEF StoreInv, StoreStep, Next
  <1> QED
    BY <1>1, <1>2 DEF StoreInv, TypeOK, PolicyState, PolicyObject

LEMMA KeyStep ==
    ASSUME StoreInv, StoreInv', StoreStep, NEW k \in CacheKey, KeyNotAhead(k)
    PROVE  KeyNotAhead(k)'
  <1> DEFINE p == k.name
  <1>1. p \in Policies /\ k.rv \in Nat /\ k.counter \in Nat
    BY DEF CacheKey
  <1>2. Past(k.rv, p)' /\ (p \notin Live => Outdated(k.rv, p)')
    BY <1>1, PastStep DEF KeyNotAhead
  <1>3. ASSUME p \in Live', k.rv = policies'[p].policy.rv
        PROVE  k.counter <= policies'[p].exceptionEventCounter
    <2>1. p \in Live
      BY <1>1, <1>2, <1>3 DEF Outdated
    <2>2. k.rv <= policies[p].policy.rv
      BY <2>1 DEF KeyNotAhead, Past
    <2> QED
      BY <1>1, <1>3, <2>1, <2>2, LiveStep DEF KeyNotAhead, VersionStep
  <1> QED
    BY <1>2, <1>3 DEF KeyNotAhead

\* A key that is current after a step was current before, and its policy has not
\* changed: no version of a policy comes back.
LEMMA CurrentKeyStep ==
    ASSUME StoreInv, StoreInv', StoreStep, NEW k \in CacheKey, KeyNotAhead(k),
           k.name \in Live', k = LiveKey(k.name)'
    PROVE  /\ k.name \in Live
           /\ k = LiveKey(k.name)
           /\ policies'[k.name] = policies[k.name]
  <1> DEFINE p == k.name
  <1>1. p \in Policies /\ k.rv \in Nat /\ k.counter \in Nat
    BY DEF CacheKey
  <1>2. k.rv = policies'[p].policy.rv /\ k.counter = policies'[p].exceptionEventCounter
    BY DEF LiveKey
  <1>3. p \in Live
    <2>1. p \notin Live => Outdated(k.rv, p)'
      BY <1>1, PastStep DEF KeyNotAhead
    <2> QED
      BY <1>1, <1>2, <2>1 DEF Outdated
  <1>4. k.rv <= policies[p].policy.rv
    BY <1>3 DEF KeyNotAhead, Past
  <1>5. k.rv = policies[p].policy.rv
    BY <1>1, <1>2, <1>3, <1>4, LiveStep DEF VersionStep
  <1>6. k.counter = policies[p].exceptionEventCounter
    BY <1>1, <1>2, <1>3, <1>5, LiveStep DEF KeyNotAhead, VersionStep
  <1>7. policies'[p] = policies[p]
    <2>1. VersionStep(policies[p], policies'[p])
      BY <1>1, <1>3, LiveStep
    <2>2. Version(policies[p]) = Version(policies'[p])
      BY <1>2, <1>5, <1>6 DEF Version
    <2> QED
      BY <2>1, <2>2 DEF VersionStep
  <1> QED
    BY <1>3, <1>7 DEF LiveKey

-----------------------------------------------------------------------------
(* The invariant under a step of the store.                                  *)

SourceInv == StoreInv /\ SourceTypeOK /\ SourceInvariant

\* What a step of the store does to the requests: pointers to a state that left
\* the map are worth a copy, and a range whose map was written is torn.
Moves ==
    /\ UNCHANGED <<cache, pc, cur, key, todo, got>>
    /\ \A r \in Requests, p \in Policies :
          held'[r][p] = IF held[r][p] = InStore /\ p \notin Live' THEN policies[p]
                        ELSE held[r][p]
    /\ \A r \in Requests :
          src'[r] = IF src[r] = InStore /\ cur[r] \notin Live' THEN policies[cur[r]]
                    ELSE src[r]
    /\ \A r \in Requests :
          torn'[r] => torn[r] \/ (src[r] = InStore /\ policies'[cur[r]] # policies[cur[r]])

\* A pointer into the store, or a source of a range, belongs to a live policy.
LEMMA InStoreLive ==
    ASSUME SourceInv, NEW r \in Requests
    PROVE  /\ \A p \in Policies : held[r][p] = InStore => p \in Live
           /\ src[r] = InStore => cur[r] \in Live /\ pc[r] = "range"
  <1>1. PointersOK(r) /\ WorkOK(r) /\ RangeOK(r)
    BY DEF SourceInv, SourceInvariant, RequestsSound
  <1> QED
    BY <1>1, InStoreAssumption DEF PointersOK, WorkOK, RangeOK

LEMMA StoreMoves ==
    ASSUME SourceInv,
           \/ (ApiNext \/ QueueNext) /\ UNCHANGED ksVars
           \/ SourceHandlePolicy
           \/ SourceHandlePolex
    PROVE  StoreStep /\ Moves
  <1>0. TypeOK /\ StoreInv
    BY DEF SourceInv, StoreInv
  <1>1. CASE (ApiNext \/ QueueNext) /\ UNCHANGED ksVars
    <2>1. Live' = Live
      BY <1>0, <1>1, QuietStep
    <2> QED
      BY <1>1, <2>1, InStoreLive DEF StoreStep, Moves, ksVars, reqVars
  <1>2. CASE SourceHandlePolex
    <2>1. HandlePolex
      BY <1>2 DEF SourceHandlePolex
    <2>2. Live' = Live
      BY <1>0, <2>1, PolexPolicies
    <2> QED
      BY <1>2, <2>1, <2>2, InStoreLive DEF SourceHandlePolex, SourceTypeOK, SourceInv,
         StoreStep, Moves
  <1>3. CASE SourceHandlePolicy
    <2>0. UNCHANGED <<cache, pc, cur, key, todo, torn, got>> /\ StoreStep
      BY <1>3 DEF SourceHandlePolicy, StoreStep, HandlePolicy
    <2>1. CASE (HandlePolicyUpdate \/ HandlePolicyCreate) /\ UNCHANGED <<held, src>>
      <3>1. Live \subseteq Live'
        BY <1>0, <2>1, UpdatePolicies, CreatePolicies
      <3> QED
        BY <2>0, <2>1, <3>1, InStoreLive DEF Moves
    <2>2. CASE HandlePolicyDelete /\ Detach(vpolWork.key)
      <3> DEFINE k == vpolWork.key
      <3>1. k \in Policies /\ Live' = Live \ {k}
        BY <1>0, <2>2, DeletePolicies
      <3>2. ASSUME NEW r \in Requests, NEW p \in Policies
            PROVE  held'[r][p] = IF held[r][p] = InStore /\ p \notin Live'
                                 THEN policies[p] ELSE held[r][p]
        <4>1. held[r] \in [Policies -> PolicyState \cup {None, InStore}]
          BY DEF SourceInv, SourceTypeOK
        <4>2. held'[r] = IF held[r][k] = InStore THEN [held[r] EXCEPT ![k] = policies[k]]
                         ELSE held[r]
          BY <2>2 DEF Detach
        <4>3. held[r][p] = InStore => p \in Live
          BY InStoreLive
        <4> QED
          BY <3>1, <4>1, <4>2, <4>3
      <3>3. ASSUME NEW r \in Requests
            PROVE  src'[r] = IF src[r] = InStore /\ cur[r] \notin Live'
                             THEN policies[cur[r]] ELSE src[r]
        <4>1. src'[r] = IF src[r] = InStore /\ cur[r] = k THEN policies[k] ELSE src[r]
          BY <2>2 DEF Detach
        <4>2. src[r] = InStore => cur[r] \in Live
          BY InStoreLive
        <4> QED
          BY <3>1, <4>1, <4>2
      <3> QED
        BY <2>0, <3>2, <3>3 DEF Moves
    <2> QED
      BY <1>3, <2>1, <2>2 DEF SourceHandlePolicy
  <1> QED
    BY <1>1, <1>2, <1>3

LEMMA StoreKeepsCache ==
    ASSUME SourceInv, StoreInv', StoreStep, Moves
    PROVE  CacheNotAhead' /\ CacheFreshByVersion'
  <1>1. cache' = cache /\ \A i \in cache : i.key \in CacheKey /\ KeyNotAhead(i.key)
    BY DEF Moves, SourceInv, SourceInvariant, CacheNotAhead, SourceTypeOK, Item
  <1>2. CacheNotAhead'
    BY <1>1, KeyStep DEF SourceInv, CacheNotAhead
  <1>3. ASSUME NEW i \in cache, NEW p \in Live', i.key = LiveKey(p)'
        PROVE  Matches(i.entry, p)'
    <2>1. i.key.name = p
      BY <1>3 DEF LiveKey
    <2>2. /\ p \in Live
          /\ i.key = LiveKey(p)
          /\ policies'[p] = policies[p]
      BY <1>1, <1>3, <2>1, CurrentKeyStep DEF SourceInv
    <2>3. Matches(i.entry, p)
      BY <2>2 DEF SourceInv, SourceInvariant, CacheFreshByVersion
    <2> QED
      BY <2>2, <2>3 DEF Matches, Applicable
  <1> QED
    BY <1>1, <1>2, <1>3 DEF CacheFreshByVersion

LEMMA StoreKeepsPointers ==
    ASSUME SourceInv, StoreInv', StoreStep, Moves, NEW r \in Requests
    PROVE  PointersOK(r)'
  <1>1. PointersOK(r)
    BY DEF SourceInv, SourceInvariant, RequestsSound
  <1> SUFFICES ASSUME NEW p \in Policies
               PROVE  /\ held'[r][p] = InStore => p \in Live'
                      /\ \A v \in Nat : held'[r][p] \in PolicyState
                            /\ v = held'[r][p].policy.rv => Outdated(v, p)'
    <2>1. \A p \in Policies :
             held'[r][p] \in PolicyState => held'[r][p].policy.rv \in Nat
      BY DEF PolicyState, PolicyObject
    <2> QED
      BY <2>1 DEF PointersOK, Outdated, Past
  <1>2. held[r][p] \in PolicyState \cup {None, InStore}
    BY DEF SourceInv, SourceTypeOK
  <1>3. CASE held[r][p] = InStore
    <2>1. p \in Live /\ policies[p] \in PolicyState
      BY <1>1, <1>3 DEF PointersOK, SourceInv, StoreInv, TypeOK, Live
    <2>2. CASE p \in Live'
      BY <1>3, <2>2, InStoreAssumption DEF Moves
    <2>3. CASE p \notin Live'
      <3>1. held'[r][p] = policies[p]
        BY <1>3, <2>3 DEF Moves
      <3>2. ASSUME NEW v \in Nat, v = policies[p].policy.rv PROVE Outdated(v, p)'
        <4>1. Past(v, p)
          BY <2>1, <3>2 DEF Past
        <4>2. Past(v, p)'
          BY <4>1, PastStep DEF SourceInv
        <4> QED
          BY <2>3, <4>2 DEF Outdated
      <3> QED
        BY <2>1, <3>1, <3>2, InStoreAssumption
    <2> QED
      BY <2>2, <2>3
  <1>4. CASE held[r][p] # InStore
    <2>1. held'[r][p] = held[r][p]
      BY <1>4 DEF Moves
    <2>2. ASSUME NEW v \in Nat, held[r][p] \in PolicyState, v = held[r][p].policy.rv
          PROVE  Outdated(v, p)'
      <3>1. Outdated(v, p)
        BY <1>1, <2>2 DEF PointersOK
      <3> QED
        BY <3>1, OutdatedStep DEF SourceInv
    <2> QED
      BY <1>4, <2>1, <2>2
  <1> QED
    BY <1>3, <1>4

\* The pointer of a request reads a version at least as late after the step.
LEMMA PointeeStep ==
    ASSUME SourceInv, StoreInv', StoreStep, Moves, NEW r \in Requests, NEW p \in Policies,
           held[r][p] # None
    PROVE  /\ held'[r][p] # None
           /\ Pointee(r, p).policy.rv \in Nat
           /\ Pointee(r, p)'.policy.rv \in Nat
           /\ Pointee(r, p).policy.rv <= Pointee(r, p)'.policy.rv
  <1>1. held[r][p] \in PolicyState \cup {InStore}
    BY DEF SourceInv, SourceTypeOK
  <1>2. CASE held[r][p] # InStore
    <2>1. held'[r][p] = held[r][p]
      BY <1>2 DEF Moves
    <2> QED
      BY <1>1, <1>2, <2>1 DEF Pointee, PolicyState, PolicyObject
  <1>3. CASE held[r][p] = InStore
    <2>1. p \in Live /\ policies[p] \in PolicyState
      BY <1>3, InStoreLive DEF SourceInv, StoreInv, TypeOK, Live
    <2>2. CASE p \in Live'
      <3>1. held'[r][p] = InStore
        BY <1>3, <2>2 DEF Moves
      <3>2. policies[p].policy.rv \in Nat /\ policies'[p].policy.rv \in Nat
            /\ policies[p].policy.rv <= policies'[p].policy.rv
        BY <2>1, <2>2, LiveStep DEF SourceInv, VersionStep
      <3> QED
        BY <1>3, <3>1, <3>2, InStoreAssumption DEF Pointee
    <2>3. CASE p \notin Live'
      <3>1. held'[r][p] = policies[p]
        BY <1>3, <2>3 DEF Moves
      <3>2. policies[p] # InStore /\ policies[p] # None
        BY <2>1, InStoreAssumption, NoneAssumption
      <3> QED
        BY <1>3, <2>1, <3>1, <3>2 DEF Pointee, PolicyState, PolicyObject
    <2> QED
      BY <2>2, <2>3
  <1> QED
    BY <1>2, <1>3

LEMMA StoreKeepsWork ==
    ASSUME SourceInv, StoreInv', StoreStep, Moves, NEW r \in Requests
    PROVE  WorkOK(r)'
  <1>0. WorkOK(r)
    BY DEF SourceInv, SourceInvariant, RequestsSound
  <1>1. pc'[r] = pc[r] /\ cur'[r] = cur[r] /\ key'[r] = key[r] /\ got'[r] = got[r]
    BY DEF Moves
  <1>2. ASSUME Working(r)
        PROVE  /\ cur'[r] \in Policies
               /\ key'[r] \in CacheKey
               /\ key'[r].name = cur'[r]
               /\ held'[r][cur'[r]] # None
               /\ KeyNotAhead(key[r])'
               /\ key'[r].rv <= Pointee(r, cur[r])'.policy.rv
    <2>1. /\ cur[r] \in Policies /\ key[r] \in CacheKey /\ key[r].name = cur[r]
          /\ held[r][cur[r]] # None /\ KeyNotAhead(key[r])
          /\ key[r].rv <= Pointee(r, cur[r]).policy.rv
      BY <1>0, <1>2 DEF WorkOK
    <2>2. PICK k \in CacheKey : k = key[r]
      BY <2>1
    <2>3. PICK p \in Policies : p = cur[r]
      BY <2>1
    <2>4. KeyNotAhead(k)'
      BY <2>1, <2>2, KeyStep DEF SourceInv
    <2>5. KeyNotAhead(key[r])'
      BY <1>1, <2>2, <2>4 DEF KeyNotAhead, Past
    <2>6. held'[r][p] # None /\ k.rv <= Pointee(r, p)'.policy.rv
      <3>1. k.rv \in Nat /\ k.rv <= Pointee(r, p).policy.rv
        BY <2>1, <2>2, <2>3 DEF CacheKey
      <3> QED
        BY <2>1, <2>3, <3>1, PointeeStep
    <2>7. key'[r].rv <= Pointee(r, cur[r])'.policy.rv
      BY <1>1, <2>2, <2>3, <2>6 DEF Pointee
    <2> QED
      BY <1>1, <2>1, <2>3, <2>5, <2>6, <2>7
  <1>3. ASSUME pc[r] # "range"
        PROVE  src'[r] = None /\ ~torn'[r] /\ got'[r] = NoLinks
    BY <1>0, <1>1, <1>3, InStoreAssumption DEF WorkOK, Moves
  <1> QED
    BY <1>1, <1>2, <1>3 DEF WorkOK, Working

LEMMA StoreKeepsRange ==
    ASSUME SourceInv, StoreInv', StoreStep, Moves, NEW r \in Requests
    PROVE  RangeOK(r)'
  <1>0. WorkOK(r) /\ RangeOK(r)
    BY DEF SourceInv, SourceInvariant, RequestsSound
  <1>1. /\ pc'[r] = pc[r] /\ cur'[r] = cur[r] /\ key'[r] = key[r]
        /\ got'[r] = got[r] /\ todo'[r] = todo[r]
    BY DEF Moves
  <1> SUFFICES ASSUME pc[r] = "range"
               PROVE  RangeOK(r)'
    BY <1>1 DEF RangeOK
  <1>2. cur[r] \in Policies /\ key[r] \in CacheKey /\ key[r].name = cur[r]
        /\ KeyNotAhead(key[r])
    BY <1>0 DEF WorkOK, Working
  <1>3. PICK k \in CacheKey : k = key[r]
    BY <1>2
  <1>4. PICK p \in Policies : p = cur[r]
    BY <1>2
  <1>5. k.name = p /\ k.rv \in Nat /\ KeyNotAhead(k) /\ Past(k.rv, p)
    BY <1>2, <1>3, <1>4 DEF CacheKey, KeyNotAhead
  <1>6. src'[r] # None /\ (src'[r] = InStore => p \in Live')
    <2>1. src[r] = InStore => p \in Live /\ policies[p] \in PolicyState
      BY <1>0, <1>4 DEF RangeOK, SourceInv, StoreInv, TypeOK, Live
    <2>2. src[r] = InStore /\ p \notin Live' => src'[r] = policies[p]
      BY <1>4 DEF Moves
    <2>3. ~(src[r] = InStore /\ p \notin Live') => src'[r] = src[r]
      BY <1>4 DEF Moves
    <2> QED
      BY <1>0, <2>1, <2>2, <2>3, InStoreAssumption, NoneAssumption DEF RangeOK
  <1>7. src'[r] # InStore => Outdated(k.rv, p)'
    <2>1. CASE src[r] # InStore
      <3>1. Outdated(k.rv, p)
        BY <1>0, <1>3, <1>4, <2>1 DEF RangeOK
      <3> QED
        BY <1>5, <3>1, OutdatedStep DEF SourceInv
    <2>2. CASE src[r] = InStore /\ p \notin Live'
      <3>1. Past(k.rv, p)'
        BY <1>5, PastStep DEF SourceInv
      <3> QED
        BY <2>2, <3>1 DEF Outdated
    <2>3. CASE src[r] = InStore /\ p \in Live'
      BY <1>4, <2>3 DEF Moves
    <2> QED
      BY <2>1, <2>2, <2>3
  <1>8. ASSUME p \in Live', k = LiveKey(p)'
        PROVE  /\ ~torn'[r]
               /\ \A e \in Exceptions :
                     got[r][e] = IF e \in todo[r] THEN None
                                 ELSE Applicable(policies'[p])[e]
    <2>1. p \in Live /\ k = LiveKey(p) /\ policies'[p] = policies[p]
      BY <1>5, <1>8, CurrentKeyStep DEF SourceInv
    <2> QED
      BY <1>0, <1>3, <1>4, <2>1 DEF RangeOK, Moves
  <1> QED
    BY <1>1, <1>3, <1>4, <1>6, <1>7, <1>8 DEF RangeOK, Outdated, Past, LiveKey, Applicable

\* The invariant holds after every step the store makes.
LEMMA StoreKeepsSource ==
    ASSUME SourceInv, StoreInv',
           \/ (ApiNext \/ QueueNext) /\ UNCHANGED ksVars
           \/ SourceHandlePolicy
           \/ SourceHandlePolex
    PROVE  SourceInvariant'
  BY StoreMoves, StoreKeepsCache, StoreKeepsPointers, StoreKeepsWork, StoreKeepsRange
     DEF SourceInvariant, RequestsSound

-----------------------------------------------------------------------------
(* The invariant under a step of a request: the store does not move.         *)

SameRequest(r) ==
    /\ pc'[r] = pc[r] /\ held'[r] = held[r] /\ cur'[r] = cur[r] /\ key'[r] = key[r]
    /\ src'[r] = src[r] /\ todo'[r] = todo[r] /\ torn'[r] = torn[r] /\ got'[r] = got[r]

LEMMA FrameOK ==
    ASSUME UNCHANGED csVars, NEW r \in Requests, SameRequest(r),
           PointersOK(r), WorkOK(r), RangeOK(r)
    PROVE  PointersOK(r)' /\ WorkOK(r)' /\ RangeOK(r)'
  <1>1. /\ apiPolicies' = apiPolicies /\ apiRv' = apiRv
        /\ vpolWork' = vpolWork /\ policies' = policies
    BY DEF csVars, apiVars, queueVars, storeVars
  <1>2. PointersOK(r)'
    BY <1>1 DEF SameRequest, PointersOK, Outdated, Past, CallFor, Live
  <1>3. WorkOK(r)'
    BY <1>1 DEF SameRequest, WorkOK, Working, KeyNotAhead, Past, CallFor, Live, Pointee
  <1>4. RangeOK(r)'
    BY <1>1 DEF SameRequest, RangeOK, Outdated, Past, CallFor, Live, LiveKey, Applicable
  <1> QED
    BY <1>2, <1>3, <1>4

\* The cache is sound as long as nothing new is put into it.
LEMMA FrameCache ==
    ASSUME UNCHANGED csVars, cache' \subseteq cache, CacheNotAhead, CacheFreshByVersion
    PROVE  CacheNotAhead' /\ CacheFreshByVersion'
  <1>1. /\ apiPolicies' = apiPolicies /\ apiRv' = apiRv
        /\ vpolWork' = vpolWork /\ policies' = policies
    BY DEF csVars, apiVars, queueVars, storeVars
  <1>2. CacheNotAhead'
    BY <1>1 DEF CacheNotAhead, KeyNotAhead, Past, CallFor, Live
  <1>3. CacheFreshByVersion'
    BY <1>1 DEF CacheFreshByVersion, Matches, Applicable, Live, LiveKey
  <1> QED
    BY <1>2, <1>3

\* A request between two policies only has to keep its pointers sound.
LEMMA IdleOK ==
    ASSUME NEW r \in Requests, pc'[r] \in {"idle", "next"},
           src'[r] = None, ~torn'[r], got'[r] = NoLinks
    PROVE  WorkOK(r)' /\ RangeOK(r)'
  BY DEF WorkOK, RangeOK, Working, NoLinks

LEMMA FinishOK ==
    ASSUME SourceInv, UNCHANGED csVars, NEW r \in Requests, NEW item,
           cur[r] \in Policies, Finish(r, item)
    PROVE  /\ PointersOK(r)' /\ WorkOK(r)' /\ RangeOK(r)'
           /\ \A s \in Requests \ {r} : SameRequest(s)
  <1>1. PointersOK(r)
    BY DEF SourceInv, SourceInvariant, RequestsSound
  <1>2. /\ pc'[r] = "next" /\ src'[r] = None /\ torn'[r] = FALSE /\ got'[r] = NoLinks
    BY DEF Finish, SourceInv, SourceTypeOK
  <1>3. \A p \in Policies : held'[r][p] = IF p = cur[r] THEN None ELSE held[r][p]
    BY DEF Finish, SourceInv, SourceTypeOK
  <1>4. /\ apiPolicies' = apiPolicies /\ apiRv' = apiRv
        /\ vpolWork' = vpolWork /\ policies' = policies
    BY DEF csVars, apiVars, queueVars, storeVars
  <1>5. PointersOK(r)'
    BY <1>1, <1>3, <1>4, NoneAssumption, InStoreAssumption
       DEF PointersOK, Outdated, Past, CallFor, Live
  <1>6. \A s \in Requests \ {r} : SameRequest(s)
    BY DEF Finish, SameRequest, SourceInv, SourceTypeOK
  <1> QED
    BY <1>2, <1>5, <1>6, IdleOK

LEMMA LoadOK ==
    ASSUME SourceInv, NEW r \in Requests, Load(r)
    PROVE  /\ PointersOK(r)' /\ WorkOK(r)' /\ RangeOK(r)'
           /\ \A s \in Requests \ {r} : SameRequest(s)
  <1>1. WorkOK(r)
    BY DEF SourceInv, SourceInvariant, RequestsSound
  <1>2. /\ pc'[r] = "next" /\ src'[r] = None /\ ~torn'[r] /\ got'[r] = NoLinks
    BY <1>1 DEF Load, WorkOK, SourceInv, SourceTypeOK
  <1>3. \A p \in Policies : held'[r][p] = IF p \in Live THEN InStore ELSE None
    BY DEF Load, SourceInv, SourceTypeOK
  <1>4. policies' = policies
    BY DEF Load, csVars, storeVars
  <1>5. PointersOK(r)'
    BY <1>3, <1>4, NoneAssumption, InStoreAssumption DEF PointersOK, Live
  <1>6. \A s \in Requests \ {r} : SameRequest(s)
    BY DEF Load, SameRequest, SourceInv, SourceTypeOK
  <1> QED
    BY <1>2, <1>5, <1>6, IdleOK

LEMMA ReturnOK ==
    ASSUME SourceInv, NEW r \in Requests, Return(r)
    PROVE  /\ PointersOK(r)' /\ WorkOK(r)' /\ RangeOK(r)'
           /\ \A s \in Requests \ {r} : SameRequest(s)
  <1>1. PointersOK(r) /\ WorkOK(r)
    BY DEF SourceInv, SourceInvariant, RequestsSound
  <1>2. /\ pc'[r] = "idle" /\ src'[r] = None /\ ~torn'[r] /\ got'[r] = NoLinks
    BY <1>1 DEF Return, WorkOK, SourceInv, SourceTypeOK
  <1>3. /\ apiPolicies' = apiPolicies /\ apiRv' = apiRv /\ held' = held
        /\ vpolWork' = vpolWork /\ policies' = policies
    BY DEF Return, csVars, apiVars, queueVars, storeVars
  <1>4. PointersOK(r)'
    BY <1>1, <1>3 DEF PointersOK, Outdated, Past, CallFor, Live
  <1>5. \A s \in Requests \ {r} : SameRequest(s)
    BY DEF Return, SameRequest, SourceInv, SourceTypeOK
  <1> QED
    BY <1>2, <1>4, <1>5, IdleOK

LEMMA ComputeKeyOK ==
    ASSUME SourceInv, NEW r \in Requests, ComputeKey(r)
    PROVE  /\ PointersOK(r)' /\ WorkOK(r)' /\ RangeOK(r)'
           /\ \A s \in Requests \ {r} : SameRequest(s)
  <1>0. PointersOK(r) /\ WorkOK(r)
    BY DEF SourceInv, SourceInvariant, RequestsSound
  <1>1. /\ apiPolicies' = apiPolicies /\ apiRv' = apiRv
        /\ vpolWork' = vpolWork /\ policies' = policies
        /\ UNCHANGED <<src, todo, torn, got>> /\ pc[r] = "next"
    BY DEF ComputeKey, csVars, apiVars, queueVars, storeVars
  <1>2. src[r] = None /\ ~torn[r] /\ got[r] = NoLinks
    BY <1>0, <1>1 DEF WorkOK
  <1>3. PICK p \in Policies :
           /\ IsNext(r, p)
           /\ IF p \in Live
              THEN /\ pc' = [pc EXCEPT ![r] = "lookup"]
                   /\ cur' = [cur EXCEPT ![r] = p]
                   /\ key' = [key EXCEPT ![r] = KeyFor(r, p)]
                   /\ UNCHANGED held
              ELSE /\ held' = [held EXCEPT ![r][p] = None]
                   /\ UNCHANGED <<pc, cur, key>>
    BY DEF ComputeKey
  <1>4. CASE p \in Live
    <2>1. /\ pc'[r] = "lookup" /\ cur'[r] = p /\ key'[r] = KeyFor(r, p) /\ held' = held
          /\ \A s \in Requests \ {r} : SameRequest(s)
      BY <1>1, <1>3, <1>4 DEF SameRequest, SourceInv, SourceTypeOK
    <2>2. held[r][p] \in PolicyState \cup {InStore}
      BY <1>3 DEF IsNext, Pending, SourceInv, SourceTypeOK
    <2>3. policies[p] \in PolicyState
      BY <1>4 DEF SourceInv, StoreInv, TypeOK, Live
    <2>4. Pointee(r, p) \in PolicyState
      BY <2>2, <2>3 DEF Pointee
    <2>5. PICK k \in CacheKey : k = KeyFor(r, p)
      BY <2>3, <2>4 DEF KeyFor, CacheKey, PolicyState, PolicyObject
    <2>6. k.name = p /\ k.rv = Pointee(r, p).policy.rv /\ k.rv \in Nat
          /\ k.counter = policies[p].exceptionEventCounter /\ k.counter \in Nat
      BY <2>5 DEF KeyFor, CacheKey
    <2>7. KeyNotAhead(k)
      <3>1. CASE held[r][p] = InStore
        BY <1>4, <2>6, <3>1 DEF KeyNotAhead, Past, Pointee
      <3>2. CASE held[r][p] # InStore
        <4>1. Outdated(k.rv, p)
          BY <1>0, <2>2, <2>6, <3>2 DEF PointersOK, Pointee
        <4>2. policies[p].policy.rv \in Nat
          BY <2>3 DEF PolicyState, PolicyObject
        <4> QED
          BY <1>4, <2>6, <4>1, <4>2 DEF KeyNotAhead, Outdated
      <3> QED
        BY <3>1, <3>2
    <2>8. WorkOK(r)'
      <3>1. KeyNotAhead(key[r])'
        BY <1>1, <2>1, <2>5, <2>7 DEF KeyNotAhead, Past, CallFor, Live
      <3>2. key'[r].rv <= Pointee(r, cur[r])'.policy.rv
        BY <1>1, <2>1, <2>5, <2>6 DEF Pointee
      <3>3. key'[r] = k /\ held'[r][cur'[r]] # None
        BY <1>3, <2>1, <2>5 DEF IsNext, Pending
      <3> QED
        BY <1>1, <1>2, <2>1, <2>6, <3>1, <3>2, <3>3 DEF WorkOK, Working
    <2>9. PointersOK(r)'
      BY <1>0, <1>1, <2>1 DEF PointersOK, Outdated, Past, CallFor, Live
    <2>10. RangeOK(r)'
      BY <2>1 DEF RangeOK
    <2> QED
      BY <2>1, <2>8, <2>9, <2>10
  <1>5. CASE p \notin Live
    <2>1. /\ pc'[r] = "next"
          /\ \A q \in Policies : held'[r][q] = IF q = p THEN None ELSE held[r][q]
          /\ \A s \in Requests \ {r} : SameRequest(s)
      BY <1>1, <1>3, <1>5 DEF SameRequest, SourceInv, SourceTypeOK
    <2>2. PointersOK(r)'
      BY <1>0, <1>1, <2>1, NoneAssumption, InStoreAssumption
         DEF PointersOK, Outdated, Past, CallFor, Live
    <2> QED
      BY <1>1, <1>2, <2>1, <2>2, IdleOK
  <1> QED
    BY <1>4, <1>5

LEMMA CacheMissOK ==
    ASSUME SourceInv, NEW r \in Requests, CacheMiss(r)
    PROVE  /\ PointersOK(r)' /\ WorkOK(r)' /\ RangeOK(r)'
           /\ \A s \in Requests \ {r} : SameRequest(s)
  <1>0. PointersOK(r) /\ WorkOK(r)
    BY DEF SourceInv, SourceInvariant, RequestsSound
  <1>1. /\ apiPolicies' = apiPolicies /\ apiRv' = apiRv
        /\ vpolWork' = vpolWork /\ policies' = policies
        /\ UNCHANGED <<held, cur, key, src, todo, torn, got>>
    BY DEF CacheMiss, csVars, apiVars, queueVars, storeVars
  <1>2. /\ pc[r] = "lookup" /\ pc'[r] = "build"
        /\ \A s \in Requests \ {r} : SameRequest(s)
    BY <1>1 DEF CacheMiss, SameRequest, SourceInv, SourceTypeOK
  <1>3. PointersOK(r)'
    BY <1>0, <1>1 DEF PointersOK, Outdated, Past, CallFor, Live
  <1>4. WorkOK(r)'
    BY <1>0, <1>1, <1>2 DEF WorkOK, Working, KeyNotAhead, Past, CallFor, Live, Pointee
  <1>5. RangeOK(r)'
    BY <1>2 DEF RangeOK
  <1> QED
    BY <1>2, <1>3, <1>4, <1>5

LEMMA FindPolicyStateOK ==
    ASSUME SourceInv, NEW r \in Requests, FindPolicyState(r)
    PROVE  /\ PointersOK(r)' /\ WorkOK(r)' /\ RangeOK(r)'
           /\ \A s \in Requests \ {r} : SameRequest(s)
  <1>0. PointersOK(r) /\ WorkOK(r)
    BY DEF SourceInv, SourceInvariant, RequestsSound
  <1>1. /\ apiPolicies' = apiPolicies /\ apiRv' = apiRv
        /\ vpolWork' = vpolWork /\ policies' = policies
        /\ UNCHANGED <<held, cur, key, torn, got>>
    BY DEF FindPolicyState, csVars, apiVars, queueVars, storeVars
  <1>2. /\ pc[r] = "build" /\ pc'[r] = "range" /\ cur[r] \in Live
        /\ src'[r] = InStore /\ todo'[r] = Exceptions
        /\ \A s \in Requests \ {r} : SameRequest(s)
    BY <1>1 DEF FindPolicyState, SameRequest, SourceInv, SourceTypeOK
  <1>3. ~torn[r] /\ got[r] = NoLinks
    BY <1>0, <1>2 DEF WorkOK
  <1>4. PointersOK(r)'
    BY <1>0, <1>1 DEF PointersOK, Outdated, Past, CallFor, Live
  <1>5. WorkOK(r)'
    BY <1>0, <1>1, <1>2 DEF WorkOK, Working, KeyNotAhead, Past, CallFor, Live, Pointee
  <1>6. RangeOK(r)'
    BY <1>1, <1>2, <1>3, InStoreAssumption DEF RangeOK, NoLinks, Live
  <1> QED
    BY <1>2, <1>4, <1>5, <1>6

\* A build whose key is current ranges over the current policy, and compiles it.
LEMMA CurrentBuild ==
    ASSUME SourceInv, NEW r \in Requests, pc[r] = "range",
           cur[r] \in Live, key[r] = LiveKey(cur[r])
    PROVE  Ranged(r) = policies[cur[r]] /\ Readable(r) = {policies[cur[r]].policy}
  <1> DEFINE p == cur[r]
             S == policies[p]
  <1>0. PointersOK(r) /\ WorkOK(r) /\ RangeOK(r)
    BY DEF SourceInv, SourceInvariant, RequestsSound
  <1>1. S \in PolicyState /\ key[r].rv = S.policy.rv /\ S.policy.rv \in Nat /\ p \in Policies
    BY DEF SourceInv, StoreInv, TypeOK, Live, LiveKey, PolicyState, PolicyObject
  <1>2. src[r] = InStore
    BY <1>0, <1>1 DEF RangeOK, Outdated
  <1>3. held[r][p] = InStore
    <2>1. held[r][p] \in PolicyState \cup {InStore}
      BY <1>0, <1>1 DEF WorkOK, Working, SourceInv, SourceTypeOK
    <2>2. ASSUME held[r][p] \in PolicyState, held[r][p] # InStore PROVE FALSE
      <3>1. held[r][p].policy.rv < S.policy.rv
        BY <1>0, <1>1, <2>2 DEF PointersOK, Outdated
      <3>2. S.policy.rv <= held[r][p].policy.rv
        BY <1>0, <1>1, <2>2 DEF WorkOK, Working, Pointee
      <3>3. held[r][p].policy.rv \in Nat
        BY <2>2 DEF PolicyState, PolicyObject
      <3> QED
        BY <1>1, <3>1, <3>2, <3>3
    <2> QED
      BY <2>1, <2>2
  <1> QED
    BY <1>1, <1>2, <1>3 DEF Ranged, Pointee, Readable

LEMMA VisitExceptionOK ==
    ASSUME SourceInv, NEW r \in Requests, NEW e \in Exceptions, VisitException(r, e)
    PROVE  /\ PointersOK(r)' /\ WorkOK(r)' /\ RangeOK(r)'
           /\ \A s \in Requests \ {r} : SameRequest(s)
  <1>0. PointersOK(r) /\ WorkOK(r) /\ RangeOK(r)
    BY DEF SourceInv, SourceInvariant, RequestsSound
  <1>1. /\ apiPolicies' = apiPolicies /\ apiRv' = apiRv
        /\ vpolWork' = vpolWork /\ policies' = policies
        /\ UNCHANGED <<pc, held, cur, key, src, torn>> /\ pc[r] = "range"
    BY DEF VisitException, csVars, apiVars, queueVars, storeVars
  <1>7. PICK policy \in Readable(r) :
           got' = [got EXCEPT ![r][e] = Kept(policy, Ranged(r).exceptions[e])]
    BY DEF VisitException
  <1>2. /\ todo'[r] = todo[r] \ {e}
        /\ got'[r] = [got[r] EXCEPT ![e] = Kept(policy, Ranged(r).exceptions[e])]
        /\ got[r] \in [Exceptions -> ExceptionObject \cup {None}]
        /\ \A s \in Requests \ {r} : SameRequest(s)
    BY <1>1, <1>7 DEF VisitException, SameRequest, SourceInv, SourceTypeOK
  <1>3. PointersOK(r)'
    BY <1>0, <1>1 DEF PointersOK, Outdated, Past, CallFor, Live
  <1>4. WorkOK(r)'
    BY <1>0, <1>1 DEF WorkOK, Working, KeyNotAhead, Past, CallFor, Live, Pointee
  <1>5. ASSUME cur[r] \in Live, key[r] = LiveKey(cur[r])
        PROVE  Kept(policy, Ranged(r).exceptions[e]) = Applicable(policies[cur[r]])[e]
    <2>1. Ranged(r) = policies[cur[r]] /\ policy = policies[cur[r]].policy
      BY <1>1, <1>5, <1>7, CurrentBuild
    <2>2. Ranged(r).exceptions[e] # None
      BY DEF VisitException
    <2> QED
      BY <2>1, <2>2 DEF Kept, Applicable
  <1>6. RangeOK(r)'
    <2>1. /\ src'[r] # None
          /\ src'[r] = InStore => cur'[r] \in Live'
          /\ src'[r] # InStore => Outdated(key[r].rv, cur[r])'
      BY <1>0, <1>1 DEF RangeOK, Outdated, Past, CallFor, Live
    <2>2. ASSUME cur[r] \in Live, key[r] = LiveKey(cur[r])
          PROVE  /\ ~torn[r]
                 /\ \A d \in Exceptions :
                       got'[r][d] = IF d \in todo'[r] THEN None
                                    ELSE Applicable(policies[cur[r]])[d]
      <3>1. /\ ~torn[r]
            /\ \A d \in Exceptions :
                  got[r][d] = IF d \in todo[r] THEN None
                              ELSE Applicable(policies[cur[r]])[d]
        BY <1>0, <1>1, <2>2 DEF RangeOK
      <3> QED
        BY <1>2, <1>5, <2>2, <3>1
    <2> QED
      BY <1>1, <2>1, <2>2 DEF RangeOK, Live, LiveKey, Applicable
  <1> QED
    BY <1>2, <1>3, <1>4, <1>6

\* A build under the current key has read the current policy and its exceptions.
LEMMA BuiltFresh ==
    ASSUME SourceInv, NEW r \in Requests, RangeOver(r),
           cur[r] \in Live, key[r] = LiveKey(cur[r])
    PROVE  /\ Readable(r) = {policies[cur[r]].policy}
           /\ got[r] = Applicable(policies[cur[r]])
  <1>1. pc[r] = "range"
    BY DEF RangeOver
  <1>2. Ranged(r) = policies[cur[r]] /\ Readable(r) = {policies[cur[r]].policy}
    BY <1>1, CurrentBuild
  <1>3. /\ ~torn[r]
        /\ \A e \in Exceptions :
              got[r][e] = IF e \in todo[r] THEN None ELSE Applicable(policies[cur[r]])[e]
    BY <1>1 DEF SourceInv, SourceInvariant, RequestsSound, RangeOK
  <1>4. \A e \in todo[r] \cap Exceptions : policies[cur[r]].exceptions[e] = None
    BY <1>2, <1>3 DEF RangeOver
  <1>5. \A e \in Exceptions : got[r][e] = Applicable(policies[cur[r]])[e]
    BY <1>3, <1>4 DEF Applicable
  <1>6. got[r] = Applicable(policies[cur[r]])
    <2>1. got[r] \in [Exceptions -> ExceptionObject \cup {None}]
      BY DEF SourceInv, SourceTypeOK
    <2> QED
      BY <1>5, <2>1 DEF Applicable
  <1> QED
    BY <1>2, <1>6

LEMMA CompileOK ==
    ASSUME SourceInv, NEW r \in Requests, CompilePolicy(r)
    PROVE  CacheNotAhead' /\ CacheFreshByVersion'
  <1>0. WorkOK(r) /\ RangeOver(r) /\ CacheNotAhead /\ CacheFreshByVersion
    BY DEF CompilePolicy, SourceInv, SourceInvariant, RequestsSound
  <1>1. cur[r] \in Policies /\ key[r].name = cur[r] /\ KeyNotAhead(key[r])
    BY <1>0 DEF WorkOK, Working, RangeOver
  <1>2. /\ apiPolicies' = apiPolicies /\ apiRv' = apiRv
        /\ vpolWork' = vpolWork /\ policies' = policies
    BY DEF CompilePolicy, csVars, apiVars, queueVars, storeVars
  <1>3. PICK policy \in Readable(r) : cache' \subseteq cache \cup {Built(r, policy)}
    BY DEF CompilePolicy
  <1>8. Built(r, policy).key = key[r]
    BY DEF Built
  <1>4. \A i \in cache' : KeyNotAhead(i.key)
    BY <1>0, <1>1, <1>3, <1>8 DEF CacheNotAhead
  <1>5. \A i \in cache' : \A p \in Live : i.key = LiveKey(p) => Matches(i.entry, p)
    <2> SUFFICES ASSUME NEW i \in cache', NEW p \in Live, i.key = LiveKey(p)
                 PROVE  Matches(i.entry, p)
      OBVIOUS
    <2>1. CASE i \in cache
      BY <1>0, <2>1 DEF CacheFreshByVersion
    <2>2. CASE i = Built(r, policy)
      <3>1. p = cur[r]
        BY <1>1, <1>8, <2>2 DEF LiveKey
      <3>2. policy = policies[p].policy /\ got[r] = Applicable(policies[p])
        BY <1>0, <1>3, <1>8, <2>2, <3>1, BuiltFresh
      <3> QED
        BY <2>2, <3>2 DEF Matches, Built
    <2> QED
      BY <1>3, <2>1, <2>2
  <1>6. CacheNotAhead'
    BY <1>2, <1>4 DEF CacheNotAhead, KeyNotAhead, Past, CallFor, Live
  <1>7. CacheFreshByVersion'
    BY <1>2, <1>5 DEF CacheFreshByVersion, Matches, Applicable, Live, LiveKey
  <1> QED
    BY <1>6, <1>7

LEMMA RequestKeepsSource ==
    ASSUME SourceInv, NEW r \in Requests, RequestNext(r)
    PROVE  SourceInvariant'
  <1> DEFINE RequestOK == /\ PointersOK(r)' /\ WorkOK(r)' /\ RangeOK(r)'
                          /\ \A s \in Requests \ {r} : SameRequest(s)
             CacheOK == CacheNotAhead' /\ CacheFreshByVersion'
  <1>0. CacheNotAhead /\ CacheFreshByVersion /\ RequestsSound
    BY DEF SourceInv, SourceInvariant
  <1>1. UNCHANGED csVars
    BY DEF RequestNext, Load, ComputeKey, CacheHit, CacheMiss, FindPolicyState,
           BuildFails, VisitException, CompilePolicy, CompileFails, Return
  <1>2. ASSUME NEW item, Finish(r, item), Working(r) PROVE RequestOK
    <2>1. cur[r] \in Policies
      BY <1>0, <1>2 DEF RequestsSound, WorkOK
    <2> QED
      BY <1>1, <1>2, <2>1, FinishOK
  <1>3. RequestOK
    <2>1. CASE CacheHit(r)
      BY <1>2, <2>1 DEF CacheHit, Working
    <2>2. CASE BuildFails(r)
      BY <1>2, <2>2 DEF BuildFails, Working
    <2>3. CASE CompilePolicy(r)
      BY <1>2, <2>3 DEF CompilePolicy, RangeOver, Working
    <2>4. CASE CompileFails(r)
      BY <1>2, <2>4 DEF CompileFails, RangeOver, Working
    <2> QED
      BY <2>1, <2>2, <2>3, <2>4, LoadOK, ComputeKeyOK, CacheMissOK, FindPolicyStateOK,
         VisitExceptionOK, ReturnOK DEF RequestNext
  <1>4. CacheOK
    <2>1. CASE CompilePolicy(r)
      BY <2>1, CompileOK
    <2>2. CASE ~CompilePolicy(r)
      <3>1. cache' = cache
        BY <2>2 DEF RequestNext, Load, ComputeKey, CacheHit, CacheMiss, FindPolicyState,
                    BuildFails, VisitException, CompileFails, Return
      <3> QED
        BY <1>0, <1>1, <3>1, FrameCache
    <2> QED
      BY <2>1, <2>2
  <1>5. \A s \in Requests : PointersOK(s)' /\ WorkOK(s)' /\ RangeOK(s)'
    <2>1. ASSUME NEW s \in Requests \ {r} PROVE PointersOK(s)' /\ WorkOK(s)' /\ RangeOK(s)'
      BY <1>0, <1>1, <1>3, FrameOK DEF RequestsSound
    <2> QED
      BY <1>3, <2>1
  <1> QED
    BY <1>4, <1>5 DEF SourceInvariant, RequestsSound

-----------------------------------------------------------------------------
(* The invariant of the source.                                              *)

LEMMA EvictKeepsSource ==
    ASSUME SourceInv, Evict \/ UNCHANGED vars
    PROVE  SourceInvariant'
  <1>1. UNCHANGED csVars /\ cache' \subseteq cache /\ UNCHANGED reqVars
    BY DEF Evict, vars, ksVars
  <1>2. CacheNotAhead' /\ CacheFreshByVersion'
    BY <1>1, FrameCache DEF SourceInv, SourceInvariant
  <1>3. \A s \in Requests : SameRequest(s)
    BY <1>1 DEF reqVars, SameRequest
  <1>4. \A s \in Requests : PointersOK(s)' /\ WorkOK(s)' /\ RangeOK(s)'
    BY <1>1, <1>3, FrameOK DEF SourceInv, SourceInvariant, RequestsSound
  <1> QED
    BY <1>2, <1>4 DEF SourceInvariant, RequestsSound

LEMMA RestartKeepsSource ==
    ASSUME SourceRestart
    PROVE  SourceInvariant'
  <1>1. cache' = {}
    BY DEF SourceRestart
  <1>2. ASSUME NEW r \in Requests
        PROVE  /\ pc'[r] = "idle" /\ src'[r] = None /\ ~torn'[r] /\ got'[r] = NoLinks
               /\ held'[r] = NothingHeld
    BY <1>2 DEF SourceRestart
  <1>3. ASSUME NEW r \in Requests PROVE PointersOK(r)'
    <2>1. \A p \in Policies : held'[r][p] = None
      BY <1>2 DEF NothingHeld
    <2> QED
      BY <2>1, NoneAssumption, InStoreAssumption DEF PointersOK
  <1> QED
    BY <1>1, <1>2, <1>3, IdleOK
       DEF SourceInvariant, CacheNotAhead, CacheFreshByVersion, RequestsSound

LEMMA InitSource == SourceInit => SourceInv
  <1> SUFFICES ASSUME SourceInit PROVE SourceInv
    OBVIOUS
  <1>1. StoreInv
    BY InitType, InitOrder DEF SourceInit, StoreInv
  <1>2. SourceTypeOK
    BY SourceInitType
  <1>3. ASSUME NEW r \in Requests PROVE PointersOK(r) /\ WorkOK(r) /\ RangeOK(r)
    <2>1. \A p \in Policies : held[r][p] = None
      BY DEF SourceInit, NothingHeld
    <2> QED
      BY <2>1, NoneAssumption, InStoreAssumption
         DEF SourceInit, PointersOK, WorkOK, RangeOK, Working, NoLinks
  <1> QED
    BY <1>1, <1>2, <1>3
       DEF SourceInv, SourceInvariant, CacheNotAhead, CacheFreshByVersion, RequestsSound,
           SourceInit

LEMMA SourceInvStep == SourceInv /\ [SourceNext]_vars => SourceInv'
  <1> SUFFICES ASSUME SourceInv, [SourceNext]_vars PROVE SourceInv'
    OBVIOUS
  <1>1. StoreInv'
    BY SourceStep, StepType, StepOrder DEF SourceInv, StoreInv
  <1>2. CASE (ApiNext \/ QueueNext) /\ UNCHANGED ksVars
    BY <1>1, <1>2, StoreKeepsSource, OtherType DEF SourceInv
  <1>3. CASE SourceHandlePolicy \/ SourceHandlePolex
    BY <1>1, <1>3, StoreKeepsSource, StoreType DEF SourceInv, StoreInv
  <1>4. CASE SourceRestart
    BY <1>1, <1>4, RestartKeepsSource, OtherType DEF SourceInv
  <1>5. ASSUME NEW r \in Requests, RequestNext(r) PROVE SourceInv'
    <2>1. PointersOK(r) /\ WorkOK(r) /\ RangeOK(r)
      BY DEF SourceInv, SourceInvariant, RequestsSound
    <2> QED
      BY <1>1, <1>5, <2>1, RequestKeepsSource, RequestType DEF SourceInv, StoreInv
  <1>6. CASE Evict \/ UNCHANGED vars
    BY <1>1, <1>6, EvictKeepsSource, OtherType DEF SourceInv, vars, ksVars
  <1> QED
    BY <1>2, <1>3, <1>4, <1>5, <1>6 DEF SourceNext

LEMMA SourceInductive == SourceSpec => []SourceInv
  BY InitSource, SourceInvStep, PTL DEF SourceSpec

\* Every variable of the source has its type in every reachable state, however
\* many requests are under way.
THEOREM SourceTypeCorrect == SourceSpec => []SourceTypeOK
  <1>1. SourceInv => SourceTypeOK
    BY DEF SourceInv
  <1> QED
    BY <1>1, SourceInductive, PTL

\* The cache is fresh: whatever overlapped with the build of an entry, an entry
\* whose key is that of a policy now is that policy now, with the exceptions that
\* apply to it now (kube.go:40-58, composite_source.go:125-134).
THEOREM CacheIsFresh == SourceSpec => []CacheFreshByVersion
  <1>1. SourceInv => CacheFreshByVersion
    BY DEF SourceInv, SourceInvariant
  <1> QED
    BY <1>1, SourceInductive, PTL

\* A build that ends under the current key compiles the current policy with all
\* of its exceptions, although it read the store in many steps and the mutex was
\* free between them (kube.go:44-58).
THEOREM BuildsAreFresh == SourceSpec => []BuildFresh
  <1>1. SourceInv => BuildFresh
    BY BuiltFresh DEF BuildFresh
  <1> QED
    BY <1>1, SourceInductive, PTL

-----------------------------------------------------------------------------
(* The text of a key.                                                        *)

\* A set of naturals that is not empty has a least element.
LEMMA LeastExists ==
    ASSUME NEW S \in SUBSET Nat, S # {}
    PROVE  \E x \in S : \A y \in S : x <= y
  <1> DEFINE R == {pair \in Nat \X Nat : pair[1] < pair[2]}
  <1>1. IsWellFoundedOn(R, Nat)
    BY NatLessThanWellFounded DEF OpToRel
  <1>2. \A x, y \in Nat : y < x => <<y, x>> \in R
    OBVIOUS
  <1> HIDE DEF R
  <1>3. PICK x \in S : \A y \in S : <<y, x>> \notin R
    BY <1>1, WFMin
  <1>4. \A y \in S : x \in Nat /\ y \in Nat /\ ~ (y < x)
    BY <1>2, <1>3
  <1> QED
    BY <1>3, <1>4

\* One turn of Itoa on a function that knows the smaller numbers.
Decimal(f, n) == IF n < 10 THEN <<n>> ELSE Append(f[n \div 10], n % 10)

\* f is Itoa up to k.
ItoaUpTo(f, k) == f = [n \in 0 .. k |-> Decimal(f, n)]

LEMMA Division == \A n \in Nat : n >= 10 => /\ n \div 10 \in Nat /\ n \div 10 < n
                                           /\ n % 10 \in 0 .. 9
                                           /\ n = 10 * (n \div 10) + (n % 10)
  OBVIOUS

LEMMA ItoaUnique ==
    ASSUME NEW k \in Nat, NEW l \in Nat, NEW f, ItoaUpTo(f, k), NEW g, ItoaUpTo(g, l)
    PROVE  \A n \in 0 .. k : n <= l => f[n] = g[n]
  <1> DEFINE Differ == {n \in 0 .. k : n <= l /\ f[n] # g[n]}
  <1> SUFFICES ASSUME Differ # {} PROVE FALSE
    OBVIOUS
  <1>1. PICK n \in Differ : \A m \in Differ : n <= m
    <2>1. Differ \in SUBSET Nat
      OBVIOUS
    <2> QED
      BY <2>1, LeastExists
  <1>2. n \in Nat /\ n <= k /\ n <= l /\ f[n] # g[n]
    OBVIOUS
  <1>3. f[n] = Decimal(f, n)
    BY <1>2 DEF ItoaUpTo
  <1>4. g[n] = Decimal(g, n)
    BY <1>2 DEF ItoaUpTo
  <1>5. n >= 10
    BY <1>2, <1>3, <1>4 DEF Decimal
  <1>6. n \div 10 \in 0 .. k /\ n \div 10 <= l /\ ~ (n <= n \div 10)
    BY <1>2, <1>5, Division
  <1>7. n \div 10 \notin Differ
    BY <1>1, <1>6
  <1>8. f[n \div 10] = g[n \div 10]
    BY <1>6, <1>7
  <1> QED
    BY <1>2, <1>3, <1>4, <1>5, <1>8 DEF Decimal

LEMMA ItoaUpToExists == \A k \in Nat : \E f : ItoaUpTo(f, k)
  <1> DEFINE Missing == {k \in Nat : ~ \E f : ItoaUpTo(f, k)}
  <1> SUFFICES ASSUME Missing # {} PROVE FALSE
    OBVIOUS
  <1>1. PICK k \in Missing : \A m \in Missing : k <= m
    BY LeastExists
  <1>2. k # 0
    <2>1. ItoaUpTo([n \in 0 .. 0 |-> <<n>>], 0)
      BY DEF ItoaUpTo, Decimal
    <2> QED
      BY <2>1
  <1>3. k - 1 \in Nat /\ k - 1 \notin Missing
    BY <1>1, <1>2
  <1>4. PICK f : ItoaUpTo(f, k - 1)
    BY <1>3
  <1> DEFINE g == [n \in 0 .. k |-> IF n < k THEN f[n] ELSE Decimal(f, n)]
  <1>5. ASSUME NEW n \in 0 .. k PROVE g[n] = Decimal(g, n)
    <2>1. g[n] = Decimal(f, n)
      BY <1>3, <1>4 DEF ItoaUpTo
    <2>2. n >= 10 => n \div 10 \in 0 .. k /\ n \div 10 < k
      BY Division
    <2>3. n >= 10 => g[n \div 10] = f[n \div 10]
      BY <2>2
    <2> QED
      BY <2>1, <2>3 DEF Decimal
  <1>6. ItoaUpTo(g, k)
    BY <1>5 DEF ItoaUpTo
  <1> QED
    BY <1>6

\* What strconv.Itoa writes: the recursion has a solution.
LEMMA ItoaEquation ==
    ASSUME NEW n \in Nat
    PROVE  /\ n < 10 => Itoa[n] = <<n>>
           /\ n >= 10 => Itoa[n] = Append(Itoa[n \div 10], n % 10)
  <1> DEFINE upTo(k) == CHOOSE f : ItoaUpTo(f, k)
             f == [k \in Nat |-> upTo(k)[k]]
  <1>1. \A k \in Nat : ItoaUpTo(upTo(k), k)
    BY ItoaUpToExists
  <1> HIDE DEF upTo
  <1>2. ASSUME NEW k \in Nat PROVE f[k] = Decimal(f, k)
    <2>1. upTo(k)[k] = Decimal(upTo(k), k)
      BY <1>1 DEF ItoaUpTo
    <2>2. k >= 10 => upTo(k)[k \div 10] = f[k \div 10]
      <3> SUFFICES ASSUME k >= 10 PROVE upTo(k)[k \div 10] = f[k \div 10]
        OBVIOUS
      <3> DEFINE m == k \div 10
      <3>1. m \in Nat /\ m <= k
        BY Division
      <3>2. upTo(m)[m] = upTo(k)[m]
        BY <1>1, <3>1, ItoaUnique
      <3> QED
        BY <3>1, <3>2
    <2> QED
      BY <2>1, <2>2 DEF Decimal
  <1> HIDE DEF f
  <1>3. f = [k \in Nat |-> f[k]]
    BY DEF f
  <1>4. f = [k \in Nat |-> IF k < 10 THEN <<k>> ELSE Append(f[k \div 10], k % 10)]
    BY <1>2, <1>3 DEF Decimal
  <1>5. Itoa = [k \in Nat |-> IF k < 10 THEN <<k>> ELSE Append(Itoa[k \div 10], k % 10)]
    BY <1>4 DEF Itoa
  <1>6. Itoa[n] = IF n < 10 THEN <<n>> ELSE Append(Itoa[n \div 10], n % 10)
    BY <1>5, Zenon
  <1>7. n >= 10 => ~ (n < 10)
    OBVIOUS
  <1> QED
    BY <1>6, <1>7, Zenon

\* A number is written in digits, at least one.
LEMMA ItoaText == \A n \in Nat : Itoa[n] \in Seq(0 .. 9) /\ Len(Itoa[n]) > 0
  <1> DEFINE Written(n) == Itoa[n] \in Seq(0 .. 9) /\ Len(Itoa[n]) > 0
             Bad == {n \in Nat : ~ Written(n)}
  <1> SUFFICES ASSUME Bad # {} PROVE FALSE
    OBVIOUS
  <1>1. PICK n \in Bad : \A m \in Bad : n <= m
    BY LeastExists
  <1>2. n \in Nat /\ ~ Written(n) /\ \A m \in Nat : m < n => Written(m)
    BY <1>1
  <1>3. CASE n < 10
    <2>1. Itoa[n] = <<n>> /\ n \in 0 .. 9
      BY <1>2, <1>3, ItoaEquation
    <2>2. <<n>> \in Seq(0 .. 9) /\ Len(<<n>>) > 0
      BY <2>1
    <2> QED
      BY <1>2, <2>1, <2>2
  <1>4. CASE n >= 10
    <2> DEFINE s == Itoa[n \div 10]
    <2>1. s \in Seq(0 .. 9) /\ n % 10 \in 0 .. 9
      BY <1>2, <1>4, Division
    <2>2. Itoa[n] = Append(s, n % 10)
      BY <1>2, <1>4, ItoaEquation
    <2> HIDE DEF s
    <2>3. Append(s, n % 10) \in Seq(0 .. 9) /\ Len(Append(s, n % 10)) > 0
      BY <2>1, LenProperties, AppendProperties
    <2> QED
      BY <1>2, <2>2, <2>3
  <1> QED
    BY <1>2, <1>3, <1>4

\* No two numbers are written alike.
LEMMA ItoaInjective == \A m, n \in Nat : Itoa[m] = Itoa[n] => m = n
  <1> DEFINE Bad == {m \in Nat : \E n \in Nat : Itoa[m] = Itoa[n] /\ m # n}
  <1> SUFFICES ASSUME Bad # {} PROVE FALSE
    OBVIOUS
  <1>1. PICK m \in Bad : \A l \in Bad : m <= l
    BY LeastExists
  <1>2. PICK n \in Nat : Itoa[m] = Itoa[n] /\ m # n
    OBVIOUS
  <1>3. ASSUME NEW k \in Nat, k >= 10
        PROVE  /\ Itoa[k] = Append(Itoa[k \div 10], k % 10)
               /\ Itoa[k \div 10] \in Seq(0 .. 9) /\ Len(Itoa[k \div 10]) > 0
               /\ k % 10 \in 0 .. 9 /\ k \div 10 \in Nat
    BY <1>3, ItoaEquation, ItoaText, Division
  <1>4. ASSUME NEW k \in Nat, k < 10 PROVE Itoa[k] = <<k>>
    BY <1>4, ItoaEquation
  <1>5. CASE m < 10 /\ n < 10
    BY <1>2, <1>4, <1>5
  <1>6. ASSUME NEW k \in Nat, NEW l \in Nat, k < 10, l >= 10 PROVE Itoa[k] # Itoa[l]
    <2>1. Len(<<k>>) = 1
      OBVIOUS
    <2> DEFINE s == Itoa[l \div 10]
    <2>2. /\ s \in Seq(0 .. 9) /\ Len(s) > 0 /\ l % 10 \in 0 .. 9
          /\ Itoa[l] = Append(s, l % 10)
      BY <1>3, <1>6
    <2> HIDE DEF s
    <2>3. Len(Append(s, l % 10)) # 1
      BY <2>2, LenProperties, AppendProperties
    <2>4. Append(s, l % 10) # <<k>>
      BY <2>1, <2>3, Zenon
    <2> QED
      BY <1>4, <1>6, <2>2, <2>4
  <1>7. CASE m >= 10 /\ n >= 10
    <2> DEFINE s == Itoa[m \div 10]
               t == Itoa[n \div 10]
    <2>1. /\ s \in Seq(0 .. 9) /\ t \in Seq(0 .. 9)
          /\ m % 10 \in 0 .. 9 /\ n % 10 \in 0 .. 9
          /\ Append(s, m % 10) = Append(t, n % 10)
      BY <1>2, <1>3, <1>7
    <2> HIDE DEF s, t
    <2>2. s = t /\ m % 10 = n % 10
      BY <2>1, AppendInjective
    <2>3. m \div 10 \in Nat /\ n \div 10 \in Nat /\ m \div 10 \notin Bad
      BY <1>1, <1>7, Division
    <2>4. m \div 10 = n \div 10
      BY <2>2, <2>3 DEF s, t
    <2> QED
      BY <1>2, <1>7, <2>2, <2>4, Division
  <1> QED
    BY <1>2, <1>5, <1>6, <1>7

\* The text of a key is the name and then digits.
LEMMA KeyText ==
    ASSUME NEW k \in CacheKey
    PROVE  /\ KeyString(k) \in Seq(Nat) /\ Len(KeyString(k)) \in Nat
           /\ k.name \in Seq(Nat) /\ Len(k.name) \in Nat
           /\ Len(k.name) <= Len(KeyString(k))
           /\ \A i \in 1 .. Len(KeyString(k)) :
                 IF i <= Len(k.name) THEN KeyString(k)[i] = k.name[i]
                 ELSE KeyString(k)[i] \in 0 .. 9
  <1> DEFINE p == k.name
             s == Itoa[k.rv]
             t == Itoa[k.counter]
  <1>1. p \in Seq(Nat) /\ s \in Seq(0 .. 9) /\ t \in Seq(0 .. 9)
    BY NamesAssumption, ItoaText DEF CacheKey
  <1>2. KeyString(k) = (p \o s) \o t
    BY DEF KeyString
  <1>3. s \in Seq(Nat) /\ t \in Seq(Nat)
    <2>1. \A n \in Nat : Itoa[n] \in Seq(Nat)
      BY ItoaText
    <2> QED
      BY <2>1 DEF CacheKey
  <1> HIDE DEF p, s, t
  <1>4. /\ p \o s \in Seq(Nat) /\ Len(p \o s) = Len(p) + Len(s)
        /\ \A i \in 1 .. Len(p) + Len(s) :
              (p \o s)[i] = IF i <= Len(p) THEN p[i] ELSE s[i - Len(p)]
    BY <1>1, <1>3, ConcatProperties
  <1> DEFINE u == p \o s
  <1> HIDE DEF u
  <1>5. u \in Seq(Nat) /\ Len(u) \in Nat /\ Len(p) \in Nat /\ Len(s) \in Nat /\ Len(t) \in Nat
    BY <1>1, <1>4, LenProperties DEF u
  <1>6. /\ u \o t \in Seq(Nat) /\ Len(u \o t) = Len(u) + Len(t)
        /\ \A i \in 1 .. Len(u) + Len(t) :
              (u \o t)[i] = IF i <= Len(u) THEN u[i] ELSE t[i - Len(u)]
    BY <1>3, <1>5, ConcatProperties
  <1>7. /\ \A i \in 1 .. Len(s) : s[i] \in 0 .. 9
        /\ \A i \in 1 .. Len(t) : t[i] \in 0 .. 9
    BY <1>1
  <1>8. Len(u) = Len(p) + Len(s)
        /\ \A i \in 1 .. Len(u) : u[i] = IF i <= Len(p) THEN p[i] ELSE s[i - Len(p)]
    BY <1>4 DEF u
  <1>9. ASSUME NEW i \in 1 .. Len(u \o t)
        PROVE  IF i <= Len(p) THEN (u \o t)[i] = p[i] ELSE (u \o t)[i] \in 0 .. 9
    <2>1. (u \o t)[i] = IF i <= Len(u) THEN u[i] ELSE t[i - Len(u)]
      BY <1>6
    <2>2. CASE i <= Len(p)
      BY <1>5, <1>8, <2>1, <2>2
    <2>3. CASE i > Len(p) /\ i <= Len(u)
      <3>1. (u \o t)[i] = s[i - Len(p)] /\ i - Len(p) \in 1 .. Len(s)
        BY <1>5, <1>8, <2>1, <2>3
      <3> QED
        BY <1>5, <1>7, <2>3, <3>1
    <2>4. CASE i > Len(u)
      <3>1. (u \o t)[i] = t[i - Len(u)] /\ i - Len(u) \in 1 .. Len(t)
        BY <1>5, <1>6, <2>1, <2>4
      <3> QED
        BY <1>5, <1>7, <1>8, <2>4, <3>1
    <2> QED
      BY <1>5, <2>2, <2>3, <2>4
  <1>10. KeyString(k) = u \o t
    BY <1>2 DEF u
  <1>11. Len(p) <= Len(u \o t) /\ Len(u \o t) \in Nat
    BY <1>5, <1>6, <1>8
  <1> QED
    BY <1>1, <1>5, <1>6, <1>9, <1>10, <1>11 DEF p

\* The names of two keys with one text: the same, or one is the other followed by
\* digits.
Confusable(p, q) == q = p \/ ExtendedByDigits(p, q) \/ ExtendedByDigits(q, p)

LEMMA TextTellsNames ==
    ASSUME NEW k \in CacheKey, NEW l \in CacheKey, KeyString(k) = KeyString(l)
    PROVE  Confusable(k.name, l.name)
  <1>1. ASSUME NEW c \in CacheKey, NEW d \in CacheKey, KeyString(c) = KeyString(d),
               Len(c.name) <= Len(d.name)
        PROVE  c.name = d.name \/ ExtendedByDigits(c.name, d.name)
    <2> DEFINE p == c.name
               q == d.name
               text == KeyString(c)
    <2>1. /\ p \in Policies /\ q \in Policies /\ p \in Seq(Nat) /\ q \in Seq(Nat)
          /\ Len(p) \in Nat /\ Len(q) \in Nat /\ Len(q) <= Len(text) /\ Len(text) \in Nat
      BY <1>1, KeyText DEF CacheKey
    <2>2. \A i \in 1 .. Len(text) :
             IF i <= Len(p) THEN text[i] = p[i] ELSE text[i] \in 0 .. 9
      BY KeyText
    <2>3. \A i \in 1 .. Len(text) : i <= Len(q) => text[i] = q[i]
      BY <1>1, KeyText
    <2>4. Len(p) <= Len(q)
      BY <1>1
    <2> HIDE DEF p, q, text
    <2>5. \A i \in 1 .. Len(q) : IF i <= Len(p) THEN q[i] = p[i] ELSE q[i] \in 0 .. 9
      BY <2>1, <2>2, <2>3
    <2>6. CASE Len(p) < Len(q)
      <3>1. ExtendedByDigits(p, q)
        BY <2>5, <2>6 DEF ExtendedByDigits
      <3> QED
        BY <3>1 DEF p, q
    <2>7. CASE ~ (Len(p) < Len(q))
      <3>1. Len(p) = Len(q) /\ \A i \in 1 .. Len(p) : p[i] = q[i]
        BY <2>1, <2>4, <2>5, <2>7
      <3>2. p = q
        BY <2>1, <3>1, SeqEqual
      <3> QED
        BY <3>2 DEF p, q
    <2> QED
      BY <2>6, <2>7
  <1>2. Len(k.name) \in Nat /\ Len(l.name) \in Nat
    BY KeyText
  <1> QED
    BY <1>1, <1>2 DEF Confusable

\* Two keys of one version of one policy with one text have one counter.
LEMMA TextTellsCounters ==
    ASSUME NEW k \in CacheKey, NEW l \in CacheKey, KeyString(k) = KeyString(l),
           k.name = l.name, k.rv = l.rv
    PROVE  k.counter = l.counter
  <1> DEFINE u == k.name \o Itoa[k.rv]
             s == Itoa[k.counter]
             t == Itoa[l.counter]
  <1>1. /\ k.name \in Seq(Nat) /\ Itoa[k.rv] \in Seq(Nat) /\ s \in Seq(Nat) /\ t \in Seq(Nat)
    <2>1. \A n \in Nat : Itoa[n] \in Seq(Nat)
      BY ItoaText
    <2> QED
      BY <2>1, NamesAssumption DEF CacheKey
  <1>2. u \in Seq(Nat)
    BY <1>1, ConcatProperties
  <1>3. u \o s = u \o t
    BY DEF KeyString
  <1> HIDE DEF u, s, t
  <1>4. s = t
    BY <1>1, <1>2, <1>3, ConcatSimplifications
  <1> QED
    BY <1>4, ItoaInjective DEF s, t, CacheKey

-----------------------------------------------------------------------------
(* The names of what is served.                                              *)

\* What a request puts into its answer for its policy, or keeps there.
LEMMA Serves ==
    ASSUME SourceTypeOK, NEW r \in Requests, NEW item, Finish(r, item), cur[r] \in Policies
    PROVE  \A s \in Requests, p \in Policies :
              served'[s][p] = IF s = r /\ p = cur[r] THEN item ELSE served[s][p]
  BY DEF Finish, SourceTypeOK

LEMMA NamesStep ==
    ASSUME SourceInv, ConfusedOnlyByDigits, [SourceNext]_vars
    PROVE  ConfusedOnlyByDigits'
  <1>0. SourceTypeOK
    BY DEF SourceInv
  <1>1. ASSUME NEW r \in Requests, NEW item \in Item, Finish(r, item), Working(r),
               Confusable(cur[r], item.key.name)
        PROVE  ConfusedOnlyByDigits'
    <2>1. cur[r] \in Policies
      BY <1>1 DEF SourceInv, SourceInvariant, RequestsSound, WorkOK
    <2> QED
      BY <1>0, <1>1, <2>1, Serves DEF ConfusedOnlyByDigits, Confusable
  <1>2. ASSUME NEW r \in Requests, Finish(r, None), Working(r) PROVE ConfusedOnlyByDigits'
    <2>1. cur[r] \in Policies
      BY <1>2 DEF SourceInv, SourceInvariant, RequestsSound, WorkOK
    <2> QED
      BY <1>0, <1>2, <2>1, Serves DEF ConfusedOnlyByDigits
  <1>3. ASSUME NEW r \in Requests, Working(r)
        PROVE  key[r] \in CacheKey /\ key[r].name = cur[r]
    BY <1>3 DEF SourceInv, SourceInvariant, RequestsSound, WorkOK
  <1>4. ASSUME NEW r \in Requests, CacheHit(r) PROVE ConfusedOnlyByDigits'
    <2>1. PICK i \in Cached(key[r]) : Finish(r, i)
      BY <1>4 DEF CacheHit
    <2>2. Working(r)
      BY <1>4 DEF CacheHit, Working
    <2>3. i \in Item /\ i.key \in CacheKey /\ KeyString(i.key) = KeyString(key[r])
      BY <1>0, <2>1 DEF Cached, SourceTypeOK, Item
    <2>4. Confusable(cur[r], i.key.name)
      BY <1>3, <2>2, <2>3, TextTellsNames
    <2> QED
      BY <1>1, <2>1, <2>2, <2>3, <2>4
  <1>5. ASSUME NEW r \in Requests, CompilePolicy(r) PROVE ConfusedOnlyByDigits'
    <2>1. PICK policy \in Readable(r) : Finish(r, Built(r, policy))
      BY <1>5 DEF CompilePolicy
    <2>2. Working(r)
      BY <1>5 DEF CompilePolicy, RangeOver, Working
    <2>3. Built(r, policy).key.name = cur[r]
      BY <1>3, <2>2 DEF Built
    <2>4. cur[r] \in Policies
      BY <2>2 DEF SourceInv, SourceInvariant, RequestsSound, WorkOK
    <2> QED
      BY <1>0, <2>1, <2>3, <2>4, Serves DEF ConfusedOnlyByDigits
  <1>6. ASSUME NEW r \in Requests, RequestNext(r) PROVE ConfusedOnlyByDigits'
    <2>1. CASE BuildFails(r) \/ CompileFails(r)
      BY <1>2, <2>1 DEF BuildFails, CompileFails, RangeOver, Working
    <2>2. CASE Return(r)
      BY <1>0, <2>2 DEF Return, ConfusedOnlyByDigits, NothingHeld, SourceTypeOK
    <2>3. CASE served' = served
      BY <2>3 DEF ConfusedOnlyByDigits
    <2>4. \/ CacheHit(r) \/ CompilePolicy(r) \/ BuildFails(r) \/ CompileFails(r) \/ Return(r)
          \/ served' = served
      BY <1>6 DEF RequestNext, Load, ComputeKey, CacheMiss, FindPolicyState, VisitException
    <2> QED
      BY <1>4, <1>5, <1>6, <2>1, <2>2, <2>3, <2>4
  <1>7. CASE SourceRestart
    BY <1>7 DEF SourceRestart, ConfusedOnlyByDigits, NothingHeld
  <1>8. CASE \/ (ApiNext \/ QueueNext) /\ UNCHANGED ksVars
             \/ SourceHandlePolicy \/ SourceHandlePolex \/ Evict \/ UNCHANGED vars
    BY <1>8 DEF SourceHandlePolicy, SourceHandlePolex, Evict, vars, ksVars, reqVars, ConfusedOnlyByDigits
  <1> QED
    BY <1>6, <1>7, <1>8 DEF SourceNext

\* Whatever is in the cache, a request that is not served the policy it asked for is
\* served one with the same name but for digits at its end (composite_source.go:133).
THEOREM OnlyDigitsConfuse == SourceSpec => []ConfusedOnlyByDigits
  <1>1. SourceInit => ConfusedOnlyByDigits
    BY DEF SourceInit, ConfusedOnlyByDigits, NothingHeld
  <1>2. SourceInv /\ ConfusedOnlyByDigits /\ [SourceNext]_vars => ConfusedOnlyByDigits'
    BY NamesStep
  <1> QED
    BY <1>1, <1>2, SourceInductive, PTL DEF SourceSpec

-----------------------------------------------------------------------------
(* A resource version belongs to one policy: the API server gives no two       *)
(* writes the same one.                                                        *)

\* Somebody knows version v of policy p: the API server, the call in flight, the
\* store; a pointer or a key of a request, a cached or a served item.
StoreKnows(p, v) ==
    \/ apiPolicies[p] # None /\ apiPolicies[p].rv = v
    \/ CallFor(p) /\ vpolWork.obj # None /\ vpolWork.obj.rv = v
    \/ p \in Live /\ policies[p].policy.rv = v

SourceKnows(p, v) ==
    \/ \E r \in Requests : held[r][p] \in PolicyState /\ held[r][p].policy.rv = v
    \/ \E r \in Requests : Working(r) /\ key[r].name = p /\ key[r].rv = v
    \/ \E i \in cache : i.key.name = p /\ i.key.rv = v
    \/ \E r \in Requests, q \in Policies :
          served[r][q] # None /\ served[r][q].key.name = p /\ served[r][q].key.rv = v

Known(p, v) == StoreKnows(p, v) \/ SourceKnows(p, v)

VersionsApart ==
    \A p \in Policies, v \in Nat :
        Known(p, v) => v <= apiRv /\ \A q \in Policies : Known(q, v) => q = p

\* A step of the store learns at most one version of one policy, a new one.
LEMMA StoreLearns ==
    ASSUME TypeOK, [Next]_csVars
    PROVE  /\ apiRv \in Nat /\ apiRv' \in Nat /\ apiRv <= apiRv'
           /\ \E w : \A p \in Policies, v \in Nat :
                 StoreKnows(p, v)' => \/ StoreKnows(p, v)
                                      \/ p = w /\ v = apiRv' /\ apiRv < apiRv'
  <1>0. apiRv \in Nat
    BY DEF TypeOK
  <1>1. ASSUME NEW w \in Policies, NEW step \in RvSteps, NEW m \in PolicyModes,
               WritePolicy(w, step, m)
        PROVE  /\ apiRv < apiRv' /\ apiRv' \in Nat
               /\ \A p \in Policies, v \in Nat :
                     StoreKnows(p, v)' => StoreKnows(p, v) \/ (p = w /\ v = apiRv')
    <2>1. /\ apiRv < apiRv' /\ apiRv' \in Nat
          /\ policies' = policies /\ vpolWork' = vpolWork
          /\ \A p \in Policies : apiPolicies'[p] = IF p = w THEN [rv |-> apiRv', mode |-> m]
                                                   ELSE apiPolicies[p]
      <3>1. apiRv < apiRv' /\ apiRv' \in Nat
        BY <1>0, <1>1, RvAssumption DEF WritePolicy, Commit
      <3>2. policies' = policies /\ vpolWork' = vpolWork
            /\ apiPolicies' = [apiPolicies EXCEPT ![w] = [rv |-> apiRv', mode |-> m]]
        BY <1>1 DEF WritePolicy, storeVars
      <3>3. \A p \in Policies : apiPolicies'[p] = IF p = w THEN [rv |-> apiRv', mode |-> m]
                                                  ELSE apiPolicies[p]
        BY <3>2 DEF TypeOK
      <3> QED
        BY <3>1, <3>2, <3>3
    <2> QED
      BY <2>1 DEF StoreKnows, CallFor, Live
  <1>2. ASSUME apiRv' \in Nat, apiRv <= apiRv',
               \A p \in Policies, v \in Nat : StoreKnows(p, v)' => StoreKnows(p, v)
        PROVE  \E w : \A p \in Policies, v \in Nat :
                 StoreKnows(p, v)' => \/ StoreKnows(p, v)
                                      \/ p = w /\ v = apiRv' /\ apiRv < apiRv'
    BY <1>2
  <1>3. CASE ApiNext
    <2>1. ASSUME NEW w \in Policies, RemovePolicy(w)
          PROVE  /\ apiRv' = apiRv
                 /\ \A p \in Policies, v \in Nat : StoreKnows(p, v)' => StoreKnows(p, v)
      <3>1. /\ apiRv' = apiRv /\ policies' = policies /\ vpolWork' = vpolWork
            /\ \A p \in Policies : apiPolicies'[p] = IF p = w THEN None ELSE apiPolicies[p]
        BY <2>1 DEF RemovePolicy, storeVars, TypeOK
      <3> QED
        BY <3>1 DEF StoreKnows, CallFor, Live
    <2>2. ASSUME NEW e \in Exceptions,
                 \/ RemoveException(e)
                 \/ \E step \in RvSteps, m \in Modes, refs \in SUBSET Policies :
                       WriteException(e, step, m, refs)
          PROVE  /\ apiRv' \in Nat /\ apiRv <= apiRv'
                 /\ \A p \in Policies, v \in Nat : StoreKnows(p, v)' => StoreKnows(p, v)
      <3>1. /\ apiRv' \in Nat /\ apiRv <= apiRv'
            /\ policies' = policies /\ vpolWork' = vpolWork /\ apiPolicies' = apiPolicies
        BY <1>0, <2>2, RvAssumption
           DEF RemoveException, WriteException, Commit, storeVars
      <3> QED
        BY <3>1 DEF StoreKnows, CallFor, Live
    <2> QED
      BY <1>0, <1>1, <1>2, <1>3, <2>1, <2>2 DEF ApiNext
  <1>4. CASE QueueNext
    <2>1. /\ apiRv' = apiRv /\ policies' = policies /\ apiPolicies' = apiPolicies
          /\ vpolWork' = vpolWork \/ \E p \in Policies : vpolWork' = [key |-> p, obj |-> apiPolicies[p]]
      BY <1>4 DEF QueueNext, ResyncPolicy, TakePolicy, ResyncException, TakeException,
                  apiVars, storeVars
    <2>2. \A p \in Policies, v \in Nat : StoreKnows(p, v)' => StoreKnows(p, v)
      BY <2>1 DEF StoreKnows, CallFor, Live
    <2> QED
      BY <1>0, <1>2, <2>1, <2>2
  <1>5. CASE HandlePolicy \/ HandlePolex
    <2>1. apiRv' = apiRv /\ apiPolicies' = apiPolicies /\ (vpolWork' = vpolWork \/ vpolWork' = None)
      BY <1>5 DEF HandlePolicy, HandlePolicyDelete, HandlePolicyUpdate, HandlePolicyCreate,
                  HandlePolex, HandlePolexDelete, HandlePolexUpsert, apiVars
    <2>2. \A p \in Policies, v \in Nat :
             p \in Live' /\ policies'[p].policy.rv = v => StoreKnows(p, v)
      <3>1. CASE HandlePolicyDelete
        BY <3>1, DeletePolicies DEF StoreKnows
      <3>2. CASE HandlePolicyUpdate
        <4>1. vpolWork # None /\ vpolWork.obj # None
          BY <3>2 DEF HandlePolicyUpdate, IsUpdate
        <4> QED
          BY <3>2, <4>1, UpdatePolicies DEF StoreKnows, CallFor
      <3>3. CASE HandlePolicyCreate
        <4>1. vpolWork # None /\ vpolWork.obj # None
          BY <3>3 DEF HandlePolicyCreate
        <4> QED
          BY <3>3, <4>1, CreatePolicies DEF StoreKnows, CallFor
      <3>4. CASE HandlePolex
        BY <3>4, PolexPolicies DEF StoreKnows
      <3> QED
        BY <1>5, <3>1, <3>2, <3>3, <3>4 DEF HandlePolicy
    <2>3. \A p \in Policies, v \in Nat : StoreKnows(p, v)' => StoreKnows(p, v)
      BY <2>1, <2>2 DEF StoreKnows, CallFor
    <2> QED
      BY <1>0, <1>2, <2>1, <2>3
  <1>6. CASE Restart \/ UNCHANGED csVars
    <2>1. /\ apiRv' = apiRv /\ apiPolicies' = apiPolicies
          /\ \/ vpolWork' = None /\ Live' = {}
             \/ vpolWork' = vpolWork /\ policies' = policies
      BY <1>6 DEF Restart, NewStore, Live, csVars, apiVars, queueVars, storeVars
    <2>2. \A p \in Policies, v \in Nat : StoreKnows(p, v)' => StoreKnows(p, v)
      BY <2>1 DEF StoreKnows, CallFor, Live
    <2> QED
      BY <1>0, <1>2, <2>1, <2>2
  <1> QED
    BY <1>3, <1>4, <1>5, <1>6 DEF Next

\* The requests and the cache know only what the store has known.
LEMMA SourceLearns ==
    ASSUME SourceInv, [SourceNext]_vars, NEW p \in Policies, NEW v \in Nat, SourceKnows(p, v)'
    PROVE  Known(p, v)
  <1>0. SourceTypeOK /\ TypeOK
    BY DEF SourceInv, StoreInv
  <1>1. CASE \/ (ApiNext \/ QueueNext) /\ UNCHANGED ksVars
             \/ SourceHandlePolicy
             \/ SourceHandlePolex
    <2>1. Moves
      BY <1>1, StoreMoves
    <2>2. served' = served
      BY <1>1 DEF SourceHandlePolicy, SourceHandlePolex, ksVars, reqVars
    <2>3. ASSUME NEW r \in Requests, held'[r][p] \in PolicyState, held'[r][p].policy.rv = v
          PROVE  Known(p, v)
      <3>1. CASE held[r][p] = InStore
        <4>1. p \in Live
          BY <3>1, InStoreLive
        <4>2. held'[r][p] = policies[p]
          BY <2>1, <2>3, <3>1, InStoreAssumption DEF Moves
        <4> QED
          BY <2>3, <4>1, <4>2 DEF Known, StoreKnows
      <3>2. CASE held[r][p] # InStore
        BY <2>1, <2>3, <3>2 DEF Moves, Known, SourceKnows
      <3> QED
        BY <3>1, <3>2
    <2> QED
      BY <2>1, <2>2, <2>3 DEF SourceKnows, Moves, Working, Known
  <1>2. CASE SourceRestart
    BY <1>2, NoneAssumption DEF SourceRestart, SourceKnows, NothingHeld, Working
  <1>3. CASE Evict \/ UNCHANGED vars
    BY <1>3 DEF Evict, vars, ksVars, reqVars, SourceKnows, Working, Known
  <1>4. ASSUME NEW r \in Requests, Finish(r, None) \/ \E i \in cache' : Finish(r, i),
               Working(r),
               \A i \in cache' : i \in cache \/ i.key = key[r]
        PROVE  Known(p, v)
    <2>1. cur[r] \in Policies
      BY <1>4 DEF SourceInv, SourceInvariant, RequestsSound, WorkOK
    <2>2. PICK item \in cache' \cup {None} : Finish(r, item)
      BY <1>4
    <2>3. ASSUME NEW i \in cache', i.key.name = p, i.key.rv = v PROVE Known(p, v)
      BY <1>4, <2>3 DEF Known, SourceKnows
    <2>4. ASSUME NEW s \in Requests, NEW q \in Policies,
                 served'[s][q] # None, served'[s][q].key.name = p, served'[s][q].key.rv = v
          PROVE  Known(p, v)
      <3>1. served'[s][q] = IF s = r /\ q = cur[r] THEN item ELSE served[s][q]
        BY <1>0, <2>1, <2>2, Serves
      <3> QED
        BY <2>2, <2>3, <2>4, <3>1 DEF Known, SourceKnows
    <2>5. \A s \in Requests : Working(s)' => Working(s) /\ key'[s] = key[s]
      BY <1>0, <2>2 DEF Finish, Working, SourceTypeOK
    <2>6. \A s \in Requests : held'[s][p] # None => held'[s][p] = held[s][p]
      BY <1>0, <2>1, <2>2 DEF Finish, SourceTypeOK
    <2>7. \A s \in Requests : held'[s][p] \in PolicyState => held'[s][p] = held[s][p]
      BY <2>6, NoneAssumption
    <2> QED
      BY <2>3, <2>4, <2>5, <2>7 DEF SourceKnows, Known
  <1>5. ASSUME NEW r \in Requests, CompilePolicy(r) PROVE Known(p, v)
    <2>1. PICK policy \in Readable(r) :
             /\ cache' = (cache \ Cached(key[r])) \cup {Built(r, policy)}
             /\ Finish(r, Built(r, policy))
      BY <1>5 DEF CompilePolicy
    <2>2. Built(r, policy).key = key[r]
      BY DEF Built
    <2> QED
      BY <1>4, <1>5, <2>1, <2>2 DEF CompilePolicy, RangeOver, Working
  <1>6. ASSUME NEW r \in Requests, CacheHit(r) \/ BuildFails(r) \/ CompileFails(r)
        PROVE Known(p, v)
    <2>1. Working(r) /\ cache' = cache
      BY <1>6 DEF CacheHit, BuildFails, CompileFails, RangeOver, Working
    <2>2. Finish(r, None) \/ \E i \in cache : Finish(r, i)
      BY <1>6 DEF CacheHit, BuildFails, CompileFails, Cached
    <2> QED
      BY <1>4, <2>1, <2>2
  <1>7. ASSUME NEW r \in Requests, ComputeKey(r) PROVE Known(p, v)
    <2>1. PICK q \in Policies :
             /\ IsNext(r, q)
             /\ IF q \in Live
                THEN /\ pc' = [pc EXCEPT ![r] = "lookup"]
                     /\ cur' = [cur EXCEPT ![r] = q]
                     /\ key' = [key EXCEPT ![r] = KeyFor(r, q)]
                     /\ UNCHANGED held
                ELSE /\ held' = [held EXCEPT ![r][q] = None]
                     /\ UNCHANGED <<pc, cur, key>>
      BY <1>7 DEF ComputeKey
    <2>2. cache' = cache /\ served' = served
      BY <1>7 DEF ComputeKey
    <2>3. \A s \in Requests : held'[s][p] \in PolicyState => held'[s][p] = held[s][p]
      <3>1. \A s \in Requests : held'[s][p] = held[s][p] \/ held'[s][p] = None
        <4>1. held[r] \in [Policies -> PolicyState \cup {None, InStore}]
          BY <1>0 DEF SourceTypeOK
        <4>2. held' = held \/ held' = [held EXCEPT ![r] = [held[r] EXCEPT ![q] = None]]
          BY <2>1
        <4>3. \/ held' = held
              \/ /\ held'[r] = [held[r] EXCEPT ![q] = None]
                 /\ \A s \in Requests \ {r} : held'[s] = held[s]
          BY <1>0, <4>2 DEF SourceTypeOK
        <4> QED
          BY <4>1, <4>3
      <3> QED
        BY <3>1, NoneAssumption
    <2>4. ASSUME NEW s \in Requests, Working(s)', key'[s].name = p, key'[s].rv = v
          PROVE  Known(p, v)
      <3>1. CASE Working(s) /\ key'[s] = key[s]
        BY <2>4, <3>1 DEF Known, SourceKnows
      <3>2. CASE s = r /\ q \in Live /\ key'[s] = KeyFor(r, q)
        <4>1. p = q /\ v = Pointee(r, q).policy.rv
          BY <2>4, <3>2 DEF KeyFor
        <4>2. held[r][q] \in PolicyState \cup {InStore}
          BY <1>0, <2>1 DEF IsNext, Pending, SourceTypeOK
        <4> QED
          BY <3>2, <4>1, <4>2 DEF Pointee, Known, StoreKnows, SourceKnows
      <3>3. (Working(s) /\ key'[s] = key[s]) \/ (s = r /\ q \in Live /\ key'[s] = KeyFor(r, q))
        BY <1>0, <2>1, <2>4 DEF Working, SourceTypeOK
      <3> QED
        BY <3>1, <3>2, <3>3
    <2> QED
      BY <2>2, <2>3, <2>4 DEF SourceKnows, Known
  <1>8. ASSUME NEW r \in Requests,
               \/ CacheMiss(r) \/ FindPolicyState(r) \/ Load(r) \/ Return(r)
               \/ \E e \in Exceptions : VisitException(r, e)
        PROVE  Known(p, v)
    <2>1. cache' = cache /\ key' = key
          /\ \A s \in Requests, q \in Policies : served'[s][q] # None => served'[s][q] = served[s][q]
      BY <1>0, <1>8 DEF CacheMiss, FindPolicyState, Load, Return, VisitException,
                  SourceTypeOK, NothingHeld
    <2>2. \A s \in Requests : Working(s)' => Working(s)
      BY <1>0, <1>8 DEF CacheMiss, FindPolicyState, Load, Return, VisitException,
                  SourceTypeOK, Working
    <2>3. \A s \in Requests : \/ held'[s][p] = held[s][p]
                              \/ held'[s][p] = InStore \/ held'[s][p] = None
      BY <1>0, <1>8 DEF CacheMiss, FindPolicyState, Load, Return, VisitException, SourceTypeOK
    <2> QED
      BY <2>1, <2>2, <2>3, NoneAssumption, InStoreAssumption DEF SourceKnows, Known
  <1> QED
    BY <1>1, <1>2, <1>3, <1>5, <1>6, <1>7, <1>8 DEF SourceNext, RequestNext

LEMMA ApartStep ==
    ASSUME SourceInv, VersionsApart, [SourceNext]_vars
    PROVE  VersionsApart'
  <1>1. TypeOK /\ [Next]_csVars
    BY SourceStep DEF SourceInv, StoreInv
  <1>2. apiRv \in Nat /\ apiRv' \in Nat /\ apiRv <= apiRv'
    BY <1>1, StoreLearns
  <1>3. PICK w : \A p \in Policies, v \in Nat :
                 StoreKnows(p, v)' => \/ StoreKnows(p, v)
                                      \/ p = w /\ v = apiRv' /\ apiRv < apiRv'
    BY <1>1, StoreLearns
  <1>4. \A p \in Policies, v \in Nat :
           Known(p, v)' => Known(p, v) \/ (p = w /\ v = apiRv' /\ apiRv < apiRv')
    <2> SUFFICES ASSUME NEW p \in Policies, NEW v \in Nat, Known(p, v)'
                 PROVE  Known(p, v) \/ (p = w /\ v = apiRv' /\ apiRv < apiRv')
      OBVIOUS
    <2>1. CASE StoreKnows(p, v)'
      BY <1>3, <2>1 DEF Known
    <2>2. CASE SourceKnows(p, v)'
      BY <2>2, SourceLearns
    <2> QED
      BY <2>1, <2>2 DEF Known
  <1> QED
    BY <1>2, <1>4 DEF VersionsApart

LEMMA InitApart == SourceInit => VersionsApart
  BY NoneAssumption, InStoreAssumption
     DEF SourceInit, Init, VersionsApart, Known, StoreKnows, SourceKnows, CallFor, Live,
         Working, NothingHeld

-----------------------------------------------------------------------------
(* What was revoked before a request is not served to it.                    *)

\* Key k is of the stored version of policy p, no earlier than event c.
Late(k, p, c) == k.name = p /\ k.rv = policies[p].policy.rv /\ k.counter >= c

\* What is cached or being built under such a key has none of the exceptions
\* revoked for request r.
Clean(r, p, c) ==
    \A e \in revoked[r] :
        /\ \A i \in cache : Late(i.key, p, c) => i.entry.exceptions[e] = None
        /\ \A s \in Requests : Working(s) /\ Late(key[s], p, c) => got[s][e] = None

\* Request r works on policy p: under a key of the stored version, or of another.
InTime(r, p) == Working(r) /\ cur[r] = p /\ key[r].rv = policies[p].policy.rv
Overtaken(r, p) ==
    \/ held[r][p] \in PolicyState
    \/ Working(r) /\ cur[r] = p /\ key[r].rv # policies[p].policy.rv

RequestsClean ==
    \A r \in Requests, p \in Live :
        /\ Overtaken(r, p) => Clean(r, p, 0)
        /\ InTime(r, p) => Clean(r, p, key[r].counter)

RevokedAbsent == \A r \in Requests : \A e \in revoked[r] : exceptions[e] = None

ServedSound ==
    \A r \in Requests, p \in Policies :
        served[r][p] # None => pc[r] # "idle" /\ KeyNotAhead(served[r][p].key)

RevokedInv ==
    /\ SourceInv /\ LinksInv /\ VersionsApart
    /\ RequestsClean /\ RevokedAbsent /\ ServedSound /\ RevokedNotServedInStore

\* A version that enters the store has been seen by no key.
LEMMA NewVersion ==
    ASSUME StoreInv, StoreInv', StoreStep, NEW p \in Live', NEW k \in CacheKey, k.name = p,
           KeyNotAhead(k),
           p \notin Live \/ policies'[p].policy.rv # policies[p].policy.rv
    PROVE  k.rv # policies'[p].policy.rv
  <1>1. p \in Policies /\ k.rv \in Nat /\ Past(k.rv, p)
    BY DEF Live, CacheKey, KeyNotAhead
  <1>2. CASE p \notin Live
    <2>1. Outdated(k.rv, p)'
      BY <1>1, <1>2, PastStep
    <2>2. policies'[p].policy.rv \in Nat
      BY DEF StoreInv, TypeOK, Live, PolicyState, PolicyObject
    <2> QED
      BY <1>1, <2>1, <2>2 DEF Outdated
  <1>3. CASE p \in Live /\ policies'[p].policy.rv # policies[p].policy.rv
    <2>1. policies[p].policy.rv \in Nat /\ policies'[p].policy.rv \in Nat
          /\ policies[p].policy.rv <= policies'[p].policy.rv
      BY <1>1, <1>3, LiveStep DEF VersionStep
    <2>2. k.rv <= policies[p].policy.rv
      BY <1>1, <1>3 DEF Past
    <2> QED
      BY <1>1, <1>3, <2>1, <2>2
  <1> QED
    BY <1>2, <1>3

\* Every key somebody holds has its type and is not ahead of the store.
LEMMA KeysSound ==
    ASSUME RevokedInv
    PROVE  /\ \A i \in cache : i.key \in CacheKey /\ KeyNotAhead(i.key)
           /\ \A s \in Requests : Working(s) =>
                 key[s] \in CacheKey /\ key[s].name = cur[s] /\ cur[s] \in Policies
                 /\ KeyNotAhead(key[s])
           /\ \A r \in Requests, p \in Policies : served[r][p] # None =>
                 served[r][p] \in Item /\ served[r][p].key \in CacheKey
                 /\ KeyNotAhead(served[r][p].key)
  <1>1. SourceTypeOK /\ CacheNotAhead /\ \A s \in Requests : WorkOK(s)
    BY DEF RevokedInv, SourceInv, SourceInvariant, RequestsSound
  <1>2. \A r \in Requests, p \in Policies : served[r][p] \in Item \cup {None}
    BY <1>1 DEF SourceTypeOK
  <1>3. \A i \in Item : i.key \in CacheKey
    BY DEF Item
  <1>4. cache \subseteq Item
    BY <1>1 DEF SourceTypeOK
  <1> QED
    BY <1>1, <1>2, <1>3, <1>4 DEF RevokedInv, ServedSound, CacheNotAhead, WorkOK

\* A step of the store.
LEMMA StoreKeepsRevoked ==
    ASSUME RevokedInv, SourceInv', VersionsApart',
           \/ (ApiNext \/ QueueNext) /\ UNCHANGED ksVars
           \/ SourceHandlePolicy
           \/ SourceHandlePolex
    PROVE  RequestsClean' /\ RevokedAbsent' /\ ServedSound' /\ RevokedNotServedInStore'
  <1>0. SourceInv /\ StoreInv /\ StoreInv' /\ TypeOK
    BY DEF RevokedInv, SourceInv, StoreInv
  <1>1. StoreStep /\ Moves
    BY <1>0, StoreMoves
  <1>2. served' = served /\ pc' = pc /\ cache' = cache /\ key' = key /\ cur' = cur /\ got' = got
    BY <1>1 DEF Moves, SourceHandlePolicy, SourceHandlePolex, ksVars, reqVars
  <1>3. RevokedAbsent' /\ \A r \in Requests : revoked'[r] \subseteq revoked[r]
    <2>1. CASE SourceHandlePolex
      BY <2>1 DEF SourceHandlePolex, RevokedAbsent
    <2>2. CASE SourceHandlePolicy
      <3>1. exceptions' = exceptions /\ revoked' = revoked
        BY <2>2 DEF SourceHandlePolicy, HandlePolicyDelete, HandlePolicyUpdate, HandlePolicyCreate
      <3> QED
        BY <3>1 DEF RevokedAbsent, RevokedInv
    <2>3. CASE (ApiNext \/ QueueNext) /\ UNCHANGED ksVars
      <3>1. exceptions' = exceptions /\ revoked' = revoked
        BY <1>0, <2>3, QuietStep DEF ksVars, reqVars
      <3> QED
        BY <3>1 DEF RevokedAbsent, RevokedInv
    <2> QED
      BY <2>1, <2>2, <2>3
  <1>4. ASSUME NEW k \in CacheKey, KeyNotAhead(k) PROVE KeyNotAhead(k)'
    BY <1>0, <1>1, <1>4, KeyStep
  <1>5. ServedSound'
    <2> SUFFICES ASSUME NEW r \in Requests, NEW p \in Policies, served[r][p] # None
                 PROVE  pc[r] # "idle" /\ KeyNotAhead(served[r][p].key)'
      BY <1>2 DEF ServedSound, KeyNotAhead, Past, CallFor, Live
    <2>1. PICK k \in CacheKey : k = served[r][p].key /\ KeyNotAhead(k)
      BY KeysSound
    <2>2. KeyNotAhead(k)'
      BY <1>4, <2>1
    <2>3. KeyNotAhead(served[r][p].key)'
      BY <1>2, <2>1, <2>2 DEF KeyNotAhead, Past
    <2> QED
      BY <2>3 DEF RevokedInv, ServedSound
  <1>6. ASSUME NEW p \in Live', p \in Live, policies'[p].policy.rv = policies[p].policy.rv,
               NEW r \in Requests
        PROVE  /\ \A c : Clean(r, p, c) => Clean(r, p, c)'
               /\ Overtaken(r, p)' => Overtaken(r, p)
               /\ InTime(r, p)' => InTime(r, p)
    <2>1. \A k, c : Late(k, p, c)' <=> Late(k, p, c)
      BY <1>6 DEF Late
    <2>2. \A c : Clean(r, p, c) => Clean(r, p, c)'
      BY <1>2, <1>3, <1>6 DEF Clean, Late, Working
    <2>3. p \in Policies
      BY DEF Live
    <2>4. held'[r][p] = held[r][p]
      BY <1>1, <2>3 DEF Moves
    <2> QED
      BY <1>2, <1>6, <2>2, <2>4 DEF Overtaken, InTime, Working
  <1>7. ASSUME NEW p \in Live', p \notin Live \/ policies'[p].policy.rv # policies[p].policy.rv,
               NEW r \in Requests
        PROVE  /\ \A c : Clean(r, p, c)'
               /\ ~ InTime(r, p)'
    <2>1. \A k \in CacheKey : KeyNotAhead(k) /\ k.name = p => k.rv # policies'[p].policy.rv
      BY <1>0, <1>1, <1>7, NewVersion
    <2>2. \A c : \A i \in cache : ~ Late(i.key, p, c)'
      BY <2>1, KeysSound DEF Late
    <2>3. \A s \in Requests : Working(s) => ~ (key[s].name = p /\ key[s].rv = policies'[p].policy.rv)
      BY <2>1, KeysSound
    <2> QED
      BY <1>2, <2>2, <2>3, KeysSound DEF Clean, Late, InTime, Working
  <1>8. RequestsClean'
    <2> SUFFICES ASSUME NEW r \in Requests, NEW p \in Live'
                 PROVE  /\ Overtaken(r, p)' => Clean(r, p, 0)'
                        /\ InTime(r, p)' => Clean(r, p, key[r].counter)'
      BY <1>2 DEF RequestsClean
    <2>1. CASE p \in Live /\ policies'[p].policy.rv = policies[p].policy.rv
      <3>1. /\ Overtaken(r, p) => Clean(r, p, 0)
            /\ InTime(r, p) => Clean(r, p, key[r].counter)
        BY <2>1 DEF RevokedInv, RequestsClean
      <3>2. Clean(r, p, 0) => Clean(r, p, 0)'
        BY <1>6, <2>1
      <3>3. PICK c : c = key[r].counter
        OBVIOUS
      <3>4. Clean(r, p, c) => Clean(r, p, c)'
        BY <1>6, <2>1
      <3>5. Clean(r, p, c)' => Clean(r, p, key[r].counter)'
        BY <1>2, <3>3 DEF Clean, Late
      <3> QED
        BY <1>6, <2>1, <3>1, <3>2, <3>3, <3>4, <3>5
    <2>2. CASE p \notin Live \/ policies'[p].policy.rv # policies[p].policy.rv
      BY <1>7, <2>2
    <2> QED
      BY <2>1, <2>2
  <1>9. RevokedNotServedInStore'
    <2> SUFFICES ASSUME NEW r \in Requests, NEW p \in Live', NEW e \in revoked'[r],
                        served[r][p] # None, served[r][p].key.rv = policies'[p].policy.rv
                 PROVE  served[r][p].entry.exceptions[e] = None
      BY <1>2 DEF RevokedNotServedInStore
    <2>1. p \in Policies /\ e \in revoked[r]
      BY <1>3 DEF Live
    <2>2. CASE p \in Live /\ policies'[p].policy.rv = policies[p].policy.rv
      BY <2>1, <2>2 DEF RevokedInv, RevokedNotServedInStore
    <2>3. CASE p \notin Live \/ policies'[p].policy.rv # policies[p].policy.rv
      <3>1. PICK k \in CacheKey : k = served[r][p].key /\ KeyNotAhead(k)
        BY <2>1, KeysSound
      <3>2. PICK v \in Nat : v = policies'[p].policy.rv
        BY <1>0 DEF StoreInv, TypeOK, Live, PolicyState, PolicyObject
      <3>3. Known(p, v)'
        BY <3>2 DEF Known, StoreKnows
      <3>4. Known(k.name, v)'
        BY <1>2, <2>1, <3>1, <3>2 DEF Known, SourceKnows
      <3>5. k.name = p
        BY <2>1, <3>1, <3>3, <3>4 DEF VersionsApart, CacheKey
      <3> QED
        BY <1>0, <1>1, <2>3, <3>1, <3>5, NewVersion
    <2> QED
      BY <2>2, <2>3
  <1> QED
    BY <1>3, <1>5, <1>8, <1>9

\* The store while a request takes a step.
LEMMA StoreStands ==
    ASSUME UNCHANGED csVars
    PROVE  /\ policies' = policies /\ exceptions' = exceptions /\ Live' = Live
           /\ \A k : KeyNotAhead(k)' <=> KeyNotAhead(k)
           /\ \A k, p, c : Late(k, p, c)' <=> Late(k, p, c)
  <1>1. /\ apiPolicies' = apiPolicies /\ apiRv' = apiRv /\ vpolWork' = vpolWork
        /\ policies' = policies /\ exceptions' = exceptions
    BY DEF csVars, apiVars, queueVars, storeVars
  <1> QED
    BY <1>1 DEF KeyNotAhead, Past, CallFor, Live, Late

\* What request r has cached or gathered keeps the others clean: it is new in its
\* step only if it was clean before.
LEMMA CleanStands ==
    ASSUME UNCHANGED csVars, NEW r \in Requests,
           \A t \in Requests \ {r} : SameRequest(t),
           NEW s \in Requests, revoked'[s] \subseteq revoked[s], NEW p, NEW c, Clean(s, p, c),
           \A e \in revoked[s] :
              /\ \A i \in cache' \ cache : Late(i.key, p, c) => i.entry.exceptions[e] = None
              /\ Working(r)' /\ Late(key'[r], p, c) => got'[r][e] = None
    PROVE  Clean(s, p, c)'
  <1> SUFFICES ASSUME NEW e \in revoked'[s]
               PROVE  /\ \A i \in cache' : Late(i.key, p, c)' => i.entry.exceptions[e] = None
                      /\ \A t \in Requests : Working(t)' /\ Late(key[t], p, c)' => got'[t][e] = None
    BY DEF Clean
  <1>1. e \in revoked[s]
    OBVIOUS
  <1>2. \A i \in cache : Late(i.key, p, c) => i.entry.exceptions[e] = None
    BY <1>1 DEF Clean
  <1>3. \A t \in Requests : Working(t) /\ Late(key[t], p, c) => got[t][e] = None
    BY <1>1 DEF Clean
  <1>4. policies' = policies
    BY StoreStands
  <1>5. \A i \in cache' : Late(i.key, p, c)' => i.entry.exceptions[e] = None
    BY <1>1, <1>2, <1>4 DEF Late
  <1>6. ASSUME NEW t \in Requests, Working(t)', Late(key[t], p, c)' PROVE got'[t][e] = None
    <2>1. Late(key'[t], p, c)
      BY <1>4, <1>6 DEF Late
    <2>2. CASE t = r
      BY <1>1, <1>6, <2>1, <2>2
    <2>3. CASE t # r
      <3>1. SameRequest(t)
        BY <2>3
      <3> QED
        BY <1>3, <1>6, <2>1, <3>1 DEF SameRequest, Working
    <2> QED
      BY <2>2, <2>3
  <1> QED
    BY <1>5, <1>6

\* The other requests need no more than before.
LEMMA OthersClean ==
    ASSUME RevokedInv, UNCHANGED csVars, NEW r \in Requests, NEW s \in Requests \ {r},
           SameRequest(s), \A p \in Live : \A c : Clean(s, p, c) => Clean(s, p, c)',
           NEW p \in Live
    PROVE  /\ Overtaken(s, p)' => Clean(s, p, 0)'
           /\ InTime(s, p)' => Clean(s, p, key[s].counter)'
  <1>1. policies' = policies
    BY StoreStands
  <1>2. /\ Overtaken(s, p)' => Overtaken(s, p)
        /\ InTime(s, p)' => InTime(s, p)
    BY <1>1 DEF SameRequest, Overtaken, InTime, Working
  <1>3. /\ Overtaken(s, p) => Clean(s, p, 0)
        /\ InTime(s, p) => Clean(s, p, key[s].counter)
    BY DEF RevokedInv, RequestsClean
  <1>4. PICK c : c = key[s].counter
    OBVIOUS
  <1>5. (Clean(s, p, c) => Clean(s, p, c)') /\ (Clean(s, p, 0) => Clean(s, p, 0)')
    OBVIOUS
  <1>6. Clean(s, p, c)' => Clean(s, p, key[s].counter)'
    BY <1>4 DEF SameRequest, Clean, Late
  <1> QED
    BY <1>2, <1>3, <1>4, <1>5, <1>6

\* A key computed now is clean: what has been cached or gathered under it has
\* the exceptions of the store, and what is revoked is not among them.
LEMMA CurrentIsClean ==
    ASSUME RevokedInv, NEW r \in Requests, NEW p \in Live
    PROVE  Clean(r, p, policies[p].exceptionEventCounter)
  <1> DEFINE c == policies[p].exceptionEventCounter
  <1>0. SourceInv /\ CacheFreshByVersion /\ p \in Policies
    BY DEF RevokedInv, SourceInv, SourceInvariant, Live
  <1>1. policies[p] \in PolicyState /\ c \in Nat
    BY <1>0 DEF SourceInv, StoreInv, TypeOK, Live, PolicyState
  <1>2. ASSUME NEW k \in CacheKey, KeyNotAhead(k), Late(k, p, c) PROVE k = LiveKey(p)
    <2>1. k.name = p /\ k.rv = policies[p].policy.rv /\ k.counter = c
      BY <1>1, <1>2 DEF Late, KeyNotAhead, CacheKey
    <2>2. k = [name |-> k.name, rv |-> k.rv, counter |-> k.counter]
      BY DEF CacheKey
    <2> QED
      BY <2>1, <2>2 DEF LiveKey
  <1>3. ASSUME NEW e \in revoked[r] PROVE e \in Exceptions /\ Applicable(policies[p])[e] = None
    <2>1. e \in Exceptions
      BY <1>0 DEF SourceInv, SourceTypeOK
    <2>2. exceptions[e] = None
      BY DEF RevokedInv, RevokedAbsent
    <2>3. policies[p].exceptions[e] = None
      BY <2>1, <2>2 DEF RevokedInv, LinksInv, LinkedAreStored, LinkedTo
    <2> QED
      BY <2>1, <2>3 DEF Applicable
  <1>4. ASSUME NEW e \in revoked[r], NEW i \in cache, Late(i.key, p, c)
        PROVE  i.entry.exceptions[e] = None
    <2>1. i.key = LiveKey(p)
      BY <1>2, <1>4, KeysSound
    <2>2. i.entry.exceptions = Applicable(policies[p])
      BY <1>0, <2>1 DEF CacheFreshByVersion, Matches
    <2> QED
      BY <1>3, <2>2
  <1>5. ASSUME NEW e \in revoked[r], NEW s \in Requests, Working(s), Late(key[s], p, c)
        PROVE  got[s][e] = None
    <2>1. key[s] = LiveKey(p) /\ cur[s] = p
      BY <1>2, <1>5, KeysSound DEF Late
    <2>2. WorkOK(s) /\ RangeOK(s)
      BY <1>0 DEF SourceInv, SourceInvariant, RequestsSound
    <2>3. CASE pc[s] = "range"
      BY <1>3, <2>1, <2>2, <2>3 DEF RangeOK
    <2>4. CASE pc[s] # "range"
      BY <1>3, <2>2, <2>4 DEF WorkOK, NoLinks
    <2> QED
      BY <2>3, <2>4
  <1> QED
    BY <1>4, <1>5 DEF Clean

\* The end of the work on a policy, with an item that is clean or with none.
LEMMA FinishRevoked ==
    ASSUME RevokedInv, UNCHANGED <<csVars, revoked>>, NEW r \in Requests, NEW item,
           Working(r), Finish(r, item),
           item # None => KeyNotAhead(item.key),
           \A p \in Live, e \in revoked[r] :
              p = cur[r] /\ item # None /\ item.key.rv = policies[p].policy.rv
                 => item.entry.exceptions[e] = None,
           \A s \in Requests, p \in Live : \A c : \A e \in revoked[s], i \in cache' \ cache :
              Clean(s, p, c) /\ Late(i.key, p, c) => i.entry.exceptions[e] = None
    PROVE  RequestsClean' /\ RevokedAbsent' /\ ServedSound' /\ RevokedNotServedInStore'
  <1>0. SourceTypeOK /\ cur[r] \in Policies /\ policies' = policies /\ Live' = Live
        /\ exceptions' = exceptions
    BY KeysSound, StoreStands DEF RevokedInv, SourceInv
  <1>1. /\ \A s \in Requests \ {r} : SameRequest(s)
        /\ \A p \in Policies : held'[r][p] # None => held'[r][p] = held[r][p]
        /\ ~ Working(r)' /\ pc'[r] # "idle"
    BY <1>0 DEF Finish, SameRequest, SourceTypeOK, Working
  <1>2. \A s \in Requests, p \in Policies :
           served'[s][p] = IF s = r /\ p = cur[r] THEN item ELSE served[s][p]
    BY <1>0, Serves
  <1>3. ASSUME NEW s \in Requests, NEW p \in Live, NEW c, Clean(s, p, c) PROVE Clean(s, p, c)'
    BY <1>1, <1>3, CleanStands
  <1>4. RequestsClean'
    <2> SUFFICES ASSUME NEW s \in Requests, NEW p \in Live
                 PROVE  /\ Overtaken(s, p)' => Clean(s, p, 0)'
                        /\ InTime(s, p)' => Clean(s, p, key[s].counter)'
      BY <1>0 DEF RequestsClean
    <2>1. CASE s # r
      BY <1>1, <1>3, <2>1, OthersClean
    <2>2. CASE s = r
      <3>1. ~ InTime(r, p)'
        BY <1>1 DEF InTime
      <3>2. Overtaken(r, p)' => held[r][p] \in PolicyState
        BY <1>1, NoneAssumption DEF Overtaken, Live
      <3>3. Overtaken(r, p)' => Clean(r, p, 0)
        BY <3>2 DEF RevokedInv, RequestsClean, Overtaken
      <3> QED
        BY <1>3, <2>2, <3>1, <3>3
    <2> QED
      BY <2>1, <2>2
  <1>5. RevokedAbsent'
    BY <1>0 DEF RevokedInv, RevokedAbsent
  <1>6. ServedSound'
    <2> SUFFICES ASSUME NEW s \in Requests, NEW p \in Policies, NEW k,
                        served'[s][p] # None, k = served'[s][p].key
                 PROVE  pc'[s] # "idle" /\ KeyNotAhead(k)'
      BY DEF ServedSound, KeyNotAhead, Past, CallFor, Live
    <2>1. pc'[s] # "idle" /\ KeyNotAhead(k)
      <3>1. CASE s = r /\ p = cur[r]
        BY <1>1, <1>2, <3>1
      <3>2. CASE ~ (s = r /\ p = cur[r])
        <4>1. served'[s][p] = served[s][p]
          BY <1>2, <3>2
        <4>2. pc[s] # "idle" /\ KeyNotAhead(k)
          BY <4>1 DEF RevokedInv, ServedSound
        <4> QED
          BY <1>1, <4>2 DEF SameRequest
      <3> QED
        BY <3>1, <3>2
    <2> QED
      BY <2>1, StoreStands
  <1>7. RevokedNotServedInStore'
    <2> SUFFICES ASSUME NEW s \in Requests, NEW p \in Live, NEW e \in revoked[s],
                        served'[s][p] # None, served'[s][p].key.rv = policies[p].policy.rv
                 PROVE  served'[s][p].entry.exceptions[e] = None
      BY <1>0 DEF RevokedNotServedInStore
    <2>1. p \in Policies
      BY DEF Live
    <2>2. CASE s = r /\ p = cur[r]
      <3>1. served'[s][p] = item
        BY <1>2, <2>1, <2>2
      <3> QED
        BY <2>2, <3>1
    <2>3. CASE ~ (s = r /\ p = cur[r])
      <3>1. served'[s][p] = served[s][p]
        BY <1>2, <2>1, <2>3
      <3> QED
        BY <3>1 DEF RevokedInv, RevokedNotServedInStore
    <2> QED
      BY <2>2, <2>3
  <1> QED
    BY <1>4, <1>5, <1>6, <1>7

\* What a step has to keep.
RevokedKept == RequestsClean' /\ RevokedAbsent' /\ ServedSound' /\ RevokedNotServedInStore'

\* A hit under an old key of the same text is as clean as the key that was asked for.
LEMMA HitRevoked ==
    ASSUME RevokedInv, NEW r \in Requests, CacheHit(r)
    PROVE  RevokedKept
  <1>1. PICK i \in Cached(key[r]) : Finish(r, i)
    BY DEF CacheHit
  <1>2. /\ i \in cache /\ KeyString(i.key) = KeyString(key[r]) /\ cache' = cache
        /\ Working(r) /\ UNCHANGED <<csVars, revoked>>
    BY DEF Cached, CacheHit, Working
  <1>3. /\ i.key \in CacheKey /\ KeyNotAhead(i.key)
        /\ key[r] \in CacheKey /\ key[r].name = cur[r]
    BY <1>2, KeysSound
  <1>4. ASSUME NEW p \in Live, NEW e \in revoked[r], p = cur[r], i.key.rv = policies[p].policy.rv
        PROVE  i.entry.exceptions[e] = None
    <2>1. p \in Policies /\ i.key.name \in Policies /\ i.key.rv \in Nat /\ i.key.counter \in Nat
      BY <1>3 DEF Live, CacheKey
    <2>2. Known(p, i.key.rv) /\ Known(i.key.name, i.key.rv)
      BY <1>2, <1>4 DEF Known, StoreKnows, SourceKnows
    <2>3. i.key.name = p
      BY <2>1, <2>2 DEF RevokedInv, VersionsApart
    <2>4. CASE key[r].rv = policies[p].policy.rv
      <3>1. i.key.counter = key[r].counter
        BY <1>2, <1>3, <1>4, <2>3, <2>4, TextTellsCounters
      <3>2. Clean(r, p, key[r].counter)
        BY <1>2, <1>4, <2>4 DEF RevokedInv, RequestsClean, InTime
      <3>3. Late(i.key, p, key[r].counter)
        BY <1>4, <2>1, <2>3, <3>1 DEF Late
      <3> QED
        BY <1>2, <3>2, <3>3 DEF Clean
    <2>5. CASE key[r].rv # policies[p].policy.rv
      <3>1. Clean(r, p, 0)
        BY <1>2, <1>4, <2>5 DEF RevokedInv, RequestsClean, Overtaken
      <3>2. Late(i.key, p, 0)
        BY <1>4, <2>1, <2>3 DEF Late
      <3> QED
        BY <1>2, <3>1, <3>2 DEF Clean
    <2> QED
      BY <2>4, <2>5
  <1> QED
    BY <1>1, <1>2, <1>3, <1>4, FinishRevoked DEF RevokedKept

\* What is built has what was gathered, and that is clean.
LEMMA BuildRevoked ==
    ASSUME RevokedInv, NEW r \in Requests, CompilePolicy(r)
    PROVE  RevokedKept
  <1>1. PICK policy \in Readable(r) :
           /\ cache' = (cache \ Cached(key[r])) \cup {Built(r, policy)}
           /\ Finish(r, Built(r, policy))
    BY DEF CompilePolicy
  <1> DEFINE item == Built(r, policy)
  <1>2. item.key = key[r] /\ item.entry.exceptions = got[r]
    BY DEF Built
  <1>3. Working(r) /\ UNCHANGED <<csVars, revoked>> /\ cache' \ cache \subseteq {item}
    BY <1>1 DEF CompilePolicy, RangeOver, Working
  <1>4. key[r] \in CacheKey /\ key[r].name = cur[r] /\ KeyNotAhead(key[r]) /\ cur[r] \in Policies
    BY <1>3, KeysSound
  <1> HIDE DEF item
  <1>5. ASSUME NEW p \in Live, NEW e \in revoked[r], p = cur[r], item.key.rv = policies[p].policy.rv
        PROVE  item.entry.exceptions[e] = None
    <2>1. Clean(r, p, key[r].counter)
      BY <1>2, <1>3, <1>5 DEF RevokedInv, RequestsClean, InTime
    <2>2. Late(key[r], p, key[r].counter)
      BY <1>2, <1>4, <1>5 DEF Late, CacheKey
    <2> QED
      BY <1>2, <1>3, <2>1, <2>2 DEF Clean
  <1>6. ASSUME NEW s \in Requests, NEW p \in Live, NEW c, NEW e \in revoked[s],
               NEW i \in cache' \ cache, Clean(s, p, c), Late(i.key, p, c)
        PROVE  i.entry.exceptions[e] = None
    <2>1. i = item
      BY <1>3
    <2> QED
      BY <1>2, <1>3, <1>6, <2>1 DEF Clean
  <1> QED
    BY <1>1, <1>2, <1>3, <1>4, <1>5, <1>6, FinishRevoked DEF RevokedKept, item

LEMMA ErrorRevoked ==
    ASSUME RevokedInv, NEW r \in Requests, BuildFails(r) \/ CompileFails(r)
    PROVE  RevokedKept
  <1>1. Working(r) /\ UNCHANGED <<csVars, revoked>> /\ cache' = cache /\ Finish(r, None)
    BY DEF BuildFails, CompileFails, RangeOver, Working
  <1> QED
    BY <1>1, FinishRevoked DEF RevokedKept

\* A step of request r that serves nothing and puts nothing into the cache.
LEMMA QuietRevoked ==
    ASSUME RevokedInv, UNCHANGED csVars, cache' = cache, NEW r \in Requests,
           \A s \in Requests \ {r} : SameRequest(s) /\ revoked'[s] = revoked[s],
           revoked'[r] \subseteq {e \in Exceptions : exceptions[e] = None},
           \A s \in Requests, p \in Policies :
              served'[s][p] # None => served'[s][p] = served[s][p] /\ pc'[s] # "idle"
                                      /\ revoked'[s] \subseteq revoked[s],
           \A s \in Requests, p \in Live : \A c : \A e \in revoked[s] :
              Clean(s, p, c) /\ Working(r)' /\ Late(key'[r], p, c) => got'[r][e] = None,
           \A p \in Live : Overtaken(r, p)' =>
              revoked'[r] \subseteq revoked[r] /\ Clean(r, p, 0),
           \A p \in Live : InTime(r, p)' =>
              revoked'[r] \subseteq revoked[r] /\ Clean(r, p, key'[r].counter)
    PROVE  RevokedKept
  <1>0. policies' = policies /\ Live' = Live /\ exceptions' = exceptions
    BY StoreStands
  <1>1. ASSUME NEW s \in Requests, revoked'[s] \subseteq revoked[s], NEW p \in Live, NEW c,
               Clean(s, p, c)
        PROVE  Clean(s, p, c)'
    BY <1>1, CleanStands
  <1>2. RequestsClean'
    <2> SUFFICES ASSUME NEW s \in Requests, NEW p \in Live
                 PROVE  /\ Overtaken(s, p)' => Clean(s, p, 0)'
                        /\ InTime(s, p)' => Clean(s, p, key[s].counter)'
      BY <1>0 DEF RequestsClean
    <2>1. CASE s # r
      BY <1>1, <2>1, OthersClean
    <2>2. CASE s = r
      <3>1. Overtaken(r, p)' => Clean(r, p, 0)'
        BY <1>1
      <3>2. PICK c : c = key'[r].counter
        OBVIOUS
      <3>3. InTime(r, p)' => Clean(r, p, c)'
        BY <1>1, <3>2
      <3>4. Clean(r, p, c)' => Clean(r, p, key[r].counter)'
        BY <3>2 DEF Clean, Late
      <3> QED
        BY <2>2, <3>1, <3>3, <3>4
    <2> QED
      BY <2>1, <2>2
  <1>3. RevokedAbsent'
    BY <1>0 DEF RevokedInv, RevokedAbsent
  <1>4. ServedSound'
    <2> SUFFICES ASSUME NEW s \in Requests, NEW p \in Policies, NEW k,
                        served'[s][p] # None, k = served'[s][p].key
                 PROVE  pc'[s] # "idle" /\ KeyNotAhead(k)'
      BY DEF ServedSound, KeyNotAhead, Past, CallFor, Live
    <2>1. pc'[s] # "idle" /\ KeyNotAhead(k)
      BY DEF RevokedInv, ServedSound
    <2> QED
      BY <2>1, StoreStands
  <1>5. RevokedNotServedInStore'
    <2> SUFFICES ASSUME NEW s \in Requests, NEW p \in Live, NEW e \in revoked'[s],
                        served'[s][p] # None, served'[s][p].key.rv = policies[p].policy.rv
                 PROVE  served'[s][p].entry.exceptions[e] = None
      BY <1>0 DEF RevokedNotServedInStore
    <2>1. served'[s][p] = served[s][p] /\ e \in revoked[s]
      BY DEF Live
    <2> QED
      BY <2>1 DEF RevokedInv, RevokedNotServedInStore
  <1> QED
    BY <1>2, <1>3, <1>4, <1>5 DEF RevokedKept

LEMMA LoadRevoked ==
    ASSUME RevokedInv, NEW r \in Requests, Load(r)
    PROVE  RevokedKept
  <1>0. SourceTypeOK /\ UNCHANGED <<csVars, cache, served>> /\ pc[r] = "idle"
    BY DEF RevokedInv, SourceInv, Load
  <1>1. /\ \A s \in Requests \ {r} : SameRequest(s) /\ revoked'[s] = revoked[s]
        /\ revoked'[r] = {e \in Exceptions : exceptions[e] = None}
        /\ pc'[r] = "next"
    BY <1>0, LoadOK DEF RevokedInv, SourceInv, SourceTypeOK, Load
  <1>2. \A p \in Policies : served[r][p] = None
    BY <1>0 DEF RevokedInv, ServedSound
  <1>3. \A s \in Requests, p \in Policies :
           served'[s][p] # None => served'[s][p] = served[s][p] /\ pc'[s] # "idle"
                                   /\ revoked'[s] \subseteq revoked[s]
    BY <1>0, <1>1, <1>2 DEF RevokedInv, ServedSound, SameRequest
  <1>4. ~ Working(r)'
    BY <1>1 DEF Working
  <1>5. \A p \in Live : held'[r][p] = InStore
    BY <1>0 DEF Load, SourceTypeOK, Live
  <1>6. \A p \in Live : ~ Overtaken(r, p)' /\ ~ InTime(r, p)'
    BY <1>4, <1>5, InStoreAssumption DEF Overtaken, InTime
  <1> QED
    BY <1>0, <1>1, <1>3, <1>4, <1>6, QuietRevoked

LEMMA ReturnRevoked ==
    ASSUME RevokedInv, NEW r \in Requests, Return(r)
    PROVE  RevokedKept
  <1>0. SourceTypeOK /\ UNCHANGED <<csVars, cache, held>> /\ Pending(r) = {}
    BY DEF RevokedInv, SourceInv, Return
  <1>1. /\ \A s \in Requests \ {r} :
              SameRequest(s) /\ revoked'[s] = revoked[s] /\ served'[s] = served[s]
        /\ revoked'[r] = {} /\ served'[r] = NothingHeld
        /\ pc'[r] = "idle"
    BY <1>0, ReturnOK DEF RevokedInv, SourceInv, SourceTypeOK, Return
  <1>3. \A s \in Requests, p \in Policies :
           served'[s][p] # None => served'[s][p] = served[s][p] /\ pc'[s] # "idle"
                                   /\ revoked'[s] \subseteq revoked[s]
    <2> SUFFICES ASSUME NEW s \in Requests, NEW p \in Policies, served'[s][p] # None
                 PROVE  served'[s][p] = served[s][p] /\ pc'[s] # "idle"
                        /\ revoked'[s] \subseteq revoked[s]
      OBVIOUS
    <2>1. s # r
      BY <1>1 DEF NothingHeld
    <2> QED
      BY <1>1, <2>1 DEF RevokedInv, ServedSound, SameRequest
  <1>4. ~ Working(r)'
    BY <1>1 DEF Working
  <1>5. \A p \in Live : held'[r][p] = None
    BY <1>0 DEF Pending, Live
  <1>6. \A p \in Live : ~ Overtaken(r, p)' /\ ~ InTime(r, p)'
    BY <1>4, <1>5, NoneAssumption DEF Overtaken, InTime
  <1> QED
    BY <1>0, <1>1, <1>3, <1>4, <1>6, QuietRevoked

\* A step in which request r goes on with the same answer and history.
LEMMA GoesOn ==
    ASSUME RevokedInv, UNCHANGED <<csVars, cache, served, revoked>>, NEW r \in Requests,
           \A s \in Requests \ {r} : SameRequest(s), pc'[r] # "idle",
           \A s \in Requests, p \in Live : \A c : \A e \in revoked[s] :
              Clean(s, p, c) /\ Working(r)' /\ Late(key'[r], p, c) => got'[r][e] = None,
           \A p \in Live : Overtaken(r, p)' => Clean(r, p, 0),
           \A p \in Live : InTime(r, p)' => Clean(r, p, key'[r].counter)
    PROVE  RevokedKept
  <1>1. revoked'[r] \subseteq {e \in Exceptions : exceptions[e] = None}
    BY DEF RevokedInv, RevokedAbsent, SourceInv, SourceTypeOK
  <1>2. \A s \in Requests, p \in Policies :
           served'[s][p] # None => served'[s][p] = served[s][p] /\ pc'[s] # "idle"
                                   /\ revoked'[s] \subseteq revoked[s]
    BY DEF RevokedInv, ServedSound, SameRequest
  <1> QED
    BY <1>1, <1>2, QuietRevoked

\* Request r stays at the same policy with the same key.
LEMMA StaysAtPolicy ==
    ASSUME RevokedInv, UNCHANGED <<csVars, held, cur, key>>, NEW r \in Requests,
           Working(r), Working(r)', NEW p \in Live
    PROVE  /\ Overtaken(r, p)' => Clean(r, p, 0)
           /\ InTime(r, p)' => Clean(r, p, key'[r].counter)
  <1>1. policies' = policies
    BY StoreStands
  <1>2. (Overtaken(r, p)' => Overtaken(r, p)) /\ (InTime(r, p)' => InTime(r, p))
    BY <1>1 DEF Overtaken, InTime
  <1> QED
    BY <1>2 DEF RevokedInv, RequestsClean

LEMMA LookupRevoked ==
    ASSUME RevokedInv, NEW r \in Requests, CacheMiss(r) \/ FindPolicyState(r)
    PROVE  RevokedKept
  <1>0. /\ SourceTypeOK /\ UNCHANGED <<csVars, cache, held, cur, key, got, served, revoked>>
    BY DEF RevokedInv, SourceInv, CacheMiss, FindPolicyState
  <1>1. Working(r) /\ Working(r)' /\ pc'[r] # "idle"
    BY <1>0 DEF CacheMiss, FindPolicyState, Working, SourceTypeOK
  <1>2. \A s \in Requests \ {r} : SameRequest(s)
    BY CacheMissOK, FindPolicyStateOK DEF RevokedInv
  <1>3. \A s \in Requests, p \in Live : \A c : \A e \in revoked[s] :
           Clean(s, p, c) /\ Working(r)' /\ Late(key'[r], p, c) => got'[r][e] = None
    BY <1>0, <1>1 DEF Clean
  <1> QED
    BY <1>0, <1>1, <1>2, <1>3, GoesOn, StaysAtPolicy

\* A range under a key of the stored version reads the stored policy, which has
\* no revoked exception.
LEMMA VisitRevoked ==
    ASSUME RevokedInv, NEW r \in Requests, NEW e \in Exceptions, VisitException(r, e)
    PROVE  RevokedKept
  <1>0. /\ SourceTypeOK /\ pc[r] = "range"
        /\ UNCHANGED <<csVars, cache, pc, held, cur, key, src, served, revoked>>
    BY DEF RevokedInv, SourceInv, VisitException
  <1>1. Working(r) /\ Working(r)' /\ pc'[r] # "idle"
    BY <1>0 DEF Working
  <1>2. \A s \in Requests \ {r} : SameRequest(s)
    BY VisitExceptionOK DEF RevokedInv
  <1>3. \A d \in Exceptions : d # e => got'[r][d] = got[r][d]
    BY <1>0 DEF VisitException, SourceTypeOK
  <1>4. key[r].name = cur[r] /\ RangeOK(r)
    BY <1>1, KeysSound DEF RevokedInv, SourceInv, SourceInvariant, RequestsSound
  <1>5. ASSUME NEW s \in Requests, NEW p \in Live, NEW c, e \in revoked[s], Late(key[r], p, c)
        PROVE  FALSE
    <2>1. cur[r] = p /\ key[r].rv = policies[p].policy.rv
      BY <1>4, <1>5 DEF Late
    <2>2. policies[p].policy.rv \in Nat
      BY DEF RevokedInv, SourceInv, StoreInv, TypeOK, Live, PolicyState, PolicyObject
    <2>3. src[r] = InStore
      BY <1>0, <1>4, <2>1, <2>2 DEF RangeOK, Outdated
    <2>4. policies[p].exceptions[e] # None
      BY <2>1, <2>3 DEF VisitException, Ranged
    <2>5. exceptions[e] # None
      BY <2>4 DEF RevokedInv, LinksInv, LinkedAreStored, LinkedTo
    <2> QED
      BY <1>5, <2>5 DEF RevokedInv, RevokedAbsent
  <1>6. ASSUME NEW s \in Requests, NEW p \in Live, NEW c, NEW d \in revoked[s],
               Clean(s, p, c), Late(key'[r], p, c)
        PROVE  got'[r][d] = None
    <2>1. d \in Exceptions
      BY <1>0 DEF SourceTypeOK
    <2>2. Late(key[r], p, c)
      BY <1>0, <1>6
    <2>3. d # e
      BY <1>5, <2>2
    <2>4. got[r][d] = None
      BY <1>1, <1>6, <2>2 DEF Clean
    <2> QED
      BY <1>3, <2>1, <2>3, <2>4
  <1> QED
    BY <1>0, <1>1, <1>2, <1>6, GoesOn, StaysAtPolicy

\* A key of the stored version is computed through a pointer into the store, so
\* its counter is the one the store has now.
LEMMA ComputeKeyRevoked ==
    ASSUME RevokedInv, NEW r \in Requests, ComputeKey(r)
    PROVE  RevokedKept
  <1>0. /\ SourceInv /\ SourceTypeOK /\ TypeOK /\ pc[r] = "next"
        /\ UNCHANGED <<csVars, cache, got, served, revoked>>
    BY DEF RevokedInv, SourceInv, StoreInv, ComputeKey
  <1>1. PointersOK(r) /\ got[r] = NoLinks /\ ~ Working(r)
    BY <1>0 DEF SourceInv, SourceInvariant, RequestsSound, WorkOK, Working
  <1>2. \A s \in Requests \ {r} : SameRequest(s)
    BY <1>0, ComputeKeyOK
  <1>3. PICK q \in Policies :
           /\ IsNext(r, q)
           /\ IF q \in Live
              THEN /\ pc' = [pc EXCEPT ![r] = "lookup"]
                   /\ cur' = [cur EXCEPT ![r] = q]
                   /\ key' = [key EXCEPT ![r] = KeyFor(r, q)]
                   /\ UNCHANGED held
              ELSE /\ held' = [held EXCEPT ![r][q] = None]
                   /\ UNCHANGED <<pc, cur, key>>
    BY DEF ComputeKey
  <1>4. \A s \in Requests : \A e \in revoked[s] : got'[r][e] = None
    BY <1>0, <1>1 DEF SourceTypeOK, NoLinks
  <1>5. policies' = policies
    BY <1>0, StoreStands
  <1>6. \A p \in Live : held[r][p] \in PolicyState => Clean(r, p, 0)
    BY DEF RevokedInv, RequestsClean, Overtaken
  <1>7. CASE q \in Live
    <2>1. /\ pc'[r] = "lookup" /\ cur'[r] = q /\ key'[r] = KeyFor(r, q) /\ held' = held
      BY <1>0, <1>3, <1>7 DEF SourceTypeOK
    <2>2. /\ key'[r].rv = Pointee(r, q).policy.rv
          /\ key'[r].counter = policies[q].exceptionEventCounter
      BY <2>1 DEF KeyFor
    <2>3. held[r][q] \in PolicyState \cup {InStore}
      BY <1>0, <1>3 DEF IsNext, Pending, SourceTypeOK
    <2>4. \A p \in Live : Overtaken(r, p)' => Clean(r, p, 0)
      BY <1>5, <1>6, <2>1, <2>2, <2>3 DEF Overtaken, Pointee
    <2>5. \A p \in Live : InTime(r, p)' => Clean(r, p, key'[r].counter)
      <3> SUFFICES ASSUME InTime(r, q)' PROVE Clean(r, q, key'[r].counter)
        BY <2>1 DEF InTime
      <3>1. policies[q].policy.rv \in Nat
        BY <1>0, <1>7 DEF TypeOK, Live, PolicyState, PolicyObject
      <3>2. Pointee(r, q).policy.rv = policies[q].policy.rv
        BY <1>5, <2>2 DEF InTime
      <3>3. held[r][q] = InStore
        BY <1>1, <1>7, <2>3, <3>1, <3>2 DEF PointersOK, Outdated, Pointee
      <3> QED
        BY <1>7, <2>2, CurrentIsClean
    <2> QED
      BY <1>0, <1>2, <1>4, <2>1, <2>4, <2>5, GoesOn
  <1>8. CASE q \notin Live
    <2>1. /\ UNCHANGED <<pc, cur, key>>
          /\ \A p \in Policies : held'[r][p] = IF p = q THEN None ELSE held[r][p]
      BY <1>0, <1>3, <1>8 DEF SourceTypeOK
    <2>2. ~ Working(r)'
      BY <1>1, <2>1 DEF Working
    <2>3. \A p \in Live : Overtaken(r, p)' => Clean(r, p, 0)
      BY <1>6, <1>8, <2>1, <2>2 DEF Overtaken, Live
    <2> QED
      BY <1>0, <1>2, <1>4, <2>1, <2>2, <2>3, GoesOn DEF InTime
  <1> QED
    BY <1>7, <1>8

LEMMA EvictRevoked ==
    ASSUME RevokedInv, Evict \/ UNCHANGED vars
    PROVE  RevokedKept
  <1>1. UNCHANGED <<csVars, reqVars>> /\ cache' \subseteq cache
    BY DEF Evict, vars, ksVars
  <1>2. /\ policies' = policies /\ exceptions' = exceptions /\ Live' = Live
        /\ \A k : KeyNotAhead(k)' <=> KeyNotAhead(k)
    BY <1>1, StoreStands
  <1>3. RequestsClean'
    <2> SUFFICES ASSUME NEW r \in Requests, NEW p \in Live
                 PROVE  /\ Overtaken(r, p)' => Clean(r, p, 0)'
                        /\ InTime(r, p)' => Clean(r, p, key[r].counter)'
      BY <1>2 DEF RequestsClean
    <2>1. /\ Overtaken(r, p) => Clean(r, p, 0)
          /\ InTime(r, p) => Clean(r, p, key[r].counter)
      BY DEF RevokedInv, RequestsClean
    <2>2. (Overtaken(r, p)' => Overtaken(r, p)) /\ (InTime(r, p)' => InTime(r, p))
      BY <1>1, <1>2 DEF Overtaken, InTime, Working, reqVars
    <2>3. \A c : Clean(r, p, c) => Clean(r, p, c)'
      BY <1>1, <1>2 DEF Clean, Late, Working, reqVars
    <2>4. PICK c : c = key[r].counter
      OBVIOUS
    <2>5. Clean(r, p, c)' => Clean(r, p, key[r].counter)'
      BY <1>1, <2>4 DEF Clean, Late, reqVars
    <2> QED
      BY <2>1, <2>2, <2>3, <2>4, <2>5
  <1>4. RevokedAbsent'
    BY <1>1, <1>2 DEF RevokedInv, RevokedAbsent, reqVars
  <1>5. ServedSound'
    BY <1>1, <1>2 DEF RevokedInv, ServedSound, reqVars
  <1>6. RevokedNotServedInStore'
    BY <1>1, <1>2 DEF RevokedInv, RevokedNotServedInStore, reqVars
  <1> QED
    BY <1>3, <1>4, <1>5, <1>6 DEF RevokedKept

LEMMA InitRevoked == SourceInit => RevokedInv
  <1> SUFFICES ASSUME SourceInit PROVE RevokedInv
    OBVIOUS
  <1>1. SourceInv /\ LinksInv /\ VersionsApart
    BY InitSource, InitLinks, InitApart DEF SourceInit
  <1>2. \A r \in Requests : /\ revoked[r] = {} /\ held[r] = NothingHeld
                            /\ pc[r] = "idle" /\ served[r] = NothingHeld
    BY DEF SourceInit
  <1>3. RequestsClean /\ RevokedAbsent
    BY <1>2 DEF RequestsClean, Clean, RevokedAbsent
  <1> QED
    BY <1>1, <1>2, <1>3 DEF RevokedInv, ServedSound, RevokedNotServedInStore, NothingHeld

LEMMA RevokedStep == RevokedInv /\ [SourceNext]_vars => RevokedInv'
  <1> SUFFICES ASSUME RevokedInv, [SourceNext]_vars PROVE RevokedInv'
    OBVIOUS
  <1>1. SourceInv' /\ VersionsApart'
    BY SourceInvStep, ApartStep DEF RevokedInv
  <1>2. LinksInv'
    BY SourceStep, StepLinks DEF RevokedInv, SourceInv, StoreInv
  <1>3. RevokedKept
    <2>1. CASE \/ (ApiNext \/ QueueNext) /\ UNCHANGED ksVars
               \/ SourceHandlePolicy \/ SourceHandlePolex
      BY <1>1, <2>1, StoreKeepsRevoked DEF RevokedKept
    <2>2. CASE SourceRestart
      <3>1. \A r \in Requests : /\ revoked'[r] = {} /\ held'[r] = NothingHeld
                                /\ pc'[r] = "idle" /\ served'[r] = NothingHeld
        BY <2>2 DEF SourceRestart
      <3>2. RequestsClean' /\ RevokedAbsent'
        BY <3>1 DEF RequestsClean, Clean, RevokedAbsent
      <3> QED
        BY <3>1, <3>2 DEF RevokedKept, ServedSound, RevokedNotServedInStore, NothingHeld
    <2>3. ASSUME NEW r \in Requests, RequestNext(r) PROVE RevokedKept
      BY <2>3, LoadRevoked, ComputeKeyRevoked, HitRevoked, LookupRevoked, ErrorRevoked,
         VisitRevoked, BuildRevoked, ReturnRevoked
         DEF RequestNext
    <2>4. CASE Evict \/ UNCHANGED vars
      BY <2>4, EvictRevoked
    <2> QED
      BY <2>1, <2>2, <2>3, <2>4 DEF SourceNext
  <1> QED
    BY <1>1, <1>2, <1>3 DEF RevokedInv, RevokedKept

\* An exception that was gone when a request loaded its policies, and has not come
\* back, exempts nothing in the answer, as long as the version of the policy that
\* is served is the one in the store: what the comment on the event counter
\* promises (composite_source.go:103-104), whatever overlapped with the request
\* and under whatever key the entry was cached.
THEOREM RevokedAreNotServed == SourceSpec => []RevokedNotServedInStore
  <1>1. RevokedInv => RevokedNotServedInStore
    BY DEF RevokedInv
  <1> QED
    BY <1>1, InitRevoked, RevokedStep, PTL DEF SourceSpec

=============================================================================
