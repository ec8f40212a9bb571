---------------------------- MODULE CompositeStore ----------------------------
(***************************************************************************)
(* The composite store of pkg/engine/sources/composite_source.go: the      *)
(* ValidatingPolicies and the PolicyExceptions of the cluster, linked to   *)
(* each other, fed by two controllers that reconcile independently.        *)
(*                                                                         *)
(* Every method of the store holds its mutex from its first to its last    *)
(* line, so a call is one action.  A controller is level triggered: it     *)
(* takes a key off its work queue, reads the object the key names and      *)
(* calls the store with what it read, so the API server may already have   *)
(* moved on when the store handles the call.                               *)
(***************************************************************************)
EXTENDS Integers

CONSTANTS
    Policies,     \* names of ValidatingPolicies (cluster scoped)
    Exceptions,   \* namespace/name keys of PolicyExceptions
    Modes,        \* evaluation modes
    PolicyModes,  \* the modes of the policies the informer selects
    None,         \* an absent object
    RvSteps,      \* by how much one API write may advance the resource version
    MaxRv,        \* bound: the API server stops writing at this version
    MaxCounter,   \* bound: exceptions are resynced while counters are below it
    MaxRestarts   \* bound: how often the process may die and come back

PolicyObject == [rv : Nat, mode : Modes]
ExceptionObject == [rv : Nat, mode : Modes, refs : SUBSET Policies]

\* type policyState: the policy, its exceptions, and the count of their events.
PolicyState ==
    [policy     : PolicyObject,
     exceptions : [Exceptions -> ExceptionObject \cup {None}],
     exceptionEventCounter : Nat]

\* The calls the controllers make to handlePolicy and handlePolex.
PolicyCall == [key : Policies, obj : PolicyObject \cup {None}]
ExceptionCall == [key : Exceptions, obj : ExceptionObject \cup {None}]

\* The absent object is none of the others.
ASSUME NoneAssumption ==
    /\ None \notin PolicyObject
    /\ None \notin ExceptionObject
    /\ None \notin PolicyState
    /\ None \notin PolicyCall
    /\ None \notin ExceptionCall

ASSUME ModesAssumption == PolicyModes \subseteq Modes

\* Every write of the API server advances its resource version.
ASSUME RvAssumption == RvSteps \subseteq Nat \ {0}

VARIABLES
    apiRv,           \* resource version of the latest API write
    apiPolicies,     \* the policies the API server holds
    apiExceptions,   \* the exceptions the API server holds
    vpolQueue,       \* keys the policy controller has to reconcile
    polexQueue,      \* keys the exception controller has to reconcile
    vpolWork,        \* the call to handlePolicy about to be made, or None
    polexWork,       \* the call to handlePolex about to be made, or None
    policies,        \* compositeStore.policies
    exceptions,      \* compositeStore.exceptions
    references,      \* exceptionState.references of each stored exception
    restarts         \* how often the process has restarted

apiVars   == <<apiRv, apiPolicies, apiExceptions>>
queueVars == <<vpolQueue, polexQueue, vpolWork, polexWork>>
storeVars == <<policies, exceptions, references>>
csVars    == <<apiVars, queueVars, storeVars, restarts>>

Live == {p \in Policies : policies[p] # None}
LinkedTo(p) == {e \in Exceptions : policies[p].exceptions[e] # None}
NoLinks == [e \in Exceptions |-> None]

TypeOK ==
    /\ apiRv \in Nat
    /\ apiPolicies \in [Policies -> PolicyObject \cup {None}]
    /\ apiExceptions \in [Exceptions -> ExceptionObject \cup {None}]
    /\ vpolQueue \in SUBSET Policies
    /\ polexQueue \in SUBSET Exceptions
    /\ vpolWork \in PolicyCall \cup {None}
    /\ polexWork \in ExceptionCall \cup {None}
    /\ policies \in [Policies -> PolicyState \cup {None}]
    /\ exceptions \in [Exceptions -> ExceptionObject \cup {None}]
    /\ references \in [Exceptions -> SUBSET Policies]
    /\ restarts \in Nat

NewStore ==
    /\ policies' = [p \in Policies |-> None]
    /\ exceptions' = [e \in Exceptions |-> None]
    /\ references' = [e \in Exceptions |-> {}]

Init ==
    /\ apiRv = 0
    /\ apiPolicies = [p \in Policies |-> None]
    /\ apiExceptions = [e \in Exceptions |-> None]
    /\ vpolQueue = {} /\ polexQueue = {}
    /\ vpolWork = None /\ polexWork = None
    /\ policies = [p \in Policies |-> None]
    /\ exceptions = [e \in Exceptions |-> None]
    /\ references = [e \in Exceptions |-> {}]
    /\ restarts = 0

-----------------------------------------------------------------------------
(* The API server.  Its revision is shared by every kind, so two writes of   *)
(* one policy may be more than one version apart.  The informer of a command *)
(* selects policies by evaluation mode: one that changes mode is removed.    *)

Commit(step) ==
    /\ apiRv + step <= MaxRv
    /\ apiRv' = apiRv + step

WritePolicy(p, step, mode) ==
    /\ Commit(step)
    /\ apiPolicies' = [apiPolicies EXCEPT ![p] = [rv |-> apiRv', mode |-> mode]]
    /\ vpolQueue' = vpolQueue \cup {p}
    /\ UNCHANGED <<apiExceptions, polexQueue, vpolWork, polexWork, storeVars, restarts>>

RemovePolicy(p) ==
    /\ apiPolicies[p] # None
    /\ apiPolicies' = [apiPolicies EXCEPT ![p] = None]
    /\ vpolQueue' = vpolQueue \cup {p}
    /\ UNCHANGED <<apiRv, apiExceptions, polexQueue, vpolWork, polexWork, storeVars, restarts>>

WriteException(e, step, mode, refs) ==
    /\ Commit(step)
    /\ apiExceptions' = [apiExceptions EXCEPT
                           ![e] = [rv |-> apiRv', mode |-> mode, refs |-> refs]]
    /\ polexQueue' = polexQueue \cup {e}
    /\ UNCHANGED <<apiPolicies, vpolQueue, vpolWork, polexWork, storeVars, restarts>>

RemoveException(e) ==
    /\ apiExceptions[e] # None
    /\ apiExceptions' = [apiExceptions EXCEPT ![e] = None]
    /\ polexQueue' = polexQueue \cup {e}
    /\ UNCHANGED <<apiRv, apiPolicies, vpolQueue, vpolWork, polexWork, storeVars, restarts>>

-----------------------------------------------------------------------------
(* The controllers: NewApiWithPredicate, one worker each.                    *)

\* The informers list their objects again from time to time.
ResyncPolicy(p) ==
    /\ apiPolicies[p] # None
    /\ p \notin vpolQueue
    /\ vpolQueue' = vpolQueue \cup {p}
    /\ UNCHANGED <<apiVars, polexQueue, vpolWork, polexWork, storeVars, restarts>>

ResyncException(e) ==
    /\ apiExceptions[e] # None
    /\ e \notin polexQueue
    /\ \A p \in Live : policies[p].exceptionEventCounter < MaxCounter
    /\ polexQueue' = polexQueue \cup {e}
    /\ UNCHANGED <<apiVars, vpolQueue, vpolWork, polexWork, storeVars, restarts>>

TakePolicy(p) ==
    /\ vpolWork = None
    /\ p \in vpolQueue
    /\ vpolQueue' = vpolQueue \ {p}
    /\ vpolWork' = [key |-> p, obj |-> apiPolicies[p]]
    /\ UNCHANGED <<apiVars, polexQueue, polexWork, storeVars, restarts>>

TakeException(e) ==
    /\ polexWork = None
    /\ e \in polexQueue
    /\ polexQueue' = polexQueue \ {e}
    /\ polexWork' = [key |-> e, obj |-> apiExceptions[e]]
    /\ UNCHANGED <<apiVars, vpolQueue, vpolWork, storeVars, restarts>>

-----------------------------------------------------------------------------
(* handlePolicy: delete, update in place, create.                            *)

\* Faults: the loop over the exceptions is missing; the policy stays in the map.
NoLongerReferred(p) == references
StillInMap(p) == policies

\* The references and the policies without policy p.
Dereferenced(p) == [e \in Exceptions |-> references[e] \ {p}]
Removed(p) == [policies EXCEPT ![p] = None]

HandlePolicyDelete ==
    /\ vpolWork # None
    /\ vpolWork.obj = None
    /\ policies' = Removed(vpolWork.key)
    /\ references' = Dereferenced(vpolWork.key)
    /\ vpolWork' = None
    /\ UNCHANGED <<apiVars, vpolQueue, polexQueue, polexWork, exceptions, restarts>>

\* Fault: isDelete is ignored, the empty object of a delete is stored.
IsUpdateOrDelete == vpolWork # None /\ policies[vpolWork.key] # None

IsUpdate == vpolWork # None /\ vpolWork.obj # None /\ policies[vpolWork.key] # None

HandlePolicyUpdate ==
    /\ IsUpdate
    /\ policies' = [policies EXCEPT ![vpolWork.key] = [@ EXCEPT !.policy = vpolWork.obj]]
    /\ vpolWork' = None
    /\ UNCHANGED <<apiVars, vpolQueue, polexQueue, polexWork, exceptions, references, restarts>>

\* The stored exceptions that name policy p.
Referring(p) == {e \in Exceptions : exceptions[e] # None /\ p \in exceptions[e].refs}

HandlePolicyCreate ==
    /\ vpolWork # None
    /\ vpolWork.obj # None
    /\ policies[vpolWork.key] = None
    /\ LET p == vpolWork.key
           linked == Referring(p)
       IN  /\ policies' = [policies EXCEPT ![p] =
                 [policy     |-> vpolWork.obj,
                  exceptions |-> [e \in Exceptions |->
                                    IF e \in linked THEN exceptions[e] ELSE None],
                  exceptionEventCounter |-> 0]]
           /\ references' = [e \in Exceptions |->
                 IF e \in linked THEN references[e] \cup {p} ELSE references[e]]
    /\ vpolWork' = None
    /\ UNCHANGED <<apiVars, vpolQueue, polexQueue, polexWork, exceptions, restarts>>

HandlePolicy == HandlePolicyDelete \/ HandlePolicyUpdate \/ HandlePolicyCreate

(* handlePolex: a delete touches every policy, an upsert those it refers to. *)

\* The effect of one exception event on the state of a policy.
WithException(ps, e, exc) ==
    [ps EXCEPT !.exceptions = [@ EXCEPT ![e] = exc],
               !.exceptionEventCounter = @ + 1]

\* Faults of a delete: it bumps no counter; it does not unlink.
UnlinkedNoCount(e) ==
    [p \in Policies |->
       IF p \in Live THEN [policies[p] EXCEPT !.exceptions[e] = None] ELSE None]
NotUnlinked(e) ==
    [p \in Policies |->
       IF p \in Live THEN [policies[p] EXCEPT !.exceptionEventCounter = @ + 1] ELSE None]

\* The policies once exception e is deleted.
Unlinked(e) ==
    [p \in Policies |-> IF p \in Live THEN WithException(policies[p], e, None) ELSE None]

HandlePolexDelete ==
    /\ polexWork # None
    /\ polexWork.obj = None
    /\ exceptions' = [exceptions EXCEPT ![polexWork.key] = None]
    /\ references' = [references EXCEPT ![polexWork.key] = {}]
    /\ policies' = Unlinked(polexWork.key)
    /\ polexWork' = None
    /\ UNCHANGED <<apiVars, vpolQueue, polexQueue, vpolWork, restarts>>

\* The policies once exception e is upserted with object exc.
Linked(e, exc) ==
    [p \in Policies |->
       IF p \in exc.refs \cap Live THEN WithException(policies[p], e, exc) ELSE policies[p]]

\* The exception is stored only if a policy it refers to is in the store.
HandlePolexUpsert ==
    /\ polexWork # None
    /\ polexWork.obj # None
    /\ LET e == polexWork.key
           exc == polexWork.obj
           hit == exc.refs \cap Live
       IN  /\ policies' = Linked(e, exc)
           /\ exceptions' = IF hit = {} THEN exceptions ELSE [exceptions EXCEPT ![e] = exc]
           /\ references' = IF hit = {} THEN references ELSE [references EXCEPT ![e] = hit]
    /\ polexWork' = None
    /\ UNCHANGED <<apiVars, vpolQueue, polexQueue, vpolWork, restarts>>

HandlePolex == HandlePolexDelete \/ HandlePolexUpsert

-----------------------------------------------------------------------------
(* The process dies and is started again: the store is rebuilt from the      *)
(* initial lists of the informers, whose order across kinds is arbitrary.    *)

Restart ==
    /\ restarts < MaxRestarts
    /\ restarts' = restarts + 1
    /\ NewStore
    /\ vpolQueue' = {p \in Policies : apiPolicies[p] # None}
    /\ polexQueue' = {e \in Exceptions : apiExceptions[e] # None}
    /\ vpolWork' = None /\ polexWork' = None
    /\ UNCHANGED apiVars

ApiNext ==
    \/ \E p \in Policies : \/ RemovePolicy(p)
                           \/ \E step \in RvSteps, m \in PolicyModes : WritePolicy(p, step, m)
    \/ \E e \in Exceptions :
          \/ RemoveException(e)
          \/ \E step \in RvSteps, m \in Modes, refs \in SUBSET Policies :
                WriteException(e, step, m, refs)

QueueNext ==
    \/ \E p \in Policies : ResyncPolicy(p) \/ TakePolicy(p)
    \/ \E e \in Exceptions : ResyncException(e) \/ TakeException(e)

Next == ApiNext \/ QueueNext \/ HandlePolicy \/ HandlePolex \/ Restart

Spec == Init /\ [][Next]_csVars

\* A work queue is first in, first out, and a worker never stops: a queued key
\* is taken, a call is made.  Nothing obliges users to write or remove objects.
Fairness ==
    /\ \A p \in Policies : SF_csVars(TakePolicy(p))
    /\ \A e \in Exceptions : SF_csVars(TakeException(e))
    /\ WF_csVars(HandlePolicy)
    /\ WF_csVars(HandlePolex)

FairSpec == Spec /\ Fairness

-----------------------------------------------------------------------------
(* Properties.                                                               *)

\* The two directions of the link agree: the references of a stored exception
\* are exactly the live policies it names, and each of those holds this very
\* exception, not an older one; an exception that is not stored has none.
\* (Create, delete and the two kinds of exception event each maintain one side
\* of it: composite_source.go:65-93, 100-122.)
LinksConsistent ==
    \A e \in Exceptions :
        /\ exceptions[e] = None => references[e] = {}
        /\ exceptions[e] # None =>
              /\ references[e] = exceptions[e].refs \cap Live
              /\ \A p \in references[e] : policies[p].exceptions[e] = exceptions[e]

\* A policy is compiled only with exceptions the store still holds: deleting an
\* exception unlinks it everywhere (composite_source.go:100-109), also from
\* policies that a later version of it no longer named.
LinkedAreStored ==
    \A p \in Live : \A e \in LinkedTo(p) : exceptions[e] # None

\* While a policy stays in the store, whatever changes the outcome of compiling
\* it changes the pair its cache key is made of, and neither part goes back:
\* this is what exceptionEventCounter is for (composite_source.go:19, 103).
Version(ps) == <<ps.policy.rv, ps.exceptionEventCounter>>

VersionStep(old, new) ==
    /\ old.policy.rv <= new.policy.rv
    /\ old.exceptionEventCounter <= new.exceptionEventCounter
    /\ Version(old) = Version(new) => old = new

VersionAdvances ==
    [][\A p \in Policies :
          policies[p] # None /\ policies'[p] # None
              => VersionStep(policies[p], policies'[p])]_csVars

\* Once the API server no longer changes a policy the store ends up with it,
\* whatever the interleaving of calls, resyncs and restarts.
StoredPolicy(p) == IF policies[p] = None THEN None ELSE policies[p].policy

PoliciesConverge == \A p \in Policies : []<>(StoredPolicy(p) = apiPolicies[p])

\* A revoked exception stops being linked to any policy, or is created anew.
RevocationConverges ==
    \A e \in Exceptions :
        apiExceptions[e] = None ~>
            (apiExceptions[e] # None \/ \A p \in Live : e \notin LinkedTo(p))

-----------------------------------------------------------------------------
(* Why VersionAdvances holds: the store, the call in flight and the API      *)
(* server hold ever later versions of a policy.                              *)

\* Object a is an earlier version of object b, or the same.
NotAfter(a, b) == a.rv <= b.rv /\ (a.rv = b.rv => a = b)

CallFor(p) == vpolWork # None /\ vpolWork.key = p

VersionsOrdered ==
    \A p \in Policies :
        /\ apiPolicies[p] # None => apiPolicies[p].rv <= apiRv
        /\ CallFor(p) /\ vpolWork.obj # None =>
              /\ vpolWork.obj.rv <= apiRv
              /\ apiPolicies[p] # None => NotAfter(vpolWork.obj, apiPolicies[p])
        /\ p \in Live =>
              /\ policies[p].policy.rv <= apiRv
              /\ apiPolicies[p] # None => NotAfter(policies[p].policy, apiPolicies[p])
              /\ CallFor(p) /\ vpolWork.obj # None =>
                    NotAfter(policies[p].policy, vpolWork.obj)
              /\ CallFor(p) /\ vpolWork.obj = None /\ apiPolicies[p] # None =>
                    policies[p].policy.rv < apiPolicies[p].rv

-----------------------------------------------------------------------------
(* What the comments promise and the code does not keep: both are checked in *)
(* states where every event has been handled.                                *)

Quiescent ==
    /\ vpolQueue = {} /\ polexQueue = {}
    /\ vpolWork = None /\ polexWork = None

\* Creating a policy links "any exceptions that already reference it"
\* (composite_source.go:79).  An exception reconciled before any policy it names
\* is not stored (lines 114-122), so there is nothing to link it from later.
EarlyExceptionsLinked ==
    Quiescent =>
        \A p \in Live : \A e \in Exceptions :
            apiExceptions[e] # None /\ p \in apiExceptions[e].refs => e \in LinkedTo(p)

\* The exceptions a policy is compiled with "are guaranteed to be matching the
\* policy" (compiler.go:41).  An update that drops a policy from PolicyRefs
\* leaves the link of the earlier version in place.
LinkedExceptionsMatch ==
    Quiescent =>
        \A p \in Live : \A e \in LinkedTo(p) :
            apiExceptions[e] # None /\ p \in apiExceptions[e].refs

=============================================================================
