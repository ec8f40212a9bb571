------------------------------ MODULE KubeSource ------------------------------
(***************************************************************************)
(* The policy source of pkg/engine/sources/kube.go: a compile cache in     *)
(* front of the composite store, used by every request that is authorized. *)
(*                                                                         *)
(* A request loads the policies, and for each of them asks keyFunc for a   *)
(* cache key, looks the key up, and on a miss builds the policy: it finds  *)
(* the policy's state under the mutex, releases it, ranges over the        *)
(* exceptions and compiles.  Between any two of these steps the            *)
(* controllers may change the store and other requests the cache.          *)
(*                                                                         *)
(* Load hands out pointers into the store, and the build keeps a pointer   *)
(* to a policyState.  While that state is in the map a pointer sees every  *)
(* later write to it (InStore); the map never writes to a state it has     *)
(* dropped, so from then on the pointer is worth a copy of it.             *)
(***************************************************************************)
EXTENDS CompositeStore, Sequences

CONSTANTS
    Requests,     \* concurrent calls of the source's Load
    InStore,      \* a pointer to the state the store holds now
    Precedes(_,_) \* the order of policy keys: Load sorts them

CacheKey == [name : Policies, rv : Nat, counter : Nat]
Entry == [policy     : PolicyObject,
          exceptions : [Exceptions -> ExceptionObject \cup {None}]]

Item == [key : CacheKey, entry : Entry]

\* A policy name is the sequence of its characters.
ASSUME NamesAssumption == Policies \subseteq Seq(Nat)

\* The marks for a live pointer and for nothing are no other value.
ASSUME InStoreAssumption == InStore \notin PolicyState /\ InStore # None
ASSUME AbsentAssumption == None \notin Policies \cup Requests \cup CacheKey \cup Item

VARIABLES
    lock,     \* the request that left the store's mutex locked, or None
    cache,    \* the compiled policies of sources.NewCache, each with its key
    pc,       \* where a request is
    held,     \* per request, the pointers Load returned and it has yet to use
    cur,      \* per request, the policy it is working on
    key,      \* per request, the cache key of that policy
    src,      \* per request, the policyState whose exceptions it ranges over
    todo,     \* per request, the exceptions the range has not visited
    torn,     \* per request, whether that map was written during the range
    got,      \* per request, the exceptions it passes to the compiler
    served,   \* per request, its answer so far: key and compiled policy
    revoked   \* history: per request, the exceptions absent since its Load

reqVars == <<pc, held, cur, key, src, todo, torn, got, served, revoked>>
ksVars  == <<lock, cache, reqVars>>
vars    == <<csVars, ksVars>>

-----------------------------------------------------------------------------
(* keyFunc: name, resource version and event counter, concatenated as text.  *)
(* A digit stands for itself, other characters for numbers of their own.      *)

Itoa[n \in Nat] == IF n < 10 THEN <<n>> ELSE Append(Itoa[n \div 10], n % 10)

KeyString(k) == k.name \o Itoa[k.rv] \o Itoa[k.counter]

\* What the pointer of request r to policy p reads now.
Pointee(r, p) == IF held[r][p] = InStore THEN policies[p] ELSE held[r][p]
Ranged(r) == IF src[r] = InStore THEN policies[cur[r]] ELSE src[r]

\* Fault: keyFunc reads the version from the store, not from the policy it is given.
KeyForStored(r, p) == [name    |-> p,
                       rv      |-> policies[p].policy.rv,
                       counter |-> policies[p].exceptionEventCounter]

\* The key keyFunc computes for the policy behind request r's pointer to p.
KeyFor(r, p) == [name    |-> p,
                 rv      |-> Pointee(r, p).policy.rv,
                 counter |-> policies[p].exceptionEventCounter]

LiveKey(p) == [name    |-> p,
               rv      |-> policies[p].policy.rv,
               counter |-> policies[p].exceptionEventCounter]

NothingHeld == [p \in Policies |-> None]
Pending(r) == {p \in Policies : held[r][p] # None}

-----------------------------------------------------------------------------
SourceTypeOK ==
    /\ lock \in Requests \cup {None}
    /\ cache \in SUBSET Item
    /\ pc \in [Requests -> {"idle", "next", "lookup", "build", "range"}]
    /\ held \in [Requests -> [Policies -> PolicyState \cup {None, InStore}]]
    /\ cur \in [Requests -> Policies \cup {None}]
    /\ key \in [Requests -> CacheKey \cup {None}]
    /\ src \in [Requests -> PolicyState \cup {None, InStore}]
    /\ todo \in [Requests -> SUBSET Exceptions]
    /\ torn \in [Requests -> BOOLEAN]
    /\ got \in [Requests -> [Exceptions -> ExceptionObject \cup {None}]]
    /\ served \in [Requests -> [Policies -> Item \cup {None}]]
    /\ revoked \in [Requests -> SUBSET Exceptions]

SourceInit ==
    /\ Init
    /\ lock = None
    /\ cache = {}
    /\ pc = [r \in Requests |-> "idle"]
    /\ held = [r \in Requests |-> NothingHeld]
    /\ cur = [r \in Requests |-> None]
    /\ key = [r \in Requests |-> None]
    /\ src = [r \in Requests |-> None]
    /\ todo = [r \in Requests |-> {}]
    /\ torn = [r \in Requests |-> FALSE]
    /\ got = [r \in Requests |-> NoLinks]
    /\ served = [r \in Requests |-> NothingHeld]
    /\ revoked = [r \in Requests |-> {}]

-----------------------------------------------------------------------------
(* A request.                                                                *)

Load(r) ==
    /\ pc[r] = "idle"
    /\ lock = None
    /\ pc' = [pc EXCEPT ![r] = "next"]
    /\ held' = [held EXCEPT ![r] = [p \in Policies |-> IF p \in Live THEN InStore ELSE None]]
    /\ revoked' = [revoked EXCEPT ![r] = {e \in Exceptions : exceptions[e] = None}]
    /\ UNCHANGED <<csVars, lock, cache, cur, key, src, todo, torn, got, served>>

IsNext(r, p) == p \in Pending(r) /\ \A q \in Pending(r) : q = p \/ Precedes(p, q)

\* keyFunc, under the mutex.  A policy that is gone is an error: it is skipped.
ComputeKey(r) ==
    /\ pc[r] = "next"
    /\ lock = None
    /\ \E p \in Policies :
          /\ IsNext(r, p)
          /\ IF p \in Live
             THEN /\ pc' = [pc EXCEPT ![r] = "lookup"]
                  /\ cur' = [cur EXCEPT ![r] = p]
                  /\ key' = [key EXCEPT ![r] = KeyFor(r, p)]
                  /\ UNCHANGED held
             ELSE /\ held' = [held EXCEPT ![r][p] = None]
                  /\ UNCHANGED <<pc, cur, key>>
    /\ UNCHANGED <<csVars, lock, cache, src, todo, torn, got, served, revoked>>

\* Request r is done with its current policy: the answer is item, None on error.
Finish(r, item) ==
    /\ pc' = [pc EXCEPT ![r] = "next"]
    /\ held' = [held EXCEPT ![r][cur[r]] = None]
    /\ served' = [served EXCEPT ![r][cur[r]] = item]
    /\ cur' = [cur EXCEPT ![r] = None]
    /\ key' = [key EXCEPT ![r] = None]
    /\ src' = [src EXCEPT ![r] = None]
    /\ todo' = [todo EXCEPT ![r] = {}]
    /\ torn' = [torn EXCEPT ![r] = FALSE]
    /\ got' = [got EXCEPT ![r] = NoLinks]

Cached(k) == {i \in cache : KeyString(i.key) = KeyString(k)}

CacheHit(r) ==
    /\ pc[r] = "lookup"
    /\ \E i \in Cached(key[r]) : Finish(r, i)
    /\ UNCHANGED <<csVars, lock, cache, revoked>>

CacheMiss(r) ==
    /\ pc[r] = "lookup"
    /\ Cached(key[r]) = {}
    /\ pc' = [pc EXCEPT ![r] = "build"]
    /\ UNCHANGED <<csVars, lock, cache, held, cur, key, src, todo, torn, got, served, revoked>>

\* The build finds the policy's state and releases the mutex before it ranges
\* over the exceptions.
FindPolicyState(r) ==
    /\ pc[r] = "build"
    /\ lock = None
    /\ cur[r] \in Live
    /\ pc' = [pc EXCEPT ![r] = "range"]
    /\ src' = [src EXCEPT ![r] = InStore]
    /\ todo' = [todo EXCEPT ![r] = Exceptions]
    /\ UNCHANGED <<csVars, lock, cache, held, cur, key, torn, got, served, revoked>>

\* The policy is gone: the build returns an error from inside the critical
\* section, and nobody unlocks the mutex any more.
BuildFails(r) ==
    /\ pc[r] = "build"
    /\ lock = None
    /\ cur[r] \notin Live
    /\ lock' = r
    /\ Finish(r, None)
    /\ UNCHANGED <<csVars, cache, revoked>>

\* The build reads the policy without the mutex.  If it was updated in place since
\* the key was computed, that is a data race: any mixture of the versions is read.
Readable(r) ==
    LET now == Pointee(r, cur[r]).policy
    IN  IF now.rv = key[r].rv THEN {now} ELSE [rv : {key[r].rv, now.rv}, mode : Modes]

\* What the build keeps of an exception: only the policy's evaluation mode.
Kept(policy, exc) == IF exc.mode = policy.mode THEN exc ELSE None

\* One turn of the range.
VisitException(r, e) ==
    /\ pc[r] = "range"
    /\ e \in todo[r]
    /\ Ranged(r).exceptions[e] # None
    /\ todo' = [todo EXCEPT ![r] = @ \ {e}]
    /\ \E policy \in Readable(r) :
          got' = [got EXCEPT ![r][e] = Kept(policy, Ranged(r).exceptions[e])]
    /\ UNCHANGED <<csVars, lock, cache, pc, held, cur, key, src, torn, served, revoked>>

\* A range that raced with a write of the map may end anywhere.
RangeOver(r) ==
    /\ pc[r] = "range"
    /\ torn[r] \/ \A e \in todo[r] : Ranged(r).exceptions[e] = None

\* Faults: the key is computed once the policy is built; it is lost.
BuiltLateKey(r, policy) ==
    [key   |-> IF cur[r] \in Live THEN KeyFor(r, cur[r]) ELSE key[r],
     entry |-> [policy |-> policy, exceptions |-> got[r]]]
BuiltNoKey(r, policy) ==
    [key   |-> None,
     entry |-> [policy |-> policy, exceptions |-> got[r]]]

\* What the build of request r puts into the cache, having read this policy.
Built(r, policy) ==
    [key   |-> key[r],
     entry |-> [policy |-> policy, exceptions |-> got[r]]]

CompilePolicy(r) ==
    /\ RangeOver(r)
    /\ \E policy \in Readable(r) :
          /\ cache' = (cache \ Cached(key[r])) \cup {Built(r, policy)}
          /\ Finish(r, Built(r, policy))
    /\ UNCHANGED <<csVars, lock, revoked>>

\* The SDK ignores a policy that does not compile (compiler.go:45).
CompileFails(r) ==
    /\ RangeOver(r)
    /\ Finish(r, None)
    /\ UNCHANGED <<csVars, lock, cache, revoked>>

Return(r) ==
    /\ pc[r] = "next"
    /\ Pending(r) = {}
    /\ pc' = [pc EXCEPT ![r] = "idle"]
    /\ served' = [served EXCEPT ![r] = NothingHeld]
    /\ revoked' = [revoked EXCEPT ![r] = {}]
    /\ UNCHANGED <<csVars, lock, cache, held, cur, key, src, todo, torn, got>>

\* The cache of the SDK may drop whatever it likes.
Evict ==
    /\ \E i \in cache : cache' = cache \ {i}
    /\ UNCHANGED <<csVars, lock, reqVars>>

-----------------------------------------------------------------------------
(* The store under its mutex, seen by the requests.                          *)

\* Pointers to a state the map drops keep the last value of it.
Detach(p) ==
    /\ held' = [r \in Requests |->
          IF held[r][p] = InStore THEN [held[r] EXCEPT ![p] = policies[p]] ELSE held[r]]
    /\ src' = [r \in Requests |->
          IF src[r] = InStore /\ cur[r] = p THEN policies[p] ELSE src[r]]

SourceHandlePolicy ==
    /\ lock = None
    /\ \/ HandlePolicyDelete /\ Detach(vpolWork.key)
       \/ (HandlePolicyUpdate \/ HandlePolicyCreate) /\ UNCHANGED <<held, src>>
    /\ UNCHANGED <<lock, cache, pc, cur, key, todo, torn, got, served, revoked>>

SourceHandlePolex ==
    /\ lock = None
    /\ HandlePolex
    /\ torn' = [r \in Requests |->
          torn[r] \/ (src[r] = InStore /\ policies'[cur[r]] # policies[cur[r]])]
    /\ revoked' = [r \in Requests |-> {e \in revoked[r] : exceptions'[e] = None}]
    /\ UNCHANGED <<lock, cache, pc, held, cur, key, src, todo, got, served>>

\* The process may die at any time: among others the Go runtime kills it when it
\* notices that a map is ranged over and written at once.
SourceRestart ==
    /\ Restart
    /\ lock' = None
    /\ cache' = {}
    /\ pc' = [r \in Requests |-> "idle"]
    /\ held' = [r \in Requests |-> NothingHeld]
    /\ cur' = [r \in Requests |-> None]
    /\ key' = [r \in Requests |-> None]
    /\ src' = [r \in Requests |-> None]
    /\ todo' = [r \in Requests |-> {}]
    /\ torn' = [r \in Requests |-> FALSE]
    /\ got' = [r \in Requests |-> NoLinks]
    /\ served' = [r \in Requests |-> NothingHeld]
    /\ revoked' = [r \in Requests |-> {}]

RequestNext(r) ==
    \/ Load(r) \/ ComputeKey(r)
    \/ CacheHit(r) \/ CacheMiss(r)
    \/ FindPolicyState(r) \/ BuildFails(r)
    \/ \E e \in Exceptions : VisitException(r, e)
    \/ CompilePolicy(r) \/ CompileFails(r)
    \/ Return(r)

SourceNext ==
    \/ (ApiNext \/ QueueNext) /\ UNCHANGED ksVars
    \/ SourceHandlePolicy \/ SourceHandlePolex \/ SourceRestart
    \/ \E r \in Requests : RequestNext(r)
    \/ Evict

SourceSpec == SourceInit /\ [][SourceNext]_vars

\* As in the store alone, and a request that can go on does go on.
SourceFairness ==
    /\ \A p \in Policies : SF_vars(TakePolicy(p) /\ UNCHANGED ksVars)
    /\ \A e \in Exceptions : SF_vars(TakeException(e) /\ UNCHANGED ksVars)
    /\ WF_vars(SourceHandlePolicy)
    /\ WF_vars(SourceHandlePolex)
    /\ \A r \in Requests : WF_vars(RequestNext(r) /\ pc[r] # "idle")

SourceFairSpec == SourceSpec /\ SourceFairness

-----------------------------------------------------------------------------
(* Properties.                                                               *)

\* The exceptions that apply to a policy: linked, and of its evaluation mode.
Applicable(ps) ==
    [e \in Exceptions |->
       IF ps.exceptions[e] # None /\ ps.exceptions[e].mode = ps.policy.mode
       THEN ps.exceptions[e] ELSE None]

Matches(entry, p) ==
    /\ entry.policy = policies[p].policy
    /\ entry.exceptions = Applicable(policies[p])

\* The cache never answers with something out of date: an entry built under the
\* key of the policy as it is now is that policy, compiled with exactly the
\* exceptions it has now, however many updates, exception events, deletions and
\* other builds overlapped with the build that filled it (kube.go:40-58).
CacheFreshByVersion ==
    \A i \in cache : \A p \in Live : i.key = LiveKey(p) => Matches(i.entry, p)

\* A request that misses while its key is current builds the current policy.
BuildFresh ==
    \A r \in Requests :
        /\ RangeOver(r)
        /\ cur[r] \in Live
        /\ key[r] = LiveKey(cur[r])
        => /\ Readable(r) = {policies[cur[r]].policy}
           /\ got[r] = Applicable(policies[cur[r]])

\* Every policy of an answer is the one asked for (kube.go:51-58), so that the
\* source loads and updates the policies of the cluster (policy-sources.md:25).
\* The text of a key has no separators: TLC finds the answer for one policy taken
\* from another one's entry when its name goes on in digits, like a and a1.
ServedAsAsked == \A r \in Requests : \A p \in Policies :
    served[r][p] # None => served[r][p].key.name = p

\* Name q is name p followed by digits.
ExtendedByDigits(p, q) ==
    /\ Len(p) < Len(q)
    /\ \A i \in 1 .. Len(q) : IF i <= Len(p) THEN q[i] = p[i] ELSE q[i] \in 0 .. 9

\* What the text of the key does guarantee: a policy is mistaken for another one
\* only if the name of one of them is that of the other followed by digits.
ConfusedOnlyByDigits == \A r \in Requests : \A p \in Policies :
    served[r][p] # None =>
        LET q == served[r][p].key.name
        IN q = p \/ ExtendedByDigits(p, q) \/ ExtendedByDigits(q, p)

\* An exception that was gone from the store when the request loaded its
\* policies, and has not come back, exempts nothing: the counter is incremented
\* so that "during recomputing the cache we get a different value and recompile
\* the policy with its exceptions" (composite_source.go:103-104).
RevokedNotServed ==
    \A r \in Requests, p \in Policies, e \in Exceptions :
        served[r][p] # None /\ e \in revoked[r] => served[r][p].entry.exceptions[e] = None

\* What the code does guarantee of it: the comment holds for as long as the
\* served version of the policy is the one in the store.
RevokedNotServedInStore ==
    \A r \in Requests : \A p \in Live, e \in revoked[r] :
        /\ served[r][p] # None
        /\ served[r][p].key.rv = policies[p].policy.rv
        => served[r][p].entry.exceptions[e] = None

-----------------------------------------------------------------------------
(* Why the cache is fresh: no key is ahead of the store, a key once left is  *)
(* never the current one again, and a build whose key is still current has   *)
(* only read the current policy.                                             *)

\* Version v of policy p is not ahead of the store; if p is not in the store it
\* is behind whatever will be put there.
Past(v, p) ==
    /\ p \in Live => v <= policies[p].policy.rv
    /\ p \notin Live =>
          /\ CallFor(p) /\ vpolWork.obj # None => v < vpolWork.obj.rv
          /\ apiPolicies[p] # None => v < apiPolicies[p].rv
          /\ v <= apiRv

\* The same for a version that left the store.
Outdated(v, p) == Past(v, p) /\ (p \in Live => v < policies[p].policy.rv)

KeyNotAhead(k) ==
    /\ Past(k.rv, k.name)
    /\ k.name \in Live /\ k.rv = policies[k.name].policy.rv =>
          k.counter <= policies[k.name].exceptionEventCounter

CacheNotAhead == \A i \in cache : KeyNotAhead(i.key)

\* The pointers a request holds.
PointersOK(r) ==
    \A p \in Policies :
        /\ held[r][p] = InStore => p \in Live
        /\ held[r][p] \in PolicyState => Outdated(held[r][p].policy.rv, p)

Working(r) == pc[r] \in {"lookup", "build", "range"}

\* The policy a request works on, and the key computed for it.
WorkOK(r) ==
    /\ Working(r) =>
          /\ cur[r] \in Policies
          /\ key[r] \in CacheKey
          /\ key[r].name = cur[r]
          /\ held[r][cur[r]] # None
          /\ KeyNotAhead(key[r])
          /\ key[r].rv <= Pointee(r, cur[r]).policy.rv
    /\ pc[r] # "range" => src[r] = None /\ ~torn[r] /\ got[r] = NoLinks

\* The range over the exceptions: nothing it has read is out of date unless the
\* key is, and then no build under that key matters any more.
RangeOK(r) ==
    pc[r] = "range" =>
        /\ src[r] # None
        /\ src[r] = InStore => cur[r] \in Live
        /\ src[r] # InStore => Outdated(key[r].rv, cur[r])
        /\ cur[r] \in Live /\ key[r] = LiveKey(cur[r]) =>
              /\ ~torn[r]
              /\ \A e \in Exceptions :
                    got[r][e] = IF e \in todo[r] THEN None
                                ELSE Applicable(policies[cur[r]])[e]

RequestsSound == \A r \in Requests : PointersOK(r) /\ WorkOK(r) /\ RangeOK(r)

\* Together with the types and the order of versions, an inductive invariant.
SourceInvariant == CacheNotAhead /\ CacheFreshByVersion /\ RequestsSound

=============================================================================
