----------------------------- MODULE PolicyLoading -----------------------------
(***************************************************************************)
(* The external policy sources: GetExternalSources looks up a file system  *)
(* for every URL, LoadPolicies walks it, newStatic pairs policies with     *)
(* exceptions, and the first request compiles each source (Load behind     *)
(* NewOnce).  The policies of the cluster go through the same compiler,    *)
(* twice: in the validation webhook and in the build of the kube source.   *)
(***************************************************************************)
EXTENDS Compiler, FiniteSets, SequencesExt

CONSTANTS
    WalkOrder,     \* what a walk meets, in its order: <<[dir, name, ext], ...>>
    Documents,     \* what a file may hold
    SourceLists,   \* lists of sources, [scheme, tree]; a tree says what each entry holds
    PullSecrets,   \* names of the secrets that hold registry credentials
    CrdKinds,      \* the kinds the loader has a schema for
    KubePolicies, KubeExceptions   \* what may be written to the cluster

Root == "."
Absent == [state |-> "absent", docs |-> <<>>]
Unreadable == [state |-> "unreadable", docs |-> <<>>]
File(docs) == [state |-> "file", docs |-> docs]

Entries == {WalkOrder[k] : k \in DOMAIN WalkOrder}
Texts == {Absent, Unreadable} \cup [state : {"file"}, docs : Seq(Documents)]
Sources == [scheme : {"file", "git", "oci"}, tree : [Entries -> Texts]]

\* A JSON file is one document.  The CRD makes the name the key of the list of
\* variables (x-kubernetes-list-map-keys), for what is loaded from a file and for
\* what is written to the cluster.
ASSUME LoadingAssumption ==
    /\ WalkOrder \in Seq(Entries)
    /\ \A e \in Entries : e = [dir |-> e.dir, name |-> e.name, ext |-> e.ext]
    /\ SourceLists \subseteq Seq(Sources)
    /\ \A list \in SourceLists : \A s \in DOMAIN list : \A e \in Entries :
          e.ext = "json" => Len(list[s].tree[e].docs) <= 1
    /\ \A d \in Documents : d.kind = "ValidatingPolicy" => NamesAreKeys(d.variables)
    /\ \A policy \in KubePolicies : NamesAreKeys(policy.variables)

VARIABLES
    sources,   \* the list under load
    pc,        \* "lookup", "walk", "serving" or "failed"
    at,        \* the source at hand
    entry,     \* position of the walk
    doc,       \* position in the documents of the entry
    policies, exceptions,   \* what the walk has found, in its order
    static,    \* the static sources built so far: [policies, matched]
    loads,     \* for every static source, its one Load: [pending, compiled, answer]
    cluster,   \* the policies that the API server holds
    built      \* the latest compilation of one of them

walk == <<sources, at, entry, doc, policies, exceptions, static>>
vars == <<sources, pc, at, entry, doc, policies, exceptions, static, loads, cluster, built>>

NotBuilt == [policy |-> <<>>, exceptions |-> <<>>, result |-> "none"]

Init ==
    /\ sources \in SourceLists
    /\ pc = "lookup" /\ at = 1 /\ entry = 1 /\ doc = 1
    /\ policies = <<>> /\ exceptions = <<>>
    /\ static = <<>> /\ loads = <<>>
    /\ cluster = {} /\ built = NotBuilt

-----------------------------------------------------------------------------
(* GetExternalSources: a file system per URL. *)

\* generateKeyChainForPullSecrets: a secret that is not there is skipped.
Resolved(replies) == \A s \in PullSecrets : replies[s] \in {"found", "notFound"}
Replies == [PullSecrets -> {"found", "notFound", "failed"}]

Lookup ==
    /\ pc = "lookup" /\ at <= Len(sources)
    /\ sources[at].scheme = "oci" => \E replies \in Replies : Resolved(replies)
    /\ pc' = "walk"
    /\ entry' = 1 /\ doc' = 1
    /\ policies' = <<>> /\ exceptions' = <<>>
    /\ UNCHANGED <<sources, at, static, loads, cluster, built>>

\* Fault: a source that cannot be looked up is passed over.
LookupSkips ==
    /\ pc = "lookup" /\ at <= Len(sources)
    /\ at' = at + 1
    /\ UNCHANGED <<sources, pc, entry, doc, policies, exceptions, static, loads, cluster, built>>

\* The mux does not know the scheme, the reference does not parse, the image
\* or the repository cannot be fetched: the command does not start.
LookupFails ==
    /\ pc = "lookup" /\ at <= Len(sources)
    /\ pc' = "failed"
    /\ UNCHANGED <<walk, loads, cluster, built>>

-----------------------------------------------------------------------------
(* LoadPolicies *)

\* getDocuments reads the entry's base name from the root of the file system.
Content(tree, e) ==
    LET root == [dir |-> Root, name |-> e.name, ext |-> e.ext]
    IN IF e.ext \in {"yaml", "json"} /\ root \in DOMAIN tree THEN tree[root] ELSE Absent

\* The documents of the entry at hand; the walk does not meet what is not there.
Docs ==
    LET e == WalkOrder[entry]
        tree == sources[at].tree
    IN IF tree[e].state = "absent" THEN <<>> ELSE Content(tree, e).docs

\* ldr.Load and convert.To: what has no schema is an error, like what is broken.
Loads(document) == document.kind \in CrdKinds
OfKind(document, kind) == Loads(document) /\ document.kind = kind

\* found, and the document if it loads and is of that kind.
With(found, document, kind) ==
    IF OfKind(document, kind) THEN Append(found, document) ELSE found

AtDocument == pc = "walk" /\ entry <= Len(WalkOrder) /\ doc <= Len(Docs)

\* Fault: a document that does not load ends its file.
LoadUpToTheFirstBroken ==
    /\ AtDocument
    /\ policies' = With(policies, Docs[doc], "ValidatingPolicy")
    /\ exceptions' = With(exceptions, Docs[doc], "PolicyException")
    /\ doc' = IF Loads(Docs[doc]) THEN doc + 1 ELSE Len(Docs) + 1
    /\ UNCHANGED <<sources, pc, at, entry, static, loads, cluster, built>>

LoadDocument ==
    /\ AtDocument
    /\ policies' = With(policies, Docs[doc], "ValidatingPolicy")
    /\ exceptions' = With(exceptions, Docs[doc], "PolicyException")
    /\ doc' = doc + 1
    /\ UNCHANGED <<sources, pc, at, entry, static, loads, cluster, built>>

NextEntry ==
    /\ pc = "walk" /\ entry <= Len(WalkOrder) /\ doc > Len(Docs)
    /\ entry' = entry + 1 /\ doc' = 1
    /\ UNCHANGED <<sources, pc, at, policies, exceptions, static, loads, cluster, built>>

\* newStatic: the exceptions of the policy's mode that name it.
Matched(policy) ==
    SelectSeq(exceptions, LAMBDA x : x.mode = policy.mode /\ policy.name \in x.refs)

EndOfWalk ==
    /\ pc = "walk" /\ entry > Len(WalkOrder)
    /\ static' = Append(static, [policies |-> policies,
                                 matched  |-> [i \in DOMAIN policies |-> Matched(policies[i])]])
    /\ loads' = Append(loads, [pending |-> DOMAIN policies, compiled |-> {}, answer |-> "none"])
    /\ at' = at + 1
    /\ pc' = "lookup"
    /\ UNCHANGED <<sources, entry, doc, policies, exceptions, cluster, built>>

Start ==
    /\ pc = "lookup" /\ at > Len(sources)
    /\ pc' = "serving"
    /\ UNCHANGED <<walk, loads, cluster, built>>

-----------------------------------------------------------------------------
(* Load: the policies of a map, in any order. *)

Answered(s, answer) ==
    loads' = [loads EXCEPT ![s].pending = {}, ![s].answer = answer,
                           ![s].compiled = IF answer = "policies" THEN @ ELSE {}]

\* The turn of the loop for the i-th policy of source s.
CompileOne(s, i) ==
    LET result == Compile(static[s].policies[i], static[s].matched[i])
    IN IF result = "compiled"
       THEN loads' = [loads EXCEPT ![s].pending = @ \ {i}, ![s].compiled = @ \cup {i}]
       ELSE Answered(s, result)

LoadTurn ==
    /\ pc = "serving"
    /\ \E s \in DOMAIN loads : \E i \in loads[s].pending : CompileOne(s, i)
    /\ UNCHANGED <<walk, pc, cluster, built>>

LoadReturns ==
    /\ pc = "serving"
    /\ \E s \in DOMAIN loads :
        /\ loads[s].pending = {} /\ loads[s].answer = "none"
        /\ Answered(s, "policies")
    /\ UNCHANGED <<walk, pc, cluster, built>>

-----------------------------------------------------------------------------
(* The policies of the cluster. *)

\* Fault: the webhook looks at the rules only.
RulesValid(policy) ==
    policy.mode \in Modes => RulesCompile(policy)

\* validateVpol of the two webhooks: each compiles the policies of its mode,
\* without exceptions, and accepts the others.
Valid(policy) ==
    policy.mode \in Modes => Compile(policy, <<>>) = "compiled"

\* ValidateCreate, ValidateUpdate
Apply ==
    /\ pc = "serving"
    /\ \E policy \in KubePolicies :
        /\ Valid(policy)
        /\ cluster' = {p \in cluster : p.name # policy.name} \cup {policy}
    /\ UNCHANGED <<walk, pc, loads, built>>

\* ValidateDelete has no objection.
Delete ==
    /\ pc = "serving"
    /\ \E policy \in cluster : cluster' = cluster \ {policy}
    /\ UNCHANGED <<walk, pc, loads, built>>

\* The build of the kube source: the exceptions linked to a policy, filtered
\* by mode, in the order of a map.
BuildFromCluster ==
    /\ pc = "serving"
    /\ \E policy \in cluster, linked \in SUBSET KubeExceptions :
        LET ofMode == SetToSeq({x \in linked : x.mode = policy.mode})
        IN built' = [policy |-> policy, exceptions |-> ofMode,
                     result |-> Compile(policy, ofMode)]
    /\ UNCHANGED <<walk, pc, loads, cluster>>

Next ==
    \/ Lookup
    \/ LookupFails
    \/ LoadDocument
    \/ NextEntry
    \/ EndOfWalk
    \/ Start
    \/ LoadTurn
    \/ LoadReturns
    \/ Apply
    \/ Delete
    \/ BuildFromCluster

Spec == Init /\ [][Next]_vars

-----------------------------------------------------------------------------

Policies == {d \in Documents : OfKind(d, "ValidatingPolicy")}
Exceptions == {d \in Documents : OfKind(d, "PolicyException")}

TypeOK ==
    /\ pc \in {"lookup", "walk", "serving", "failed"}
    /\ at \in 1 .. Len(sources) + 1
    /\ entry \in 1 .. Len(WalkOrder) + 1 /\ doc \in Nat \ {0}
    /\ policies \in Seq(Policies) /\ exceptions \in Seq(Exceptions)
    /\ Len(static) = at - 1 /\ Len(loads) = at - 1
    /\ \A s \in DOMAIN static :
        /\ static[s].policies \in Seq(Policies)
        /\ DOMAIN static[s].matched = DOMAIN static[s].policies
    /\ loads \in Seq([pending : SUBSET Nat, compiled : SUBSET Nat,
                      answer : {"none", "policies", "error", "panic"}])
    /\ \A s \in DOMAIN loads :
        loads[s].pending \cup loads[s].compiled \subseteq DOMAIN static[s].policies
    /\ cluster \subseteq KubePolicies
    /\ built.result \in {"none", "compiled", "error", "panic"}

\* Every policy document of the given entry that has a schema and is not broken
\* ended up in source s.
InSource(s, e) ==
    \A k \in DOMAIN sources[s].tree[e].docs :
        OfKind(sources[s].tree[e].docs[k], "ValidatingPolicy") =>
            \E i \in DOMAIN static[s].policies :
                static[s].policies[i] = sources[s].tree[e].docs[k]

\* LoadPolicies skips a document, or an entry, and goes on: whatever else is
\* broken, each valid policy of a YAML or JSON file at the root is in the
\* source.
RootPoliciesLoaded ==
    \A s \in DOMAIN static : \A e \in Entries :
        e.dir = Root /\ e.ext \in {"yaml", "json"} => InSource(s, e)

\* The same for the files of every directory, as the documentation of the
\* policy sources says.
LoadsRecursively ==
    \A s \in DOMAIN static : \A e \in Entries :
        e.ext \in {"yaml", "json"} => InSource(s, e)

\* What Compile says of the i-th policy of a static source.
Answer(s, i) == Compile(static[s].policies[i], static[s].matched[i])

\* compiler.go, line 45: compile errors are ignored and the payload is evaluated
\* against any of the valid policies.  The Load of a static source returns at the
\* first policy that does not compile, without the valid ones.
ValidPoliciesAnswered ==
    \A s \in DOMAIN loads : loads[s].answer # "none" =>
        {i \in DOMAIN static[s].policies : Answer(s, i) = "compiled"} \subseteq loads[s].compiled

\* What a program that Compile accepts reads in vain when it runs, and what its
\* variables wait for in a circle, was selected from dyn(variables): match
\* conditions name no variable, although they run without any, and what is named
\* is declared in front.
OnlyDynamicReadsFail ==
    /\ \A s \in DOMAIN loads : \A i \in loads[s].compiled :
        FailsOnlyDynamic(static[s].policies[i], static[s].matched[i])
    /\ built.result = "compiled" => FailsOnlyDynamic(built.policy, built.exceptions)

\* http-policy-breakdown.md, line 171: "A variable can reference earlier variables
\* but not later ones."  One that is selected from dyn(variables) may be any of
\* them, itself included.
EarlierVariablesOnly ==
    /\ \A s \in DOMAIN loads : \A i \in loads[s].compiled :
        ReadsNoLater(static[s].policies[i].variables)
    /\ built.result = "compiled" => ReadsNoLater(built.policy.variables)

\* What a webhook admits the server compiles, if its exceptions compile too:
\* a policy of the HTTP or the Envoy mode never gives the kube source an error.
AdmittedBuilds ==
    built.result # "none" /\ built.policy.mode \in Modes =>
        /\ built.result # "error"
        /\ built.result = "panic" =>
            \E i \in DOMAIN built.exceptions :
                ~ ExceptionCompiles(built.exceptions[i], built.policy)
===============================================================================
