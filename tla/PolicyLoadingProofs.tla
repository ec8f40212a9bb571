-------------------------- MODULE PolicyLoadingProofs --------------------------
(***************************************************************************)
(* What LoadPolicies keeps, what Load answers and what the compiler        *)
(* accepts, for any trees, lists of sources and policies, and any number   *)
(* of them.                                                                *)
(***************************************************************************)
EXTENDS PolicyLoading, SequenceTheorems, WellFoundedInduction, TLAPS

-----------------------------------------------------------------------------
(* The compiler. *)

\* A set of naturals that is not empty has a least element.
LEMMA LeastExists ==
    ASSUME NEW S \in SUBSET Nat, S # {}
    PROVE  \E x \in S : \A y \in S : x <= y
  <1> DEFINE R == {pair \in Nat \X Nat : pair[1] < pair[2]}
  <1>1. IsWellFoundedOn(R, Nat)
    BY NatLessThanWellFounded DEF OpToRel
  <1>2. \A x, y \in Nat : y < x => <<y, x>> \in R
    OBVIOUS
  <1> HIDE DEF R
  <1>3. PICK x \in S : \A y \in S : <<y, x>> \notin R
    BY <1>1, WFMin
  <1>4. \A y \in S : x \in Nat /\ y \in Nat /\ ~ (y < x)
    BY <1>2, <1>3
  <1> QED
    BY <1>3, <1>4

\* A variable selects only those in front of it, so the first of a group that waits
\* for one of the group selects it from dyn(variables).
LEMMA VariablesAreOrdered ==
    ASSUME NEW policy, NamesAreKeys(policy.variables), VariablesCompile(policy)
    PROVE  WaitsOnlyDynamic(policy.variables)
  <1> DEFINE variables == policy.variables
             names(group) == {variables[k].name : k \in group}
  <1>1. DOMAIN variables \in SUBSET Nat
    BY DEF NamesAreKeys
  <1> SUFFICES ASSUME NEW group \in SUBSET DOMAIN variables, group # {},
                      \A i \in group : Reads(variables[i].expression) \cap names(group) # {}
               PROVE  \E i \in group : variables[i].expression.dynamic \cap names(group) # {}
    BY DEF WaitsOnlyDynamic
  <1>2. PICK i \in group : \A k \in group : i <= k
    BY <1>1, LeastExists
  <1>3. variables[i].expression.uses \subseteq {variables[k].name : k \in 1 .. i - 1}
    BY DEF VariablesCompile, Compiles, Declared
  <1>4. \A k \in group, l \in 1 .. i - 1 : variables[k].name # variables[l].name
    <2> TAKE k \in group, l \in 1 .. i - 1
    <2>1. DOMAIN variables = 1 .. Len(variables) /\ Len(variables) \in Nat
      BY DEF NamesAreKeys
    <2> DEFINE n == Len(variables)
    <2>2. n \in Nat /\ i \in 1 .. n /\ k \in 1 .. n /\ i <= k
      BY <1>2, <2>1
    <2> HIDE DEF n
    <2>3. l \in 1 .. n /\ l # k
      BY <2>2
    <2>4. k \in DOMAIN variables /\ l \in DOMAIN variables
      BY <2>1, <2>2, <2>3 DEF n
    <2> QED
      BY <2>3, <2>4 DEF NamesAreKeys
  <1>5. variables[i].expression.uses \cap names(group) = {}
    BY <1>3, <1>4
  <1>6. Reads(variables[i].expression) \cap names(group) # {}
    OBVIOUS
  <1> QED
    BY <1>5, <1>6 DEF Reads

\* Compile accepts a policy only if what its programs may miss is dynamic.
LEMMA CompiledFails ==
    ASSUME NEW policy, NEW list, NamesAreKeys(policy.variables),
           Compile(policy, list) = "compiled"
    PROVE  FailsOnlyDynamic(policy, list)
  <1>1. PolicyCompiles(policy) /\ \A i \in DOMAIN list : ExceptionCompiles(list[i], policy)
    BY DEF Compile
  <1>2. WaitsOnlyDynamic(policy.variables)
    BY <1>1, VariablesAreOrdered DEF PolicyCompiles
  <1>3. \A expression, names : expression.uses \subseteq names =>
            MissesOnlyDynamic(expression, names)
    BY DEF MissesOnlyDynamic, Reads
  <1>4. \A i \in DOMAIN policy.variables :
            policy.variables[i].expression.uses \subseteq AllDeclared(policy.variables)
    <2> TAKE i \in DOMAIN policy.variables
    <2>1. policy.variables[i].expression.uses \subseteq Declared(policy.variables, i)
      BY <1>1 DEF PolicyCompiles, VariablesCompile, Compiles
    <2>2. 1 .. i - 1 \subseteq DOMAIN policy.variables
      BY DEF NamesAreKeys
    <2> QED
      BY <2>1, <2>2 DEF Declared, AllDeclared
  <1>5. \A i \in DOMAIN policy.matchConditions : policy.matchConditions[i].uses \subseteq {}
    BY <1>1 DEF PolicyCompiles, ConditionsCompile, Compiles
  <1>6. \A i \in DOMAIN policy.rules :
            policy.rules[i].uses \subseteq AllDeclared(policy.variables)
    BY <1>1 DEF PolicyCompiles, RulesCompile, Compiles
  <1>7. \A i \in DOMAIN list : \A c \in DOMAIN list[i].matchConditions :
            list[i].matchConditions[c].uses \subseteq AllDeclared(policy.variables)
    BY <1>1 DEF ExceptionCompiles, Compiles
  <1> QED
    BY <1>2, <1>3, <1>4, <1>5, <1>6, <1>7 DEF FailsOnlyDynamic

LEMMA CompileAnswers ==
    ASSUME NEW policy, NEW list
    PROVE  /\ Compile(policy, list) \in {"compiled", "error", "panic"}
           /\ Compile(policy, list) = "error" <=> ~ PolicyCompiles(policy)
           /\ Compile(policy, list) = "panic" =>
                  \E i \in DOMAIN list : ~ ExceptionCompiles(list[i], policy)
  BY DEF Compile

-----------------------------------------------------------------------------
(* Sequences that only grow. *)

Elems(s) == {s[k] : k \in DOMAIN s}

LEMMA Appending ==
    ASSUME NEW s, s \in Seq(Elems(s)), NEW x
    PROVE  /\ Len(s) \in Nat /\ DOMAIN s = 1 .. Len(s)
           /\ Append(s, x) \in Seq(Elems(Append(s, x)))
           /\ Len(Append(s, x)) = Len(s) + 1
           /\ DOMAIN Append(s, x) = 1 .. Len(s) + 1
           /\ \A k \in 1 .. Len(s) : Append(s, x)[k] = s[k]
           /\ Append(s, x)[Len(s) + 1] = x
  <1> DEFINE S == Elems(s) \cup {x}
             t == Append(s, x)
  <1>1. s \in Seq(S)
    BY SeqMonotonic
  <1>2. /\ Len(s) \in Nat /\ DOMAIN s = 1 .. Len(s)
        /\ t \in Seq(S) /\ Len(t) = Len(s) + 1
        /\ \A k \in 1 .. Len(s) : t[k] = s[k]
        /\ t[Len(s) + 1] = x
    BY <1>1, AppendProperties
  <1>3. DOMAIN t = 1 .. Len(s) + 1
    BY <1>2
  <1>4. t \in Seq(Elems(t))
    BY <1>2, SeqOfRange DEF Elems, Range
  <1> QED
    BY <1>2, <1>3, <1>4

\* What a document adds to what was found is behind it.
LEMMA WithKeeps ==
    ASSUME NEW S, NEW found \in Seq(S), NEW document, NEW kind,
           OfKind(document, kind) => document \in S
    PROVE  /\ With(found, document, kind) \in Seq(S)
           /\ \A d \in Elems(found) : d \in Elems(With(found, document, kind))
           /\ OfKind(document, kind) => document \in Elems(With(found, document, kind))
  <1>1. CASE ~ OfKind(document, kind)
    BY <1>1 DEF With
  <1>2. CASE OfKind(document, kind)
    <2> DEFINE t == Append(found, document)
    <2>1. /\ t \in Seq(S) /\ Len(t) = Len(found) + 1 /\ Len(found) \in Nat
          /\ \A k \in 1 .. Len(found) : t[k] = found[k]
          /\ t[Len(found) + 1] = document
      BY <1>2, AppendProperties
    <2>2. DOMAIN t = 1 .. Len(found) + 1 /\ DOMAIN found = 1 .. Len(found)
      BY <2>1
    <2> QED
      BY <1>2, <2>1, <2>2 DEF With, Elems
  <1> QED
    BY <1>1, <1>2

-----------------------------------------------------------------------------
(* The inductive invariant. *)

\* The one Load of a static source.
Loadings == [pending : SUBSET Nat, compiled : SUBSET Nat,
             answer : {"none", "policies", "error", "panic"}]

\* Positions and the sequences the command builds.
ShapeInv ==
    /\ TypeOK
    /\ sources \in SourceLists
    /\ static \in Seq(Elems(static))
    /\ pc = "walk" => at <= Len(sources)
    /\ pc = "serving" => at = Len(sources) + 1

\* An entry whose file is read under its own name.
AtRoot(e) == e.dir = Root /\ e.ext \in {"yaml", "json"}

\* What the walk is behind has been found, up to the document at hand.
Found(e, k) ==
    LET d == sources[at].tree[e].docs[k] IN
    OfKind(d, "ValidatingPolicy") => d \in Elems(policies)
WalkInv ==
    pc = "walk" =>
        /\ \A n \in 1 .. entry - 1 : AtRoot(WalkOrder[n]) =>
              \A k \in DOMAIN sources[at].tree[WalkOrder[n]].docs : Found(WalkOrder[n], k)
        /\ entry <= Len(WalkOrder) /\ AtRoot(WalkOrder[entry]) =>
              \A k \in DOMAIN sources[at].tree[WalkOrder[entry]].docs :
                  k < doc => Found(WalkOrder[entry], k)

\* What Load does instead of passing over a policy that does not compile: the source
\* answers with all of its policies, or with none and the error (or the panic) of one.
AllOrNothing ==
    \A s \in DOMAIN loads :
        LET mine == DOMAIN static[s].policies
            results == {Answer(s, i) : i \in mine}
        IN loads[s].answer # "none" =>
            IF results \subseteq {"compiled"}
            THEN loads[s].answer = "policies" /\ loads[s].compiled = mine
            ELSE loads[s].answer \in results \ {"compiled"} /\ loads[s].compiled = {}

\* A Load that goes on has compiled all it is done with; AllOrNothing is about
\* one that has answered.
LoadInv ==
    \A s \in DOMAIN loads :
        /\ loads[s].answer = "none" =>
              /\ loads[s].pending \cup loads[s].compiled = DOMAIN static[s].policies
              /\ \A i \in loads[s].compiled : Answer(s, i) = "compiled"
        /\ loads[s].answer # "none" => loads[s].pending = {}

\* What is in the cluster came through the webhook, and so did what was built.
ClusterInv ==
    /\ \A policy \in cluster : Valid(policy)
    /\ built.result # "none" =>
          /\ built.policy \in KubePolicies /\ Valid(built.policy)
          /\ built.result = Compile(built.policy, built.exceptions)

LoadingInv ==
    ShapeInv /\ WalkInv /\ RootPoliciesLoaded /\ LoadInv /\ AllOrNothing /\ ClusterInv

LEMMA DocsTypes ==
    ASSUME ShapeInv, pc = "walk", entry <= Len(WalkOrder)
    PROVE  /\ Docs \in Seq(Documents)
           /\ AtRoot(WalkOrder[entry]) => Docs = sources[at].tree[WalkOrder[entry]].docs
  <1> DEFINE e == WalkOrder[entry]
             tree == sources[at].tree
  <1>1. WalkOrder \in Seq(Entries) /\ entry \in 1 .. Len(WalkOrder)
    BY LoadingAssumption DEF ShapeInv, TypeOK
  <1>2. e \in Entries /\ e = [dir |-> e.dir, name |-> e.name, ext |-> e.ext]
    BY <1>1, LoadingAssumption
  <1>3. tree \in [Entries -> Texts]
    <2>1. sources \in Seq(Sources) /\ at \in 1 .. Len(sources)
      BY LoadingAssumption DEF ShapeInv, TypeOK
    <2>2. sources[at] \in Sources
      BY <2>1
    <2> QED
      BY <2>2 DEF Sources
  <1>4. ASSUME NEW text \in Texts
        PROVE  text.docs \in Seq(Documents) /\ (text.state = "absent" => text.docs = <<>>)
    <2>0. <<>> \in Seq(Documents)
      OBVIOUS
    <2>1. CASE text \in {Absent, Unreadable}
      <3>1. text.docs = <<>>
        BY <2>1 DEF Absent, Unreadable
      <3> QED
        BY <2>0, <3>1
    <2>2. CASE text \in [state : {"file"}, docs : Seq(Documents)]
      BY <2>2
    <2> QED
      BY <2>1, <2>2 DEF Texts
  <1>5. Content(tree, e) = Absent \/ Content(tree, e) \in Texts
    BY <1>3 DEF Content
  <1>6. Absent.docs = <<>> /\ <<>> \in Seq(Documents)
    BY DEF Absent
  <1>7. Docs \in Seq(Documents)
    BY <1>4, <1>5, <1>6 DEF Docs
  <1>8. ASSUME AtRoot(e) PROVE Docs = tree[e].docs
    <2>1. Content(tree, e) = tree[e]
      BY <1>2, <1>3, <1>8 DEF Content, AtRoot
    <2> QED
      BY <1>2, <1>3, <1>4, <2>1 DEF Docs
  <1> QED
    BY <1>7, <1>8

\* An action that leaves the walk and its results alone.
LEMMA WalkKept ==
    ASSUME LoadingInv, UNCHANGED walk, pc' # "walk"
    PROVE  WalkInv' /\ RootPoliciesLoaded'
  <1>1. UNCHANGED <<sources, static>> /\ RootPoliciesLoaded
    BY DEF walk, LoadingInv
  <1>2. RootPoliciesLoaded'
    BY <1>1 DEF RootPoliciesLoaded, InSource
  <1> QED
    BY <1>2 DEF WalkInv

LEMMA WalkStep == ASSUME LoadingInv, [Next]_vars PROVE WalkInv' /\ RootPoliciesLoaded'
  <1> USE DEF LoadingInv
  <1>1. CASE UNCHANGED vars
    BY <1>1 DEF vars, WalkInv, Found, RootPoliciesLoaded, InSource
  <1>2. CASE Lookup
    <2>1. /\ UNCHANGED <<sources, static>> /\ entry' = 1 /\ doc' = 1
      BY <1>2 DEF Lookup
    <2>2. RootPoliciesLoaded'
      BY <2>1 DEF RootPoliciesLoaded, InSource
    <2>3. WalkOrder \in Seq(Entries)
      BY LoadingAssumption
    <2>4. ASSUME 1 <= Len(WalkOrder),
                 NEW k \in DOMAIN sources'[at'].tree[WalkOrder[1]].docs, k < 1, pc' = "walk",
                 AtRoot(WalkOrder[1])
          PROVE  FALSE
      <3>1. sources' \in Seq(Sources) /\ at' \in 1 .. Len(sources')
        BY <1>2, LoadingAssumption DEF Lookup, ShapeInv, TypeOK
      <3>2. sources'[at'].tree \in [Entries -> Texts]
        <4>1. sources'[at'] \in Sources
          BY <3>1
        <4> QED
          BY <4>1 DEF Sources
      <3>3. WalkOrder[1] \in Entries
        BY <2>3, <2>4
      <3>4. sources'[at'].tree[WalkOrder[1]].docs \in Seq(Documents)
        BY <3>2, <3>3 DEF Texts, Absent, Unreadable
      <3> QED
        BY <2>4, <3>4
    <2> QED
      BY <2>1, <2>2, <2>4 DEF WalkInv
  <1>3. CASE LookupFails \/ Start
    BY <1>3, WalkKept DEF LookupFails, Start
  <1>4. CASE LoadDocument
    <2> DEFINE e == WalkOrder[entry]
    <2>1. /\ pc = "walk" /\ entry <= Len(WalkOrder) /\ doc <= Len(Docs)
          /\ UNCHANGED <<sources, pc, at, entry, static>>
          /\ policies' = With(policies, Docs[doc], "ValidatingPolicy")
          /\ doc' = doc + 1 /\ doc \in Nat \ {0}
      BY <1>4 DEF LoadDocument, AtDocument, ShapeInv, TypeOK
    <2>2. Docs \in Seq(Documents) /\ doc \in DOMAIN Docs
      BY <2>1, DocsTypes
    <2>3. /\ \A d \in Elems(policies) : d \in Elems(policies')
          /\ OfKind(Docs[doc], "ValidatingPolicy") => Docs[doc] \in Elems(policies')
      BY <2>1, <2>2, WithKeeps DEF ShapeInv, TypeOK, Policies
    <2>4. \A n \in 1 .. entry - 1 : AtRoot(WalkOrder[n]) =>
              \A k \in DOMAIN sources[at].tree[WalkOrder[n]].docs : Found(WalkOrder[n], k)'
      BY <2>1, <2>3 DEF WalkInv, Found
    <2>5. ASSUME AtRoot(e), NEW k \in DOMAIN sources[at].tree[e].docs, k < doc + 1
          PROVE  Found(e, k)'
      <3>1. Docs = sources[at].tree[e].docs
        BY <2>1, <2>5, DocsTypes
      <3>2. CASE k < doc
        BY <2>1, <2>3, <2>5, <3>2 DEF WalkInv, Found
      <3>3. CASE k = doc
        BY <2>1, <2>3, <3>1, <3>3 DEF Found
      <3>4. k \in Nat
        BY <2>2, <2>5, <3>1
      <3> QED
        BY <2>1, <2>5, <3>2, <3>3, <3>4
    <2>6. WalkInv'
      BY <2>1, <2>4, <2>5 DEF WalkInv
    <2>7. RootPoliciesLoaded'
      BY <2>1 DEF RootPoliciesLoaded, InSource
    <2> QED
      BY <2>6, <2>7
  <1>5. CASE NextEntry
    <2> DEFINE e == WalkOrder[entry]
    <2>1. /\ pc = "walk" /\ entry <= Len(WalkOrder) /\ doc > Len(Docs)
          /\ UNCHANGED <<sources, pc, at, policies, static>>
          /\ entry' = entry + 1 /\ doc' = 1
          /\ doc \in Nat /\ entry \in Nat /\ entry >= 1
      BY <1>5 DEF NextEntry, ShapeInv, TypeOK
    <2>2. ASSUME AtRoot(e), NEW k \in DOMAIN sources[at].tree[e].docs PROVE Found(e, k)
      <3>1. Docs = sources[at].tree[e].docs /\ Docs \in Seq(Documents)
        BY <2>1, <2>2, DocsTypes
      <3>2. k < doc
        BY <2>1, <2>2, <3>1
      <3> QED
        BY <2>1, <2>2, <3>2 DEF WalkInv
    <2>3. \A n \in 1 .. entry : AtRoot(WalkOrder[n]) =>
              \A k \in DOMAIN sources[at].tree[WalkOrder[n]].docs : Found(WalkOrder[n], k)'
      <3> TAKE n \in 1 .. entry
      <3>1. n \in 1 .. entry - 1 \/ n = entry
        BY <2>1
      <3> QED
        BY <2>1, <2>2, <3>1 DEF WalkInv, Found
    <2>4. ASSUME entry + 1 <= Len(WalkOrder),
                 NEW k \in DOMAIN sources[at].tree[WalkOrder[entry + 1]].docs, k < 1
          PROVE  FALSE
      <3>1. /\ sources \in Seq(Sources) /\ at \in 1 .. Len(sources)
            /\ WalkOrder \in Seq(Entries)
        BY <2>1, LoadingAssumption DEF ShapeInv, TypeOK
      <3>2. sources[at].tree \in [Entries -> Texts]
        <4>1. sources[at] \in Sources
          BY <3>1
        <4> QED
          BY <4>1 DEF Sources
      <3>3. WalkOrder[entry + 1] \in Entries
        BY <2>1, <2>4, <3>1
      <3>4. sources[at].tree[WalkOrder[entry + 1]].docs \in Seq(Documents)
        BY <3>2, <3>3 DEF Texts, Absent, Unreadable
      <3> QED
        BY <2>4, <3>4
    <2>5. WalkInv'
      BY <2>1, <2>3, <2>4 DEF WalkInv
    <2>6. RootPoliciesLoaded'
      BY <2>1 DEF RootPoliciesLoaded, InSource
    <2> QED
      BY <2>5, <2>6
  <1>6. CASE EndOfWalk
    <2> DEFINE new == [policies |-> policies,
                       matched  |-> [i \in DOMAIN policies |-> Matched(policies[i])]]
    <2>1. /\ pc = "walk" /\ entry > Len(WalkOrder) /\ pc' = "lookup"
          /\ static' = Append(static, new) /\ UNCHANGED sources
          /\ Len(static) = at - 1 /\ entry \in 1 .. Len(WalkOrder) + 1
      BY <1>6 DEF EndOfWalk, ShapeInv, TypeOK
    <2> HIDE DEF new
    <2>2. /\ Len(static) \in Nat /\ DOMAIN static' = 1 .. Len(static) + 1
          /\ \A s \in 1 .. Len(static) : static'[s] = static[s] /\ s \in DOMAIN static
          /\ static'[Len(static) + 1] = new
      BY <2>1, Appending DEF ShapeInv
    <2>3. at = Len(static) + 1 /\ new.policies = policies
      <3>1. at \in Nat
        BY DEF ShapeInv, TypeOK
      <3> QED
        BY <2>1, <2>2, <3>1 DEF new
    <2>4. ASSUME NEW s \in DOMAIN static', NEW e \in Entries, AtRoot(e)
          PROVE  InSource(s, e)'
      <3>1. CASE s \in 1 .. Len(static)
        BY <2>1, <2>2, <2>4, <3>1 DEF RootPoliciesLoaded, InSource, AtRoot
      <3>2. CASE s = Len(static) + 1
        <4>1. PICK n \in DOMAIN WalkOrder : WalkOrder[n] = e
          BY DEF Entries
        <4>2. n \in 1 .. entry - 1
          BY <2>1, <4>1, LoadingAssumption
        <4>3. \A k \in DOMAIN sources[at].tree[e].docs : Found(e, k)
          BY <2>1, <2>4, <4>1, <4>2 DEF WalkInv
        <4>4. static'[s].policies = policies /\ sources'[s] = sources[at]
          BY <2>1, <2>2, <2>3, <3>2
        <4> QED
          BY <4>3, <4>4 DEF InSource, Found, Elems
      <3> QED
        BY <2>2, <2>4, <3>1, <3>2
    <2>5. WalkInv'
      BY <2>1 DEF WalkInv
    <2>6. RootPoliciesLoaded'
      BY <2>4 DEF RootPoliciesLoaded, AtRoot
    <2> QED
      BY <2>5, <2>6
  <1>7. CASE LoadTurn \/ LoadReturns \/ Apply \/ Delete \/ BuildFromCluster
    BY <1>7, WalkKept DEF LoadTurn, LoadReturns, Apply, Delete, BuildFromCluster
  <1> QED
    BY <1>1, <1>2, <1>3, <1>4, <1>5, <1>6, <1>7 DEF Next

LEMMA LoadsTyped ==
    ASSUME LoadingInv
    PROVE  loads \in Seq(Loadings) /\ \A s \in DOMAIN loads : loads[s] \in Loadings
  <1>1. loads \in Seq(Loadings)
    BY DEF LoadingInv, ShapeInv, TypeOK, Loadings
  <1> QED
    BY <1>1

\* A turn of the loop of Load compiles one policy, or answers with an error.
LEMMA TurnOfLoad ==
    ASSUME LoadingInv, NEW s \in DOMAIN loads, NEW i \in loads[s].pending, CompileOne(s, i)
    PROVE  \E load \in Loadings :
              /\ loads' = [loads EXCEPT ![s] = load]
              /\ load.pending \cup load.compiled \subseteq loads[s].pending \cup loads[s].compiled
              /\ \/ /\ Answer(s, i) = "compiled" /\ load.answer = loads[s].answer
                    /\ load.pending = loads[s].pending \ {i}
                    /\ load.compiled = loads[s].compiled \cup {i}
                 \/ /\ Answer(s, i) # "compiled" /\ load.answer = Answer(s, i)
                    /\ load.pending = {} /\ load.compiled = {}
  <1>1. loads[s] \in Loadings
    BY LoadsTyped
  <1>2. CASE Answer(s, i) = "compiled"
    <2> DEFINE load == [loads[s] EXCEPT !.pending = @ \ {i}, !.compiled = @ \cup {i}]
    <2>1. load \in Loadings /\ loads' = [loads EXCEPT ![s] = load]
      BY <1>1, <1>2 DEF CompileOne, Answer, Loadings
    <2>2. /\ load.answer = loads[s].answer /\ load.pending = loads[s].pending \ {i}
          /\ load.compiled = loads[s].compiled \cup {i}
      BY <1>1 DEF Loadings
    <2> HIDE DEF load
    <2> QED
      BY <1>2, <2>1, <2>2
  <1>3. CASE Answer(s, i) # "compiled"
    <2> DEFINE load == [loads[s] EXCEPT !.pending = {}, !.answer = Answer(s, i),
                                        !.compiled = {}]
    <2>1. Answer(s, i) \in {"error", "panic"}
      BY <1>3, CompileAnswers DEF Answer
    <2>2. load \in Loadings /\ loads' = [loads EXCEPT ![s] = load]
      BY <1>1, <1>3, <2>1 DEF CompileOne, Answered, Answer, Loadings
    <2>3. load.answer = Answer(s, i) /\ load.pending = {} /\ load.compiled = {}
      BY <1>1 DEF Loadings
    <2> HIDE DEF load
    <2> QED
      BY <1>3, <2>2, <2>3
  <1> QED
    BY <1>2, <1>3

LEMMA ShapeStep == ASSUME LoadingInv, [Next]_vars PROVE ShapeInv'
  <1> USE DEF LoadingInv, ShapeInv
  <1>0. sources \in Seq(Sources) /\ Len(sources) \in Nat /\ at \in Nat
    BY LoadingAssumption DEF TypeOK
  <1>1. CASE UNCHANGED vars
    BY <1>1 DEF vars, TypeOK, Elems
  <1>2. CASE Lookup
    <2>1. Len(WalkOrder) \in Nat
      BY LoadingAssumption
    <2>2. 1 \in 1 .. Len(WalkOrder) + 1
      BY <2>1
    <2> QED
      BY <1>2, <2>2 DEF Lookup, TypeOK, Elems
  <1>3. CASE LookupFails
    BY <1>3 DEF LookupFails, TypeOK, Elems, walk
  <1>4. CASE LoadDocument
    <2>1. Docs \in Seq(Documents) /\ doc \in DOMAIN Docs /\ doc + 1 \in Nat \ {0}
      <3>1. pc = "walk" /\ entry <= Len(WalkOrder) /\ doc <= Len(Docs) /\ doc \in Nat \ {0}
        BY <1>4 DEF LoadDocument, AtDocument, TypeOK
      <3> QED
        BY <3>1, DocsTypes
    <2>2. policies' \in Seq(Policies)
      BY <1>4, <2>1, WithKeeps DEF LoadDocument, Policies, TypeOK
    <2>3. exceptions' \in Seq(Exceptions)
      BY <1>4, <2>1, WithKeeps DEF LoadDocument, Exceptions, TypeOK
    <2> QED
      BY <1>4, <2>1, <2>2, <2>3 DEF LoadDocument, TypeOK, Elems
  <1>5. CASE NextEntry
    <2>1. entry + 1 \in 1 .. Len(WalkOrder) + 1 /\ 1 \in Nat \ {0}
      BY <1>5, LoadingAssumption DEF NextEntry, TypeOK
    <2> QED
      BY <1>5, <2>1 DEF NextEntry, TypeOK, Elems
  <1>6. CASE EndOfWalk
    <2> DEFINE new == [policies |-> policies,
                       matched  |-> [i \in DOMAIN policies |-> Matched(policies[i])]]
               load == [pending |-> DOMAIN policies, compiled |-> {}, answer |-> "none"]
    <2>1. /\ pc = "walk" /\ pc' = "lookup" /\ at' = at + 1
          /\ static' = Append(static, new) /\ loads' = Append(loads, load)
          /\ UNCHANGED <<sources, entry, doc, policies, exceptions, cluster, built>>
          /\ Len(static) = at - 1 /\ Len(loads) = at - 1
      BY <1>6 DEF EndOfWalk, TypeOK
    <2>2. /\ new.policies \in Seq(Policies) /\ DOMAIN new.matched = DOMAIN new.policies
          /\ load \in Loadings /\ load.pending \cup load.compiled = DOMAIN new.policies
      BY DEF TypeOK, Loadings
    <2> HIDE DEF new, load
    <2>3. /\ Len(static) \in Nat /\ DOMAIN static = 1 .. Len(static)
          /\ static' \in Seq(Elems(static')) /\ Len(static') = Len(static) + 1
          /\ DOMAIN static' = 1 .. Len(static) + 1
          /\ \A s \in 1 .. Len(static) : static'[s] = static[s]
          /\ static'[Len(static) + 1] = new
      BY <2>1, Appending
    <2>4. /\ loads \in Seq(Loadings) /\ Len(loads) \in Nat /\ DOMAIN loads = 1 .. Len(loads)
          /\ loads' \in Seq(Loadings) /\ Len(loads') = Len(loads) + 1
          /\ DOMAIN loads' = 1 .. Len(loads) + 1
          /\ \A s \in 1 .. Len(loads) : loads'[s] = loads[s]
          /\ loads'[Len(loads) + 1] = load
      <3>1. loads \in Seq(Loadings)
        BY DEF TypeOK, Loadings
      <3> QED
        BY <2>1, <2>2, <3>1, AppendProperties
    <2>5. Elems(static)' = Elems(static')
      BY DEF Elems
    <2>6. \A s \in DOMAIN static' :
              /\ static'[s].policies \in Seq(Policies)
              /\ DOMAIN static'[s].matched = DOMAIN static'[s].policies
      <3> TAKE s \in DOMAIN static'
      <3>1. CASE s \in 1 .. Len(static)
        BY <2>3, <3>1 DEF TypeOK
      <3>2. CASE s = Len(static) + 1
        BY <2>2, <2>3, <3>2
      <3> QED
        BY <2>3, <3>1, <3>2
    <2>7. \A s \in DOMAIN loads' :
              loads'[s].pending \cup loads'[s].compiled \subseteq DOMAIN static'[s].policies
      <3> TAKE s \in DOMAIN loads'
      <3>1. CASE s \in 1 .. Len(loads)
        BY <2>1, <2>3, <2>4, <3>1 DEF TypeOK
      <3>2. CASE s = Len(loads) + 1
        BY <2>1, <2>2, <2>3, <2>4, <3>2
      <3> QED
        BY <2>4, <3>1, <3>2
    <2>8. at' \in 1 .. Len(sources') + 1 /\ Len(static') = at' - 1 /\ Len(loads') = at' - 1
      BY <1>0, <2>1, <2>3, <2>4
    <2> QED
      BY <2>1, <2>3, <2>4, <2>5, <2>6, <2>7, <2>8 DEF TypeOK, Loadings
  <1>7. CASE Start
    <2>1. at = Len(sources) + 1
      BY <1>0, <1>7 DEF Start, TypeOK
    <2> QED
      BY <1>7, <2>1 DEF Start, TypeOK, Elems, walk
  <1>8. ASSUME UNCHANGED <<walk, pc, cluster, built>>, NEW s \in DOMAIN loads,
               NEW load \in Loadings, loads' = [loads EXCEPT ![s] = load],
               load.pending \cup load.compiled \subseteq DOMAIN static[s].policies
        PROVE  ShapeInv'
    <2>1. loads \in Seq(Loadings)
      BY DEF TypeOK, Loadings
    <2>2. loads' \in Seq(Loadings) /\ Len(loads') = Len(loads) /\ DOMAIN loads' = DOMAIN loads
      BY <1>8, <2>1
    <2>3. \A r \in DOMAIN loads' :
              loads'[r].pending \cup loads'[r].compiled \subseteq DOMAIN static[r].policies
      BY <1>8, <2>1 DEF TypeOK
    <2> QED
      BY <1>8, <2>2, <2>3 DEF TypeOK, Loadings, Elems, walk
  <1>9. CASE LoadTurn
    <2>1. PICK s \in DOMAIN loads : \E i \in loads[s].pending : CompileOne(s, i)
      BY <1>9 DEF LoadTurn
    <2>2. PICK i \in loads[s].pending : CompileOne(s, i)
      BY <2>1
    <2>3. PICK load \in Loadings :
              /\ loads' = [loads EXCEPT ![s] = load]
              /\ load.pending \cup load.compiled \subseteq loads[s].pending \cup loads[s].compiled
      BY <2>2, TurnOfLoad
    <2> QED
      BY <1>8, <1>9, <2>3 DEF LoadTurn, TypeOK
  <1>10. CASE LoadReturns
    <2>1. PICK s \in DOMAIN loads : loads[s].pending = {} /\ Answered(s, "policies")
      BY <1>10 DEF LoadReturns
    <2>2. loads[s] \in Loadings
      BY LoadsTyped
    <2> DEFINE load == [loads[s] EXCEPT !.pending = {}, !.answer = "policies"]
    <2>3. /\ load \in Loadings /\ loads' = [loads EXCEPT ![s] = load]
          /\ load.pending \cup load.compiled \subseteq loads[s].pending \cup loads[s].compiled
      BY <2>1, <2>2 DEF Answered, Loadings
    <2> HIDE DEF load
    <2> QED
      BY <1>8, <1>10, <2>3 DEF LoadReturns, TypeOK
  <1>11. CASE Apply \/ Delete
    <2>1. UNCHANGED <<walk, pc, loads, built>> /\ cluster' \subseteq KubePolicies
      BY <1>11 DEF Apply, Delete, TypeOK
    <2> QED
      BY <2>1 DEF TypeOK, Elems, walk
  <1>12. CASE BuildFromCluster
    <2>1. built'.result \in {"compiled", "error", "panic"}
      BY <1>12, CompileAnswers DEF BuildFromCluster
    <2> QED
      BY <1>12, <2>1 DEF BuildFromCluster, TypeOK, Elems, walk
  <1> QED
    BY <1>1, <1>2, <1>3, <1>4, <1>5, <1>6, <1>7, <1>9, <1>10, <1>11, <1>12 DEF Next

\* Load goes on as it should, and a source that answers does so for all of its
\* policies.
LEMMA LoadStep == ASSUME LoadingInv, [Next]_vars PROVE LoadInv' /\ AllOrNothing'
  <1> USE DEF LoadingInv
  <1>1. ASSUME UNCHANGED <<static, loads>> PROVE LoadInv' /\ AllOrNothing'
    BY <1>1 DEF LoadInv, AllOrNothing, Answer
  <1>2. CASE EndOfWalk
    <2> DEFINE new == [policies |-> policies,
                       matched  |-> [i \in DOMAIN policies |-> Matched(policies[i])]]
               load == [pending |-> DOMAIN policies, compiled |-> {}, answer |-> "none"]
    <2>1. /\ static' = Append(static, new) /\ loads' = Append(loads, load)
          /\ Len(static) = Len(loads)
      BY <1>2 DEF EndOfWalk, ShapeInv, TypeOK
    <2>2. /\ load \in Loadings /\ load.pending = DOMAIN new.policies /\ load.compiled = {}
          /\ load.answer = "none"
      BY DEF Loadings, ShapeInv, TypeOK
    <2> HIDE DEF new, load
    <2>3. /\ \A s \in 1 .. Len(static) : static'[s] = static[s]
          /\ static'[Len(static) + 1] = new
      BY <2>1, Appending DEF ShapeInv
    <2>4. /\ Len(loads) \in Nat /\ DOMAIN loads = 1 .. Len(loads)
          /\ DOMAIN loads' = 1 .. Len(loads) + 1
          /\ \A s \in 1 .. Len(loads) : loads'[s] = loads[s]
          /\ loads'[Len(loads) + 1] = load
      BY <2>1, <2>2, LoadsTyped, AppendProperties
    <2>5. ASSUME NEW s \in DOMAIN loads'
          PROVE  /\ loads'[s].answer = "none" =>
                       /\ loads'[s].pending \cup loads'[s].compiled = DOMAIN static'[s].policies
                       /\ \A i \in loads'[s].compiled : Answer(s, i)' = "compiled"
                 /\ loads'[s].answer # "none" => loads'[s].pending = {}
      <3>1. CASE s \in 1 .. Len(loads)
        BY <2>1, <2>3, <2>4, <3>1 DEF LoadInv, Answer
      <3>2. CASE s = Len(loads) + 1
        BY <2>1, <2>2, <2>3, <2>4, <3>2
      <3> QED
        BY <2>4, <3>1, <3>2
    <2>6. ASSUME NEW s \in DOMAIN loads', loads'[s].answer # "none"
          PROVE  s \in DOMAIN loads /\ loads'[s] = loads[s] /\ static'[s] = static[s]
      BY <2>1, <2>2, <2>3, <2>4, <2>6
    <2>7. AllOrNothing'
      <3> DEFINE answers(s) == {Answer(s, i) : i \in DOMAIN static[s].policies}
      <3>1. ASSUME NEW s \in DOMAIN loads', loads'[s].answer # "none"
            PROVE  /\ DOMAIN static'[s].policies = DOMAIN static[s].policies
                   /\ answers(s)' = answers(s)
        BY <2>6, <3>1 DEF Answer
      <3>2. ASSUME NEW s \in DOMAIN loads, loads[s].answer # "none"
            PROVE  IF answers(s) \subseteq {"compiled"}
                   THEN /\ loads[s].answer = "policies"
                        /\ loads[s].compiled = DOMAIN static[s].policies
                   ELSE loads[s].answer \in answers(s) \ {"compiled"} /\ loads[s].compiled = {}
        BY <3>2 DEF AllOrNothing
      <3> SUFFICES ASSUME NEW s \in DOMAIN loads', loads'[s].answer # "none"
                   PROVE  IF answers(s)' \subseteq {"compiled"}
                          THEN /\ loads'[s].answer = "policies"
                               /\ loads'[s].compiled = DOMAIN static'[s].policies
                          ELSE /\ loads'[s].answer \in answers(s)' \ {"compiled"}
                               /\ loads'[s].compiled = {}
        BY DEF AllOrNothing
      <3> HIDE DEF answers
      <3> QED
        BY <2>6, <3>1, <3>2
    <2> QED
      BY <2>5, <2>7 DEF LoadInv
  <1>3. CASE LoadTurn
    <2>0. UNCHANGED static
      BY <1>3 DEF LoadTurn, walk
    <2>1. PICK s \in DOMAIN loads : \E i \in loads[s].pending : CompileOne(s, i)
      BY <1>3 DEF LoadTurn
    <2>2. PICK i \in loads[s].pending : CompileOne(s, i)
      BY <2>1
    <2>3. PICK load \in Loadings :
              /\ loads' = [loads EXCEPT ![s] = load]
              /\ \/ /\ Answer(s, i) = "compiled" /\ load.answer = loads[s].answer
                    /\ load.pending = loads[s].pending \ {i}
                    /\ load.compiled = loads[s].compiled \cup {i}
                 \/ /\ Answer(s, i) # "compiled" /\ load.answer = Answer(s, i)
                    /\ load.pending = {} /\ load.compiled = {}
      BY <2>2, TurnOfLoad
    <2>4. /\ DOMAIN loads' = DOMAIN loads /\ loads'[s] = load
          /\ \A r \in DOMAIN loads : r # s => loads'[r] = loads[r]
      BY <2>3
    <2>5. /\ loads[s].answer = "none" /\ i \in DOMAIN static[s].policies
          /\ loads[s].pending \cup loads[s].compiled = DOMAIN static[s].policies
          /\ \A j \in loads[s].compiled : Answer(s, j) = "compiled"
      BY <2>2 DEF LoadInv
    <2>6. CASE Answer(s, i) = "compiled"
      <3>1. /\ load.answer = "none"
            /\ load.pending \cup load.compiled = DOMAIN static[s].policies
            /\ \A j \in load.compiled : Answer(s, j) = "compiled"
        BY <2>2, <2>3, <2>5, <2>6
      <3>2. LoadInv'
        BY <2>0, <2>4, <3>1 DEF LoadInv, Answer
      <3>3. AllOrNothing'
        BY <2>0, <2>4, <3>1 DEF AllOrNothing, Answer
      <3> QED
        BY <3>2, <3>3
    <2>7. CASE Answer(s, i) # "compiled"
      <3>1. /\ load.answer = Answer(s, i) /\ load.answer # "none"
            /\ load.pending = {} /\ load.compiled = {}
        BY <2>3, <2>7, CompileAnswers DEF Answer
      <3>2. LoadInv'
        BY <2>0, <2>4, <3>1 DEF LoadInv, Answer
      <3>3. /\ ~ ({Answer(s, j) : j \in DOMAIN static[s].policies} \subseteq {"compiled"})
            /\ load.answer \in {Answer(s, j) : j \in DOMAIN static[s].policies} \ {"compiled"}
        BY <2>5, <2>7, <3>1
      <3>4. AllOrNothing'
        BY <2>0, <2>4, <3>1, <3>3 DEF AllOrNothing, Answer
      <3> QED
        BY <3>2, <3>4
    <2> QED
      BY <2>6, <2>7
  <1>4. CASE LoadReturns
    <2>0. UNCHANGED static
      BY <1>4 DEF LoadReturns, walk
    <2>1. PICK s \in DOMAIN loads : /\ loads[s].pending = {} /\ loads[s].answer = "none"
                                    /\ Answered(s, "policies")
      BY <1>4 DEF LoadReturns
    <2>2. /\ DOMAIN loads' = DOMAIN loads
          /\ loads'[s].answer = "policies" /\ loads'[s].pending = {}
          /\ loads'[s].compiled = loads[s].compiled
          /\ \A r \in DOMAIN loads : r # s => loads'[r] = loads[r]
      BY <2>1, LoadsTyped DEF Answered, Loadings
    <2>3. /\ loads[s].compiled = DOMAIN static[s].policies
          /\ \A i \in DOMAIN static[s].policies : Answer(s, i) = "compiled"
      BY <2>1 DEF LoadInv
    <2>4. LoadInv'
      BY <2>0, <2>2 DEF LoadInv, Answer
    <2>5. AllOrNothing'
      BY <2>0, <2>2, <2>3 DEF AllOrNothing, Answer
    <2> QED
      BY <2>4, <2>5
  <1>5. CASE UNCHANGED vars \/ Lookup \/ LookupFails \/ LoadDocument \/ NextEntry \/ Start
    BY <1>1, <1>5 DEF vars, walk, Lookup, LookupFails, LoadDocument, NextEntry, Start
  <1>6. CASE Apply \/ Delete \/ BuildFromCluster
    BY <1>1, <1>6 DEF walk, Apply, Delete, BuildFromCluster
  <1> QED
    BY <1>2, <1>3, <1>4, <1>5, <1>6 DEF Next

LEMMA ClusterStep == ASSUME LoadingInv, [Next]_vars PROVE ClusterInv'
  <1> USE DEF LoadingInv
  <1>1. CASE UNCHANGED <<cluster, built>>
    BY <1>1 DEF ClusterInv
  <1>2. CASE Apply
    BY <1>2 DEF Apply, ClusterInv
  <1>3. CASE Delete
    BY <1>3 DEF Delete, ClusterInv
  <1>4. CASE BuildFromCluster
    <2>1. UNCHANGED cluster /\ cluster \subseteq KubePolicies
      BY <1>4 DEF BuildFromCluster, ShapeInv, TypeOK
    <2>2. /\ built'.policy \in cluster
          /\ built'.result = Compile(built'.policy, built'.exceptions)
      BY <1>4 DEF BuildFromCluster
    <2> QED
      BY <2>1, <2>2 DEF ClusterInv
  <1>5. CASE UNCHANGED vars \/ Lookup \/ LookupFails \/ LoadDocument \/ NextEntry \/ EndOfWalk
             \/ Start \/ LoadTurn \/ LoadReturns
    BY <1>1, <1>5 DEF vars, Lookup, LookupFails, LoadDocument, NextEntry, EndOfWalk, Start,
                      LoadTurn, LoadReturns
  <1> QED
    BY <1>2, <1>3, <1>4, <1>5 DEF Next

LEMMA InitLoads == Init => LoadingInv
  <1> SUFFICES ASSUME Init PROVE LoadingInv
    OBVIOUS
  <1>1. /\ Len(<<>>) = 0 /\ DOMAIN <<>> = {}
        /\ \A S : <<>> \in Seq(S)
    OBVIOUS
  <1>2. Len(sources) \in Nat /\ Len(WalkOrder) \in Nat
    BY LoadingAssumption DEF Init
  <1>3. ShapeInv
    <2>1. 1 \in 1 .. Len(sources) + 1 /\ 1 \in 1 .. Len(WalkOrder) + 1 /\ 1 \in Nat \ {0}
      BY <1>2
    <2> QED
      BY <1>1, <2>1 DEF Init, ShapeInv, TypeOK, NotBuilt
  <1>4. WalkInv /\ RootPoliciesLoaded /\ LoadInv /\ AllOrNothing /\ ClusterInv
    BY <1>1 DEF Init, WalkInv, RootPoliciesLoaded, LoadInv, AllOrNothing, ClusterInv, NotBuilt
  <1> QED
    BY <1>3, <1>4 DEF LoadingInv

LEMMA LoadingSound == Spec => []LoadingInv
  <1>1. LoadingInv /\ [Next]_vars => LoadingInv'
    BY ShapeStep, WalkStep, LoadStep, ClusterStep DEF LoadingInv
  <1> QED
    BY <1>1, InitLoads, PTL DEF Spec

-----------------------------------------------------------------------------
(* The theorems. *)

\* Types and positions, for any trees and lists of sources.
THEOREM LoadingTypeCorrect == Spec => []TypeOK
  <1>1. LoadingInv => TypeOK
    BY DEF LoadingInv, ShapeInv
  <1> QED
    BY <1>1, LoadingSound, PTL

\* LoadPolicies misses no valid policy of a YAML or JSON file at the root,
\* whatever else is broken, missing or unreadable.
THEOREM RootIsLoaded == Spec => []RootPoliciesLoaded
  <1>1. LoadingInv => RootPoliciesLoaded
    BY DEF LoadingInv
  <1> QED
    BY <1>1, LoadingSound, PTL

\* In whatever order it meets them, the Load of a static source answers with all of
\* its policies or, when one does not compile, with none: the documented behaviour
\* (ValidPoliciesAnswered) fails of every source that mixes the two.
THEOREM LoadIsAllOrNothing == Spec => []AllOrNothing
  <1>1. LoadingInv => AllOrNothing
    BY DEF LoadingInv
  <1> QED
    BY <1>1, LoadingSound, PTL

\* Of what Compile accepts only reads of dyn(variables) can fail: nothing else misses
\* a variable, and variables that wait in a circle do so through one of those.
THEOREM CompiledFailsOnlyDynamic == Spec => []OnlyDynamicReadsFail
  <1>1. ASSUME LoadingInv PROVE OnlyDynamicReadsFail
    <2> USE <1>1 DEF LoadingInv
    <2>1. ASSUME NEW s \in DOMAIN loads, NEW i \in loads[s].compiled
          PROVE  FailsOnlyDynamic(static[s].policies[i], static[s].matched[i])
      <3>1. s \in DOMAIN static /\ i \in DOMAIN static[s].policies
        <4>1. Len(loads) = Len(static) /\ loads \in Seq(Loadings)
          BY LoadsTyped DEF ShapeInv, TypeOK
        <4>2. DOMAIN loads = DOMAIN static
          BY <4>1 DEF ShapeInv
        <4> QED
          BY <2>1, <4>2 DEF ShapeInv, TypeOK
      <3>2. static[s].policies[i] \in Policies
        <4>1. static[s].policies \in Seq(Policies)
          BY <3>1 DEF ShapeInv, TypeOK
        <4> QED
          BY <3>1, <4>1
      <3>3. NamesAreKeys(static[s].policies[i].variables)
        BY <3>2, LoadingAssumption DEF Policies, OfKind
      <3>4. Answer(s, i) = "compiled"
        <4>1. CASE loads[s].answer = "none"
          BY <2>1, <4>1 DEF LoadInv
        <4>2. CASE loads[s].answer # "none"
          <5>1. {Answer(s, j) : j \in DOMAIN static[s].policies} \subseteq {"compiled"}
            BY <2>1, <4>2 DEF AllOrNothing, Answer
          <5> QED
            BY <3>1, <5>1
        <4> QED
          BY <4>1, <4>2
      <3> QED
        BY <3>3, <3>4, CompiledFails DEF Answer
    <2>2. ASSUME built.result = "compiled"
          PROVE  FailsOnlyDynamic(built.policy, built.exceptions)
      <3>1. /\ built.policy \in KubePolicies
            /\ Compile(built.policy, built.exceptions) = "compiled"
        BY <2>2 DEF ClusterInv
      <3> QED
        BY <3>1, CompiledFails, LoadingAssumption
    <2> QED
      BY <2>1, <2>2 DEF OnlyDynamicReadsFail
  <1> QED
    BY <1>1, LoadingSound, PTL

\* What the webhook of its mode admits never gives the kube source an error, and
\* panics only over an exception.
THEOREM AdmittedPoliciesBuild == Spec => []AdmittedBuilds
  <1>1. ASSUME LoadingInv PROVE AdmittedBuilds
    <2> SUFFICES ASSUME built.result # "none", built.policy.mode \in Modes
                 PROVE  /\ built.result # "error"
                        /\ built.result = "panic" =>
                              \E i \in DOMAIN built.exceptions :
                                  ~ ExceptionCompiles(built.exceptions[i], built.policy)
      BY DEF AdmittedBuilds
    <2>1. /\ built.result = Compile(built.policy, built.exceptions)
          /\ Compile(built.policy, <<>>) = "compiled"
      BY <1>1 DEF LoadingInv, ClusterInv, Valid
    <2>2. PolicyCompiles(built.policy)
      BY <2>1, CompileAnswers
    <2> QED
      BY <2>1, <2>2, CompileAnswers
  <1> QED
    BY <1>1, LoadingSound, PTL
===============================================================================
