-------------------------- MODULE AuthzDecisionProofs --------------------------
(***************************************************************************)
(* The engine of both front ends answers with the verdict of the policies, *)
(* and neither lets anyone through unless the verdict says ok or says      *)
(* nothing, for any number of policies.                                    *)
(***************************************************************************)
EXTENDS AuthzDecision, PolicyEvaluationProofs, WellFoundedInduction, TLAPS

\* What has been evaluated is what the policies give, in their order, and no
\* policy was evaluated after one that responded.
Faithful ==
    /\ Len(outs) <= Len(stored)
    /\ \A k \in 1 .. Len(outs) : outs[k] = Given(stored[k])
    /\ \A k \in 1 .. Len(outs) - 1 : outs[k] \notin Answers

\* Evaluate runs for the dispatcher only, for the policy behind those whose outcomes
\* it has.
EvaluationInv ==
    /\ LoopInv
    /\ stored \in PolicyLists /\ outs \in Seq(RuleResults)
    /\ pc # "dispatch" => loop = "none"
    /\ IF loop = "none" THEN Idle
       ELSE /\ Len(outs) < Len(stored) /\ ~ Broken
            /\ Current.compiles /\ policy = Current.program

DecisionInv ==
    /\ TypeOK
    /\ pc \in {"receive", "dispatch"} => Faithful
    /\ EngineAnswersVerdict
    /\ pc = "output" => response # Error
    /\ pc # "done" => reply = Nil
    /\ AllowedByVerdict

\* A set of naturals that is not empty has a least element.
LEMMA LeastExists ==
    ASSUME NEW S \in SUBSET Nat, S # {}
    PROVE  \E x \in S : \A y \in S : x <= y
  <1> DEFINE R == {pair \in Nat \X Nat : pair[1] < pair[2]}
  <1>1. IsWellFoundedOn(R, Nat)
    BY NatLessThanWellFounded DEF OpToRel
  <1>2. \A x, y \in Nat : y < x => <<y, x>> \in R
    OBVIOUS
  <1> HIDE DEF R
  <1>3. PICK x \in S : \A y \in S : <<y, x>> \notin R
    BY <1>1, WFMin
  <1>4. \A y \in S : x \in Nat /\ y \in Nat /\ ~ (y < x)
    BY <1>2, <1>3
  <1>5. \A y \in S : x <= y
    BY <1>4
  <1> QED
    BY <1>5

LEMMA FirstInSet ==
    ASSUME NEW S \in SUBSET Nat, S # {}
    PROVE  First(S) \in S /\ \A y \in S : First(S) <= y
  BY LeastExists DEF First

LEMMA OutcomeTypes ==
    ASSUME NEW program \in Compiled
    PROVE  Outcome(program) \in RuleResults
  <1>1. program.rules \in Seq(RuleResults)
    BY DEF Compiled
  <1>2. CASE Speaking(program) = {}
    BY <1>2 DEF Outcome, Forgiven, Evaluated, RuleResults
  <1>3. CASE Speaking(program) # {}
    <2>1. Speaking(program) \in SUBSET Nat
      BY <1>1 DEF Speaking
    <2>2. First(Speaking(program)) \in Speaking(program)
      BY <1>3, <2>1, FirstInSet
    <2>3. \A k \in DOMAIN program.rules : program.rules[k] \in RuleResults
      BY <1>1
    <2>4. program.rules[First(Speaking(program))] \in RuleResults
      BY <2>2, <2>3 DEF Speaking
    <2> QED
      BY <2>4 DEF Outcome, Forgiven, Evaluated, RuleResults
  <1> QED
    BY <1>2, <1>3

LEMMA GivenTypes ==
    ASSUME NEW program \in StoredPolicy
    PROVE  Given(program) \in RuleResults
  BY OutcomeTypes DEF StoredPolicy, Given, RuleResults

LEMMA StoredShape == TypeOK => stored \in Seq(StoredPolicy)
  BY PolicyListsAssumption DEF TypeOK

LEMMA FirstResultTypes ==
    ASSUME NEW outcomes \in Seq(RuleResults)
    PROVE  FirstResult(outcomes) \in RuleResults
  <1>1. Decided(outcomes) \in SUBSET Nat
    BY DEF Decided
  <1>2. CASE Decided(outcomes) = {}
    BY <1>2 DEF FirstResult, RuleResults
  <1>3. CASE Decided(outcomes) # {}
    <2>1. First(Decided(outcomes)) \in Decided(outcomes)
      BY <1>1, <1>3, FirstInSet
    <2> QED
      BY <1>3, <2>1 DEF FirstResult, Decided
  <1> QED
    BY <1>2, <1>3

\* The outcomes collected when the dispatcher stops decide as all of them would.
LEMMA PrefixDecides ==
    ASSUME TypeOK, Faithful, Len(outs) = Len(stored) \/ Broken
    PROVE  FirstResult(outs) = Verdict
  <1> DEFINE all == [k \in DOMAIN stored |-> Given(stored[k])]
  <1>1. /\ outs \in Seq(RuleResults) /\ stored \in Seq(StoredPolicy)
        /\ DOMAIN all = 1 .. Len(stored)
    BY StoredShape DEF TypeOK
  <1>2. \A k \in DOMAIN outs : k \in DOMAIN all /\ outs[k] = all[k]
    BY <1>1 DEF Faithful
  <1>3. Decided(outs) \subseteq Decided(all) /\ Decided(all) \in SUBSET Nat
    <2>1. \A k \in Decided(all) : k \in 1 .. Len(stored)
      BY <1>1 DEF Decided
    <2> HIDE DEF all
    <2>2. Decided(outs) \subseteq Decided(all)
      BY <1>2 DEF Decided
    <2> QED
      BY <2>1, <2>2
  <1>4. \A k \in Decided(all) : k \in DOMAIN outs => k \in Decided(outs)
    BY <1>2 DEF Decided
  <1> HIDE DEF all
  <1>5. CASE Decided(outs) # {}
    <2>1. PICK k \in Decided(outs) : \A l \in Decided(outs) : k <= l
      BY <1>3, <1>5, LeastExists
    <2>2. k \in 1 .. Len(outs)
      BY <1>1, <2>1 DEF Decided
    <2>3. \A l \in Decided(all) : k <= l
      <3> SUFFICES ASSUME NEW l \in Decided(all) PROVE k <= l
        OBVIOUS
      <3>1. CASE l \in DOMAIN outs
        BY <1>4, <2>1, <3>1
      <3>2. CASE l \notin DOMAIN outs
        <4>1. l \in Nat \ {0}
          BY <1>1 DEF Decided
        <4> QED
          BY <1>1, <2>2, <3>2, <4>1
      <3> QED
        BY <3>1, <3>2
    <2>4. First(Decided(outs)) = k
      BY <1>3, <2>1, FirstIsLeast
    <2>5. k \in Decided(all) /\ First(Decided(all)) = k
      BY <1>3, <2>1, <2>3, FirstIsLeast
    <2>6. outs[k] = all[k]
      BY <1>2, <2>1 DEF Decided
    <2> QED
      BY <1>5, <2>4, <2>5, <2>6 DEF FirstResult, Verdict, all
  <1>6. CASE Decided(outs) = {}
    <2>1. ~ Broken
      <3> SUFFICES ASSUME Broken PROVE FALSE
        OBVIOUS
      <3>1. Len(outs) \in DOMAIN outs
        BY <1>1 DEF Broken
      <3> QED
        BY <1>6, <3>1, AnswersAssumption DEF Broken, Decided
    <2>2. DOMAIN outs = DOMAIN all
      BY <1>1, <2>1
    <2>3. Decided(all) = {}
      BY <1>4, <1>6, <2>2 DEF Decided
    <2> QED
      BY <1>6, <2>3 DEF FirstResult, Verdict, all
  <1> QED
    BY <1>5, <1>6

\* No one is let through before the reply.
LEMMA NoReplyYet == reply = Nil => ~ LetThrough
  BY AnswersAssumption, ResponsesAssumption, OutputAssumption DEF LetThrough, Statuses

\* Nor by a step that does not reply.
LEMMA StillNoReply ==
    ASSUME reply = Nil, UNCHANGED reply
    PROVE  AllowedByVerdict' /\ (pc # "done" => reply = Nil)'
  BY AnswersAssumption, ResponsesAssumption, OutputAssumption
     DEF AllowedByVerdict, LetThrough, Statuses

LEMMA DecisionInit == Init => DecisionInv
  <1> SUFFICES ASSUME Init PROVE DecisionInv
    OBVIOUS
  <1>1. TypeOK
    BY IdleSound DEF Init, TypeOK, RuleResults, Decisions, Sources, LoopInv
  <1>2. Faithful
    BY <1>1, StoredShape DEF Init, Faithful
  <1> QED
    BY <1>1, <1>2, NoReplyYet DEF Init, DecisionInv, EngineAnswersVerdict, AllowedByVerdict

\* Both handlers keep the types when they return.
LEMMA ReturnTypes ==
    ASSUME TypeOK, NEW value \in Answers \cup Statuses \cup {"500", Error},
           Return(value), decision' \in Decisions, source' \in Sources
    PROVE  /\ pc' = "done"
           /\ recorded' \in Seq(Decisions \X Sources)
           /\ reply' \in Answers \cup Statuses \cup {Nil, "500", Error}
  BY DEF TypeOK, Return

\* What is known of the evaluation under way survives each step.
LEMMA EvaluationStep ==
    ASSUME EvaluationInv, Next
    PROVE  EvaluationInv'
  <1>0. LoopInv /\ outs \in Seq(RuleResults) /\ stored \in Seq(StoredPolicy)
    BY PolicyListsAssumption DEF EvaluationInv
  <1>1. CASE UNCHANGED <<stored, outs, evaluation>> /\ loop = "none"
    <2>1. LoopInv' /\ (Idle => Idle')
      BY <1>0, <1>1, LoopStutters DEF evaluation, Idle
    <2> QED
      BY <1>1, <2>1 DEF EvaluationInv, evaluation
  <1>2. CASE SkipPolicy
    <2>1. /\ outs' = Append(outs, Nil) /\ stored' = stored /\ pc' = pc /\ loop = "none"
          /\ UNCHANGED evaluation
      BY <1>2 DEF SkipPolicy, Undecided, inputs
    <2>2. outs' \in Seq(RuleResults)
      BY <1>0, <2>1 DEF RuleResults
    <2>3. LoopInv' /\ (Idle => Idle') /\ loop' = loop
      BY <1>0, <2>1, LoopStutters DEF evaluation, Idle
    <2> QED
      BY <2>1, <2>2, <2>3 DEF EvaluationInv
  <1>3. CASE CallPolicy
    <2>1. /\ Len(outs) < Len(stored) /\ ~ Broken /\ Current.compiles /\ Idle
          /\ Call(Current.program) /\ UNCHANGED <<stored, outs, pc>> /\ pc = "dispatch"
      BY <1>3 DEF CallPolicy, Undecided, inputs, EvaluationInv
    <2>2. Current.program \in Compiled
      <3>1. Len(outs) + 1 \in 1 .. Len(stored)
        BY <1>0, <2>1
      <3>2. Current \in StoredPolicy
        BY <1>0, <3>1 DEF Current
      <3> QED
        BY <3>2 DEF StoredPolicy
    <2>3. LoopInv'
      BY <1>0, <2>1, <2>2, CallStep
    <2>4. policy' = Current.program /\ loop' = "match" /\ Current' = Current /\ Broken' = Broken
      BY <2>1 DEF Call, Current, Broken
    <2> QED
      BY <1>0, <2>1, <2>3, <2>4 DEF EvaluationInv
  <1>4. CASE EvaluatePolicy
    <2>1. UNCHANGED <<stored, outs, pc>> /\ pc = "dispatch" /\ Evaluation
      BY <1>4 DEF EvaluatePolicy, inputs
    <2>2. LoopInv' /\ policy' = policy /\ loop # "none" /\ loop' # "none"
      BY <1>0, <2>1, TurnStep
    <2>3. Current' = Current /\ Broken' = Broken
      BY <2>1 DEF Current, Broken
    <2> QED
      BY <2>1, <2>2, <2>3 DEF EvaluationInv
  <1>5. CASE TakeOutcome
    <2>1. Leave /\ outs' = Append(outs, result) /\ UNCHANGED stored
      BY <1>5 DEF TakeOutcome, inputs
    <2>2. LoopInv' /\ Idle'
      BY <2>1, LeaveStep
    <2>3. outs' \in Seq(RuleResults)
      BY <1>0, <2>1 DEF LoopInv, EvaluationTypeOK
    <2> QED
      BY <2>1, <2>2, <2>3 DEF EvaluationInv, Idle
  <1>6. CASE AcceptRequest \/ DispatchEnd \/ Http \/ Envoy
    <2>1. loop = "none"
      BY <1>6 DEF AcceptRequest, DispatchEnd, DispatchOver, Http, RejectRequest, HttpError,
         HttpDecide, HttpOutput, Envoy, EnvoyError, EnvoyDecide, EvaluationInv
    <2>2. UNCHANGED <<stored, outs, evaluation>>
      BY <1>6 DEF AcceptRequest, DispatchEnd, Http, RejectRequest, HttpError,
         HttpDecide, HttpOutput, Envoy, EnvoyError, EnvoyDecide, inputs, dispatch
    <2> QED
      BY <1>1, <2>1, <2>2
  <1> QED
    BY <1>2, <1>3, <1>4, <1>5, <1>6 DEF Next, Engine, Dispatch

\* Evaluations are sound, however many the dispatcher asks for.
THEOREM EvaluationSound == Spec => []EvaluationInv
  <1>1. Init => EvaluationInv
    BY IdleSound DEF Init, EvaluationInv, Idle
  <1>2. EvaluationInv /\ [Next]_vars => EvaluationInv'
    <2> SUFFICES ASSUME EvaluationInv, [Next]_vars PROVE EvaluationInv'
      OBVIOUS
    <2>1. CASE UNCHANGED vars
      <3>1. LoopInv' /\ (Idle => Idle')
        BY <2>1, LoopStutters DEF EvaluationInv, vars, evaluation, Idle
      <3> QED
        BY <2>1, <3>1 DEF EvaluationInv, vars, evaluation, Current, Broken
    <2> QED
      BY <2>1, EvaluationStep
  <1> QED
    BY <1>1, <1>2, PTL DEF Spec

\* The dispatcher adds the outcome of the next policy.
LEMMA OneMore ==
    ASSUME TypeOK, Faithful, Len(outs) < Len(stored), ~ Broken,
           outs' = Append(outs, Given(Current)), stored' = stored
    PROVE  Faithful' /\ outs' \in Seq(RuleResults)
  <1>1. outs \in Seq(RuleResults) /\ stored \in Seq(StoredPolicy)
    BY StoredShape DEF TypeOK
  <1> DEFINE given == Given(Current)
  <1>2. given \in RuleResults /\ given = Given(stored[Len(outs) + 1])
    BY <1>1, GivenTypes DEF Current
  <1>3. outs' = Append(outs, given)
    OBVIOUS
  <1> HIDE DEF given
  <1>4. /\ outs' \in Seq(RuleResults) /\ Len(outs') = Len(outs) + 1
        /\ \A k \in 1 .. Len(outs) : outs'[k] = outs[k]
        /\ outs'[Len(outs) + 1] = given
    BY <1>1, <1>2, <1>3
  <1>5. Len(outs') <= Len(stored')
    BY <1>1, <1>4
  <1>6. \A k \in 1 .. Len(outs') : outs'[k] = Given(stored'[k])
    <2> SUFFICES ASSUME NEW k \in 1 .. Len(outs') PROVE outs'[k] = Given(stored'[k])
      OBVIOUS
    <2>1. k \in 1 .. Len(outs) \/ k = Len(outs) + 1
      BY <1>1, <1>4
    <2> QED
      BY <1>2, <1>4, <2>1 DEF Faithful
  <1>7. \A k \in 1 .. Len(outs') - 1 : outs'[k] \notin Answers
    <2> SUFFICES ASSUME NEW k \in 1 .. Len(outs') - 1 PROVE outs'[k] \notin Answers
      OBVIOUS
    <2>1. k \in 1 .. Len(outs) /\ (k \in 1 .. Len(outs) - 1 \/ k = Len(outs))
      BY <1>1, <1>4
    <2>2. outs # <<>>
      BY <1>1, <2>1
    <2> QED
      BY <1>4, <2>1, <2>2 DEF Faithful, Broken
  <1> QED
    BY <1>4, <1>5, <1>6, <1>7 DEF Faithful

LEMMA EngineStep ==
    ASSUME DecisionInv, EvaluationInv, EvaluationInv', Engine
    PROVE  DecisionInv'
  <1>0. /\ TypeOK /\ pc \in {"receive", "dispatch"} /\ Faithful /\ EvaluationTypeOK'
        /\ AllowedByVerdict' /\ (pc # "done" => reply = Nil)'
    BY StillNoReply DEF DecisionInv, Engine, Dispatch, AcceptRequest, SkipPolicy, Undecided,
       CallPolicy, EvaluatePolicy, TakeOutcome, DispatchEnd, DispatchOver, EvaluationInv, LoopInv
  <1>1. outs \in Seq(RuleResults) /\ stored \in Seq(StoredPolicy)
    BY <1>0, StoredShape DEF TypeOK
  <1>2. CASE AcceptRequest \/ CallPolicy \/ EvaluatePolicy
    <2>1. /\ UNCHANGED <<inputs, outs, response, locals, events, requestStatus, recorded, reply>>
          /\ pc' = "dispatch"
      BY <1>2 DEF AcceptRequest, CallPolicy, Undecided, EvaluatePolicy, dispatch
    <2>2. TypeOK'
      BY <1>0, <2>1 DEF TypeOK, inputs, locals
    <2> QED
      BY <1>0, <2>1, <2>2 DEF DecisionInv, Faithful, EngineAnswersVerdict, inputs
  <1>3. CASE SkipPolicy \/ TakeOutcome
    <2>1. /\ UNCHANGED <<inputs, response, locals, events, requestStatus, recorded, reply>>
          /\ pc' = "dispatch"
      BY <1>3 DEF SkipPolicy, Undecided, TakeOutcome
    <2>2. Len(outs) < Len(stored) /\ ~ Broken /\ outs' = Append(outs, Given(Current))
      <3>1. CASE SkipPolicy
        BY <3>1 DEF SkipPolicy, Undecided, Given
      <3>2. CASE TakeOutcome
        <4>1. loop = "returned" /\ outs' = Append(outs, result)
          BY <3>2 DEF TakeOutcome, Leave
        <4>2. Current.compiles /\ policy = Current.program /\ Len(outs) < Len(stored) /\ ~ Broken
          BY <4>1 DEF EvaluationInv
        <4>3. result = Outcome(policy)
          BY <4>1 DEF EvaluationInv, LoopInv, EvaluatesToOutcome
        <4> QED
          BY <4>1, <4>2, <4>3 DEF Given
      <3> QED
        BY <1>3, <3>1, <3>2
    <2>3. Faithful' /\ outs' \in Seq(RuleResults)
      BY <1>0, <2>1, <2>2, OneMore DEF inputs
    <2>4. TypeOK'
      BY <1>0, <2>1, <2>3 DEF TypeOK, inputs, locals
    <2> QED
      BY <1>0, <2>1, <2>3, <2>4 DEF DecisionInv, EngineAnswersVerdict
  <1>4. CASE DispatchEnd
    <2>1. response' = Verdict
      BY <1>0, <1>4, PrefixDecides DEF DispatchEnd, DispatchOver
    <2>2. Verdict' = Verdict
      BY <1>4 DEF DispatchEnd, inputs, Verdict
    <2>3. response' \in RuleResults
      BY <1>1, <1>4, FirstResultTypes DEF DispatchEnd
    <2>4. TypeOK'
      BY <1>0, <1>4, <2>3 DEF TypeOK, DispatchEnd, inputs, locals
    <2> QED
      BY <1>0, <1>4, <2>1, <2>2, <2>4 DEF DecisionInv, DispatchEnd, EngineAnswersVerdict
  <1> QED
    BY <1>2, <1>3, <1>4 DEF Engine, Dispatch

\* A handler that returns keeps the invariant if what it replies is allowed.
LEMMA ReturnKeeps ==
    ASSUME DecisionInv, EvaluationTypeOK', pc # "dispatch",
           NEW value \in Answers \cup Statuses \cup {"500", Error},
           UNCHANGED <<inputs, dispatch>>, Return(value),
           decision' \in Decisions, source' \in Sources,
           events' \in Seq(EventKinds),
           requestStatus' \in {Nil, "ok", "denied", "code", Error},
           value \in {"200", "ok", "empty"} /\ output = DefaultOutput =>
              Verdict = Nil \/ SaysOk(Verdict) \/ (front = "envoy" /\ Verdict = "empty")
    PROVE  DecisionInv'
  <1>1. pc' = "done" /\ reply' = value
    BY DEF Return
  <1>2. TypeOK'
    BY ReturnTypes DEF DecisionInv, TypeOK, inputs, dispatch
  <1>3. AllowedByVerdict'
    <2>1. Verdict' = Verdict /\ output' = output /\ front' = front
      BY DEF inputs, Verdict
    <2> QED
      BY <1>1, <2>1 DEF AllowedByVerdict, LetThrough
  <1> QED
    BY <1>1, <1>2, <1>3 DEF DecisionInv, EngineAnswersVerdict

LEMMA HttpStep ==
    ASSUME DecisionInv, EvaluationInv', Http
    PROVE  DecisionInv'
  <1>0. TypeOK /\ EngineAnswersVerdict /\ EvaluationTypeOK'
    BY DEF DecisionInv, EvaluationInv, LoopInv
  <1> USE ResponsesAssumption, AnswersAssumption, OutputAssumption
  <1>1. CASE RejectRequest
    BY <1>0, <1>1, ReturnKeeps DEF RejectRequest, inputs, dispatch, locals, TypeOK, Statuses
  <1>2. CASE HttpError
    <2>1. events' \in Seq(EventKinds)
      BY <1>0, <1>2 DEF HttpError, Push, EventKind, EventKinds, TypeOK
    <2> QED
      BY <1>0, <1>2, <2>1, ReturnKeeps DEF HttpError, TypeOK, Sources
  <1>3. CASE HttpDecide
    <2>1. events' \in Seq(EventKinds)
      BY <1>0, <1>3 DEF HttpDecide, Push, EventKind, EventKinds, TypeOK
    <2>2. decision' \in Decisions /\ source' \in Sources
      BY <1>3 DEF HttpDecide, Decisions, Sources
    <2>3. AllowedByVerdict' /\ (pc # "done" => reply = Nil)'
      BY <1>3, StillNoReply DEF DecisionInv, HttpDecide
    <2>4. TypeOK'
      BY <1>0, <1>3, <2>1, <2>2 DEF TypeOK, HttpDecide, inputs, dispatch
    <2>5. EngineAnswersVerdict'
      BY <1>0, <1>3 DEF EngineAnswersVerdict, HttpDecide, inputs, dispatch, Verdict
    <2> QED
      BY <1>3, <2>3, <2>4, <2>5 DEF DecisionInv, HttpDecide, dispatch
  <1>4. CASE HttpOutput
    <2>1. response = Verdict /\ response \in RuleResults \ {Error}
      BY <1>0, <1>4 DEF DecisionInv, EngineAnswersVerdict, HttpOutput, TypeOK
    <2>2. HttpResult \in Answers
      BY <1>4, <2>1 DEF HttpResult, RuleResults, HttpOutput
    <2>3. output \in [Answers -> Statuses \cup {Error}]
      BY <1>0 DEF TypeOK
    <2>4. requestStatus' \in {"ok", "denied"} /\ UNCHANGED <<inputs, dispatch, events>>
      BY <1>4 DEF HttpOutput
    <2>5. CASE output[HttpResult] = Error
      <3>1. decision' = "error" /\ source' = "server" /\ Return("500")
        BY <1>4, <2>5 DEF HttpOutput
      <3> QED
        BY <1>0, <1>4, <2>4, <3>1, ReturnKeeps
           DEF HttpOutput, TypeOK, Decisions, Sources, inputs, dispatch
    <2>6. CASE output[HttpResult] # Error
      <3>1. decision' = decision /\ source' = source /\ Return(output[HttpResult])
        BY <1>4, <2>6 DEF HttpOutput, locals
      <3>2. output[HttpResult] \in Statuses
        BY <2>2, <2>3, <2>6
      <3>3. output[HttpResult] = "200" /\ output = DefaultOutput => Verdict = Nil \/ SaysOk(Verdict)
        <4> SUFFICES ASSUME output[HttpResult] = "200", output = DefaultOutput
                     PROVE  SaysOk(HttpResult)
          BY <2>1 DEF HttpResult
        <4> QED
          BY <2>2 DEF DefaultOutput
      <3>4. output[HttpResult] \notin {"ok", "empty"}
        BY <3>2 DEF Statuses
      <3> QED
        BY <1>0, <1>4, <2>4, <3>1, <3>2, <3>3, <3>4, ReturnKeeps
           DEF HttpOutput, TypeOK, inputs, dispatch
    <2> QED
      BY <2>5, <2>6
  <1> QED
    BY <1>1, <1>2, <1>3, <1>4 DEF Http

LEMMA EnvoyStep ==
    ASSUME DecisionInv, EvaluationInv', Envoy
    PROVE  DecisionInv'
  <1>0. /\ TypeOK /\ response = Verdict /\ response \in RuleResults
        /\ pc = "conclude" /\ front = "envoy" /\ EvaluationTypeOK'
    BY DEF DecisionInv, EvaluationInv, LoopInv, EngineAnswersVerdict, Envoy, EnvoyError, EnvoyDecide, TypeOK
  <1> USE ResponsesAssumption, AnswersAssumption, OutputAssumption
  <1>1. \A value : Push(value) => events' \in Seq(EventKinds)
    BY <1>0 DEF Push, EventKind, EventKinds, TypeOK
  <1>2. CASE EnvoyError
    <2>1. /\ decision' = decision /\ source' = "engine" /\ requestStatus' = Error
          /\ Return(Error) /\ Push(Error) /\ UNCHANGED <<inputs, dispatch>>
      BY <1>2 DEF EnvoyError
    <2> QED
      BY <1>0, <1>1, <2>1, ReturnKeeps DEF TypeOK, Sources, Error
  <1>3. CASE EnvoyDecide
    <2>1. EnvoyResult \in Answers
      BY <1>0, <1>3 DEF EnvoyDecide, EnvoyResult, RuleResults
    <2>2. EnvoyResult \in {"ok", "empty"} =>
             Verdict = Nil \/ SaysOk(Verdict) \/ Verdict = "empty"
      BY <1>0 DEF EnvoyResult, SaysOk
    <2>3. decision' \in Decisions /\ source' \in Sources
      BY <1>3 DEF EnvoyDecide, Decisions, Sources
    <2>4. /\ requestStatus' = "code" /\ Return(EnvoyResult) /\ Push(EnvoyResult)
          /\ UNCHANGED <<inputs, dispatch>>
      BY <1>3 DEF EnvoyDecide
    <2>5. EnvoyResult # "200"
      BY <2>1
    <2>6. requestStatus' \in {Nil, "ok", "denied", "code", Error}
      BY <2>1, <2>4
    <2>7. EnvoyResult \in {"200", "ok", "empty"} =>
             Verdict = Nil \/ SaysOk(Verdict) \/ (front = "envoy" /\ Verdict = "empty")
      BY <1>0, <2>2, <2>5
    <2> HIDE DEF EnvoyResult
    <2> QED
      BY <1>0, <1>1, <2>1, <2>3, <2>4, <2>6, <2>7, ReturnKeeps
  <1> QED
    BY <1>2, <1>3 DEF Envoy

\* The invariant holds of every request.
THEOREM DecisionSound == Spec => []DecisionInv
  <1>1. DecisionInv /\ EvaluationInv /\ EvaluationInv' /\ [Next]_vars => DecisionInv'
    <2> SUFFICES ASSUME DecisionInv, EvaluationInv, EvaluationInv', [Next]_vars
                 PROVE  DecisionInv'
      OBVIOUS
    <2>1. CASE UNCHANGED vars
      BY <2>1 DEF vars, DecisionInv, EvaluationInv, LoopInv, TypeOK, Faithful, EngineAnswersVerdict, Verdict,
         AllowedByVerdict, LetThrough
    <2> QED
      BY <2>1, EngineStep, HttpStep, EnvoyStep DEF Next
  <1> QED
    BY <1>1, DecisionInit, EvaluationSound, PTL DEF Spec

\* The loops of policy.go compute the outcome the policy defines, whatever the
\* numbers of its conditions, exceptions and rules.
THEOREM EvaluationIsOutcome == Spec => []EvaluatesToOutcome
  <1>1. EvaluationInv => EvaluatesToOutcome
    BY DEF EvaluationInv, LoopInv
  <1> QED
    BY <1>1, EvaluationSound, PTL

\* The dispatcher, the breaker and the resulter together give the verdict of the
\* policies, however many there are.
THEOREM EngineIsVerdict == Spec => []EngineAnswersVerdict
  <1>1. DecisionInv => EngineAnswersVerdict
    BY DEF DecisionInv
  <1> QED
    BY <1>1, DecisionSound, PTL

\* No request passes on the default output expression unless the policy that
\* decided says ok (alone or beside a denial), Envoy gets its empty response, or no
\* policy says anything: errors and refusals in front of an ok are never lost.
THEOREM NonePassesWithoutOk == Spec => []AllowedByVerdict
  <1>1. DecisionInv => AllowedByVerdict
    BY DEF DecisionInv
  <1> QED
    BY <1>1, DecisionSound, PTL

\* The variables of a handler keep their types.
THEOREM DecisionTypeCorrect == Spec => []TypeOK
  <1>1. DecisionInv => TypeOK
    BY DEF DecisionInv
  <1> QED
    BY <1>1, DecisionSound, PTL

-----------------------------------------------------------------------------
(* What is recorded of a request, counted and pushed.                        *)

\* Nothing is observed before the engine has answered, and the local decision is
\* an error until then.
Unobserved ==
    events = <<>> /\ requestStatus = Nil /\ recorded = <<>> /\ decision = "error"

ObserversInv ==
    /\ pc \in {"receive", "dispatch", "conclude"} => Unobserved
    /\ pc = "output" =>
          /\ events = <<EventKind(HttpResult)>> /\ HttpResult \in Answers
          /\ requestStatus = Nil /\ recorded = <<>> /\ decision \in {"allow", "deny"}
    /\ RecordedAsReplied
    /\ ObserversAgree

LEMMA ObserversInit == Init => ObserversInv
  BY DEF Init, ObserversInv, Unobserved, RecordedAsReplied, ObserversAgree

\* The deferred call records the one pair of locals there is.
LEMMA RecordedOnce ==
    ASSUME recorded = <<>>, NEW value, Return(value)
    PROVE  pc' = "done" /\ reply' = value /\ Len(recorded') = 1 /\ recorded'[1][1] = decision'
  BY DEF Return

\* An answer is neither an error nor a status, and its event is no error.
LEMMA AnswersAreNoErrors ==
    ASSUME NEW value \in Answers
    PROVE  /\ value \notin {"500", Error, Nil}
           /\ EventKind(value) = IF SaysDenied(value) THEN "Denied" ELSE "Allowed"
  BY AnswersAssumption, ResponsesAssumption DEF EventKind, Error

LEMMA ObserversStep ==
    ASSUME TypeOK, ObserversInv, Next
    PROVE  ObserversInv'
  <1>1. CASE Engine
    BY <1>1 DEF Engine, Dispatch, AcceptRequest, SkipPolicy, Undecided, CallPolicy,
       EvaluatePolicy, TakeOutcome, DispatchEnd, DispatchOver, TypeOK, ObserversInv,
       Unobserved, RecordedAsReplied, ObserversAgree, locals
  <1>2. CASE RejectRequest
    <2>1. Unobserved /\ Return("500") /\ UNCHANGED <<locals, events, requestStatus>>
      BY <1>2 DEF RejectRequest, ObserversInv
    <2> QED
      BY <2>1, RecordedOnce DEF Unobserved, ObserversInv, RecordedAsReplied,
         ObserversAgree, locals
  <1>3. CASE HttpError \/ EnvoyError
    <2>1. PICK value \in {"500", Error} : Return(value)
      BY <1>3 DEF HttpError, EnvoyError
    <2>2. /\ Unobserved /\ decision' = "error" /\ requestStatus' = Error
          /\ events' = <<"Errored">>
      <3>1. Unobserved /\ decision' = decision /\ requestStatus' = Error /\ Push(Error)
        BY <1>3 DEF HttpError, EnvoyError, ObserversInv
      <3>2. EventKind(Error) = "Errored"
        BY DEF EventKind
      <3> QED
        BY <3>1, <3>2 DEF Unobserved, Push
    <2>3. Error \notin {Nil, "ok", "denied"}
      BY AnswersAssumption, ResponsesAssumption
    <2> QED
      BY <2>1, <2>2, <2>3, RecordedOnce DEF Unobserved, ObserversInv, RecordedAsReplied,
         ObserversAgree
  <1>4. CASE HttpDecide
    <2>1. Unobserved /\ response \in RuleResults \ {Error}
      BY <1>4 DEF HttpDecide, ObserversInv, TypeOK
    <2>2. HttpResult \in Answers /\ HttpResult' = HttpResult
      BY <1>4, <2>1, ResponsesAssumption DEF HttpDecide, HttpResult, RuleResults, dispatch
    <2>3. events' = <<EventKind(HttpResult)>>
      BY <1>4, <2>1 DEF HttpDecide, Push, Unobserved
    <2>4. EventKind(HttpResult') = EventKind(HttpResult)
      BY <2>2
    <2> QED
      BY <1>4, <2>1, <2>2, <2>3, <2>4 DEF HttpDecide, Unobserved, ObserversInv,
         RecordedAsReplied, ObserversAgree
  <1>5. CASE HttpOutput
    <2>1. /\ events = <<EventKind(HttpResult)>> /\ HttpResult \in Answers
          /\ recorded = <<>> /\ decision \in {"allow", "deny"} /\ events' = events
          /\ requestStatus' = IF SaysDenied(HttpResult) THEN "denied" ELSE "ok"
      BY <1>5 DEF HttpOutput, ObserversInv
    <2>2. ObserversAgree'
      <3>1. requestStatus' \notin {Nil, Error}
        BY <2>1, AnswersAssumption, ResponsesAssumption
      <3> QED
        BY <2>1, <3>1, AnswersAreNoErrors DEF ObserversAgree
    <2>3. PICK value : /\ Return(value)
                       /\ decision' = "error" <=> value \in {"500", Error}
      <3>1. CASE output[HttpResult] = Error
        BY <1>5, <3>1 DEF HttpOutput
      <3>2. CASE output[HttpResult] # Error
        <4>1. output[HttpResult] \in Statuses
          BY <2>1, <3>2, OutputAssumption DEF TypeOK
        <4> QED
          BY <1>5, <2>1, <3>2, <4>1 DEF HttpOutput, locals, Statuses
      <3> QED
        BY <3>1, <3>2
    <2>4. /\ pc' = "done" /\ reply' = value
          /\ Len(recorded') = 1 /\ recorded'[1][1] = decision'
      BY <2>1, <2>3, RecordedOnce
    <2> QED
      BY <2>2, <2>3, <2>4 DEF ObserversInv, RecordedAsReplied
  <1>6. CASE EnvoyDecide
    <2>1. Unobserved /\ response \in RuleResults \ {Error}
      BY <1>6 DEF EnvoyDecide, ObserversInv, TypeOK
    <2>2. EnvoyResult \in Answers
      BY <2>1, ResponsesAssumption DEF EnvoyResult, RuleResults
    <2>3. /\ events' = <<EventKind(EnvoyResult)>> /\ requestStatus' = "code"
          /\ decision' \in {"allow", "deny"} /\ Return(EnvoyResult)
      BY <1>6, <2>1 DEF EnvoyDecide, Push, Unobserved
    <2>4. /\ pc' = "done" /\ reply' = EnvoyResult
          /\ Len(recorded') = 1 /\ recorded'[1][1] = decision'
      BY <2>1, <2>3, RecordedOnce DEF Unobserved
    <2>5. RecordedAsReplied'
      BY <2>2, <2>3, <2>4, AnswersAreNoErrors DEF RecordedAsReplied
    <2>6. "code" \notin {Nil, Error}
      BY OutputAssumption DEF Error
    <2>7. ObserversAgree'
      BY <2>2, <2>3, <2>6, AnswersAreNoErrors DEF ObserversAgree
    <2> QED
      BY <2>4, <2>5, <2>7 DEF ObserversInv
  <1> QED
    BY <1>1, <1>2, <1>3, <1>4, <1>5, <1>6 DEF Next, Http, Envoy

\* What is observed of a request agrees with its state at every step.
THEOREM ObserversSound == Spec => []ObserversInv
  <1>1. TypeOK /\ ObserversInv /\ [Next]_vars => ObserversInv'
    <2> SUFFICES ASSUME TypeOK, ObserversInv, [Next]_vars PROVE ObserversInv'
      OBVIOUS
    <2>1. CASE UNCHANGED vars
      BY <2>1 DEF vars, ObserversInv, Unobserved, RecordedAsReplied, ObserversAgree,
         HttpResult
    <2> QED
      BY <2>1, ObserversStep
  <1> QED
    BY <1>1, ObserversInit, DecisionTypeCorrect, PTL DEF Spec

\* Whatever path a handler returns by, one decision is recorded of its request,
\* and it is an error exactly when the caller gets one.
THEOREM DecisionIsRecorded == Spec => []RecordedAsReplied
  <1>1. ObserversInv => RecordedAsReplied
    BY DEF ObserversInv
  <1> QED
    BY <1>1, ObserversSound, PTL

\* Events and request counts tell the same story of every request.
THEOREM ObserversTellTheSame == Spec => []ObserversAgree
  <1>1. ObserversInv => ObserversAgree
    BY DEF ObserversInv
  <1> QED
    BY <1>1, ObserversSound, PTL
===============================================================================
