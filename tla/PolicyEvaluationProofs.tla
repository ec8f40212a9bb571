------------------------ MODULE PolicyEvaluationProofs ------------------------
(***************************************************************************)
(* The loops of PolicyEvaluation compute Outcome, for policies with any    *)
(* number of conditions, exceptions and rules.                             *)
(***************************************************************************)
EXTENDS PolicyEvaluation, TLAPS

\* What the finished turns of each loop have established.
MatchSoFar ==
    loop = "match" =>
        /\ i <= Len(policy.matchConditions) + 1
        /\ \A k \in 1 .. i - 1 : policy.matchConditions[k] # "false"
        /\ errs > 0 <=> \E k \in 1 .. i - 1 : policy.matchConditions[k] = Error

Matched == ~ Occurs("false", policy.matchConditions) /\ ~ Occurs(Error, policy.matchConditions)

ExceptionsSoFar ==
    loop = "exceptions" =>
        /\ Matched
        /\ i <= Len(policy.exceptions) + 1
        /\ \A k \in Settling(policy) : i <= k
        /\ i <= Len(policy.exceptions) =>
              /\ j <= Len(policy.exceptions[i]) + 1
              /\ \A k \in 1 .. j - 1 : policy.exceptions[i][k] # Error
              /\ exceptionMatches <=> \A k \in 1 .. j - 1 : policy.exceptions[i][k] # "false"

RulesSoFar ==
    loop = "rules" =>
        /\ Matched
        /\ Settling(policy) = {}
        /\ i <= Len(policy.rules) + 1
        /\ \A k \in Speaking(policy) : i <= k

LoopInv == EvaluationTypeOK /\ MatchSoFar /\ ExceptionsSoFar /\ RulesSoFar /\ EvaluatesToOutcome

\* The parts of a policy are sequences.
LEMMA PolicyShape ==
    ASSUME EvaluationTypeOK
    PROVE  /\ policy.matchConditions \in Seq(Conditions)
           /\ policy.exceptions \in Seq(Seq(Conditions))
           /\ policy.rules \in Seq(RuleResults)
           /\ policy.failurePolicy \in {"Fail", "Ignore"}
  BY DEF EvaluationTypeOK, Compiled

\* The least element of a set is the first.
LEMMA FirstIsLeast ==
    ASSUME NEW S \in SUBSET Nat, NEW k \in S, \A l \in S : k <= l
    PROVE  First(S) = k
  <1>1. \A l \in S : (\A m \in S : l <= m) => l = k
    OBVIOUS
  <1> QED
    BY <1>1 DEF First

LEMMA Positions ==
    ASSUME EvaluationTypeOK
    PROVE  Settling(policy) \in SUBSET Nat /\ Speaking(policy) \in SUBSET Nat
  BY PolicyShape DEF Settling, Speaking

\* Returning a value of the right type keeps the types.
LEMMA ReturnValueTypes ==
    ASSUME EvaluationTypeOK, NEW value \in RuleResults, ReturnValue(value)
    PROVE  EvaluationTypeOK'
  BY AnswersAssumption DEF EvaluationTypeOK, ReturnValue, Forgiven, RuleResults

\* A step that returns what evaluateRules is to return keeps the invariant.
LEMMA ReturnsRight ==
    ASSUME EvaluationTypeOK, NEW value \in RuleResults, ReturnValue(value),
           value = Evaluated(policy)
    PROVE  LoopInv'
  <1>1. EvaluationTypeOK'
    BY ReturnValueTypes
  <1>2. loop' = "returned" /\ policy' = policy /\ result' = Outcome(policy)
    BY DEF ReturnValue, Outcome
  <1>3. EvaluatesToOutcome'
    BY <1>2 DEF EvaluatesToOutcome
  <1> QED
    BY <1>1, <1>2, <1>3 DEF LoopInv, MatchSoFar, ExceptionsSoFar, RulesSoFar

\* No policy is under evaluation.
LEMMA IdleSound == ASSUME Idle PROVE LoopInv
  <1>1. NoPolicy \in Compiled
    BY DEF NoPolicy, Compiled
  <1> QED
    BY <1>1 DEF Idle, LoopInv, EvaluationTypeOK, RuleResults, MatchSoFar, ExceptionsSoFar,
       RulesSoFar, EvaluatesToOutcome

LEMMA CallStep ==
    ASSUME LoopInv, Idle, NEW program \in Compiled, Call(program)
    PROVE  LoopInv'
  <1>1. EvaluationTypeOK'
    BY DEF LoopInv, EvaluationTypeOK, Call
  <1>2. policy'.matchConditions \in Seq(Conditions) /\ i' = 1 /\ errs' = 0 /\ loop' = "match"
    BY DEF Idle, Call, Compiled
  <1> QED
    BY <1>1, <1>2 DEF LoopInv, MatchSoFar, ExceptionsSoFar, RulesSoFar, EvaluatesToOutcome

LEMMA LeaveStep == ASSUME Leave PROVE LoopInv' /\ Idle'
  <1>1. NoPolicy \in Compiled
    BY DEF NoPolicy, Compiled
  <1> QED
    BY <1>1 DEF Leave, Idle, LoopInv, EvaluationTypeOK, RuleResults, MatchSoFar,
       ExceptionsSoFar, RulesSoFar, EvaluatesToOutcome

LEMMA MatchStep ==
    ASSUME LoopInv, Match
    PROVE  LoopInv'
  <1>0. EvaluationTypeOK /\ loop = "match" /\ MatchSoFar
    BY DEF LoopInv, Match, MatchCondition, MatchFalse, MatchEnd
  <1> USE PolicyShape
  <1>1. CASE MatchCondition
    <2>1. EvaluationTypeOK'
      BY <1>0, <1>1 DEF EvaluationTypeOK, MatchCondition
    <2>2. MatchSoFar'
      <3>1. i' \in Nat /\ i' <= Len(policy.matchConditions) + 1
        BY <1>0, <1>1 DEF EvaluationTypeOK, MatchCondition
      <3>2. \A k \in 1 .. i' - 1 : k \in 1 .. i - 1 \/ k = i
        BY <1>0, <1>1 DEF EvaluationTypeOK, MatchCondition
      <3>3. i \in 1 .. i' - 1 /\ \A k \in 1 .. i - 1 : k \in 1 .. i' - 1
        BY <1>0, <1>1 DEF EvaluationTypeOK, MatchCondition
      <3> QED
        BY <1>0, <1>1, <3>1, <3>2, <3>3 DEF EvaluationTypeOK, MatchCondition, MatchSoFar
    <2> QED
      BY <1>0, <1>1, <2>1, <2>2 DEF LoopInv, MatchCondition, ExceptionsSoFar,
         RulesSoFar, EvaluatesToOutcome
  <1>2. CASE MatchFalse
    <2>1. Skipped(policy)
      BY <1>0, <1>2 DEF EvaluationTypeOK, MatchFalse, Skipped, Occurs
    <2> QED
      BY <1>0, <1>2, <2>1, ReturnsRight DEF MatchFalse, Evaluated, RuleResults
  <1>3. CASE MatchEnd
    <2>1. i = Len(policy.matchConditions) + 1
      BY <1>0, <1>3 DEF EvaluationTypeOK, MatchSoFar, MatchEnd
    <2>2. ~ Skipped(policy)
      BY <1>0, <2>1 DEF MatchSoFar, Skipped, Occurs
    <2>3. errs > 0 <=> Occurs(Error, policy.matchConditions)
      BY <1>0, <2>1 DEF MatchSoFar, Occurs
    <2>4. CASE errs > 0
      BY <1>0, <1>3, <2>2, <2>3, <2>4, ReturnsRight DEF MatchEnd, Evaluated, RuleResults
    <2>5. CASE ~ (errs > 0)
      <3>1. Enter("exceptions")
        BY <1>3, <2>5 DEF MatchEnd
      <3>2. EvaluationTypeOK'
        BY <1>0, <3>1 DEF EvaluationTypeOK, Enter
      <3>3. Matched
        BY <2>2, <2>3, <2>5 DEF Matched, Skipped
      <3>4. ExceptionsSoFar'
        BY <1>0, <3>1, <3>3 DEF ExceptionsSoFar, Enter, Matched, Settling
      <3> QED
        BY <3>1, <3>2, <3>4 DEF LoopInv, Enter, MatchSoFar, RulesSoFar, EvaluatesToOutcome
    <2> QED
      BY <2>4, <2>5
  <1> QED
    BY <1>1, <1>2, <1>3 DEF Match

LEMMA ExceptionStep ==
    ASSUME LoopInv, ExceptionLoop
    PROVE  LoopInv'
  <1>0. EvaluationTypeOK /\ loop = "exceptions" /\ ExceptionsSoFar
    BY DEF LoopInv, ExceptionLoop, ExceptionCondition, ExceptionFails, ExceptionEnd, ExceptionsEnd
  <1> USE PolicyShape
  <1>1. Matched /\ ~ Skipped(policy) /\ ~ Occurs(Error, policy.matchConditions)
    BY <1>0 DEF ExceptionsSoFar, Matched, Skipped
  <1>2. CASE ExceptionCondition
    <2>1. EvaluationTypeOK'
      BY <1>0, <1>2 DEF EvaluationTypeOK, ExceptionCondition
    <2>2. policy.exceptions[i] \in Seq(Conditions)
      BY <1>0, <1>2 DEF EvaluationTypeOK, ExceptionCondition
    <2>3. j' \in Nat /\ j' <= Len(policy.exceptions[i]) + 1
      BY <1>0, <1>2, <2>2 DEF EvaluationTypeOK, ExceptionCondition
    <2>4. /\ \A k \in 1 .. j' - 1 : k \in 1 .. j - 1 \/ k = j
          /\ j \in 1 .. j' - 1
          /\ \A k \in 1 .. j - 1 : k \in 1 .. j' - 1
      BY <1>0, <1>2 DEF EvaluationTypeOK, ExceptionCondition
    <2>5. policy.exceptions[i][j] \in {"true", "false"}
      BY <1>0, <1>2, <2>2 DEF EvaluationTypeOK, ExceptionCondition, Conditions
    <2>6. \A k \in 1 .. j' - 1 : policy.exceptions[i][k] # Error
      BY <1>0, <1>2, <2>4 DEF ExceptionsSoFar, ExceptionCondition
    <2>7. exceptionMatches' <=> \A k \in 1 .. j' - 1 : policy.exceptions[i][k] # "false"
      BY <1>0, <1>2, <2>4, <2>5 DEF ExceptionsSoFar, ExceptionCondition
    <2>8. ExceptionsSoFar'
      BY <1>0, <1>2, <2>3, <2>6, <2>7 DEF ExceptionsSoFar, ExceptionCondition, Matched
    <2> QED
      BY <1>0, <1>2, <2>1, <2>8 DEF LoopInv, ExceptionCondition, MatchSoFar,
         RulesSoFar, EvaluatesToOutcome
  <1>3. CASE ExceptionFails
    <2>1. i \in Settling(policy) /\ Occurs(Error, policy.exceptions[i])
      BY <1>0, <1>3 DEF EvaluationTypeOK, ExceptionFails, Settling, Occurs
    <2>2. First(Settling(policy)) = i
      <3>1. \A k \in Settling(policy) : i <= k
        BY <1>0 DEF ExceptionsSoFar
      <3> QED
        BY <1>0, <2>1, <3>1, Positions, FirstIsLeast
    <2> QED
      BY <1>0, <1>1, <1>3, <2>1, <2>2, ReturnsRight
         DEF ExceptionFails, Evaluated, Exempted, RuleResults
  <1>4. CASE ExceptionEnd
    <2>1. policy.exceptions[i] \in Seq(Conditions) /\ j = Len(policy.exceptions[i]) + 1
      <3>1. i \in 1 .. Len(policy.exceptions) /\ j \in Nat /\ j > Len(policy.exceptions[i])
        BY <1>0, <1>4 DEF EvaluationTypeOK, ExceptionEnd
      <3>2. policy.exceptions[i] \in Seq(Conditions)
        BY <1>0, <3>1
      <3>3. j <= Len(policy.exceptions[i]) + 1
        BY <1>0, <3>1 DEF ExceptionsSoFar
      <3> QED
        BY <3>1, <3>2, <3>3
    <2>2. ~ Occurs(Error, policy.exceptions[i])
      BY <1>0, <1>4, <2>1 DEF ExceptionsSoFar, ExceptionEnd, Occurs
    <2>3. exceptionMatches <=> ~ Occurs("false", policy.exceptions[i])
      BY <1>0, <1>4, <2>1 DEF ExceptionsSoFar, ExceptionEnd, Occurs
    <2>4. CASE exceptionMatches
      <3>1. i \in Settling(policy)
        BY <1>0, <1>4, <2>3, <2>4 DEF EvaluationTypeOK, ExceptionEnd, Settling
      <3>2. First(Settling(policy)) = i
        <4>1. \A k \in Settling(policy) : i <= k
          BY <1>0 DEF ExceptionsSoFar
        <4> QED
          BY <1>0, <3>1, <4>1, Positions, FirstIsLeast
      <3> QED
        BY <1>0, <1>1, <1>4, <2>2, <2>4, <3>1, <3>2, ReturnsRight
           DEF ExceptionEnd, Evaluated, Exempted, RuleResults
    <2>5. CASE ~ exceptionMatches
      <3>1. /\ i' = i + 1 /\ j' = 1 /\ exceptionMatches' = TRUE
            /\ UNCHANGED <<policy, loop, errs, result>>
        BY <1>4, <2>5 DEF ExceptionEnd
      <3>2. EvaluationTypeOK'
        BY <1>0, <3>1 DEF EvaluationTypeOK
      <3>3. i \notin Settling(policy)
        BY <2>2, <2>3, <2>5 DEF Settling
      <3>4. \A k \in Settling(policy) : i' <= k
        <4>1. \A k \in Settling(policy) : i <= k /\ k # i /\ k \in Nat
          BY <1>0, <3>3, Positions DEF ExceptionsSoFar
        <4> QED
          BY <1>0, <3>1, <4>1 DEF EvaluationTypeOK
      <3>5. i' <= Len(policy.exceptions) + 1
        BY <1>0, <1>4, <3>1 DEF EvaluationTypeOK, ExceptionEnd
      <3>6. i' <= Len(policy.exceptions) => 1 <= Len(policy.exceptions[i']) + 1
        BY <1>0, <3>1 DEF EvaluationTypeOK
      <3>7. ExceptionsSoFar'
        BY <1>1, <3>1, <3>4, <3>5, <3>6 DEF ExceptionsSoFar, Matched
      <3> QED
        BY <1>0, <3>1, <3>2, <3>7 DEF LoopInv, MatchSoFar, RulesSoFar, EvaluatesToOutcome
    <2> QED
      BY <2>4, <2>5
  <1>5. CASE ExceptionsEnd
    <2>1. Settling(policy) = {}
      BY <1>0, <1>5 DEF EvaluationTypeOK, ExceptionsSoFar, ExceptionsEnd, Settling
    <2>2. Enter("rules")
      BY <1>5 DEF ExceptionsEnd
    <2>3. EvaluationTypeOK'
      BY <1>0, <2>2 DEF EvaluationTypeOK, Enter
    <2>4. RulesSoFar'
      BY <1>0, <1>1, <2>1, <2>2 DEF RulesSoFar, Enter, Matched, Speaking
    <2> QED
      BY <2>2, <2>3, <2>4 DEF LoopInv, Enter, MatchSoFar, ExceptionsSoFar, EvaluatesToOutcome
  <1> QED
    BY <1>2, <1>3, <1>4, <1>5 DEF ExceptionLoop

LEMMA RuleStep ==
    ASSUME LoopInv, RuleLoop
    PROVE  LoopInv'
  <1>0. EvaluationTypeOK /\ loop = "rules" /\ RulesSoFar
    BY DEF LoopInv, RuleLoop, RuleNull, RuleSpeaks, RulesEnd
  <1> USE PolicyShape
  <1>1. /\ Matched /\ ~ Skipped(policy) /\ ~ Occurs(Error, policy.matchConditions)
        /\ Settling(policy) = {}
    BY <1>0 DEF RulesSoFar, Matched, Skipped
  <1>2. CASE RuleNull
    <2>1. EvaluationTypeOK'
      BY <1>0, <1>2 DEF EvaluationTypeOK, RuleNull
    <2>2. \A k \in Speaking(policy) : i' <= k
      BY <1>0, <1>2 DEF EvaluationTypeOK, RulesSoFar, RuleNull, Speaking
    <2>3. RulesSoFar'
      BY <1>0, <1>1, <1>2, <2>2 DEF EvaluationTypeOK, RulesSoFar, RuleNull, Matched
    <2> QED
      BY <1>0, <1>2, <2>1, <2>3 DEF LoopInv, RuleNull, MatchSoFar, ExceptionsSoFar,
         EvaluatesToOutcome
  <1>3. CASE RuleSpeaks
    <2>1. i \in Speaking(policy) /\ policy.rules[i] \in RuleResults
      BY <1>0, <1>3 DEF EvaluationTypeOK, RuleSpeaks, Speaking
    <2>2. First(Speaking(policy)) = i
      <3>1. \A k \in Speaking(policy) : i <= k
        BY <1>0 DEF RulesSoFar
      <3> QED
        BY <1>0, <2>1, <3>1, Positions, FirstIsLeast
    <2> QED
      BY <1>0, <1>1, <1>3, <2>1, <2>2, ReturnsRight DEF RuleSpeaks, Evaluated
  <1>4. CASE RulesEnd
    <2>1. Speaking(policy) = {}
      BY <1>0, <1>4 DEF EvaluationTypeOK, RulesSoFar, RulesEnd, Speaking
    <2> QED
      BY <1>0, <1>1, <1>4, <2>1, ReturnsRight DEF RulesEnd, Evaluated, RuleResults
  <1> QED
    BY <1>2, <1>3, <1>4 DEF RuleLoop

\* A turn of a loop keeps the invariant and the policy, and leaves an evaluation that
\* goes on or has returned.
LEMMA TurnStep ==
    ASSUME LoopInv, Evaluation
    PROVE  LoopInv' /\ policy' = policy /\ loop # "none" /\ loop' # "none"
  <1>1. LoopInv'
    BY MatchStep, ExceptionStep, RuleStep DEF Evaluation
  <1>2. policy' = policy /\ loop # "none" /\ loop' # "none"
    BY DEF Evaluation, Match, MatchCondition, MatchFalse, MatchEnd, ExceptionLoop,
       ExceptionCondition, ExceptionFails, ExceptionEnd, ExceptionsEnd, RuleLoop, RuleNull,
       RuleSpeaks, RulesEnd, ReturnValue, Enter
  <1> QED
    BY <1>1, <1>2

LEMMA LoopStutters == ASSUME LoopInv, UNCHANGED evaluation PROVE LoopInv'
  BY DEF evaluation, LoopInv, EvaluationTypeOK, MatchSoFar, ExceptionsSoFar, RulesSoFar,
     Matched, EvaluatesToOutcome
===============================================================================
