---------------------------- MODULE CompiledPolicy ----------------------------
(***************************************************************************)
(* What a compiled policy answers to a request: a declarative reading of   *)
(* pkg/engine/compiler/policy.go.  A request fixes what each CEL program   *)
(* of the policy returns, and no program runs twice in one evaluation (a   *)
(* variable is computed once, by lazy.MapValue), so a policy is the record *)
(* of these results.                                                       *)
(***************************************************************************)
EXTENDS Naturals, Sequences

CONSTANTS Answers,  \* the responses a rule may return
          Nil       \* no response: a nil pointer of the response type

Error == "error"

\* A match condition is true or false, or fails.
Conditions == {"true", "false", Error}

\* A rule returns null, a response, or fails.
RuleResults == Answers \cup {Nil, Error}

ASSUME AnswersAssumption == Nil # Error /\ Nil \notin Answers /\ Error \notin Answers

\* type compiledPolicy
Compiled == [failurePolicy   : {"Fail", "Ignore"},
             matchConditions : Seq(Conditions),
             exceptions      : Seq(Seq(Conditions)),
             rules           : Seq(RuleResults)]

Occurs(x, seq) == \E i \in DOMAIN seq : seq[i] = x

First(positions) == CHOOSE i \in positions : \A j \in positions : i <= j

\* The exceptions that settle the evaluation: one that applies (none of its
\* conditions is false; it may have none) or one with a condition that fails.
Settling(policy) ==
    {i \in DOMAIN policy.exceptions :
        \/ Occurs(Error, policy.exceptions[i])
        \/ ~ Occurs("false", policy.exceptions[i])}

\* The rules that say something.
Speaking(policy) == {i \in DOMAIN policy.rules : policy.rules[i] # Nil}

Exempted(policy) ==
    /\ Settling(policy) # {}
    /\ ~ Occurs(Error, policy.exceptions[First(Settling(policy))])

Skipped(policy) == Occurs("false", policy.matchConditions)

\* What evaluateRules returns.
Evaluated(policy) ==
    IF Skipped(policy) THEN Nil
    ELSE IF Occurs(Error, policy.matchConditions) THEN Error
    ELSE IF Settling(policy) # {} THEN (IF Exempted(policy) THEN Nil ELSE Error)
    ELSE IF Speaking(policy) # {} THEN policy.rules[First(Speaking(policy))]
    ELSE Nil

\* What Evaluate makes of it under the failure policy.
Forgiven(policy, value) ==
    IF value = Error /\ policy.failurePolicy # "Fail" THEN Nil ELSE value

Outcome(policy) == Forgiven(policy, Evaluated(policy))
===============================================================================
