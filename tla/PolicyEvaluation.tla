--------------------------- MODULE PolicyEvaluation ---------------------------
(***************************************************************************)
(* Evaluate, evaluateRules, match and evaluateRule of                      *)
(* pkg/engine/compiler/policy.go, one turn of a loop at a time.            *)
(***************************************************************************)
EXTENDS CompiledPolicy

VARIABLES
    policy,            \* the policy under evaluation
    loop,              \* the loop the evaluation is in, "returned", or "none"
    i,                 \* position in the outer loop
    j,                 \* position in the conditions of the i-th exception
    errs,              \* how many match conditions have failed
    exceptionMatches,  \* no condition of the i-th exception was false so far
    result             \* what Evaluate returns

evaluation == <<policy, loop, i, j, errs, exceptionMatches, result>>

EvaluationTypeOK ==
    /\ policy \in Compiled
    /\ loop \in {"none", "match", "exceptions", "rules", "returned"}
    /\ i \in Nat \ {0} /\ j \in Nat \ {0}
    /\ errs \in Nat
    /\ exceptionMatches \in BOOLEAN
    /\ result \in RuleResults

\* No policy is under evaluation.
NoPolicy == [failurePolicy |-> "Fail", matchConditions |-> <<>>, exceptions |-> <<>>, rules |-> <<>>]

Idle ==
    /\ policy = NoPolicy /\ loop = "none"
    /\ i = 1 /\ j = 1 /\ errs = 0 /\ exceptionMatches = TRUE
    /\ result = Nil

\* Evaluate is called, and match begins.
Call(program) ==
    /\ loop = "none"
    /\ policy' = program /\ loop' = "match"
    /\ UNCHANGED <<i, j, errs, exceptionMatches, result>>

\* The caller has taken the result.
Leave ==
    /\ loop = "returned" /\ loop' = "none"
    /\ policy' = NoPolicy
    /\ i' = 1 /\ j' = 1 /\ errs' = 0 /\ exceptionMatches' = TRUE
    /\ result' = Nil

\* evaluateRules returns: Evaluate drops an error unless the policy is to fail.
ReturnValue(value) ==
    /\ loop' = "returned"
    /\ result' = Forgiven(policy, value)
    /\ UNCHANGED <<policy, i, j, errs, exceptionMatches>>

Enter(next) ==
    /\ loop' = next
    /\ i' = 1 /\ j' = 1
    /\ exceptionMatches' = TRUE
    /\ UNCHANGED <<policy, errs, result>>

-----------------------------------------------------------------------------
(* match: a false condition wins over the failure of an earlier one. *)

\* Fault: the first failing condition ends the loop.
MatchConditionFailsFast ==
    /\ loop = "match" /\ i <= Len(policy.matchConditions)
    /\ policy.matchConditions[i] # "false"
    /\ IF policy.matchConditions[i] = Error THEN ReturnValue(Error)
       ELSE i' = i + 1 /\ UNCHANGED <<policy, loop, j, errs, exceptionMatches, result>>

MatchCondition ==
    /\ loop = "match" /\ i <= Len(policy.matchConditions)
    /\ policy.matchConditions[i] # "false"
    /\ i' = i + 1
    /\ errs' = IF policy.matchConditions[i] = Error THEN errs + 1 ELSE errs
    /\ UNCHANGED <<policy, loop, j, exceptionMatches, result>>

MatchFalse ==
    /\ loop = "match" /\ i <= Len(policy.matchConditions)
    /\ policy.matchConditions[i] = "false"
    /\ ReturnValue(Nil)

MatchEnd ==
    /\ loop = "match" /\ i > Len(policy.matchConditions)
    /\ IF errs > 0 THEN ReturnValue(Error) ELSE Enter("exceptions")

-----------------------------------------------------------------------------
(* The exceptions: a failing condition ends the evaluation, a false one does *)
(* not end the loop over the conditions.                                     *)

ExceptionCondition ==
    /\ loop = "exceptions" /\ i <= Len(policy.exceptions)
    /\ j <= Len(policy.exceptions[i])
    /\ policy.exceptions[i][j] # Error
    /\ j' = j + 1
    /\ exceptionMatches' = (exceptionMatches /\ policy.exceptions[i][j] = "true")
    /\ UNCHANGED <<policy, loop, i, errs, result>>

ExceptionFails ==
    /\ loop = "exceptions" /\ i <= Len(policy.exceptions)
    /\ j <= Len(policy.exceptions[i])
    /\ policy.exceptions[i][j] = Error
    /\ ReturnValue(Error)

ExceptionEnd ==
    /\ loop = "exceptions" /\ i <= Len(policy.exceptions)
    /\ j > Len(policy.exceptions[i])
    /\ \/ exceptionMatches /\ ReturnValue(Nil)
       \/ /\ ~ exceptionMatches
          /\ i' = i + 1 /\ j' = 1
          /\ exceptionMatches' = TRUE
          /\ UNCHANGED <<policy, loop, errs, result>>

ExceptionsEnd ==
    /\ loop = "exceptions" /\ i > Len(policy.exceptions)
    /\ Enter("rules")

-----------------------------------------------------------------------------
(* The rules: the first that says something. *)

RuleNull ==
    /\ loop = "rules" /\ i <= Len(policy.rules)
    /\ policy.rules[i] = Nil
    /\ i' = i + 1
    /\ UNCHANGED <<policy, loop, j, errs, exceptionMatches, result>>

RuleSpeaks ==
    /\ loop = "rules" /\ i <= Len(policy.rules)
    /\ policy.rules[i] # Nil
    /\ ReturnValue(policy.rules[i])

RulesEnd ==
    /\ loop = "rules" /\ i > Len(policy.rules)
    /\ ReturnValue(Nil)

Match == MatchCondition \/ MatchFalse \/ MatchEnd
ExceptionLoop == ExceptionCondition \/ ExceptionFails \/ ExceptionEnd \/ ExceptionsEnd
RuleLoop == RuleNull \/ RuleSpeaks \/ RulesEnd
Evaluation == Match \/ ExceptionLoop \/ RuleLoop

-----------------------------------------------------------------------------
\* The loops compute the outcome the policy defines: an error among the match
\* conditions yields to a false one but an error in an exception does not, an
\* exception or an error hides every rule, and the failure policy decides what
\* an error is worth (Evaluate).
EvaluatesToOutcome == loop = "returned" => result = Outcome(policy)
===============================================================================
