--------------------------- MODULE MCAuthzDecision ---------------------------
(* AuthzDecision on short lists of policies of every outcome, for TLC. *)
EXTENDS AuthzDecision, SequencesExt

CONSTANT MaxPolicies   \* bound: longest list of policies

Policy(failurePolicy, conditions, rules) ==
    [failurePolicy |-> failurePolicy, matchConditions |-> conditions,
     exceptions |-> <<>>, rules |-> rules]

\* One policy for each thing a policy can do to a request.
Programs ==
    {Policy("Fail", <<>>, <<rule>>) : rule \in RuleResults}
        \cup {Policy("Ignore", <<Error>>, <<"denied">>),
              Policy("Fail", <<Error>>, <<"ok">>)}

Held(programs) == [compiles : {TRUE}, program : programs]

Stored == Held(Programs) \cup [compiles : {FALSE}, program : {Policy("Fail", <<>>, <<>>)}]

CONSTANT MaxLength   \* bound: longest list of conditions, exceptions, rules

ConditionLists == BoundedSeq(Conditions, MaxLength)

\* Every pattern of match conditions, of exceptions and of rules, each with the others
\* letting the evaluation through to it or not.
Patterns ==
    LET failurePolicies == {"Fail", "Ignore"}
        settled == {<<>>, <<<<"false">>>>, <<<<"true">>>>} IN
    [failurePolicy : failurePolicies, matchConditions : ConditionLists,
     exceptions : settled, rules : {<<"ok">>}]
    \cup
    [failurePolicy : failurePolicies, matchConditions : BoundedSeq(Conditions, 1),
     exceptions : BoundedSeq(ConditionLists, MaxLength), rules : {<<"ok">>}]
    \cup
    [failurePolicy : failurePolicies, matchConditions : BoundedSeq(Conditions, 1),
     exceptions : settled, rules : BoundedSeq(RuleResults, MaxLength)]

ShortLists == BoundedSeq(Stored, MaxPolicies)
Lists == ShortLists \cup {<<held>> : held \in Held(Patterns)}

\* The default expression, and configured ones that fail on some response.
OutputExpressions ==
    {DefaultOutput} \cup {[DefaultOutput EXCEPT ![answer] = Error] : answer \in Answers}
===============================================================================
