CONSTANTS
    Answers = {"ok", "denied", "both", "empty"}
    Nil = Nil
    MaxPolicies = 3
    MaxLength = 2
    PolicyLists <- Lists
    OutputPrograms <- OutputExpressions
SPECIFICATION Spec
INVARIANTS TypeOK EvaluatesToOutcome EngineAnswersVerdict AllowedByVerdict RecordedAsReplied ObserversAgree
CHECK_DEADLOCK FALSE
