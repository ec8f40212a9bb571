SPECIFICATION Spec
CONSTANTS
    WalkOrder <- Order
    Documents <- AllDocuments
    SourceLists <- Lists
    PullSecrets = {s1, s2}
    CrdKinds = {"ValidatingPolicy"}
    KubePolicies <- Clustered
    KubeExceptions <- Exempting
INVARIANTS ValidPoliciesAnswered
CHECK_DEADLOCK FALSE
