SPECIFICATION Spec
CONSTANTS
    K = 3
    Half32 = 8
    Half64 = 256
    GroupRequests <- MCGroupRequests
    RuleRequests <- MCRuleRequests
    None = None
INVARIANTS GroupRateKept AmbrOfTwo AggregateOrderIrrelevant RuleSaturates
