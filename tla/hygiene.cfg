SPECIFICATION Spec
CONSTANTS
    MaxMemories = 3
    MaxRules = 2
    Corpora <- MCCorpora
    Writes <- MCWrites
    Sessions = {ses}
    Workers = {w1, w2}
    Reviewers = {r1, r2}
    Jobs = {j1, j2}
    Commands = {"share", "forget", "close", "remember", "promote_loop",
                "promote_rule", "review_rules", "incubate", "scan", "scan_one", "retro", "offer", "sweep", "audit", "resolve", "review", "bulk", "restore", "challenge"}
    MaxCalls = 2
    None = None
    ses = ses
SYMMETRY Symmetric
CHECK_DEADLOCK FALSE
INVARIANTS
    TypeOK
    ScannerRespectsAuthority
    ScansHonourQueue
PROPERTIES
    PersonsDecisionStands
    RulesFollowMemories
    SettledRulesSurvive
