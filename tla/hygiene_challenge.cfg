SPECIFICATION Spec
CONSTANTS
    MaxMemories = 3
    MaxRules = 2
    Corpora <- MCCorpora
    Writes <- MCWrites
    Sessions = {ses}
    Workers = {w1, w2}
    Reviewers = {r1, r2}
    Jobs = {j1, j2}
    Commands = {"challenge", "sweep", "resolve"}
    MaxCalls = 2
    None = None
    ses = ses
SYMMETRY Symmetric
CHECK_DEADLOCK FALSE
INVARIANT ChallengesWaitForAPerson
