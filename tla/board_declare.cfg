SPECIFICATION FairSpec
CONSTANTS
    Sessions = {s1, s2}
    Cards <- TwoCards
    OpenCards <- TwoCards
    LegacyCards = {}
    Keys = {}
    Branches = {}
    Refs = {}
    Shas <- OneSha
    Versions = {v1}
    Loops = {}
    Contents = {x}
    CardTypes = {bug}
    None = None
    Commands = {"move", "release", "attach_card"}
    TargetStates = {"active"}
    Relations = {"blocks"}
    LinkLists <- Lists
    Batches <- Descending
    MaxCalls = 2
INVARIANTS
    RelationCommandsDoNotDeadlock
PROPERTIES
    EveryCallAnswered
