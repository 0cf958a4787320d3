SPECIFICATION Spec
CONSTANTS
    Sessions = {s1, s2}
    Cards <- TwoCards
    OpenCards <- TwoCards
    LegacyCards <- TwoCards
    Keys = {}
    Branches = {}
    Refs = {}
    Shas <- OneSha
    Versions = {}
    Loops = {}
    Contents = {x}
    CardTypes = {bug}
    None = None
    Commands = {"link", "unlink", "attach_card"}
    TargetStates = {"active", "waiting"}
    Relations = {"relates_to"}
    LinkLists <- NoLists
    Batches <- NoBatches
    MaxCalls = 3
SYMMETRY Symmetric
PROPERTIES
    StaysAssessed
