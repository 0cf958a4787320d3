SPECIFICATION Spec
CONSTANTS
    Sessions = {s1, s2}
    Cards <- ThreeCards
    OpenCards <- ThreeCards
    LegacyCards = {}
    Keys = {}
    Branches = {}
    Refs = {}
    Shas <- OneSha
    Versions = {}
    Loops = {}
    Contents = {x}
    CardTypes = {bug}
    None = None
    Commands = {"link", "unlink", "attach_card", "detach_card"}
    TargetStates = {"active", "waiting"}
    Relations = {"blocked_by", "child_of", "relates_to"}
    LinkLists <- NoLists
    Batches <- NoBatches
    MaxCalls = 3
SYMMETRY Symmetric
INVARIANTS
    NoCardAboveItself
    LinkInv
    LinksFollowHistory
