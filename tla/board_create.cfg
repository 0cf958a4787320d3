SPECIFICATION Spec
CONSTANTS
    Sessions = {s1, s2}
    Cards <- ThreeCards
    OpenCards <- OneCard
    LegacyCards = {}
    Keys = {k1}
    Branches = {b1}
    Refs = {r1}
    Shas <- OneSha
    Versions = {}
    Loops = {l1}
    Contents = {x}
    CardTypes = {bug}
    None = None
    Commands = {"create", "promote", "attach_ref", "detach_ref"}
    TargetStates = {"active"}
    Relations = {}
    LinkLists <- BirthLists
    Batches <- NoBatches
    MaxCalls = 3
SYMMETRY Symmetric
INVARIANTS
    TypeOK
    LocksPreventClashes
PROPERTIES
    AssessedAtBirth
