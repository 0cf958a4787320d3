SPECIFICATION Spec
CONSTANTS
    Sessions = {s1, s2}
    Cards <- OneCard
    OpenCards <- OneCard
    LegacyCards <- OneCard
    Keys = {k1}
    Branches = {b1}
    Refs = {}
    Shas <- ShortAndFull
    Versions = {v1}
    Loops = {}
    Contents = {x, y}
    CardTypes = {bug}
    None = None
    Commands = {"edit", "move", "land", "archive", "note", "attach_branch", "detach_branch", "release"}
    TargetStates = {"active", "waiting"}
    Relations = {}
    LinkLists <- NoLists
    Batches <- Single
    MaxCalls = 3
SYMMETRY Symmetric
INVARIANTS
    CardFollowsHistory
    LocksPreventClashes
    KeyAppliedOnce
    LandingRecordedOnce
    ReleaseCarriesCheckedLanding
    CommitsAsIfAlone
PROPERTIES
    LeavesActiveAccounted
    EntersActiveAccounted
    ArchivedKeepsContent
