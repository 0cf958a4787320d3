SPECIFICATION Spec
CONSTANTS
    Persons = {p1}
    Clients = {c1}
    Addresses = {u1, u2}
    Auths = {a1, a2}
    Grants = {g1, g2}
    Sessions = {s1, s2, s3}
    Requests = {r1, r2}
    None = None
    MaxGeneration = 1
    MaxPrint = 1
    MaxEvents = 2
SYMMETRY Symmetry
CHECK_DEADLOCK FALSE
INVARIANTS
    TypeOK
    OnePairPerGeneration
    OneGrantPerAuthorization
    WithdrawnMeansOut
    NoStraySession
    ConsentRestsOnClick
PROPERTIES
    KeepsLedger
