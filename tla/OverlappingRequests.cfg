SPECIFICATION SyncSpec
CONSTANTS
    Apps = {a1}
    Users = {owner, rev}
    Reviewers = {rev}
    Admins = {}
    Profiles = {p1}
    Requests = {r1, r2}
    None = None
    MaxOpen = 1
    RequireReview = TRUE
    MaxClients = 2
    MaxSecrets = 2
    FaultKinds = {"fail", "lost", "crash"}
    MaxFaults = 1
SYMMETRY Symmetry
INVARIANTS
    TypeOK
    StoredSecretOpens
    IndependentReview
    SettledInSync
PROPERTIES
    DeletionAudited
    SettledSecretStays
CHECK_DEADLOCK FALSE
