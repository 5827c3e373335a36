SPECIFICATION Spec
CONSTANTS
    Apps = {a1, a2}
    Users = {owner}
    Reviewers = {}
    Admins = {}
    Profiles = {p1}
    Requests = {r1}
    None = None
    MaxOpen = 2
    RequireReview = FALSE
    MaxClients = 2
    MaxSecrets = 3
    FaultKinds = {"fail"}
    MaxFaults = 1
SYMMETRY Symmetry
INVARIANTS
    NoStrandedProvisioning
    AtMostOneClient
    ClientBelongsToApp
    NoOrphanClient
CHECK_DEADLOCK FALSE
