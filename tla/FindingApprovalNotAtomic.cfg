SPECIFICATION Spec
CONSTANTS
    Apps = {a1}
    Users = {owner, rev}
    Reviewers = {rev}
    Admins = {}
    Profiles = {p1}
    Requests = {r1}
    None = None
    MaxOpen = 1
    RequireReview = TRUE
    MaxClients = 1
    MaxSecrets = 1
    FaultKinds = {"fail"}
    MaxFaults = 1
INVARIANT NoStrandedProvisioning
CHECK_DEADLOCK FALSE
