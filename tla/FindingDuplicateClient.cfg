SPECIFICATION Spec
CONSTANTS
    Apps = {a1}
    Users = {owner}
    Reviewers = {}
    Admins = {}
    Profiles = {p1}
    Requests = {r1}
    None = None
    MaxOpen = 1
    RequireReview = FALSE
    MaxClients = 2
    MaxSecrets = 2
    FaultKinds = {"crash"}
    MaxFaults = 1
INVARIANT AtMostOneClient
CHECK_DEADLOCK FALSE
