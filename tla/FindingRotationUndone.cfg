SPECIFICATION FairSpec
CONSTANTS
    Apps = {a1}
    Users = {owner}
    Reviewers = {}
    Admins = {}
    Profiles = {p1}
    Requests = {r1, r2}
    None = None
    MaxOpen = 1
    RequireReview = FALSE
    MaxClients = 1
    MaxSecrets = 2
    FaultKinds = {}
    MaxFaults = 0
PROPERTY ReplacedSecretStaysInvalid
CHECK_DEADLOCK FALSE
