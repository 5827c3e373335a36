SPECIFICATION FairSpec
CONSTANTS
    Apps = {a1}
    Users = {owner, rev}
    Reviewers = {rev}
    Admins = {}
    Profiles = {p1}
    Requests = {r1}
    None = None
    MaxOpen = 1
    RequireReview = TRUE
    MaxClients = 3
    MaxSecrets = 4
    FaultKinds = {"fail", "lost", "crash"}
    MaxFaults = 2
INVARIANTS
    NoCredentialsBeforeApproval
    DeleteLeavesNothing
PROPERTIES
    StatusMachine
    EventsDrain
    ProvisioningCompletes
CHECK_DEADLOCK FALSE
