SPECIFICATION FairSpec
CONSTANTS
    Accounts = {a1}
    Users = {u1}
    Requests = {r1, r2}
    Sweep = sweep
    Tiers = {"none", "viewer", "manager"}
    Roles = {"user", "admin"}
    CreatorQuota = 1
    GatewayQuota = 2
    MaxFaults = 1
    None = none
INVARIANTS
    TypeOK
    GatewayGoneLeavesNoClient
PROPERTIES
    CredentialSpec
    AccountSettles
CHECK_DEADLOCK FALSE
