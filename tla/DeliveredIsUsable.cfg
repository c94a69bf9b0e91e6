SPECIFICATION Spec
CONSTANTS
    Accounts = {a1}
    Users = {u1}
    Requests = {r1}
    Sweep = sweep
    Tiers = {"none", "manager"}
    Roles = {"user"}
    CreatorQuota = 1
    GatewayQuota = 2
    MaxFaults = 1
    None = none
PROPERTIES
    DeliveredIsUsable
CHECK_DEADLOCK FALSE
