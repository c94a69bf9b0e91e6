SPECIFICATION Spec
CONSTANTS
  Users = {u1, u2}
  Creator = u1
  PlatformAdmins = {u2}
  Tiers = {"owner", "admin"}
  MaxBinding = 3
  Requests = {r1, r2}
  None = none
SYMMETRY Interchangeable
INVARIANT OwnerAlwaysKept
