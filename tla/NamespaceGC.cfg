SPECIFICATION FairSpec
CONSTANTS
  Gateways = {g1, g2}
  MaxFaults = 1
  None = none
INVARIANTS TypeOK LiveNotReaped
PROPERTY OrphanReaped
