SPECIFICATION Spec
CONSTANTS
  Names = {n1}
  Images = {i1}
  NumSteps = 3
  Identity = 1
  Routed = FALSE
  LateBound = FALSE
  AuthorUntil = 2
  MaxGeneration = 3
  RpcMayFail = FALSE
  StreamMayBreak = FALSE
  RestartUntil = 0
  StepsMayFail = TRUE
  TrustDrift = TRUE
  MayBeUnready = FALSE
  MayDelete = TRUE
INVARIANT LatchSound
INVARIANT NoStrandedGeneration
INVARIANT DeletionCompletes
CHECK_DEADLOCK FALSE
