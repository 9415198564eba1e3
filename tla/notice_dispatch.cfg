SPECIFICATION Spec
CONSTANTS
  h1 = h1
  h2 = h2
  email = email
  courier = courier
  r1 = r1
  r2 = r2
  None = None
  Handlers <- MC_Handlers
  Auths <- MC_Both
  Manual <- MC_Courier
  Recipients <- MC_Recipients
  Keys <- MC_Keys
  MaxGrants = 1
  MaxLost = 1
  Answers <- MC_Answers
  Events <- MC_Events
SYMMETRY MC_Symmetry
INVARIANTS OneTransmissionPerGrant KeyReusedOnlyAfterRollback EventAppliedOnce NoHiddenFailure PackageFollowsAttempt
CHECK_DEADLOCK FALSE
