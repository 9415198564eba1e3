SPECIFICATION Spec
CONSTANTS
  h1 = h1
  h2 = h2
  email = email
  courier = courier
  r1 = r1
  r2 = r2
  None = None
  Handlers <- MC_Handlers
  Auths <- MC_Email
  Manual <- MC_None
  Recipients <- MC_Recipients
  Keys <- MC_EmailKeys
  MaxGrants = 2
  MaxLost = 0
  Answers <- MC_Answers
  Events <- MC_Events
SYMMETRY MC_Symmetry
INVARIANTS FreshAuthorizationPerTransmission
CHECK_DEADLOCK FALSE
