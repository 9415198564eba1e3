SPECIFICATION FairSpec
CONSTANTS
  e1 = e1
  e2 = e2
  d1 = d1
  d2 = d2
  Events <- MC_Events
  Malformed <- MC_Malformed
  Dispatchers <- MC_Dispatchers
  BatchLimit = 2
  MaxAttempts = 2
  MaxStrikes = 2
  Faults <- MC_AllFaults
  MaxFaults = 3
INVARIANTS ExclusiveClaim OutcomesAreEarned RunsHaveCauses
PROPERTIES ImplementsDelivery EventuallySettled
