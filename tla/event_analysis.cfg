SPECIFICATION Spec
CONSTANTS
  h1 = h1
  h2 = h2
  u1 = u1
  u2 = u2
  seg = seg
  None = None
  Handlers <- MC_Two
  Users <- MC_Users
  Segments <- MC_Segments
  MaxEvents = 2
  MaxRules = 2
  MaxAssessments = 2
  MaxSuggestions = 1
  MaxCalendarRevisions = 2
  MaxCalculations = 3
  MaxCopies = 2
SYMMETRY MC_Symmetry
CONSTRAINT MC_Instances
INVARIANTS TypeOK DeadlinesRestOnConfirmedFacts SupersessionIsLinked NothingIsDoubled
PROPERTY VerifiedIsFrozen
CHECK_DEADLOCK FALSE
