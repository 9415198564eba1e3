SPECIFICATION Spec
CONSTANTS
  h1 = h1
  h2 = h2
  u1 = u1
  u2 = u2
  p1 = p1
  p2 = p2
  e1 = e1
  None = None
  Handlers <- MC_Handlers
  Users <- MC_Users
  Projects <- MC_Projects
  Recipients <- MC_Projects
  WebhookIds <- MC_WebhookIds
  KindOf <- MC_KindOf
  MaxAnalyses = 1
  MaxConfigurations = 3
  MaxCorrections = 2
  MaxRecords = 3
  MaxRuns = 2
  MaxTasks = 1
  MaxInvitations = 2
  MaxRequests = 1
  MaxItems = 2
  MaxQuestions = 1
  MaxAttachments = 2
  Issues = {"missing translation", "unverified recipient"}
  NonWaivable = {"unverified recipient"}
  Limit = 2
SYMMETRY MC_Symmetry
CONSTRAINT MC_Instances
INVARIANTS ServicesTypeOK ConfigurationIsReviewed SyncIsAccounted OneAlertPerCondition GrantsAreBacked PapersAreReviewed LimitsHold
PROPERTIES DecisionsStand GatesHold
CHECK_DEADLOCK FALSE
