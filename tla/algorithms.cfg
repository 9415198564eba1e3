SPECIFICATION Spec
CONSTANTS
  None = None
  MonthLengths <- MCMonths
  FirstWeekday = 4
  MaxWalk = 14
  MaxShift = 14
  DeadlineInputs <- MCDeadlines
  ScopeInputs <- MCScopes
  PagingInputs <- MCPages
  WebhookInputs <- MCWebhooks
  AlertInputs <- MCAlerts
  LadderInputs <- MCLadders
  DetectionInputs <- MCDetections
  SuggestionInputs <- MCSuggestions
  DraftInputs <- MCDrafts
  SectionInputs <- MCSections
  EvidenceInputs <- MCEvidence
  ArchiveInputs <- MCArchives
  RetryInputs <- MCRetries
  ReceiptInputs <- MCReceipts
  RiskInputs <- MCRisks
  ConfigInputs <- MCConfigs
  DeploymentInputs <- MCApprovals
  ReadinessInputs <- MCReadiness
  PipelineInputs <- MCPipelines
  ManifestInputs <- MCManifests
  EnvironmentInputs <- MCEnvironments
  LimitInputs <- MCSwitches
  DraftChecks <- MCChecks
  DispatchChecks <- MCDispatches
  PageInputs <- MCPageInputs
INVARIANTS
  DeadlinesAreAsCounted
  ScopesAdmitWhatTheyMean
  AlertsAgreeWithDashboard
  FindingsAreSupported
  NoticesLeaveOnceAsApproved
  DeploymentsAreApproved
CHECK_DEADLOCK FALSE
