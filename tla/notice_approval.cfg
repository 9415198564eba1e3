SPECIFICATION Spec
CONSTANTS
  h1 = h1
  h2 = h2
  plain = plain
  internal = internal
  None = None
  Handlers <- MC_Two
  MaxRevisions = 2
  MaxSnapshots = 1
  Texts <- MC_GoodBad
  Unfit <- MC_Bad
  Formats <- MC_Zip
  DispatchStatuses <- MC_Dispatch
SYMMETRY MC_Symmetry
INVARIANTS ApprovalIsUnique NothingUnapprovedLeaves
