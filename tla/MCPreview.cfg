CONSTANTS
  Graphs <- MCGraphs
  Asked <- MCAsked
  Registered <- Registry
  Drafts <- MCDrafts
  MaxSteps = 4
  MaxParallel = 2
  Previews <- MCPreviews
  Scans <- MCScans
  Severity <- MCSeverity
  Rules <- MCRules
  Named <- MCNamed
  Requests <- MCRequests
  MaxTotal = 4
  MaxSeen = 2
SPECIFICATION DecisionsSpec
INVARIANT PreviewOnlyReads
CHECK_DEADLOCK FALSE
