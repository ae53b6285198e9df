CONSTANTS
  Request = {c1, c2}
  SessionId = {s1, s2}
  MaxTurns = 2
  MaxMessages = 3
  MaxFailures = 1
  Call = {c1, c2}
  read = read  write = write
  Scopes = {{read}, {write}}
  Gate = {"gate-A", "gate-B"}
  GateA = "gate-A"
  MaxTokens = 3
  MaxPreviews = 1
  MaxFaults = 1
  Graphs <- MCGraphs
  Asked <- MCAsked
  Registered <- Registry
  Drafts <- MCDrafts
  MaxSteps = 4
  MaxParallel = 2
  Previews <- MCPreviews
  Scans <- MCScans
  Severity <- MCSeverity
  Rules <- MCRules
  Named <- MCNamed
  Requests <- MCRequests
  MaxTotal = 4
  MaxSeen = 2
SPECIFICATION MCSpec
SYMMETRY Interchangeable
INVARIANTS MessagesAreKept SingleUse OneTokenAtATime
  ResolvesToEarliestLevels PartsStayWhole AnswersReachTheirSteps AcceptedPlansAreSound PreviewStopsAtGates ScanIsConservative RuleGoesFirst
CHECK_DEADLOCK FALSE
