SPECIFICATION HostSpec
CONSTANTS
  NetVMs = {n1, n2}
  Policies <- MCPolicies
  Destinations = {"dns", "proxy", "web", "other"}
  Forwards <- MCForwards
  MaxRuleFaults = 2
  TTL = 5
  CAEnd = 14
  RefreshBefore = 3
  RetryInterval = 2
  MaxClock = 16
  MaxSvidFaults = 3
  Tokens = {"x", "nl", "mark", "0"}
  ExitCodes = {"0", "1", "255"}
  OutputCap = 6
  MaxOutput = 5
  IDSize = 2
  MaxPayload = 9
  MaxEntries = 2
  MaxKey = 1
  MaxValue = 2
  AgentEvents <- MCEvents
  MaxSent = 2
  Files = {vmstate, memory}
  Manifest = Manifest
  Puts = {p1, p2}
  Gets = {g1}
  Absent = Absent
  Foreign = Foreign
  MaxCrashes = 2
INVARIANTS
   
  DocumentIsCurrent IdentitySurvivesOneFailure
  ExecAnswerIsTrue ReadAsWritten
  CommittedIsComplete RestoreAllOrNothing
PROPERTY
  ForeignFilesKept
CHECK_DEADLOCK FALSE
