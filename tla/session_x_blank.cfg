SPECIFICATION Spec
CONSTANTS
  c1 = c1
  c2 = c2
  s1 = s1
  s2 = s2
  Client <- TwoClients
  Server <- TwoServers
  None = None
  Torn = Torn
  RudpServers <- OneRudp
  SyncServers <- OneRudp
  Browsers <- OneBrowser
  Home <- Homes
  Skipped <- SkipOne
  MaxAutosaves = 0
  MaxFaults = 0
INVARIANTS SubmittedAnswersShown
CHECK_DEADLOCK FALSE
