\* The pages of the web application: two files, two rows or two people each.
SPECIFICATION WebSpec
CONSTANTS
  Uploads = {a, b}
  Staging = {a, b}
  MaxWorkspaces = 2
  Described = {a, b}
  MaxAnalyses = 2
  RunStates <- MCRunStates
  Panes = {"output"}
  MaxPolls = 3
  Limits = {1, 2}
  Default = 1
  MaxSaves = 1
  MaxRows = 2
  MaxLists = 1
  People = {p, q}
  Roles = {"Analyst", "Viewer"}
  Invited = "Analyst"
  MaxChanges = 2
  MaxRevokes = 1
  MaxFailures = 1
  Filters = {"all", "failed"}
  AllRuns = "all"
  Texts = {"empty", "a", "all"}
  NoText = "empty"
  AllText = "all"
  MaxPages = 2
  MaxRetries = 1
  Spaces = {v, w}
  FallbackLimits <- MCFallbackLimits
  ServerLimits <- MCServerLimits
  Ceilings = {0, 3}
  MaxRounds = 2
  MaxRuns = 2
  Analyses = {a, b}
  MaxEdits = 2
  Names = {m, n}
  Modes = {"precise", "research"}
INVARIANTS
  WebTypeOK
  RowsReportOwnUpload
  GridShowsEachFileOnce
  TableIsServer
  ShowsOwnNewest
  PaneShowsItsStep
  CleanFormsAreServer
  KeysMatchConnections
  ListsAreServer
  ValidSessionNotBounced
  FiltersKept
  CeilingKept
PROPERTIES
  DialogDelivers
  EndIsShown
  NavigationSettles
CHECK_DEADLOCK FALSE
