SPECIFICATION Spec
CONSTANTS
  a = a
  b = b
  c1 = c1
  c2 = c2
  m = m
  tests = tests
  eyes = eyes
  Commits = {c1, c2, m}
  Merge = m
  Reviews = {tests, eyes}
  Acts = {a, b}
  NoNote = NoNote
  NoPolicy = NoPolicy
  NoProfile = NoProfile
  NoCap = NoCap
  DefaultCap = 4
  ProfileNames = {"law", "soft", "none"}
  Homes = {TRUE, FALSE}
  UserFiles <- MCUserFiles
  RepoFiles <- MCRepoFiles
  Unnamed = Unnamed
  UserFile <- MCUserFile
  Repos = {"strict", "loose"}
  ConfigOf <- MCConfigOf
  Streams <- MCStreams
  FlowsOf <- MCFlowsOf
  GitOf <- MCGitOf
  TreeOf <- MCTreeOf
  Nothing = Nothing
  Configs <- MCConfigs
  Trees <- MCTrees
SYMMETRY Swaps
INVARIANTS GateInv PassedWasRead RepoAddsOnly WorkflowsSettle
PROPERTY RefusesUnapproved
CHECK_DEADLOCK FALSE
