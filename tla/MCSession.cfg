SPECIFICATION FairSpec
CONSTANTS
  Procs = {p1, p2}
  base = base
  focus = focus
  Profiles <- MCProfiles
  Cadences <- MCCadences
  Shots = {"shot"}
  Scenarios <- MCScenarios
INVARIANTS SessionInv CrossingKept
PROPERTIES DeliversEarned CrossingDelivered
