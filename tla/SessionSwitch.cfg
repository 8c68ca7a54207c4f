SPECIFICATION FairSpec
CONSTANTS
  Procs = {p1, p2}
  base = base
  focus = focus
  Profiles <- MCProfiles
  Cadences <- MCCadences
  Shots = {"shot"}
  Scenarios <- MCSwitchOnly
INVARIANT SwitchPrimes
