SPECIFICATION FairSpec
CONSTANTS
  Ids = {1, 2}
  ProfileHold = 2
  Times = {1, 2}
  NoTimes = NoTimes
  ProfileTimes = 1
  MaxStopRefusals = 2
  Commands = {c1, c2}
  Absent = Absent
  KilledStreak = 3
INVARIANTS HoldInv RefusalsBounded BudgetRespected ReleaseSticks
PROPERTY StopsEnd
