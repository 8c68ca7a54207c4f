SPECIFICATION FairSpec
CONSTANTS
  Ids = {1, 2}
  ProfileHold = 2
  Times = {1, 2}
  NoTimes = NoTimes
  ProfileTimes = 1
  MaxStopRefusals = 3
  Commands = {}
  Absent = Absent
  KilledStreak = 2
PROPERTY HeldStopRefused
