SPECIFICATION Spec
CONSTANTS
  Hooks = {"pre_push", "pre_commit"}
  StdinHooks = {"pre_push"}
  Foreign = {f1, f2}
  Absent = Absent
  Codes = {0, 1}
  Configs <- MCConfigs
  AllEvents = {"Stop", "SessionStart", "Other"}
  HookEvents = {"Stop", "SessionStart"}
  Commands = {"gaff hook", "/bin/gaff hook", "other"}
  Argv <- MCArgv
  NotObject = NotObject
  NotArray = NotArray
  Anything = Anything
  Matchers = {Anything, "Bash"}
  Files <- MCFiles
SYMMETRY ForeignSymmetry
INVARIANTS
  GitInv
  ForeignKept
  UninstallRestores
  InstalledRuns
  GateHolds
  RefsReachAll
  SettingsKept
