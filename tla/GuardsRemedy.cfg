SPECIFICATION Spec
CONSTANTS
  stage = stage
  push = push
  allowing = allowing
  law = law
  soft = soft
  Hooks = {h1, h2}
  Calls = {stage, push, allowing}
  Names = {"gaff-privileged", "no-mass-stage", "no_push", "no push", "reviewed"}
  File <- MCFile
  BuiltinName = "gaff-privileged"
  Privileged = {allowing}
  UserGuards <- MCUserGuards
  Profiles = {law, soft}
  UserProfiles = {law}
  Bundle <- MCBundle
  Policies <- MCPolicies
  Default = NoProfile
  NoCall = NoCall
  NoProfile = NoProfile
  Undeclared = Undeclared
  Situations <- MCSituations
  MaxGrants = 1
INVARIANT RemedyWorks
