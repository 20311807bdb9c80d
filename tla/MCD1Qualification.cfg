SPECIFICATION ScriptSpec
CONSTANTS
  Fresh = "conformance"
  Scopes <- MCScopes
  Slots <- MCEvents
  Events <- MCEvents
  EventOf <- MCEventOf
  Rounds <- MCRounds
  ModeOf <- MCModeOf
  ScopeOf <- MCScopeOf
  Subjects = {"owner", "other", "third", "member", "stranger", "nobody"}
  NoSubject = "none"
  RoleIds = {1, 2, 3, 4, 5, 6, 7, 8, 9}
  BootstrapRole = 6
  Permissions = {"read", "export", "write", "more", "roles", "bindings"}
  RolesManage = "roles"
  BindingsManage = "bindings"
  PageLimits = {1, 10}
  MaxRevision = 20
  NoSlot = "noslot"
  Calls <- ScriptCalls
INVARIANTS QualificationPasses RacesSerialize
CHECK_DEADLOCK FALSE
