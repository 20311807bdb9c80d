SPECIFICATION FairWalkSpec
CONSTANTS
  s1 = s1
  alice = alice
  bob = bob
  reader = reader
  t1 = t1
  Scopes = {s1}
  Subjects = {alice, bob}
  NoSubject = nobody
  RoleIds <- MCRoles
  BootstrapRole <- MCBootstrapRole
  Permissions <- MCPermissions
  RolesManage = "roles"
  BindingsManage = "bindings"
  PageLimits <- MCPageLimits
  MaxRevision = 6
  Slots = {reader, t1}
  Reader = reader
  WalkScope = s1
  Calls <- GrowingCalls
INVARIANTS NoRoleIsListedTwice WalkIsComplete OneRevisionIsASnapshot
PROPERTY WalkEnds
CHECK_DEADLOCK FALSE
