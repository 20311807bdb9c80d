SPECIFICATION FairEventSpec
CONSTANTS
  s1 = s1
  alice = alice
  bob = bob
  e1 = e1
  e2 = e2
  t1 = t1
  t2 = t2
  Scopes = {s1}
  Subjects = {alice, bob}
  NoSubject = nobody
  RoleIds <- MCRoles
  BootstrapRole <- MCBootstrapRole
  Permissions <- MCPermissions
  RolesManage = "roles"
  BindingsManage = "bindings"
  PageLimits <- MCPageLimits
  MaxRevision = 2
  Slots = {t1, t2}
  NoSlot = noslot
  Events = {e1, e2}
  EventOf <- MCEventOf
  Calls <- HandOverCalls
INVARIANT OnlyVerifiedDatabasesAreUsed
PROPERTIES Implements EndedEventsFallSilent OpenEventsAreAnswered
