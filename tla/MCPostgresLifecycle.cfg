SPECIFICATION FairLifeSpec
CONSTANTS
  s1 = s1
  alice = alice
  bob = bob
  here = here
  elsewhere = elsewhere
  Scopes = {s1}
  Subjects = {alice, bob}
  NoSubject = nobody
  RoleIds <- MCRoles
  BootstrapRole <- MCBootstrapRole
  Permissions <- MCPermissions
  RolesManage = "roles"
  BindingsManage = "bindings"
  PageLimits <- MCPageLimits
  MaxRevision = 1
  Slots = {here, elsewhere}
  NoSlot = noslot
  Own = {here}
  Handlers = {h1, h2}
  Calls <- LockingCalls
INVARIANT CallsRunOnlyWhileServing
PROPERTIES ActivationEnds DeactivationEnds EveryWaitEnds EveryCallEnds EveryLockIsReleased
