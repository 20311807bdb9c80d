SPECIFICATION Spec
CONSTANTS
  s1 = s1
  alice = alice
  bob = bob
  Scopes = {s1}
  Subjects = {alice, bob}
  NoSubject = nobody
  RoleIds <- MCRoles
  BootstrapRole <- MCBootstrapRole
  Permissions <- MCPermissions
  RolesManage = "roles"
  BindingsManage = "bindings"
  PageLimits <- MCPageLimits
  MaxRevision = 4
  Slots = {t1, t2}
  NoSlot = noslot
  Calls <- AdministratorCalls
SYMMETRY SlotSymmetry
INVARIANTS TypeOK BatchesAreAlone ReceiptsAreTrue
PROPERTY Implements
