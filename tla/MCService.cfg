SPECIFICATION Spec
CONSTANTS
  s1 = s1
  alice = alice
  bob = bob
  console = console
  worker = worker
  stranger = stranger
  Scopes = {s1}
  Subjects = {alice, bob}
  NoSubject = nobody
  RoleIds <- MCRoles
  BootstrapRole <- MCBootstrapRole
  Permissions <- MCPermissions
  RolesManage = "roles"
  BindingsManage = "bindings"
  PageLimits <- MCPageLimits
  MaxRevision = 4
  Slots = {t1, t2}
  Calls <- MCCallsOfRequests
  Instances = {console, worker, stranger}
  BootstrapCallers = {console}
  DirectoryCallers = {worker}
  Requests <- MCRequests
  Horizon = 1
SYMMETRY SlotSymmetry
INVARIANTS TypeOK ErrorsAreHonest PagesContinue
PROPERTY OnlyTheEntitledChange
