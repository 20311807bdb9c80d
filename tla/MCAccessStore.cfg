SPECIFICATION Spec
CONSTANTS
  s1 = s1
  alice = alice
  bob = bob
  Scopes = {s1}
  Subjects = {alice, bob}
  NoSubject = nobody
  RoleIds <- MCRoles
  BootstrapRole <- MCBootstrapRole
  Permissions <- MCPermissions
  RolesManage = "roles"
  BindingsManage = "bindings"
  PageLimits <- MCPageLimits
  MaxRevision = 5
  Slots = {t1, t2}
  Calls <- MixedCalls
SYMMETRY SlotSymmetry
INVARIANTS TypeOK PoliciesSound AnswersHoldAtTheirRevision
PROPERTY RevisionCountsChanges
