SPECIFICATION TestSpec
CONSTANTS
  Fresh = fresh
  Scopes = {fresh, theirs}
  Subjects = {"owner", "other", "member", "stranger", "nobody"}
  NoSubject = "none"
  RoleIds = {1, 2, 3, 4, 5, 6, 7, 8, 9}
  BootstrapRole = 6
  Permissions = {"read", "export", "write", "more", "roles", "bindings"}
  RolesManage = "roles"
  BindingsManage = "bindings"
  PageLimits = {1, 10}
  MaxRevision = 20
  Slots = {tester, other}
  NoSlot = noslot
  Tester = tester
  Elsewhere <- OtherCalls
  Calls <- TestCalls
INVARIANT ExpectationsMet
