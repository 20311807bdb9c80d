------------------------------- MODULE Policy -------------------------------
(***************************************************************************)
(* The data of Access Control: the policy kept for one scope, the calls of *)
(* the Store trait on it, and what each call answers and changes.          *)
(*                                                                         *)
(* A policy is the content of the four tables of one scope.  Roles are     *)
(* natural numbers so that `<' is the bytewise order of role ids that      *)
(* pages follow; role names and time stamps are left out.                  *)
(***************************************************************************)
EXTENDS Integers, FiniteSets

CONSTANTS
  Scopes,          \* the scope keys (kind, id)
  Subjects,        \* the subjects roles are bound to, and the actors of calls
  NoSubject,       \* the absent subject: no bootstrap owner, no page filter
  RoleIds,         \* role ids, in bytewise order
  BootstrapRole,   \* BOOTSTRAP_ROLE_ID
  Permissions,     \* permission names
  RolesManage,     \* ROLES_MANAGE_PERMISSION
  BindingsManage,  \* BINDINGS_MANAGE_PERMISSION
  PageLimits,      \* the page sizes callers ask for (1..100 in the service)
  MaxRevision      \* the largest revision the column holds (2^63 - 1 in the code)

ASSUME PolicyAssumption ==
  /\ IsFiniteSet(Subjects) /\ NoSubject \notin Subjects
  /\ IsFiniteSet(RoleIds) /\ RoleIds \subseteq Nat \ {0} /\ BootstrapRole \in RoleIds
  /\ {RolesManage, BindingsManage} \subseteq Permissions /\ RolesManage # BindingsManage
  /\ PageLimits \subseteq Nat \ {0}
  /\ MaxRevision \in Nat \ {0}

NoCursor == 0      \* no after_role_id: every role id is above it

-----------------------------------------------------------------------------
(* The policy of a scope.                                                  *)

Policies ==
  [owner     : Subjects \cup {NoSubject},   \* bootstrap_subject
   revision  : 0..MaxRevision,              \* policy_revision
   roles     : SUBSET RoleIds,
   protected : SUBSET RoleIds,              \* the roles whose protected flag is set
   grants    : SUBSET (RoleIds \X Permissions),
   bindings  : SUBSET (Subjects \X RoleIds)]

NoPolicy ==        \* a scope without a row in access_control_scopes
  [owner |-> NoSubject, revision |-> 0, roles |-> {}, protected |-> {},
   grants |-> {}, bindings |-> {}]

Bootstrapped(p) == p.owner # NoSubject
Grants(p, r)    == {q \in Permissions : <<r, q>> \in p.grants}
Binders(p, r)   == {s \in Subjects : <<s, r>> \in p.bindings}

\* Some role bound to the subject grants the permission.
Allowed(p, s, q) == \E r \in RoleIds : <<s, r>> \in p.bindings /\ <<r, q>> \in p.grants

\* The protected role exists, is bound, and grants both management permissions.
BootstrapComplete(p) ==
  /\ BootstrapRole \in p.roles \cap p.protected
  /\ Binders(p, BootstrapRole) # {}
  /\ {RolesManage, BindingsManage} \subseteq Grants(p, BootstrapRole)

-----------------------------------------------------------------------------
(* The calls of the Store trait.                                           *)

CheckCalls     == [op : {"check"}, scope : Scopes, subject : Subjects, permission : Permissions]
GetCalls       == [op : {"get"}, scope : Scopes, role : RoleIds]
ListCalls      == [op : {"list"}, scope : Scopes, subject : Subjects \cup {NoSubject},
                   after : RoleIds \cup {NoCursor}, limit : PageLimits]
BootstrapCalls == [op : {"bootstrap"}, scope : Scopes, subject : Subjects]
\* The service answers a creation of BOOTSTRAP_ROLE_ID itself: the store never sees one.
CreateCalls    == [op : {"create"}, scope : Scopes, actor : Subjects, role : RoleIds \ {BootstrapRole}]
SetCalls       == [op : {"set"}, scope : Scopes, actor : Subjects, role : RoleIds,
                   permissions : SUBSET Permissions]
DeleteCalls    == [op : {"delete"}, scope : Scopes, actor : Subjects, role : RoleIds]
BindingCalls   == [op : {"assign", "revoke"}, scope : Scopes, actor : Subjects,
                   subject : Subjects, role : RoleIds]

StoreCalls == CheckCalls \cup GetCalls \cup ListCalls \cup BootstrapCalls
  \cup CreateCalls \cup SetCalls \cup DeleteCalls \cup BindingCalls

ReadOps  == {"check", "get", "list"}
RoleOps  == {"set", "delete", "assign", "revoke"}   \* name a role that must exist
AdminOps == {"create"} \cup RoleOps                 \* need an authorized actor

\* The permission the actor of an administration call needs.
Needed(c) == IF c.op \in {"assign", "revoke"} THEN BindingsManage ELSE RolesManage

-----------------------------------------------------------------------------
(* What the calls do to a policy.                                          *)

SeedPolicy(s) ==
  [owner |-> s, revision |-> 0, roles |-> {BootstrapRole}, protected |-> {BootstrapRole},
   grants |-> {BootstrapRole} \X {RolesManage, BindingsManage},
   bindings |-> {<<s, BootstrapRole>>}]

WithGrants(p, r, qs) ==
  [p EXCEPT !.grants = {g \in @ : g[1] # r} \cup ({r} \X qs)]

\* Mutant: the bindings of a deleted role stay.
WithoutRoleKeepingBindings(p, r) ==
  [p EXCEPT !.roles = @ \ {r}, !.grants = {g \in @ : g[1] # r}]

\* Deleting the role row cascades to its grants and its bindings.
WithoutRole(p, r) ==
  [p EXCEPT !.roles = @ \ {r}, !.protected = @ \ {r},
            !.grants = {g \in @ : g[1] # r}, !.bindings = {b \in @ : b[2] # r}]

\* The rows a successful mutation leaves, its revision aside.
Effect(c, p) ==
  CASE c.op = "bootstrap" -> IF Bootstrapped(p) THEN p ELSE SeedPolicy(c.subject)
    [] c.op = "create"    -> [p EXCEPT !.roles = @ \cup {c.role}]
    [] c.op = "set"       -> WithGrants(p, c.role, c.permissions)
    [] c.op = "delete"    -> WithoutRole(p, c.role)
    [] c.op = "assign"    -> [p EXCEPT !.bindings = @ \cup {<<c.subject, c.role>>}]
    [] c.op = "revoke"    -> [p EXCEPT !.bindings = @ \ {<<c.subject, c.role>>}]

-----------------------------------------------------------------------------
(* What the calls answer.                                                  *)

DomainFailures ==
  {"Forbidden", "ScopeAlreadyBootstrapped", "ScopeNotBootstrapped",
   "RoleAlreadyExists", "RoleNotFound", "ProtectedRole", "ProtectedBinding"}

RoleRow(p, r) == [role |-> r, protected |-> r \in p.protected, permissions |-> Grants(p, r)]

\* The n lowest roles of R.
Lowest(n, R) == {r \in R : Cardinality({q \in R : q < r}) < n}

\* Mutant: the role of the cursor is listed again.
ListedFromCursor(c, p) ==
  {r \in p.roles : r >= c.after /\ (c.subject = NoSubject \/ <<c.subject, r>> \in p.bindings)}

\* The roles a listing ranges over: those above the cursor, of the subject if it names one.
Listed(c, p) ==
  {r \in p.roles : r > c.after /\ (c.subject = NoSubject \/ <<c.subject, r>> \in p.bindings)}

Decision(allowed, rev) == [kind |-> "decision", allowed |-> allowed, revision |-> rev]
DirectoryRole(row, rev) == [kind |-> "role", row |-> row, revision |-> rev]
DirectoryRolePage(rows, rev, more) ==
  [kind |-> "page", rows |-> rows, revision |-> rev, more |-> more]
Mutation(changed, rev) == [kind |-> "mutation", changed |-> changed, revision |-> rev]
Failure(f)  == [kind |-> "failure", failure |-> f]
Unavailable == [kind |-> "unavailable"]   \* the call ended in a storage error
NoResult    == [kind |-> "none"]

RoleRows == [role : RoleIds, protected : BOOLEAN, permissions : SUBSET Permissions]
Versioned ==       \* the results that carry a policy revision
  [kind : {"decision"}, allowed : BOOLEAN, revision : 0..MaxRevision]
  \cup [kind : {"role"}, row : RoleRows, revision : 0..MaxRevision]
  \cup [kind : {"page"}, rows : SUBSET RoleRows, revision : 0..MaxRevision, more : BOOLEAN]
  \cup [kind : {"mutation"}, changed : BOOLEAN, revision : 0..MaxRevision]
Results == Versioned \cup [kind : {"failure"}, failure : DomainFailures] \cup {Unavailable, NoResult}

PageRoles(page)  == {row.role : row \in page.rows}
LastRole(page)   == CHOOSE r \in PageRoles(page) : \A q \in PageRoles(page) : q <= r

\* Mutant: a last page has a next cursor too.
NextCursorAlways(page) == IF page.rows = {} THEN NoCursor ELSE LastRole(page)

\* Mutant: the cursor is past the last role.
NextCursorBeyond(page) == IF page.more THEN LastRole(page) + 1 ELSE NoCursor

\* The cursor of the service that follows a page: its last role, if the page was truncated.
NextCursor(page) == IF page.more THEN LastRole(page) ELSE NoCursor

-----------------------------------------------------------------------------
(* The outcome of a call on a policy.                                      *)

Authorized(c, p) == Bootstrapped(p) /\ Allowed(p, c.actor, Needed(c))

\* The call is answered with domain failure f.
Refused(c, p, f) ==
  \/ /\ f = "ScopeAlreadyBootstrapped"
     /\ c.op = "bootstrap" /\ p.owner \notin {NoSubject, c.subject}
  \/ /\ f = "ScopeNotBootstrapped"
     /\ c.op \in AdminOps \cup {"get", "list"} /\ ~ Bootstrapped(p)
  \/ /\ f = "Forbidden"
     /\ c.op \in AdminOps /\ Bootstrapped(p) /\ ~ Authorized(c, p)
  \/ /\ f = "RoleAlreadyExists"
     /\ c.op = "create" /\ Authorized(c, p) /\ c.role \in p.roles
  \/ /\ f = "RoleNotFound"
     /\ \/ c.op = "get" /\ Bootstrapped(p)
        \/ c.op \in RoleOps /\ Authorized(c, p)
     /\ c.role \notin p.roles
  \/ /\ f = "ProtectedRole"
     /\ c.op \in {"set", "delete"} /\ Authorized(c, p) /\ c.role \in p.protected
  \/ /\ f = "ProtectedBinding"     \* the last binding of a protected role
     /\ c.op = "revoke" /\ Authorized(c, p) /\ c.role \in p.roles \cap p.protected
     /\ Binders(p, c.role) = {c.subject}

Accepted(c, p) == \A f \in DomainFailures : ~ Refused(c, p, f)

\* The answer of an accepted read.
ReadAnswer(c, p) ==
  CASE c.op = "check" -> Decision(Allowed(p, c.subject, c.permission), p.revision)
    [] c.op = "get"   -> DirectoryRole(RoleRow(p, c.role), p.revision)
    [] c.op = "list"  ->
         LET page == Lowest(c.limit, Listed(c, p))
         IN  DirectoryRolePage({RoleRow(p, r) : r \in page}, p.revision, page # Listed(c, p))

\* Mutant: the revision is not advanced.
AdvanceUncounted(c, p) == Effect(c, p)

\* The policy after an accepted mutation: its revision counts the changes.
Advance(c, p) == [Effect(c, p) EXCEPT !.revision = p.revision + 1]

\* Mutant: nothing stops the revision at the largest one.
ChangesUnbounded(c, p) == c.op \notin ReadOps /\ Accepted(c, p) /\ Effect(c, p) # p

\* An accepted mutation that has something to change.
Changes(c, p) ==
  /\ c.op \notin ReadOps /\ Accepted(c, p) /\ Effect(c, p) # p
  /\ p.revision < MaxRevision      \* past it the revision column overflows: an error

-----------------------------------------------------------------------------
(* What every stored policy must be.                                       *)

\* The rows of a policy belong together: nothing is kept for a scope that is not
\* bootstrapped; grants and bindings name existing roles (the foreign keys); the
\* one protected role is the bootstrap role, with exactly the two management
\* permissions it was seeded with.
RowsBelong(p) ==
  /\ ~ Bootstrapped(p) => p = NoPolicy
  /\ \A g \in p.grants : g[1] \in p.roles
  /\ \A b \in p.bindings : b[2] \in p.roles
  /\ Bootstrapped(p) => /\ p.revision > 0
                        /\ p.protected = {BootstrapRole} /\ BootstrapRole \in p.roles
                        /\ Grants(p, BootstrapRole) = {RolesManage, BindingsManage}

\* However calls interleave, and whatever is revoked, replaced or deleted, a
\* bootstrapped scope keeps an administrator: somebody is bound to the bootstrap
\* role, so somebody may manage both its roles and its bindings.
Administrable(p) ==
  Bootstrapped(p) =>
    /\ Binders(p, BootstrapRole) # {}
    /\ \E u \in Subjects : Allowed(p, u, RolesManage) /\ Allowed(p, u, BindingsManage)
=============================================================================
