------------------------------- MODULE MCCalls -------------------------------
(* Bounded values for the constants of Policy, and the calls the instances make. *)
EXTENDS Policy, TLC

CONSTANTS s1, alice, bob

MCRoles == {1, 2, 3}
MCBootstrapRole == 2            \* between two ordinary roles in the page order
MCPermissions == {"roles", "bindings", "read"}
MCPageLimits == {1, 2}

\* Two subjects share the bootstrap role, and manage an ordinary role.
MixedCalls ==
  [op : {"bootstrap"}, scope : Scopes, subject : Subjects]
  \cup [op : {"assign", "revoke"}, scope : Scopes, actor : Subjects, subject : Subjects, role : {2}]
  \cup [op : {"assign", "revoke"}, scope : Scopes, actor : {alice}, subject : {bob}, role : {1}]
  \cup [op : {"create", "delete"}, scope : Scopes, actor : Subjects, role : {1}]
  \cup [op : {"set"}, scope : Scopes, actor : Subjects, role : {1, 2},
        permissions : {{"read"}, {"roles", "bindings"}}]
  \cup [op : {"delete"}, scope : Scopes, actor : {bob}, role : {2}]
  \cup [op : {"check"}, scope : Scopes, subject : {bob}, permission : {"read"}]
  \cup [op : {"get"}, scope : Scopes, role : {1}]
  \cup [op : {"list"}, scope : Scopes, subject : {NoSubject, bob}, after : {0, 1}, limit : {1}]

\* Two subjects bootstrap the scope, and give and take its bootstrap role.
AdministratorCalls ==
  [op : {"bootstrap"}, scope : Scopes, subject : Subjects]
  \cup [op : {"assign", "revoke"}, scope : Scopes, actor : Subjects, subject : Subjects, role : {2}]
  \cup [op : {"delete"}, scope : Scopes, actor : {alice}, role : {2}]
  \cup [op : {"create"}, scope : Scopes, actor : Subjects, role : {1}]
  \cup [op : {"check"}, scope : Scopes, subject : {bob}, permission : {"bindings"}]

\* Alice manages ordinary roles while Bob reads them; with role 1 he may be given a part in
\* that, which he loses with his binding, with the role, or with what the role permits.
DirectoryCalls ==
  [op : {"bootstrap"}, scope : Scopes, subject : {alice}]
  \cup [op : {"create", "delete"}, scope : Scopes, actor : {alice}, role : {1}]
  \cup [op : {"create"}, scope : Scopes, actor : {alice, bob}, role : {3}]
  \cup [op : {"set"}, scope : Scopes, actor : {alice}, role : {1, 2}, permissions : {{"roles"}, {}}]
  \cup [op : {"assign", "revoke"}, scope : Scopes, actor : {alice}, subject : {bob}, role : {1}]
  \cup [op : {"get"}, scope : Scopes, role : {1}]
  \cup [op : {"check"}, scope : Scopes, subject : {bob}, permission : {"roles"}]
  \cup [op : {"list"}, scope : Scopes, subject : {NoSubject, bob}, after : {0}, limit : {1, 2}]
  \cup [op : {"list"}, scope : Scopes, subject : {NoSubject}, after : {1}, limit : {1}]
=============================================================================
