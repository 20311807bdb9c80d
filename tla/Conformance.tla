----------------------------- MODULE Conformance -----------------------------
(***************************************************************************)
(* The vectors both stores are qualified with (core/src/conformance.rs):   *)
(* calls on a fresh scope, one after the other, and what is asserted of    *)
(* each answer.  What a test does not look at is left open here as well.   *)
(*                                                                         *)
(* Role ids are numbered in their bytewise order:                          *)
(*   A < Z < a- < a_ < absent < (BOOTSTRAP_ROLE_ID) < denied < viewer < z  *)
(***************************************************************************)
EXTENDS Policy, Sequences

CONSTANT Fresh      \* the scope of the vectors, which nobody else uses

UpperA == 1
UpperZ == 2
Dash   == 3         \* "a-"
Under  == 4         \* "a_"
Absent == 5         \* a role that is never created
Denied == 7
Viewer == 8
LowerZ == 9

VectorRoles == {UpperA, UpperZ, Dash, Under, Absent, BootstrapRole, Denied, Viewer, LowerZ}
VectorSubjects == {"owner", "other", "member", "stranger", "nobody"}
DocumentPermissions == {"read", "export", "write", "more"}

ASSUME VectorAssumption ==
  /\ Fresh \in Scopes
  /\ BootstrapRole = 6 /\ VectorRoles \subseteq RoleIds
  /\ VectorSubjects \subseteq Subjects
  /\ DocumentPermissions \subseteq Permissions \ {RolesManage, BindingsManage}
  /\ {1, 10} \subseteq PageLimits /\ MaxRevision >= 20

-----------------------------------------------------------------------------
(* The calls.                                                              *)

Check(s, q)       == [op |-> "check", scope |-> Fresh, subject |-> s, permission |-> q]
Get(r)            == [op |-> "get", scope |-> Fresh, role |-> r]
ListOf(s, n)      == [op |-> "list", scope |-> Fresh, subject |-> s, after |-> NoCursor, limit |-> n]
ListAfter(r, n)   == [op |-> "list", scope |-> Fresh, subject |-> NoSubject, after |-> r, limit |-> n]
Bootstrap(s)      == [op |-> "bootstrap", scope |-> Fresh, subject |-> s]
Create(a, r)      == [op |-> "create", scope |-> Fresh, actor |-> a, role |-> r]
SetTo(a, r, qs)   == [op |-> "set", scope |-> Fresh, actor |-> a, role |-> r, permissions |-> qs]
Delete(a, r)      == [op |-> "delete", scope |-> Fresh, actor |-> a, role |-> r]
Assign(a, s, r)   == [op |-> "assign", scope |-> Fresh, actor |-> a, subject |-> s, role |-> r]
Revoke(a, s, r)   == [op |-> "revoke", scope |-> Fresh, actor |-> a, subject |-> s, role |-> r]

-----------------------------------------------------------------------------
(* What is asserted of an answer: some of its fields.                      *)

Says(allowed)         == [kind |-> "decision", allowed |-> allowed]
SaysAt(allowed, rev)  == [kind |-> "decision", allowed |-> allowed, revision |-> rev]
Fails(f)              == [kind |-> "failure", failure |-> f]
Succeeds              == [kind |-> "mutation"]
Reaches(rev)          == [kind |-> "mutation", revision |-> rev]
Makes(changed, rev)   == [kind |-> "mutation", changed |-> changed, revision |-> rev]
Lists(roles)          == [kind |-> "page", roles |-> roles]
ListsAt(roles, more, rev) == [kind |-> "page", roles |-> roles, more |-> more, revision |-> rev]
ListsMany(n)          == [kind |-> "page", count |-> n]

\* What the tests look at in an answer.
Observed(r) ==
  CASE r.kind = "page" -> [kind |-> "page", roles |-> PageRoles(r), count |-> Cardinality(r.rows),
                           more |-> r.more, revision |-> r.revision]
    [] r.kind = "role" -> [kind |-> "role", row |-> r.row, revision |-> r.revision,
                           grants |-> Cardinality(r.row.permissions)]
    [] OTHER -> r

Matches(observed, expected) ==
  \A f \in DOMAIN expected : f \in DOMAIN observed /\ observed[f] = expected[f]

Test(c, e) == [call |-> c, expected |-> e]

-----------------------------------------------------------------------------
(* The vectors.                                                            *)

ReadAndExport == {"read", "export"}

\* A scope before and after its bootstrap.
FreshScope == <<
  Test(Check("owner", "read"), SaysAt(FALSE, 0)),
  Test(Create("owner", Viewer), Fails("ScopeNotBootstrapped")),
  Test(ListAfter(NoCursor, 10), Fails("ScopeNotBootstrapped")),
  Test(Bootstrap("owner"), Makes(TRUE, 1)),
  Test(Bootstrap("owner"), Makes(FALSE, 1)),
  Test(Bootstrap("other"), Fails("ScopeAlreadyBootstrapped")) >>

\* A role is created, given permissions and bound, each of them twice, and read back.
OrdinaryRole == <<
  Test(Create("stranger", Viewer), Fails("Forbidden")),
  Test(Create("owner", Viewer), Makes(TRUE, 2)),
  Test(Create("owner", Viewer), Fails("RoleAlreadyExists")),
  Test(SetTo("owner", Viewer, ReadAndExport), Makes(TRUE, 3)),
  Test(SetTo("owner", Viewer, ReadAndExport), Makes(FALSE, 3)),
  Test(Assign("owner", "member", Viewer), Makes(TRUE, 4)),
  Test(Assign("owner", "member", Viewer), Makes(FALSE, 4)),
  Test(Check("member", "read"), SaysAt(TRUE, 4)),
  Test(Check("member", RolesManage), Says(FALSE)),
  Test(Get(Viewer),
       [kind |-> "role", revision |-> 4,
        row |-> [role |-> Viewer, protected |-> FALSE, permissions |-> ReadAndExport]]),
  Test(ListAfter(NoCursor, 1), ListsAt({BootstrapRole}, TRUE, 4)),
  Test(ListAfter(BootstrapRole, 1), ListsAt({Viewer}, FALSE, 4)),
  Test(ListOf("member", 10), Lists({Viewer})),
  Test(Revoke("owner", "nobody", Viewer), Makes(FALSE, 4)) >>

\* What is protected, and roles that are not there.
Refusals == <<
  Test(Delete("owner", BootstrapRole), Fails("ProtectedRole")),
  Test(SetTo("owner", BootstrapRole, ReadAndExport), Fails("ProtectedRole")),
  Test(Revoke("owner", "owner", BootstrapRole), Fails("ProtectedBinding")),
  Test(Assign("owner", "member", Absent), Fails("RoleNotFound")),
  Test(Revoke("owner", "member", Absent), Fails("RoleNotFound")),
  Test(Delete("owner", Absent), Fails("RoleNotFound")),
  Test(SetTo("owner", Absent, ReadAndExport), Fails("RoleNotFound")) >>

\* The owner hands the scope over and is an administrator no more.  Replacing all
\* permissions of a role, here by every one of a document, is one change.
Handover == <<
  Test(Assign("owner", "other", BootstrapRole), Reaches(5)),
  Test(Revoke("other", "owner", BootstrapRole), Reaches(6)),
  Test(Create("owner", Denied), Fails("Forbidden")),
  Test(Revoke("other", "other", BootstrapRole), Fails("ProtectedBinding")),
  Test(SetTo("other", Viewer, DocumentPermissions), Reaches(7)),
  Test(Get(Viewer), [kind |-> "role", grants |-> Cardinality(DocumentPermissions)]),
  Test(SetTo("other", Viewer, {}), Reaches(8)),
  Test(Check("member", "read"), Says(FALSE)),
  Test(Delete("other", Viewer), Reaches(9)),
  Test(ListOf("member", 10), Lists({})),
  Test(Check("other", BindingsManage), Says(TRUE)) >>

Listing == <<UpperA, UpperZ, Dash, Under, BootstrapRole, LowerZ>>

\* Roles are listed in bytewise order, whatever the order of their creation.
PageOrder ==
  [i \in 1..5 |-> Test(Create("other", <<UpperZ, Under, Dash, UpperA, LowerZ>>[i]), Succeeds)]
  \o <<Test(ListAfter(NoCursor, 10), Lists({Listing[i] : i \in DOMAIN Listing}))>>
  \o [i \in DOMAIN Listing |->
        Test(ListAfter(IF i = 1 THEN NoCursor ELSE Listing[i - 1], 1), Lists({Listing[i]}))]

\* What two roles grant adds up, and revoking one takes away what it granted only.
Union == <<
  Test(SetTo("other", UpperA, {"read"}), Succeeds),
  Test(Assign("other", "member", UpperA), Succeeds),
  Test(SetTo("other", UpperZ, {"write"}), Succeeds),
  Test(Assign("other", "member", UpperZ), Succeeds),
  Test(Check("member", "read"), Says(TRUE)),
  Test(Check("member", "write"), Says(TRUE)),
  Test(Revoke("other", "member", UpperA), Succeeds),
  Test(Check("member", "read"), Says(FALSE)),
  Test(Check("member", "write"), Says(TRUE)),
  Test(Bootstrap("owner"), [kind |-> "mutation", changed |-> FALSE]) >>

Vectors == FreshScope \o OrdinaryRole \o Refusals \o Handover \o PageOrder \o Union

\* What others do meanwhile in scopes of their own.
OtherCalls ==
  [op : {"bootstrap"}, scope : Scopes \ {Fresh}, subject : {"owner"}]
  \cup [op : {"create", "delete"}, scope : Scopes \ {Fresh}, actor : {"owner"}, role : {Viewer}]
  \cup [op : {"revoke"}, scope : Scopes \ {Fresh}, actor : {"owner"}, subject : {"owner"},
        role : {BootstrapRole}]

TestCalls == {Vectors[i].call : i \in DOMAIN Vectors} \cup OtherCalls
=============================================================================
