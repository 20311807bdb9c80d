----------------------------- MODULE MCService -----------------------------
(* Service with the bounded values of MCCalls and a few requests of each kind. *)
EXTENDS Service, MCCalls

CONSTANTS console, worker, stranger     \* plugin instances

\* An assertion that is in order for operation o at every time of the clock.
Sound(o, s) ==
  [genuine |-> TRUE, kind |-> "user", operation |-> o, subject |-> s, from |-> 0, until |-> 2]
Absent == [Sound("none", NoSubject) EXCEPT !.genuine = FALSE]

\* Sound assertions spoiled in one way each: forged, too late, too early, of a service
\* account, for another operation, of a subject with an ill-formed name.
Spoiled(o, s) ==
  {[Sound(o, s) EXCEPT !.genuine = FALSE], [Sound(o, s) EXCEPT !.until = 1],
   [Sound(o, s) EXCEPT !.from = 1], [Sound(o, s) EXCEPT !.kind = "service"],
   [Sound(o, s) EXCEPT !.operation = "get"], [Sound(o, s) EXCEPT !.subject = NoSubject]}

Request(via, caller, c, a, form) ==
  [via |-> via, caller |-> caller, call |-> c, assertion |-> a, form |-> form, at |-> 0]

\* Calls without an actor name nobody: the service fills in the subject of the assertion.
Create(r)    == [op |-> "create", scope |-> s1, actor |-> NoSubject, role |-> r]
Assign(o, r) == [op |-> o, scope |-> s1, actor |-> NoSubject, subject |-> bob, role |-> r]
Set(r)       == [op |-> "set", scope |-> s1, actor |-> NoSubject, role |-> r, permissions |-> {"roles"}]
Delete(r)    == [op |-> "delete", scope |-> s1, actor |-> NoSubject, role |-> r]
Get          == [op |-> "get", scope |-> s1, role |-> 1]
List(n)      == [op |-> "list", scope |-> s1, subject |-> NoSubject, after |-> NoCursor, limit |-> n]
ListAfter    == [op |-> "list", scope |-> s1, subject |-> alice, after |-> 1, limit |-> 1]
Check        == [op |-> "check", scope |-> s1, subject |-> bob, permission |-> "roles"]
Bootstrap(u) == [op |-> "bootstrap", scope |-> s1, subject |-> u]

MCRequests ==
  {Request("direct", console, Bootstrap(u), Absent, "sound") : u \in {alice, bob}}
  \cup {Request("direct", worker, Bootstrap(alice), Absent, "sound"),
        Request("tool", console, Bootstrap(alice), Absent, "sound"),
        Request("direct", stranger, Check, Absent, "sound"),
        Request("direct", stranger, Check, Absent, "malformed"),
        Request("tool", worker, Get, Absent, "undecodable")}
  \cup {Request(via, stranger, Create(1), Sound("create", alice), "sound") : via \in {"direct", "tool"}}
  \cup {Request("direct", stranger, Create(2), Sound("create", alice), "sound")}
  \cup {Request("direct", stranger, Assign("assign", 2), Sound("assign", alice), "sound"),
        Request("direct", stranger, Assign("revoke", 2), Sound("revoke", bob), "sound"),
        Request("direct", stranger, Set(1), Sound("set", bob), "sound"),
        Request("tool", stranger, Delete(1), Sound("delete", bob), "sound")}
  \cup {Request("tool", stranger, Create(1), a, "sound") : a \in Spoiled("create", alice)}
  \cup {Request(via, worker, Get, Absent, "sound") : via \in {"direct", "tool"}}
  \cup {Request("direct", console, Get, Absent, "sound")}
  \cup {Request("direct", worker, List(n), Absent, "sound") : n \in {0, 1, 3}}
  \cup {Request("direct", worker, ListAfter, Absent, f) : f \in {"sound", "bad cursor"}}

\* What those requests may come to at the store.
MCCallsOfRequests == {StoreCall(q) : q \in MCRequests} \cap StoreCalls

SlotSymmetry == Permutations(Slots)
=============================================================================
