------------------------------- MODULE Service -------------------------------
(***************************************************************************)
(* The Access Control service (core/src/lib.rs) in front of a store, and   *)
(* the agent tools (agent-tools-plugin/src/lib.rs) in front of the         *)
(* service.  A handler admits the caller, verifies its actor assertion and *)
(* validates the request without a pause, and only then calls the store,   *)
(* where it may wait.  The answer of the store is turned into the errors   *)
(* of the capability, and those into tool errors.                          *)
(*                                                                         *)
(* The store is AccessStore: what PostgresStore and D1Store implement.     *)
(* Requests are well formed or not; the text of identifiers is left out.   *)
(***************************************************************************)
EXTENDS Policy

CONSTANTS
  Slots,             \* the requests in flight at once
  Calls,             \* the store calls they may lead to
  Instances,         \* plugin instance keys of callers
  BootstrapCallers,  \* configured: may bootstrap
  DirectoryCallers,  \* configured: may read the directory
  Requests,          \* the requests that are made
  Horizon            \* the last time of the clock

ASSUME ServiceAssumption ==
  /\ Calls \subseteq StoreCalls
  /\ BootstrapCallers # {} /\ BootstrapCallers \cup DirectoryCallers \subseteq Instances
  /\ Horizon \in Nat

VARIABLES
  now,               \* the UTC clock
  request,           \* the request in flight and when it came, per slot
  response,          \* its response, per slot
  policy, phase, call, result     \* of the store

vars == <<now, request, response, policy, phase, call, result>>

Store == INSTANCE AccessStore

NoRequest  == [via |-> "none"]
NoResponse == [kind |-> "none"]
Pending    == [kind |-> "pending"]

Success(r, next) == [kind |-> "success", result |-> r, next |-> next]
DomainError(e)   == [kind |-> "domain", error |-> e]
Runtime          == [kind |-> "runtime"]
Panic            == [kind |-> "panic"]

\* An error of a tool carries its reason if the tool was rejected.
Errors == DomainFailures \cup {"Unauthenticated", "InvalidRequest", "InvalidPage"}
          \cup {"PermissionDenied", "InvalidArguments", "NotFound"}

Responses ==
  {NoResponse, Pending, Runtime, Panic}
  \cup [kind : {"domain"}, error : Errors]
  \cup [kind : {"success"}, result : Versioned, next : RoleIds \cup {NoCursor}]

TypeOK ==
  /\ Store!TypeOK
  /\ now \in 0..Horizon
  /\ \A t \in Slots :
       /\ request[t] = NoRequest \/ \E q \in Requests, n \in 0..Horizon : request[t] = [q EXCEPT !.at = n]
       /\ response[t] \in Responses

Init ==
  /\ Store!Init
  /\ now = 0
  /\ request  = [t \in Slots |-> NoRequest]
  /\ response = [t \in Slots |-> NoResponse]

-----------------------------------------------------------------------------
(* Admission.                                                              *)

\* project_context of the Auth SDK: the assertion is signed by the configured issuer, for
\* this very operation, and valid now; the service wants a human actor, well named.
Authenticated(a, op, time) ==
  /\ a.genuine /\ a.operation = op
  /\ a.from <= time /\ time < a.until
  /\ a.kind = "user" /\ a.subject \in Subjects

\* Mutant: an assertion for any operation will do.
EntryWithoutAudience(q, time) ==
  CASE q.call.op \in {"get", "list"} /\ q.caller \notin DirectoryCallers -> "Forbidden"
    [] q.call.op = "bootstrap" /\ q.caller \notin BootstrapCallers -> "Forbidden"
    [] q.call.op \in AdminOps /\ ~ Authenticated(q.assertion, q.assertion.operation, time) -> "Unauthenticated"
    [] OTHER -> "none"

\* The answer of the handler before it looks at the request: who may ask at all.
Entry(q, time) ==
  CASE q.call.op \in {"get", "list"} /\ q.caller \notin DirectoryCallers -> "Forbidden"
    [] q.call.op = "bootstrap" /\ q.caller \notin BootstrapCallers -> "Forbidden"
    [] q.call.op \in AdminOps /\ ~ Authenticated(q.assertion, q.call.op, time) -> "Unauthenticated"
    [] OTHER -> "none"

ValidPage(q) == q.call.limit \in PageLimits /\ q.form # "bad cursor"

\* Identifiers in their alphabets and lengths, distinct permissions, and no creation of
\* the role that only a bootstrap creates; then the page.
Flaw(q) ==
  CASE q.form = "malformed" -> "InvalidRequest"
    [] q.call.op = "create" /\ q.call.role = BootstrapRole -> "InvalidRequest"
    [] q.call.op = "list" /\ ~ ValidPage(q) -> "InvalidPage"
    [] OTHER -> "none"

\* The error a handler answers without a call of the store.
Rejection(q, time) == IF Entry(q, time) # "none" THEN Entry(q, time) ELSE Flaw(q)

\* The actor of a call is the subject of the assertion, whoever the caller is.
StoreCall(q) ==
  IF q.call.op \in AdminOps THEN [q.call EXCEPT !.actor = q.assertion.subject] ELSE q.call

\* Whatever else it is, a request is one of an operation; where nothing is wrong with it and
\* its actor is a subject, it leads to a store call.
ASSUME RequestAssumption ==
  \A q \in Requests :
    /\ q = [via |-> q.via, caller |-> q.caller, call |-> q.call, assertion |-> q.assertion,
            form |-> q.form, at |-> q.at]
    /\ q.call.op \in ReadOps \cup {"bootstrap"} \cup AdminOps
    /\ q.call.op \in AdminOps => {"op", "actor"} \subseteq DOMAIN q.call
    /\ /\ q.form # "undecodable" /\ Flaw(q) = "none"
       /\ q.call.op \in AdminOps => q.assertion.subject \in Subjects
       => StoreCall(q) \in Calls

-----------------------------------------------------------------------------
(* Answers.                                                                *)

\* Mutant: the arm for a role that exists is missing.
MappedCreate(op) ==
  CASE op = "bootstrap" -> {"Forbidden", "ScopeAlreadyBootstrapped"}
    [] op \in AdminOps  -> DomainFailures \ {"RoleAlreadyExists", "ScopeAlreadyBootstrapped"}
    [] op = "get"       -> {"ScopeNotBootstrapped", "RoleNotFound"}
    [] op = "list"      -> {"ScopeNotBootstrapped"}

\* The failures that the map_..._failure function of an operation has an arm for.
Mapped(op) ==
  CASE op = "bootstrap" -> {"Forbidden", "ScopeAlreadyBootstrapped"}
    [] op = "create"    -> DomainFailures \ {"ScopeAlreadyBootstrapped"}
    [] op \in RoleOps   -> DomainFailures \ {"RoleAlreadyExists", "ScopeAlreadyBootstrapped"}
    [] op = "get"       -> {"ScopeNotBootstrapped", "RoleNotFound"}
    [] op = "list"      -> {"ScopeNotBootstrapped"}

\* The response of the service to the answer r of the store.
Rendered(op, r) ==
  CASE r.kind = "failure" -> DomainError(IF r.failure \in Mapped(op) THEN r.failure ELSE "InvalidRequest")
    [] r.kind = "unavailable" -> Runtime
    [] r.kind = "page" ->
         IF r.more /\ r.rows = {} THEN Panic      \* expect("non-empty truncated page")
         ELSE Success(r, NextCursor(r))
    [] OTHER -> Success(r, NoCursor)

\* as_tool_error: what remains of a domain error; the others are reasons of a rejection.
ToolError(e) ==
  CASE e \in {"Unauthenticated", "Forbidden"}     -> "PermissionDenied"
    [] e \in {"InvalidRequest", "InvalidPage"}    -> "InvalidArguments"
    [] e = "RoleNotFound"                         -> "NotFound"
    [] OTHER                                      -> e

Answered(q, resp) ==
  IF q.via = "tool" /\ resp.kind = "domain" THEN DomainError(ToolError(resp.error)) ELSE resp

-----------------------------------------------------------------------------
Took(t, q)    == request' = [request EXCEPT ![t] = [q EXCEPT !.at = now]]
Respond(t, r) == response' = [response EXCEPT ![t] = r]

\* The tools that are offered; bootstrap and check are not among them.
Offered(q) == q.via = "direct" \/ q.call.op \in {"get", "list"} \cup AdminOps

\* A request that ends before the store: no such tool, arguments that do not decode, or a
\* rejection.
Reject(t, q) ==
  /\ request[t] = NoRequest
  /\ \/ ~ Offered(q) /\ Respond(t, DomainError("NotFound"))
     \/ /\ Offered(q) /\ q.via = "tool" /\ q.form = "undecodable"
        /\ Respond(t, DomainError("InvalidArguments"))
     \/ /\ Offered(q) /\ q.form # "undecodable" /\ Rejection(q, now) # "none"
        /\ Respond(t, Answered(q, DomainError(Rejection(q, now))))
  /\ Took(t, q)
  /\ UNCHANGED <<now, policy, phase, call, result>>

Admit(t, q) ==
  /\ request[t] = NoRequest
  /\ Offered(q) /\ q.form # "undecodable" /\ Rejection(q, now) = "none"
  /\ Took(t, q) /\ Respond(t, Pending)
  /\ Store!Start(t, StoreCall(q))
  /\ UNCHANGED now

\* The store works on a call that waits for it.  A change in doubt may come through later.
StoreWorks(t) ==
  /\ \/ /\ response[t] = Pending
        /\ \/ Store!Refuse(t) \/ Store!Answer(t) \/ Store!Keep(t) \/ Store!Change(t)
           \/ Store!Lose(t) \/ Store!Doubt(t)
     \/ Store!LateChange(t)
  /\ UNCHANGED <<now, request, response>>

Finish(t) ==
  /\ response[t] = Pending /\ phase[t] \in {"decided", "doubt"}
  /\ Respond(t, Answered(request[t], Rendered(call[t].op, result[t])))
  /\ UNCHANGED <<now, request, policy, phase, call, result>>

\* The response has been delivered.
Leave(t) ==
  /\ request[t] # NoRequest /\ response[t] # Pending
  /\ request'  = [request EXCEPT ![t] = NoRequest]
  /\ response' = [response EXCEPT ![t] = NoResponse]
  /\ \/ phase[t] = "idle" /\ UNCHANGED <<policy, phase, call, result>>
     \/ Store!Return(t)
  /\ UNCHANGED now

Tick == now < Horizon /\ now' = now + 1 /\ UNCHANGED <<request, response, policy, phase, call, result>>

Step(t) ==
  \/ \E q \in Requests : Reject(t, q) \/ Admit(t, q)
  \/ StoreWorks(t)
  \/ Finish(t)
  \/ Leave(t)

Next == Tick \/ \E t \in Slots : Step(t)

Spec == Init /\ [][Next]_vars

-----------------------------------------------------------------------------
(* Properties.                                                             *)

\* Who the request of slot t speaks for was entitled to ask when the request came: an
\* admitted bootstrap caller, or a person with an assertion for this operation.
Entitled(t) ==
  LET q == request[t]
  IN  IF call[t].op = "bootstrap" THEN q.caller \in BootstrapCallers
      ELSE /\ q.assertion.genuine /\ q.assertion.kind = "user"
           /\ q.assertion.operation = call[t].op /\ q.assertion.subject = call[t].actor
           /\ q.assertion.from <= q.at /\ q.at < q.assertion.until

\* No scope changes but by a request that was entitled, whose actor is authorized when
\* the change is made, however long the store took and whoever changed what meanwhile.
OnlyTheEntitledChange ==
  [][\A s \in Scopes : policy'[s] # policy[s] =>
       \E t \in Slots :
         /\ phase[t] # "idle" /\ call[t].scope = s /\ Entitled(t)
         /\ call[t].op # "bootstrap" => Authorized(call[t], policy[s])]_vars

\* The error of a request is about that request: a sound one is never called invalid (the
\* fallback arms of the failure maps are dead), an authenticated actor never
\* unauthenticated, and a tool says "not found" only for a role or a tool.
ErrorsAreHonest ==
  \A t \in Slots : response[t].kind = "domain" =>
    LET q == request[t]
        e == response[t].error
    IN  /\ e \in {"InvalidRequest", "InvalidArguments"} =>
             q.form = "undecodable" \/ Flaw(q) # "none"
        /\ e = "Unauthenticated" => ~ Authenticated(q.assertion, q.call.op, q.at)
        /\ e = "NotFound" => ~ Offered(q) \/ result[t] = Failure("RoleNotFound")
        /\ e = "RoleAlreadyExists" => q.call.op = "create"

\* A page can be continued where it ends: if it has a next cursor, that is its last role,
\* and above the cursor it was asked for; the handler never panics on an empty page.
PagesContinue ==
  \A t \in Slots :
    /\ response[t] # Panic
    /\ response[t].kind = "success" /\ call[t].op = "list" =>
         LET page == response[t].result
             next == response[t].next
         IN  /\ page.more <=> next # NoCursor
             /\ next # NoCursor => /\ next \in PageRoles(page) /\ next > call[t].after
                                   /\ \A r \in PageRoles(page) : call[t].after < r /\ r <= next
=============================================================================
