----------------------------- MODULE ServiceProofs -----------------------------
(***************************************************************************)
(* Proofs about Service, for any configuration, any requests and any       *)
(* number of them at once: what a slot holds is at every time the story of *)
(* one request, whatever the other slots do to the policies meanwhile.     *)
(***************************************************************************)
EXTENDS Service, PolicyLemmas

NoCall == [op |-> "none"]

\* The requests as they are taken: with the time they came.
Taken == {[q EXCEPT !.at = n] : q \in Requests, n \in 0..Horizon}

Types ==
  /\ policy \in [Scopes -> Policies]
  /\ phase  \in [Slots -> {"idle", "called", "decided", "doubt"}]
  /\ call   \in [Slots -> Calls \cup {NoCall}]
  /\ result \in [Slots -> Results]
  /\ now \in 0..Horizon
  /\ request  \in [Slots -> Taken \cup {NoRequest}]
  /\ response \in [Slots -> Responses]

\* The handler has let the request through when it came.
Admitted(q) == Offered(q) /\ q.form # "undecodable" /\ Rejection(q, q.at) = "none"

\* Result r is one that call c can have: a failure its operation knows, a page that can
\* be continued, or another answer.
ResultFits(c, r) ==
  \/ r = Unavailable
  \/ c.op # "check" /\ \E f \in Mapped(c.op) : f \in DomainFailures /\ r = Failure(f)
  \/ /\ r \in Versioned /\ (c.op = "list" <=> r.kind = "page")
     /\ r.kind = "page" => /\ r.more => PageRoles(r) # {}
                           /\ \A role \in PageRoles(r) : role > c.after

\* Nothing has been asked of the store.
Unasked(ph, c, r) == ph = "idle" /\ c = NoCall /\ r = NoResult

\* Response resp ends request q before the store.
TurnedAway(q, resp) ==
  \/ ~ Offered(q) /\ resp = DomainError("NotFound")
  \/ q.via = "tool" /\ q.form = "undecodable" /\ resp = DomainError("InvalidArguments")
  \/ Rejection(q, q.at) # "none" /\ resp = Answered(q, DomainError(Rejection(q, q.at)))

\* The store has been asked what the request asks for, and what it answers is the response.
Served(ph, c, r, q, resp) ==
  /\ ph # "idle" /\ Admitted(q) /\ c = StoreCall(q) /\ c \in Calls
  /\ ph = "called"  => resp = Pending
  /\ ph = "doubt"   => r = Unavailable
  /\ ph = "decided" => ResultFits(c, r)
  /\ resp # Pending => resp = Answered(q, Rendered(c.op, r))

SlotStands(ph, c, r, q, resp) ==
  \/ Unasked(ph, c, r) /\ q = NoRequest /\ resp = NoResponse
  \/ Unasked(ph, c, r) /\ q \in Taken /\ TurnedAway(q, resp)
  \/ q \in Taken /\ Served(ph, c, r, q, resp)

IInv ==
  Types /\ \A t \in Slots : SlotStands(phase[t], call[t], result[t], request[t], response[t])

-----------------------------------------------------------------------------
(* The store of the service.                                               *)

\* The instance says the same of calls and policies as Policy does.
LEMMA SameAuthority ==
  /\ \A p, s, q : Store!Allowed(p, s, q) = Allowed(p, s, q)
  /\ \A p : Store!Bootstrapped(p) <=> Bootstrapped(p)
  /\ \A p, r : Store!Binders(p, r) = Binders(p, r)
  /\ \A c : Store!Needed(c) = Needed(c)
  /\ \A c, p : Store!Authorized(c, p) <=> Authorized(c, p)
BY DEF Store!Allowed, Allowed, Store!Bootstrapped, Bootstrapped, Store!Binders, Binders,
       Store!Needed, Needed, Store!Authorized, Authorized

LEMMA SameRefusals ==
  /\ Store!DomainFailures = DomainFailures /\ Store!ReadOps = ReadOps
  /\ \A c, p, f : Store!Refused(c, p, f) <=> Refused(c, p, f)
  /\ \A c, p : Store!Accepted(c, p) <=> Accepted(c, p)
<1>1. /\ Store!DomainFailures = DomainFailures /\ Store!ReadOps = ReadOps
      /\ Store!AdminOps = AdminOps /\ Store!RoleOps = RoleOps
  BY DEF Store!DomainFailures, DomainFailures, Store!ReadOps, ReadOps,
         Store!AdminOps, AdminOps, Store!RoleOps, RoleOps
<1>2. \A c, p, f : Store!Refused(c, p, f) <=> Refused(c, p, f)
  BY <1>1, SameAuthority DEF Store!Refused, Refused
<1>3. QED
  BY <1>1, <1>2 DEF Store!Accepted, Accepted

LEMMA SameEffects ==
  /\ \A c, p : Store!Effect(c, p) = Effect(c, p)
  /\ \A c, p : Store!Advance(c, p) = Advance(c, p)
  /\ \A c, p : Store!Changes(c, p) <=> Changes(c, p)
<1>1. \A s : Store!SeedPolicy(s) = SeedPolicy(s)
  BY DEF Store!SeedPolicy, SeedPolicy
<1>2. \A p, r : Store!WithoutRole(p, r) = WithoutRole(p, r)
  BY DEF Store!WithoutRole, WithoutRole
<1>3. \A p, r, qs : Store!WithGrants(p, r, qs) = WithGrants(p, r, qs)
  BY DEF Store!WithGrants, WithGrants
<1>4. \A c, p : Store!Effect(c, p) = Effect(c, p)
  BY <1>1, <1>2, <1>3, SameAuthority DEF Store!Effect, Effect
<1>5. \A c, p : Store!Advance(c, p) = Advance(c, p)
  BY <1>4 DEF Store!Advance, Advance
<1>6. \A c, p : Store!Changes(c, p) <=> Changes(c, p)
  BY <1>4, SameRefusals DEF Store!Changes, Changes
<1>7. QED
  BY <1>4, <1>5, <1>6

LEMMA SameAnswers ==
  /\ \A c, p : c.op \in ReadOps => Store!ReadAnswer(c, p) = ReadAnswer(c, p)
  /\ \A f : Store!Failure(f) = Failure(f)
  /\ Store!Unavailable = Unavailable /\ Store!NoResult = NoResult
  /\ \A b, n : Store!Mutation(b, n) = Mutation(b, n)
<1>1. \A p, r : Store!RoleRow(p, r) = RoleRow(p, r)
  BY DEF Store!RoleRow, RoleRow, Store!Grants, Grants
<1>0. \A S : Store!Cardinality(S) = Cardinality(S)
  BY DEF Store!Cardinality, Cardinality, Store!IsFiniteSet, IsFiniteSet
<1>2. \A n, R : Store!Lowest(n, R) = Lowest(n, R)
  BY <1>0 DEF Store!Lowest, Lowest
<1>3. \A c, p : Store!Listed(c, p) = Listed(c, p)
  BY DEF Store!Listed, Listed
<1>4. /\ \A b, n : Store!Decision(b, n) = Decision(b, n)
      /\ \A r, n : Store!DirectoryRole(r, n) = DirectoryRole(r, n)
      /\ \A r, n, m : Store!DirectoryRolePage(r, n, m) = DirectoryRolePage(r, n, m)
  BY DEF Store!Decision, Decision, Store!DirectoryRole, DirectoryRole,
         Store!DirectoryRolePage, DirectoryRolePage
<1>5. ASSUME NEW c, NEW p, c.op \in ReadOps PROVE Store!ReadAnswer(c, p) = ReadAnswer(c, p)
  <2>1. CASE c.op = "check"
    <3>1. Store!Allowed(p, c.subject, c.permission) = Allowed(p, c.subject, c.permission)
      BY SameAuthority
    <3>2. QED
      BY <1>4, <2>1, <3>1 DEF Store!ReadAnswer, ReadAnswer
  <2>2. CASE c.op = "get"
    BY <1>1, <1>4, <2>2 DEF Store!ReadAnswer, ReadAnswer
  <2>3. CASE c.op = "list"
    <3> DEFINE page == Lowest(c.limit, Listed(c, p))
    <3>1. Store!Lowest(c.limit, Store!Listed(c, p)) = page
      BY <1>2, <1>3
    <3>2. {Store!RoleRow(p, r) : r \in page} = {RoleRow(p, r) : r \in page}
      BY <1>1
    <3>3. ReadAnswer(c, p) = DirectoryRolePage({RoleRow(p, r) : r \in page}, p.revision, page # Listed(c, p))
      BY <2>3 DEF ReadAnswer
    <3>4. Store!ReadAnswer(c, p) =
            Store!DirectoryRolePage({Store!RoleRow(p, r) : r \in page}, p.revision, page # Listed(c, p))
      BY <1>3, <2>3, <3>1 DEF Store!ReadAnswer
    <3> HIDE DEF page
    <3>5. QED
      BY <1>4, <3>2, <3>3, <3>4
  <2>4. QED
    BY <1>5, <2>1, <2>2, <2>3 DEF ReadOps
<1>6. QED
  BY <1>5 DEF Store!Failure, Failure, Store!Unavailable, Unavailable, Store!NoResult,
              NoResult, Store!Mutation, Mutation

LEMMA SameTypes ==
  /\ Store!Policies = Policies /\ Store!Results = Results
  /\ Store!NoPolicy = NoPolicy /\ Store!NoCall = NoCall
<1>1. Store!RoleRows = RoleRows /\ Store!DomainFailures = DomainFailures
  BY DEF Store!RoleRows, RoleRows, Store!DomainFailures, DomainFailures
<1>2. Store!Versioned = Versioned
  BY <1>1 DEF Store!Versioned, Versioned
<1>3. Store!Results = Results
  BY <1>1, <1>2, SameAnswers DEF Store!Results, Results
<1>4. QED
  BY <1>3 DEF Store!Policies, Policies, Store!NoPolicy, NoPolicy, Store!NoCall, NoCall

\* A failure an operation may have is one it knows; a check has none.
LEMMA FailuresAreKnown ==
  ASSUME NEW c \in StoreCalls, NEW p, NEW f \in DomainFailures, Refused(c, p, f)
  PROVE  ResultFits(c, Failure(f))
<1>1. c.op \in {"get", "list", "bootstrap", "create", "set", "delete", "assign", "revoke"}
  BY DEF Refused, AdminOps, RoleOps
<1>2. f \in Mapped(c.op)
  <2>1. CASE c.op = "bootstrap"
    BY <2>1 DEF Refused, Mapped, AdminOps, RoleOps
  <2>2. CASE c.op = "create"
    BY <2>2 DEF Refused, Mapped, RoleOps
  <2>3. CASE c.op \in RoleOps
    BY <2>3 DEF Refused, Mapped, RoleOps
  <2>4. CASE c.op \in {"get", "list"}
    BY <2>4 DEF Refused, Mapped, AdminOps, RoleOps
  <2>5. QED
    BY <1>1, <2>1, <2>2, <2>3, <2>4 DEF RoleOps
<1>3. QED
  BY <1>1, <1>2 DEF ResultFits

\* The answer of a read fits it: no page but of a listing, and one that can be continued.
LEMMA AnswersFit ==
  ASSUME NEW c \in StoreCalls, c.op \in ReadOps, NEW p \in Policies
  PROVE  ReadAnswer(c, p) \in Results /\ ResultFits(c, ReadAnswer(c, p))
<1> DEFINE r == ReadAnswer(c, p)
<1>1. r \in Versioned /\ r \in Results
  BY ReadAnswerType, ResultTypes
<1>2. CASE c.op = "check"
  <2>1. r.kind = "decision"
    BY <1>2 DEF ReadAnswer, Decision
  <2>2. QED
    BY <1>1, <1>2, <2>1 DEF ResultFits
<1>3. CASE c.op = "get"
  <2>1. r.kind = "role"
    BY <1>3 DEF ReadAnswer, DirectoryRole
  <2>2. QED
    BY <1>1, <1>3, <2>1 DEF ResultFits
<1>4. CASE c.op = "list"
  <2> DEFINE R == Listed(c, p)
             n == c.limit
  <2>1. /\ r.kind = "page" /\ PageRoles(r) = Lowest(n, R) /\ (r.more <=> PageRoles(r) # R)
        /\ R \in SUBSET Nat /\ IsFiniteSet(R)
    BY <1>4, ListAnswer
  <2>2. n \in Nat \ {0} /\ \A role \in R : role > c.after
    BY <1>4, CallShape, PolicyAssumption DEF Listed
  <2> HIDE DEF R, n, r
  <2>3. Lowest(n, R) \subseteq R /\ (Lowest(n, R) # R => Lowest(n, R) # {})
    BY <2>1, <2>2, PagesAreFirst
  <2>4. (r.more => PageRoles(r) # {}) /\ \A role \in PageRoles(r) : role > c.after
    BY <2>1, <2>2, <2>3
  <2>5. QED
    BY <1>1, <1>4, <2>1, <2>4 DEF ResultFits, r
<1>5. QED
  BY <1>2, <1>3, <1>4 DEF ReadOps

-----------------------------------------------------------------------------
(* Requests.                                                               *)

\* A request that is taken is the one that was made; only its time is new.
LEMMA SameTaken ==
  ASSUME NEW q \in Requests, NEW n \in 0..Horizon
  PROVE  LET x == [q EXCEPT !.at = n]
         IN  /\ x \in Taken /\ x # NoRequest /\ x.at = n
             /\ x.via = q.via /\ x.caller = q.caller /\ x.call = q.call
             /\ x.assertion = q.assertion /\ x.form = q.form
             /\ (Offered(x) <=> Offered(q)) /\ Flaw(x) = Flaw(q) /\ StoreCall(x) = StoreCall(q)
             /\ \A time : Rejection(x, time) = Rejection(q, time)
             /\ \A resp : Answered(x, resp) = Answered(q, resp)
<1> DEFINE x == [q EXCEPT !.at = n]
<1>1. q = [via |-> q.via, caller |-> q.caller, call |-> q.call, assertion |-> q.assertion,
           form |-> q.form, at |-> q.at]
  BY RequestAssumption
<1>2. x = [via |-> q.via, caller |-> q.caller, call |-> q.call, assertion |-> q.assertion,
           form |-> q.form, at |-> n]
  BY <1>1
<1>3. x \in Taken
  BY DEF Taken
<1> HIDE DEF x
<1>4. /\ x.at = n /\ x.via = q.via /\ x.caller = q.caller /\ x.call = q.call
      /\ x.assertion = q.assertion /\ x.form = q.form
  BY <1>2
<1>5. x # NoRequest
  <2>1. "at" \in DOMAIN x /\ "at" \notin DOMAIN NoRequest
    BY <1>2 DEF NoRequest
  <2>2. QED
    BY <2>1
<1>6. (Offered(x) <=> Offered(q)) /\ Flaw(x) = Flaw(q) /\ StoreCall(x) = StoreCall(q)
  BY <1>4 DEF Offered, Flaw, ValidPage, StoreCall
<1>7. \A time : Rejection(x, time) = Rejection(q, time)
  BY <1>4, <1>6 DEF Rejection, Entry
<1>8. \A resp : Answered(x, resp) = Answered(q, resp)
  BY <1>4 DEF Answered
<1>9. QED
  BY <1>3, <1>4, <1>5, <1>6, <1>7, <1>8 DEF x

\* What is assumed of the requests that are made holds of those that are taken.
LEMMA TakenRequests ==
  ASSUME NEW q \in Taken
  PROVE  /\ q # NoRequest /\ q.call.op \in ReadOps \cup {"bootstrap"} \cup AdminOps
         /\ q.call.op \in AdminOps => {"op", "actor"} \subseteq DOMAIN q.call
         /\ /\ q.form # "undecodable" /\ Flaw(q) = "none"
            /\ q.call.op \in AdminOps => q.assertion.subject \in Subjects
            => StoreCall(q) \in Calls
<1>1. PICK o \in Requests, n \in 0..Horizon : q = [o EXCEPT !.at = n]
  BY DEF Taken
<1>2. /\ q # NoRequest /\ q.call = o.call /\ q.assertion = o.assertion /\ q.form = o.form
      /\ Flaw(q) = Flaw(o) /\ StoreCall(q) = StoreCall(o)
  BY <1>1, SameTaken
<1>3. QED
  BY <1>2, RequestAssumption

\* A request that is let through leads to a call of the store, in the name of its actor.
LEMMA AdmittedRequests ==
  ASSUME NEW q \in Taken, Admitted(q)
  PROVE  /\ StoreCall(q) \in Calls /\ StoreCall(q) \in StoreCalls
         /\ StoreCall(q).op = q.call.op
         /\ Entry(q, q.at) = "none" /\ Flaw(q) = "none"
         /\ q.call.op \in AdminOps =>
              /\ Authenticated(q.assertion, q.call.op, q.at)
              /\ StoreCall(q).actor = q.assertion.subject
<1>1. Entry(q, q.at) = "none" /\ Flaw(q) = "none" /\ q.form # "undecodable"
  BY DEF Admitted, Rejection
<1>2. q.call.op \in AdminOps => Authenticated(q.assertion, q.call.op, q.at)
  <2> SUFFICES ASSUME q.call.op \in AdminOps, ~ Authenticated(q.assertion, q.call.op, q.at)
               PROVE  FALSE
    OBVIOUS
  <2>1. q.call.op \notin {"get", "list", "bootstrap"}
    BY DEF AdminOps, RoleOps
  <2>2. Entry(q, q.at) = "Unauthenticated"
    BY <2>1 DEF Entry
  <2>3. QED
    BY <1>1, <2>2
<1>3. StoreCall(q) \in Calls /\ StoreCall(q) \in StoreCalls
  BY <1>1, <1>2, TakenRequests, ServiceAssumption DEF Authenticated
<1>4. q.call.op \in AdminOps =>
        StoreCall(q).op = q.call.op /\ StoreCall(q).actor = q.assertion.subject
  BY TakenRequests DEF StoreCall
<1>5. q.call.op \notin AdminOps => StoreCall(q).op = q.call.op
  BY DEF StoreCall
<1>6. QED
  BY <1>1, <1>2, <1>3, <1>4, <1>5

\* The errors of the service, and those of the tools.
LEMMA ErrorTypes ==
  /\ \A q : \A e \in Errors : DomainError(e) \in Responses /\ Answered(q, DomainError(e)) \in Responses
  /\ \A q, n : Rejection(q, n) \in {"none", "Forbidden", "Unauthenticated", "InvalidRequest", "InvalidPage"}
  /\ {"Forbidden", "Unauthenticated", "InvalidRequest", "InvalidPage", "NotFound",
      "InvalidArguments"} \cup DomainFailures \subseteq Errors
<1>1. \A e \in Errors : DomainError(e) \in Responses /\ ToolError(e) \in Errors
  BY DEF DomainError, Responses, ToolError, Errors
<1>2. \A e \in Errors : DomainError(e).error = e
  BY DEF DomainError
<1>3. \A q : \A e \in Errors : Answered(q, DomainError(e)) \in Responses
  BY <1>1, <1>2 DEF Answered
<1>4. \A q, n : Entry(q, n) \in {"none", "Forbidden", "Unauthenticated"}
  <2> SUFFICES ASSUME NEW q, NEW n PROVE Entry(q, n) \in {"none", "Forbidden", "Unauthenticated"}
    OBVIOUS
  <2>1. CASE q.call.op \in {"get", "list"}
    BY <2>1 DEF Entry, AdminOps, RoleOps
  <2>2. CASE q.call.op = "bootstrap"
    BY <2>2 DEF Entry, AdminOps, RoleOps
  <2>3. CASE q.call.op \in AdminOps
    BY <2>3 DEF Entry, AdminOps, RoleOps
  <2>4. CASE q.call.op \notin {"get", "list", "bootstrap"} \cup AdminOps
    BY <2>4 DEF Entry
  <2>5. QED
    BY <2>1, <2>2, <2>3, <2>4
<1>5. \A q : Flaw(q) \in {"none", "InvalidRequest", "InvalidPage"}
  <2> SUFFICES ASSUME NEW q PROVE Flaw(q) \in {"none", "InvalidRequest", "InvalidPage"}
    OBVIOUS
  <2>1. CASE q.call.op = "create"
    BY <2>1 DEF Flaw
  <2>2. CASE q.call.op = "list"
    BY <2>2 DEF Flaw
  <2>3. CASE q.call.op \notin {"create", "list"}
    BY <2>3 DEF Flaw
  <2>4. QED
    BY <2>1, <2>2, <2>3
<1>6. \A q, n : Rejection(q, n) \in {"none", "Forbidden", "Unauthenticated", "InvalidRequest", "InvalidPage"}
  BY <1>4, <1>5 DEF Rejection
<1>7. {"Forbidden", "Unauthenticated", "InvalidRequest", "InvalidPage", "NotFound",
       "InvalidArguments"} \cup DomainFailures \subseteq Errors
  BY DEF Errors, DomainFailures
<1>8. QED
  BY <1>1, <1>3, <1>6, <1>7

\* The page of a result, and the cursor that follows it.
LEMMA PageCursor ==
  ASSUME NEW r \in Versioned, r.kind = "page", r.more => PageRoles(r) # {}
  PROVE  /\ r.more \in BOOLEAN /\ PageRoles(r) \in SUBSET RoleIds
         /\ r.more => /\ r.rows # {} /\ NextCursor(r) \in PageRoles(r) /\ NextCursor(r) # NoCursor
                      /\ \A role \in PageRoles(r) : role <= NextCursor(r)
         /\ ~ r.more => NextCursor(r) = NoCursor
<1>1. r \in [kind : {"page"}, rows : SUBSET RoleRows, revision : 0..MaxRevision, more : BOOLEAN]
  BY DEF Versioned
<1>2. r.more \in BOOLEAN /\ r.rows \subseteq RoleRows
  BY <1>1
<1>3. PageRoles(r) \in SUBSET RoleIds
  BY <1>2 DEF PageRoles, RoleRows
<1>4. RoleIds \subseteq Nat \ {0} /\ IsFiniteSet(RoleIds) /\ NoCursor = 0
  BY PolicyAssumption DEF NoCursor
<1>5. ASSUME r.more
      PROVE  /\ r.rows # {} /\ NextCursor(r) \in PageRoles(r) /\ NextCursor(r) # NoCursor
             /\ \A role \in PageRoles(r) : role <= NextCursor(r)
  <2>1. PageRoles(r) # {} /\ IsFiniteSet(PageRoles(r)) /\ PageRoles(r) \in SUBSET Nat
    BY <1>3, <1>4, <1>5, FS_Subset
  <2>2. LastRole(r) \in PageRoles(r) /\ \A role \in PageRoles(r) : role <= LastRole(r)
    BY <2>1, LastRoleIsLast
  <2>3. NextCursor(r) = LastRole(r)
    BY <1>5 DEF NextCursor
  <2>4. r.rows # {}
    BY <2>1 DEF PageRoles
  <2>5. QED
    BY <1>3, <1>4, <2>2, <2>3, <2>4
<1>6. ~ r.more => NextCursor(r) = NoCursor
  BY DEF NextCursor
<1>7. QED
  BY <1>2, <1>3, <1>5, <1>6

\* What becomes of an answer of the store that fits its call.
LEMMA RenderedAnswers ==
  ASSUME NEW c \in StoreCalls, NEW r \in Results, ResultFits(c, r)
  PROVE  LET x == Rendered(c.op, r)
         IN  \/ x = Runtime
             \/ \E f \in DomainFailures \cap Mapped(c.op) : r = Failure(f) /\ x = DomainError(f)
             \/ /\ r \in Versioned /\ x \in [kind : {"success"}, result : Versioned, next : RoleIds \cup {NoCursor}]
                /\ c.op = "list" => /\ r.kind = "page" /\ x = Success(r, NextCursor(r))
                                    /\ r.more => PageRoles(r) # {}
                                    /\ \A role \in PageRoles(r) : role > c.after
<1>1. CASE r = Unavailable
  <2>1. r.kind = "unavailable"
    BY <1>1 DEF Unavailable
  <2>2. Rendered(c.op, r) = Runtime
    BY <2>1 DEF Rendered
  <2>3. QED
    BY <2>2
<1>2. CASE \E f \in Mapped(c.op) : f \in DomainFailures /\ r = Failure(f)
  <2>1. PICK f \in Mapped(c.op) : f \in DomainFailures /\ r = Failure(f)
    BY <1>2
  <2>2. r.kind = "failure" /\ r.failure = f
    BY <2>1 DEF Failure
  <2>3. Rendered(c.op, r) = DomainError(f)
    BY <2>1, <2>2 DEF Rendered
  <2>4. QED
    BY <2>1, <2>3
<1>3. CASE r \in Versioned /\ r.kind = "page"
  <2>1. /\ c.op = "list" => \A role \in PageRoles(r) : role > c.after
        /\ c.op = "list" <=> r.kind = "page"
        /\ r.more => PageRoles(r) # {}
    <3>1. r \notin {Unavailable} \cup {Failure(f) : f \in Mapped(c.op)}
      BY <1>3 DEF Unavailable, Failure
    <3>2. QED
      BY <1>3, <3>1 DEF ResultFits
  <2>2. r.more \in BOOLEAN /\ ~ (r.more /\ r.rows = {}) /\ NextCursor(r) \in RoleIds \cup {NoCursor}
    BY <1>3, <2>1, PageCursor
  <2>3. Rendered(c.op, r) = Success(r, NextCursor(r))
    BY <1>3, <2>2 DEF Rendered
  <2>4. Success(r, NextCursor(r)) \in [kind : {"success"}, result : Versioned, next : RoleIds \cup {NoCursor}]
    BY <1>3, <2>2 DEF Success
  <2>5. QED
    BY <1>3, <2>1, <2>3, <2>4
<1>4. CASE r \in Versioned /\ r.kind # "page"
  <2>1. r.kind \in {"decision", "role", "mutation"}
    BY <1>4 DEF Versioned
  <2>2. Rendered(c.op, r) = Success(r, NoCursor)
    BY <2>1 DEF Rendered
  <2>3. Success(r, NoCursor) \in [kind : {"success"}, result : Versioned, next : RoleIds \cup {NoCursor}]
    BY <1>4 DEF Success
  <2>4. c.op # "list"
    <3>1. r \notin {Unavailable} \cup {Failure(f) : f \in Mapped(c.op)}
      BY <2>1 DEF Unavailable, Failure
    <3>2. QED
      BY <1>4, <3>1 DEF ResultFits
  <2>5. QED
    BY <1>4, <2>2, <2>3, <2>4
<1>5. QED
  BY <1>1, <1>2, <1>3, <1>4 DEF ResultFits

\* The response to such an answer.
LEMMA ResponseTypes ==
  ASSUME NEW c \in StoreCalls, NEW r \in Results, ResultFits(c, r), NEW q
  PROVE  Answered(q, Rendered(c.op, r)) \in Responses /\ Answered(q, Rendered(c.op, r)) # Panic
<1> DEFINE x == Rendered(c.op, r)
<1>1. CASE x = Runtime
  BY <1>1 DEF Answered, Runtime, Panic, Responses
<1>2. CASE \E f \in DomainFailures : x = DomainError(f)
  <2>1. PICK f \in Errors : x = DomainError(f)
    BY <1>2, ErrorTypes
  <2>2. Answered(q, x) \in Responses
    BY <2>1, ErrorTypes
  <2>3. Answered(q, x).kind = "domain"
    BY <2>1 DEF Answered, DomainError
  <2>4. QED
    BY <2>2, <2>3 DEF Panic
<1>3. CASE x \in [kind : {"success"}, result : Versioned, next : RoleIds \cup {NoCursor}]
  <2>1. x.kind = "success"
    BY <1>3
  <2>2. Answered(q, x) = x
    BY <2>1 DEF Answered
  <2>3. QED
    BY <1>3, <2>1, <2>2 DEF Responses, Panic
<1>4. QED
  BY <1>1, <1>2, <1>3, RenderedAnswers

-----------------------------------------------------------------------------
LEMMA InitIInv == Init => IInv
<1> SUFFICES ASSUME Init PROVE IInv
  OBVIOUS
<1>1. /\ policy = [s \in Scopes |-> NoPolicy] /\ phase = [t \in Slots |-> "idle"]
      /\ call = [t \in Slots |-> NoCall] /\ result = [t \in Slots |-> NoResult]
      /\ request = [t \in Slots |-> NoRequest] /\ response = [t \in Slots |-> NoResponse] /\ now = 0
  BY SameTypes, SameAnswers DEF Init, Store!Init
<1>2. Types
  BY <1>1, InitialPolicies, ResultTypes, ServiceAssumption DEF Types, Responses
<1>3. QED
  BY <1>1, <1>2 DEF IInv, SlotStands, Unasked

\* A step of one slot keeps the invariant if that slot stands after it.
LEMMA SlotKeepsIInv ==
  ASSUME IInv, NEW t \in Slots, Types',
         \A u \in Slots \ {t} : /\ phase'[u] = phase[u] /\ call'[u] = call[u] /\ result'[u] = result[u]
                                /\ request'[u] = request[u] /\ response'[u] = response[u],
         SlotStands(phase'[t], call'[t], result'[t], request'[t], response'[t])
  PROVE  IInv'
BY DEF IInv

\* A slot without a request is free.
LEMMA FreeSlots ==
  ASSUME IInv, NEW t \in Slots, request[t] = NoRequest
  PROVE  Unasked(phase[t], call[t], result[t]) /\ response[t] = NoResponse
BY TakenRequests DEF IInv, SlotStands

\* A slot with a call serves a request.
LEMMA ServingSlots ==
  ASSUME IInv, NEW t \in Slots, phase[t] # "idle"
  PROVE  /\ request[t] \in Taken /\ call[t] \in Calls /\ call[t] \in StoreCalls
         /\ Served(phase[t], call[t], result[t], request[t], response[t])
BY ServiceAssumption DEF IInv, SlotStands, Unasked, Served

LEMMA RejectKeepsIInv ==
  ASSUME IInv, NEW t \in Slots, NEW q \in Requests, Reject(t, q)
  PROVE  IInv'
<1> DEFINE x == [q EXCEPT !.at = now]
<1>1. /\ request[t] = NoRequest /\ request' = [request EXCEPT ![t] = x]
      /\ UNCHANGED <<now, policy, phase, call, result>>
  BY DEF Reject, Took
<1>2. now \in 0..Horizon
  BY DEF IInv, Types
<1>3. /\ x \in Taken /\ x.at = now /\ x.via = q.via /\ x.form = q.form /\ (Offered(x) <=> Offered(q))
      /\ Rejection(x, now) = Rejection(q, now) /\ \A resp : Answered(x, resp) = Answered(q, resp)
  BY <1>2, SameTaken
<1> HIDE DEF x
<1>4. PICK resp \in Responses : response' = [response EXCEPT ![t] = resp] /\ TurnedAway(x, resp)
  <2>1. CASE ~ Offered(q) /\ Respond(t, DomainError("NotFound"))
    BY <1>3, <2>1, ErrorTypes DEF Respond, TurnedAway
  <2>2. CASE /\ Offered(q) /\ q.via = "tool" /\ q.form = "undecodable"
             /\ Respond(t, DomainError("InvalidArguments"))
    BY <1>3, <2>2, ErrorTypes DEF Respond, TurnedAway
  <2>3. CASE /\ Offered(q) /\ q.form # "undecodable" /\ Rejection(q, now) # "none"
             /\ Respond(t, Answered(q, DomainError(Rejection(q, now))))
    <3>1. Rejection(q, now) \in {"Forbidden", "Unauthenticated", "InvalidRequest", "InvalidPage"}
      BY <2>3, ErrorTypes
    <3>2. Rejection(q, now) \in Errors
      BY <3>1, ErrorTypes
    <3>3. TurnedAway(x, Answered(q, DomainError(Rejection(q, now))))
      BY <1>3, <2>3 DEF TurnedAway
    <3>4. Answered(q, DomainError(Rejection(q, now))) \in Responses
      BY <3>2, ErrorTypes
    <3>5. QED
      BY <2>3, <3>3, <3>4 DEF Respond
  <2>4. QED
    BY <2>1, <2>2, <2>3 DEF Reject
<1>5. Types'
  BY <1>1, <1>3, <1>4 DEF IInv, Types
<1>6. request'[t] = x /\ response'[t] = resp
  BY <1>1, <1>4 DEF IInv, Types
<1>7. Unasked(phase'[t], call'[t], result'[t])
  BY <1>1, FreeSlots
<1>8. SlotStands(phase'[t], call'[t], result'[t], request'[t], response'[t])
  BY <1>3, <1>4, <1>6, <1>7 DEF SlotStands
<1>9. QED
  BY <1>1, <1>4, <1>5, <1>8, SlotKeepsIInv DEF IInv, Types

LEMMA AdmitKeepsIInv ==
  ASSUME IInv, NEW t \in Slots, NEW q \in Requests, Admit(t, q)
  PROVE  IInv'
<1> DEFINE x == [q EXCEPT !.at = now]
           c == StoreCall(q)
<1>1. /\ request[t] = NoRequest /\ request' = [request EXCEPT ![t] = x]
      /\ response' = [response EXCEPT ![t] = Pending]
      /\ Offered(q) /\ q.form # "undecodable" /\ Rejection(q, now) = "none"
      /\ phase' = [phase EXCEPT ![t] = "called"] /\ call' = [call EXCEPT ![t] = c]
      /\ UNCHANGED <<now, policy, result>>
  BY DEF Admit, Took, Respond, Store!Start
<1>2. now \in 0..Horizon
  BY DEF IInv, Types
<1>3. /\ x \in Taken /\ x.at = now /\ x.form = q.form /\ (Offered(x) <=> Offered(q))
      /\ Rejection(x, now) = Rejection(q, now) /\ StoreCall(x) = c
  BY <1>2, SameTaken
<1> HIDE DEF x, c
<1>4. Admitted(x)
  BY <1>1, <1>3 DEF Admitted
<1>5. c \in Calls
  BY <1>3, <1>4, AdmittedRequests
<1>6. Types'
  BY <1>1, <1>3, <1>5 DEF IInv, Types, Responses
<1>7. request'[t] = x /\ response'[t] = Pending /\ phase'[t] = "called" /\ call'[t] = c
  BY <1>1 DEF IInv, Types
<1>8. Served("called", c, result'[t], x, Pending)
  BY <1>3, <1>4, <1>5 DEF Served
<1>9. SlotStands(phase'[t], call'[t], result'[t], request'[t], response'[t])
  BY <1>3, <1>7, <1>8 DEF SlotStands
<1>10. QED
  BY <1>1, <1>6, <1>9, SlotKeepsIInv DEF IInv, Types

\* The store decides a call, or leaves it in doubt, and touches no other slot.
StoreDecides(t, to, r) ==
  /\ phase[t] # "idle" /\ phase' = [phase EXCEPT ![t] = to] /\ result' = [result EXCEPT ![t] = r]
  /\ call' = call /\ policy' \in [Scopes -> Policies]
  /\ to = "decided" => ResultFits(call[t], r)
  /\ to = "doubt" => r = Unavailable

\* Whatever the store does with a call is in the terms of Policy.
LEMMA StoreSteps ==
  ASSUME IInv, NEW t \in Slots,
         \/ Store!Refuse(t) \/ Store!Answer(t) \/ Store!Keep(t) \/ Store!Change(t)
         \/ Store!Lose(t) \/ Store!Doubt(t) \/ Store!LateChange(t)
  PROVE  /\ \E to \in {"decided", "doubt"}, r \in Results : StoreDecides(t, to, r)
         /\ Store!LateChange(t) =>
              StoreDecides(t, "decided", Unavailable) /\ phase[t] = "doubt"
         /\ \/ policy' = policy
            \/ /\ phase[t] # "idle" /\ Changes(call[t], policy[call[t].scope])
               /\ policy' = [policy EXCEPT ![call[t].scope] = Advance(call[t], policy[call[t].scope])]
<1> DEFINE c == call[t]
           p == policy[c.scope]
           Changed == /\ Changes(c, p)
                      /\ policy' = [policy EXCEPT ![c.scope] = Advance(c, p)]
<1>1. phase[t] # "idle"
  BY DEF Store!Refuse, Store!Answer, Store!Keep, Store!Change, Store!Lose, Store!Doubt,
         Store!LateChange, Store!Decide
<1>2. /\ c \in StoreCalls /\ c.scope \in Scopes /\ p \in Policies
      /\ policy \in [Scopes -> Policies]
  <2>1. c \in StoreCalls /\ policy \in [Scopes -> Policies]
    BY <1>1, ServingSlots DEF IInv, Types
  <2>2. c.scope \in Scopes
    BY <2>1, CallShape
  <2>3. QED
    BY <2>1, <2>2
<1>3. p.revision \in 0..MaxRevision
  BY <1>2 DEF Policies
<1>4. ResultFits(c, Unavailable) /\ Unavailable \in Results
  BY ResultTypes DEF ResultFits
<1>5. Changed => policy' \in [Scopes -> Policies]
  <2> SUFFICES ASSUME Changed PROVE policy' \in [Scopes -> Policies]
    OBVIOUS
  <2>1. Advance(c, p) \in Policies
    BY <1>2, AdvanceType
  <2>2. QED
    BY <1>2, <2>1
<1>6. ASSUME NEW b \in BOOLEAN, NEW n \in 0..MaxRevision, c.op \notin ReadOps
      PROVE  Mutation(b, n) \in Results /\ ResultFits(c, Mutation(b, n))
  <2>1. Mutation(b, n) \in Versioned /\ Mutation(b, n) \in Results
    BY ResultTypes
  <2>2. Mutation(b, n).kind = "mutation" /\ c.op # "list"
    BY <1>6 DEF Mutation, ReadOps
  <2>3. QED
    BY <2>1, <2>2 DEF ResultFits
<1>7. CASE Store!Refuse(t)
  <2>1. PICK f \in Store!DomainFailures : /\ Store!Refused(c, p, f)
                                          /\ Store!Decide(t, "called", Store!Failure(f))
    BY <1>7 DEF Store!Refuse
  <2>2. policy' = policy
    BY <1>7 DEF Store!Refuse
  <2>3. f \in DomainFailures /\ Refused(c, p, f) /\ Store!Decide(t, "called", Failure(f))
    BY <2>1, SameRefusals, SameAnswers
  <2>4. ResultFits(c, Failure(f)) /\ Failure(f) \in Results
    BY <1>2, <2>3, FailuresAreKnown, ResultTypes
  <2>5. StoreDecides(t, "decided", Failure(f)) /\ phase[t] = "called"
    BY <1>1, <1>2, <2>2, <2>3, <2>4 DEF StoreDecides, Store!Decide
  <2>6. QED
    BY <2>2, <2>4, <2>5 DEF Store!LateChange
<1>8. CASE Store!Answer(t)
  <2>1. c.op \in ReadOps /\ policy' = policy /\ Store!Decide(t, "called", ReadAnswer(c, p))
    <3>1. c.op \in Store!ReadOps /\ policy' = policy /\ Store!Decide(t, "called", Store!ReadAnswer(c, p))
      BY <1>8 DEF Store!Answer
    <3>2. QED
      BY <3>1, SameRefusals, SameAnswers
  <2>2. ReadAnswer(c, p) \in Results /\ ResultFits(c, ReadAnswer(c, p))
    BY <1>2, <2>1, AnswersFit
  <2>3. StoreDecides(t, "decided", ReadAnswer(c, p)) /\ phase[t] = "called"
    BY <1>1, <1>2, <2>1, <2>2 DEF StoreDecides, Store!Decide
  <2>4. QED
    BY <2>1, <2>2, <2>3 DEF Store!LateChange
<1>9. CASE Store!Keep(t)
  <2>1. c.op \notin ReadOps /\ policy' = policy /\ Store!Decide(t, "called", Mutation(FALSE, p.revision))
    <3>1. /\ c.op \notin Store!ReadOps /\ policy' = policy
          /\ Store!Decide(t, "called", Store!Mutation(FALSE, p.revision))
      BY <1>9 DEF Store!Keep
    <3>2. QED
      BY <3>1, SameRefusals, SameAnswers
  <2>2. Mutation(FALSE, p.revision) \in Results /\ ResultFits(c, Mutation(FALSE, p.revision))
    BY <1>3, <1>6, <2>1
  <2>3. StoreDecides(t, "decided", Mutation(FALSE, p.revision)) /\ phase[t] = "called"
    BY <1>1, <1>2, <2>1, <2>2 DEF StoreDecides, Store!Decide
  <2>4. QED
    BY <2>1, <2>2, <2>3 DEF Store!LateChange
<1>10. CASE Store!Change(t)
  <2>1. Changed /\ Store!Decide(t, "called", Mutation(TRUE, p.revision + 1))
    <3>1. /\ Store!Changes(c, p) /\ policy' = [policy EXCEPT ![c.scope] = Store!Advance(c, p)]
          /\ Store!Decide(t, "called", Store!Mutation(TRUE, p.revision + 1))
      BY <1>10 DEF Store!Change
    <3>2. QED
      BY <3>1, SameEffects, SameAnswers
  <2>2. c.op \notin ReadOps /\ p.revision + 1 \in 0..MaxRevision
    BY <1>3, <2>1, PolicyAssumption DEF Changes
  <2>3. Mutation(TRUE, p.revision + 1) \in Results /\ ResultFits(c, Mutation(TRUE, p.revision + 1))
    BY <1>6, <2>2
  <2>4. StoreDecides(t, "decided", Mutation(TRUE, p.revision + 1)) /\ phase[t] = "called"
    BY <1>1, <1>5, <2>1, <2>3 DEF StoreDecides, Store!Decide
  <2>5. QED
    BY <1>1, <2>1, <2>3, <2>4 DEF Store!LateChange
<1>11. CASE Store!Lose(t)
  <2>1. /\ policy' = policy
        /\ \E from \in {"called", "decided", "doubt"} : Store!Decide(t, from, Unavailable)
    BY <1>11, SameAnswers DEF Store!Lose
  <2>2. StoreDecides(t, "decided", Unavailable)
    BY <1>1, <1>2, <1>4, <2>1 DEF StoreDecides, Store!Decide
  <2>3. Store!LateChange(t) => phase[t] = "doubt"
    BY DEF Store!LateChange
  <2>4. QED
    BY <1>4, <2>1, <2>2, <2>3
<1>12. CASE Store!Doubt(t)
  <2>1. StoreDecides(t, "doubt", Unavailable) /\ policy' = policy /\ phase[t] = "called"
    BY <1>1, <1>2, <1>12, SameAnswers DEF StoreDecides, Store!Doubt
  <2>2. QED
    BY <1>4, <2>1 DEF Store!LateChange
<1>13. CASE Store!LateChange(t)
  <2>1. /\ Changed /\ Store!Decide(t, "doubt", Unavailable)
    BY <1>13, SameEffects, SameAnswers DEF Store!LateChange
  <2>2. StoreDecides(t, "decided", Unavailable) /\ phase[t] = "doubt"
    BY <1>1, <1>4, <1>5, <2>1 DEF StoreDecides, Store!Decide
  <2>3. QED
    BY <1>1, <1>4, <2>1, <2>2
<1>14. QED
  BY <1>7, <1>8, <1>9, <1>10, <1>11, <1>12, <1>13

LEMMA WorksKeepsIInv ==
  ASSUME IInv, NEW t \in Slots, StoreWorks(t)
  PROVE  IInv'
<1>1. UNCHANGED <<now, request, response>>
  BY DEF StoreWorks
<1>2. PICK to \in {"decided", "doubt"}, r \in Results :
        /\ StoreDecides(t, to, r)
        /\ \/ response[t] = Pending
           \/ r = Unavailable /\ phase[t] = "doubt"
  <2>1. CASE response[t] = Pending
    BY <2>1, StoreSteps DEF StoreWorks
  <2>2. CASE Store!LateChange(t)
    BY <2>2, StoreSteps, ResultTypes
  <2>3. QED
    BY <2>1, <2>2 DEF StoreWorks
<1>3. /\ phase[t] # "idle" /\ phase' = [phase EXCEPT ![t] = to] /\ result' = [result EXCEPT ![t] = r]
      /\ call' = call /\ policy' \in [Scopes -> Policies]
      /\ to = "decided" => ResultFits(call[t], r)
      /\ to = "doubt" => r = Unavailable
  BY <1>2 DEF StoreDecides
<1>4. Types'
  BY <1>1, <1>3 DEF IInv, Types
<1>5. phase'[t] = to /\ result'[t] = r
  BY <1>3 DEF IInv, Types
<1>6. request[t] \in Taken /\ Served(phase[t], call[t], result[t], request[t], response[t])
  BY <1>3, ServingSlots
<1>7. Served(to, call[t], r, request[t], response[t])
  <2>1. response[t] # Pending => r = result[t]
    BY <1>2, <1>6 DEF Served
  <2>2. QED
    BY <1>2, <1>3, <1>6, <2>1 DEF Served
<1>8. SlotStands(phase'[t], call'[t], result'[t], request'[t], response'[t])
  BY <1>1, <1>3, <1>5, <1>6, <1>7 DEF SlotStands
<1>9. QED
  BY <1>1, <1>3, <1>4, <1>8, SlotKeepsIInv DEF IInv, Types

LEMMA FinishKeepsIInv ==
  ASSUME IInv, NEW t \in Slots, Finish(t)
  PROVE  IInv'
<1> DEFINE resp == Answered(request[t], Rendered(call[t].op, result[t]))
<1>1. /\ phase[t] \in {"decided", "doubt"} /\ response' = [response EXCEPT ![t] = resp]
      /\ UNCHANGED <<now, request, policy, phase, call, result>>
  BY DEF Finish, Respond
<1>2. /\ request[t] \in Taken /\ call[t] \in StoreCalls
      /\ Served(phase[t], call[t], result[t], request[t], response[t])
  BY <1>1, ServingSlots
<1>3. result[t] \in Results /\ ResultFits(call[t], result[t])
  BY <1>1, <1>2 DEF Served, ResultFits, IInv, Types
<1>4. resp \in Responses
  BY <1>2, <1>3, ResponseTypes
<1>5. Served(phase[t], call[t], result[t], request[t], resp)
  BY <1>1, <1>2 DEF Served
<1> HIDE DEF resp
<1>6. Types'
  BY <1>1, <1>4 DEF IInv, Types
<1>7. response'[t] = resp
  BY <1>1 DEF IInv, Types
<1>8. SlotStands(phase'[t], call'[t], result'[t], request'[t], response'[t])
  BY <1>1, <1>2, <1>5, <1>7 DEF SlotStands
<1>9. QED
  BY <1>1, <1>6, <1>8, SlotKeepsIInv DEF IInv, Types

LEMMA LeaveKeepsIInv ==
  ASSUME IInv, NEW t \in Slots, Leave(t)
  PROVE  IInv'
<1>1. /\ request[t] # NoRequest /\ response[t] # Pending /\ now' = now
      /\ request' = [request EXCEPT ![t] = NoRequest]
      /\ response' = [response EXCEPT ![t] = NoResponse]
  BY DEF Leave
<1>2. request'[t] = NoRequest /\ response'[t] = NoResponse
  BY <1>1 DEF IInv, Types
<1>3. CASE phase[t] = "idle" /\ UNCHANGED <<policy, phase, call, result>>
  <2>1. Types'
    BY <1>1, <1>3 DEF IInv, Types, Responses
  <2>2. Unasked(phase[t], call[t], result[t])
    BY <1>3 DEF IInv, SlotStands, Served
  <2>3. SlotStands(phase'[t], call'[t], result'[t], request'[t], response'[t])
    BY <1>2, <1>3, <2>2 DEF SlotStands
  <2>4. QED
    BY <1>1, <1>3, <2>1, <2>3, SlotKeepsIInv DEF IInv, Types
<1>4. CASE Store!Return(t)
  <2>1. /\ phase' = [phase EXCEPT ![t] = "idle"] /\ call' = [call EXCEPT ![t] = NoCall]
        /\ result' = [result EXCEPT ![t] = NoResult] /\ policy' = policy
    BY <1>4, SameTypes, SameAnswers DEF Store!Return
  <2>2. Types'
    BY <1>1, <2>1, ResultTypes DEF IInv, Types, Responses
  <2>3. SlotStands(phase'[t], call'[t], result'[t], request'[t], response'[t])
    <3>1. phase'[t] = "idle" /\ call'[t] = NoCall /\ result'[t] = NoResult
      BY <2>1 DEF IInv, Types
    <3>2. QED
      BY <1>2, <3>1 DEF SlotStands, Unasked
  <2>4. QED
    BY <1>1, <2>1, <2>2, <2>3, SlotKeepsIInv DEF IInv, Types
<1>5. QED
  BY <1>3, <1>4 DEF Leave

LEMMA NextIInv == IInv /\ [Next]_vars => IInv'
<1> SUFFICES ASSUME IInv, [Next]_vars PROVE IInv'
  OBVIOUS
<1>1. CASE Tick
  <2>1. now' \in 0..Horizon /\ UNCHANGED <<request, response, policy, phase, call, result>>
    BY <1>1, ServiceAssumption DEF Tick, IInv, Types
  <2>2. Types'
    BY <2>1 DEF IInv, Types
  <2>3. QED
    BY <2>1, <2>2 DEF IInv
<1>2. CASE \E t \in Slots : Step(t)
  BY <1>2, RejectKeepsIInv, AdmitKeepsIInv, WorksKeepsIInv, FinishKeepsIInv, LeaveKeepsIInv DEF Step
<1>3. CASE UNCHANGED vars
  BY <1>3 DEF vars, IInv, Types
<1>4. QED
  BY <1>1, <1>2, <1>3 DEF Next

LEMMA SpecIInv == Spec => []IInv
BY InitIInv, NextIInv, PTL DEF Spec

\* The variables keep their types.
THEOREM ServiceTypes == Spec => []TypeOK
<1>1. IInv => TypeOK
  <2> SUFFICES ASSUME IInv PROVE TypeOK
    OBVIOUS
  <2>1. Store!TypeOK
    BY SameTypes DEF IInv, Types, Store!TypeOK
  <2>2. ASSUME NEW t \in Slots
        PROVE  /\ request[t] = NoRequest \/ \E q \in Requests, n \in 0..Horizon : request[t] = [q EXCEPT !.at = n]
               /\ response[t] \in Responses
    BY DEF IInv, Types, Taken
  <2>3. QED
    BY <2>1, <2>2 DEF TypeOK, IInv, Types
<1>2. QED
  BY <1>1, SpecIInv, PTL

\* The response of a slot that has one, by where it comes from.
LEMMA Responded ==
  ASSUME IInv, NEW t \in Slots, response[t].kind \in {"domain", "success", "panic"}
  PROVE  /\ request[t] \in Taken
         /\ \/ TurnedAway(request[t], response[t]) /\ call[t] = NoCall
            \/ /\ phase[t] # "idle" /\ Admitted(request[t]) /\ call[t] = StoreCall(request[t])
               /\ call[t] \in StoreCalls /\ result[t] \in Results /\ ResultFits(call[t], result[t])
               /\ response[t] = Answered(request[t], Rendered(call[t].op, result[t]))
<1>1. response[t] \notin {Pending, NoResponse}
  BY DEF Pending, NoResponse
<1>2. CASE Served(phase[t], call[t], result[t], request[t], response[t]) /\ request[t] \in Taken
  <2>1. phase[t] \in {"decided", "doubt"} /\ result[t] \in Results
    BY <1>1, <1>2 DEF Served, IInv, Types
  <2>2. ResultFits(call[t], result[t])
    BY <1>2, <2>1 DEF Served, ResultFits
  <2>3. QED
    BY <1>1, <1>2, <2>1, <2>2, ServiceAssumption DEF Served
<1>3. QED
  BY <1>1, <1>2 DEF IInv, SlotStands, Unasked

\* The errors a caller is given are about its request (core/src/lib.rs, the maps of
\* failures; agent-tools-plugin/src/lib.rs, as_tool_error).
THEOREM ServiceErrorsAreHonest == Spec => []ErrorsAreHonest
<1>1. ASSUME IInv, NEW t \in Slots, response[t].kind = "domain"
      PROVE  LET q == request[t]
                 e == response[t].error
             IN  /\ e \in {"InvalidRequest", "InvalidArguments"} =>
                      q.form = "undecodable" \/ Flaw(q) # "none"
                 /\ e = "Unauthenticated" => ~ Authenticated(q.assertion, q.call.op, q.at)
                 /\ e = "NotFound" => ~ Offered(q) \/ result[t] = Failure("RoleNotFound")
                 /\ e = "RoleAlreadyExists" => q.call.op = "create"
  <2> DEFINE q == request[t]
             e == response[t].error
  <2>1. \A x : DomainError(x).kind = "domain" /\ DomainError(x).error = x
    BY DEF DomainError
  <2>2. \A x : Answered(q, DomainError(x)) \in {DomainError(x), DomainError(ToolError(x))}
    BY <2>1 DEF Answered
  <2>3. \A x : q.via = "tool" => Answered(q, DomainError(x)) = DomainError(ToolError(x))
    BY <2>1 DEF Answered
  <2>4. q \in Taken
    BY <1>1, Responded
  <2>5. CASE ~ Offered(q) /\ response[t] = DomainError("NotFound")
    BY <2>1, <2>5
  <2>6. CASE q.form = "undecodable" /\ response[t] = DomainError("InvalidArguments")
    BY <2>1, <2>6
  <2>7. CASE Rejection(q, q.at) # "none" /\ response[t] = Answered(q, DomainError(Rejection(q, q.at)))
    <3> DEFINE x == Rejection(q, q.at)
    <3>1. x \in {"Forbidden", "Unauthenticated", "InvalidRequest", "InvalidPage"}
      BY <2>7, ErrorTypes
    <3>2. x \in {"InvalidRequest", "InvalidPage"} => Flaw(q) # "none"
      <4>1. Entry(q, q.at) \notin {"InvalidRequest", "InvalidPage"}
        BY TakenRequests, <2>4 DEF Entry, ReadOps, AdminOps, RoleOps
      <4>2. QED
        BY <4>1 DEF Rejection
    <3>3. x = "Unauthenticated" => ~ Authenticated(q.assertion, q.call.op, q.at)
      <4>1. SUFFICES ASSUME x = "Unauthenticated", Authenticated(q.assertion, q.call.op, q.at) PROVE FALSE
        OBVIOUS
      <4>2. Flaw(q) # "Unauthenticated"
        BY DEF Flaw
      <4>3. Entry(q, q.at) = "Unauthenticated"
        BY <4>1, <4>2 DEF Rejection
      <4>4. QED
        BY <2>4, <4>1, <4>3, TakenRequests DEF Entry, ReadOps, AdminOps, RoleOps
    <3> HIDE DEF x
    <3>4. /\ ToolError("Forbidden") = "PermissionDenied" /\ ToolError("Unauthenticated") = "PermissionDenied"
          /\ ToolError("InvalidRequest") = "InvalidArguments" /\ ToolError("InvalidPage") = "InvalidArguments"
      BY DEF ToolError
    <3>5. e = x \/ e = ToolError(x)
      BY <2>1, <2>2, <2>7 DEF x
    <3>6. QED
      BY <3>1, <3>2, <3>3, <3>4, <3>5
  <2>8. CASE /\ Admitted(q) /\ call[t] = StoreCall(q) /\ call[t] \in StoreCalls
             /\ result[t] \in Results /\ ResultFits(call[t], result[t])
             /\ response[t] = Answered(q, Rendered(call[t].op, result[t]))
    <3>1. PICK f \in DomainFailures \cap Mapped(call[t].op) :
            result[t] = Failure(f) /\ Rendered(call[t].op, result[t]) = DomainError(f)
      <4>1. Rendered(call[t].op, result[t]).kind = "domain"
        BY <1>1, <2>1, <2>8 DEF Answered
      <4>2. Runtime.kind # "domain"
        BY DEF Runtime
      <4>3. QED
        BY <2>8, <4>1, <4>2, RenderedAnswers
    <3>2. e = f \/ e = ToolError(f)
      BY <2>1, <2>2, <2>8, <3>1
    <3>3. f \in DomainFailures /\ \A d \in DomainFailures :
            /\ d \notin {"InvalidRequest", "InvalidArguments", "Unauthenticated", "NotFound"}
            /\ ToolError(d) \notin {"InvalidRequest", "InvalidArguments", "Unauthenticated"}
            /\ ToolError(d) = "NotFound" => d = "RoleNotFound"
            /\ ToolError(d) = "RoleAlreadyExists" => d = "RoleAlreadyExists"
      BY DEF DomainFailures, ToolError
    <3>4. f = "RoleAlreadyExists" => q.call.op = "create"
      <4>1. call[t].op = q.call.op /\ call[t].op \in ReadOps \cup {"bootstrap"} \cup AdminOps
        BY <2>4, <2>8, AdmittedRequests, TakenRequests
      <4>2. \A op \in ReadOps \cup {"bootstrap"} \cup AdminOps :
              "RoleAlreadyExists" \in Mapped(op) => op \in {"create", "check"}
        BY DEF Mapped, ReadOps, AdminOps, RoleOps
      <4>3. call[t].op # "check"
        <5>1. Failure(f) # Unavailable /\ Failure(f) \notin Versioned
          BY ResultTypes DEF Failure, Unavailable
        <5>2. QED
          BY <2>8, <3>1, <5>1 DEF ResultFits
      <4>4. QED
        BY <3>1, <4>1, <4>2, <4>3
    <3>5. QED
      BY <3>1, <3>2, <3>3, <3>4
  <2>9. QED
    BY <1>1, <2>5, <2>6, <2>7, <2>8, Responded DEF TurnedAway
<1>2. IInv => ErrorsAreHonest
  BY <1>1 DEF ErrorsAreHonest
<1>3. QED
  BY <1>2, SpecIInv, PTL

\* A listing can be continued from every page it is given, and the handler never panics on
\* a page that is empty and truncated (core/src/lib.rs, list_roles and list_subject_roles).
THEOREM ServicePagesContinue == Spec => []PagesContinue
<1>1. ASSUME IInv, NEW t \in Slots PROVE response[t] # Panic
  <2> SUFFICES ASSUME response[t] = Panic PROVE FALSE
    OBVIOUS
  <2>1. response[t].kind = "panic" /\ \A x : Answered(request[t], DomainError(x)) # Panic
    BY DEF Panic, Answered, DomainError
  <2>2. ~ TurnedAway(request[t], response[t])
    BY <2>1 DEF TurnedAway, DomainError
  <2>3. /\ call[t] \in StoreCalls /\ result[t] \in Results /\ ResultFits(call[t], result[t])
        /\ response[t] = Answered(request[t], Rendered(call[t].op, result[t]))
    BY <1>1, <2>1, <2>2, Responded
  <2>4. QED
    BY <2>3, ResponseTypes
<1>2. ASSUME IInv, NEW t \in Slots, response[t].kind = "success", call[t].op = "list"
      PROVE  LET page == response[t].result
                 next == response[t].next
             IN  /\ page.more <=> next # NoCursor
                 /\ next # NoCursor => /\ next \in PageRoles(page) /\ next > call[t].after
                                       /\ \A r \in PageRoles(page) : call[t].after < r /\ r <= next
  <2> DEFINE page == result[t]
  <2>1. call[t] # NoCall
    BY <1>2 DEF NoCall
  <2>2. /\ call[t] \in StoreCalls /\ page \in Results /\ ResultFits(call[t], page)
        /\ response[t] = Answered(request[t], Rendered(call[t].op, page))
    BY <1>2, <2>1, Responded
  <2>3. Rendered(call[t].op, page).kind = "success" /\ response[t] = Rendered(call[t].op, page)
    BY <1>2, <2>2 DEF Answered, DomainError
  <2>4. Runtime.kind # "success" /\ \A f : DomainError(f).kind # "success"
    BY DEF Runtime, DomainError
  <2>5. /\ page \in Versioned /\ page.kind = "page" /\ (page.more => PageRoles(page) # {})
        /\ response[t] = Success(page, NextCursor(page))
        /\ \A role \in PageRoles(page) : role > call[t].after
    BY <1>2, <2>2, <2>3, <2>4, RenderedAnswers
  <2>6. response[t].result = page /\ response[t].next = NextCursor(page)
    BY <2>5 DEF Success
  <2>7. /\ page.more \in BOOLEAN /\ PageRoles(page) \in SUBSET RoleIds
        /\ page.more => /\ NextCursor(page) \in PageRoles(page) /\ NextCursor(page) # NoCursor
                        /\ \A role \in PageRoles(page) : role <= NextCursor(page)
        /\ ~ page.more => NextCursor(page) = NoCursor
    BY <2>5, PageCursor
  <2>8. call[t].after \in Int /\ \A role \in PageRoles(page) : role \in Int
    <3>1. RoleIds \subseteq Int /\ NoCursor \in Int
      BY PolicyAssumption DEF NoCursor
    <3>2. call[t].after \in RoleIds \cup {NoCursor}
      BY <1>2, <2>2, CallShape
    <3>3. QED
      BY <2>7, <3>1, <3>2
  <2> HIDE DEF page
  <2>9. QED
    BY <2>5, <2>6, <2>7, <2>8
<1>3. IInv => PagesContinue
  BY <1>1, <1>2 DEF PagesContinue
<1>4. QED
  BY <1>3, SpecIInv, PTL

\* No scope changes but for a person or a bootstrap caller who was entitled to ask for it
\* when the request came, and whose actor is authorized when it is done
\* (core/src/lib.rs, require_actor and the authorization of the store).
THEOREM ServiceOnlyTheEntitledChange == Spec => OnlyTheEntitledChange
<1>1. ASSUME IInv, [Next]_vars
      PROVE  [\A s \in Scopes : policy'[s] # policy[s] =>
                \E t \in Slots :
                  /\ phase[t] # "idle" /\ call[t].scope = s /\ Entitled(t)
                  /\ call[t].op # "bootstrap" => Authorized(call[t], policy[s])]_vars
  <2>1. SUFFICES ASSUME NEW s \in Scopes, policy'[s] # policy[s]
                 PROVE  \E t \in Slots :
                          /\ phase[t] # "idle" /\ call[t].scope = s /\ Entitled(t)
                          /\ call[t].op # "bootstrap" => Authorized(call[t], policy[s])
    OBVIOUS
  <2>2. PICK t \in Slots : StoreWorks(t)
    BY <1>1, <2>1 DEF Next, vars, Step, Tick, Reject, Admit, Finish, Leave, Store!Start, Store!Return
  <2> DEFINE c == call[t]
             q == request[t]
  <2>3. /\ phase[t] # "idle" /\ Changes(c, policy[c.scope])
        /\ policy' = [policy EXCEPT ![c.scope] = Advance(c, policy[c.scope])]
    BY <1>1, <2>1, <2>2, StoreSteps DEF StoreWorks
  <2>4. /\ q \in Taken /\ c \in StoreCalls /\ Admitted(q) /\ c = StoreCall(q)
        /\ c.scope \in Scopes /\ policy \in [Scopes -> Policies]
    BY <1>1, <2>3, ServingSlots, CallShape DEF Served, IInv, Types
  <2>5. c.scope = s
    BY <2>1, <2>3, <2>4
  <2>6. c.op \in {"bootstrap"} \cup AdminOps /\ Accepted(c, policy[s])
    BY <2>3, <2>4, <2>5, CallShape DEF Changes
  <2>7. c.op # "bootstrap" => Authorized(c, policy[s])
    BY <2>6 DEF Accepted, Refused, DomainFailures
  <2>8. /\ c.op = q.call.op /\ Entry(q, q.at) = "none"
        /\ c.op \in AdminOps => Authenticated(q.assertion, q.call.op, q.at) /\ c.actor = q.assertion.subject
    BY <2>4, AdmittedRequests
  <2>9. c.op = "bootstrap" => q.caller \in BootstrapCallers
    BY <2>8 DEF Entry, AdminOps, RoleOps
  <2>10. Entitled(t)
    BY <2>6, <2>8, <2>9 DEF Entitled, Authenticated, AdminOps, RoleOps
  <2>11. QED
    BY <2>3, <2>5, <2>7, <2>10
<1>2. QED
  BY <1>1, SpecIInv, PTL DEF Spec, OnlyTheEntitledChange

\* Every step of the service is one of its store, or leaves the store alone.
LEMMA StepsOfTheStore ==
  ASSUME IInv, [Next]_vars
  PROVE  [Store!Next]_(Store!vars)
<1>1. SUFFICES ASSUME ~ UNCHANGED <<policy, phase, call, result>> PROVE Store!Next
  BY DEF Store!vars
<1>2. PICK t \in Slots : Step(t)
  BY <1>1 DEF Next, vars, Tick
<1>3. CASE \E q \in Requests : Admit(t, q)
  <2>1. PICK q \in Requests : Admit(t, q)
    BY <1>3
  <2>2. StoreCall(q) \in Calls
    <3> DEFINE x == [q EXCEPT !.at = now]
    <3>1. now \in 0..Horizon
      BY DEF IInv, Types
    <3>2. /\ x \in Taken /\ x.at = now /\ x.form = q.form /\ (Offered(x) <=> Offered(q))
          /\ Rejection(x, now) = Rejection(q, now) /\ StoreCall(x) = StoreCall(q)
      BY <3>1, SameTaken
    <3>3. Admitted(x)
      BY <2>1, <3>2 DEF Admit, Admitted
    <3>4. QED
      BY <3>2, <3>3, AdmittedRequests
  <2>3. Store!Start(t, StoreCall(q))
    BY <2>1 DEF Admit
  <2>4. QED
    BY <2>2, <2>3 DEF Store!Next, Store!Step
<1>4. CASE StoreWorks(t)
  BY <1>4 DEF StoreWorks, Store!Next, Store!Step
<1>5. CASE Leave(t)
  BY <1>1, <1>5 DEF Leave, Store!Next, Store!Step
<1>6. QED
  BY <1>1, <1>2, <1>3, <1>4, <1>5 DEF Step, Reject, Finish

\* Every behaviour of the service is one of its store: the service begins calls that the
\* store may be asked, begins no second one before the first has ended, and touches nothing
\* else of the store.
THEOREM ServiceCallsTheStore == Spec => Store!Spec
<1>1. Init => Store!Init
  BY DEF Init
<1>2. QED
  BY <1>1, StepsOfTheStore, SpecIInv, PTL DEF Spec, Store!Spec

-----------------------------------------------------------------------------
(* What the store promises, behind the service.                            *)

Sound == \A s \in Scopes : RowsBelong(policy[s]) /\ Administrable(policy[s])

\* The answer of a decided call is true of the stored policy, as far as it names its
\* revision: in particular no answer names a revision that is not reached yet.
AnswerIsTrue(t) == phase[t] = "decided" => TrueOf(call[t], result[t], policy[call[t].scope])

AInv == IInv /\ Sound /\ \A t \in Slots : AnswerIsTrue(t)

\* A call that the store has is of a scope with a sound policy.
LEMMA CallFacts ==
  ASSUME AInv, NEW t \in Slots, phase[t] # "idle"
  PROVE  /\ call[t] \in StoreCalls /\ call[t].scope \in Scopes
         /\ policy[call[t].scope] \in Policies
         /\ RowsBelong(policy[call[t].scope]) /\ Administrable(policy[call[t].scope])
<1>1. call[t] \in StoreCalls /\ policy \in [Scopes -> Policies]
  BY ServingSlots DEF AInv, IInv, Types
<1>2. call[t].scope \in Scopes
  BY <1>1, CallShape
<1>3. QED
  BY <1>1, <1>2 DEF AInv, Sound

\* A step of the store touches the call of one slot, and the policies not at all or by a
\* change that this call makes.
LEMMA StoreTouches ==
  ASSUME AInv, NEW t \in Slots, Store!Step(t)
  PROVE  /\ \A u \in Slots \ {t} :
              phase'[u] = phase[u] /\ call'[u] = call[u] /\ result'[u] = result[u]
         /\ policy' = policy
            \/ /\ phase[t] # "idle" /\ Changes(call[t], policy[call[t].scope])
               /\ policy' = [policy EXCEPT ![call[t].scope] = Advance(call[t], policy[call[t].scope])]
<1>1. /\ phase \in [Slots -> {"idle", "called", "decided", "doubt"}]
      /\ call \in [Slots -> Calls \cup {NoCall}] /\ result \in [Slots -> Results]
  BY DEF AInv, IInv, Types
<1>2. /\ \E to : phase' = [phase EXCEPT ![t] = to]
      /\ call' = call \/ \E c : call' = [call EXCEPT ![t] = c]
      /\ result' = result \/ \E r : result' = [result EXCEPT ![t] = r]
  BY DEF Store!Step, Store!Start, Store!Refuse, Store!Answer, Store!Keep, Store!Change,
         Store!Lose, Store!Doubt, Store!LateChange, Store!Return, Store!Decide
<1>3. \A u \in Slots \ {t} : phase'[u] = phase[u] /\ call'[u] = call[u] /\ result'[u] = result[u]
  BY <1>1, <1>2
<1>4. CASE Store!Change(t) \/ Store!LateChange(t)
  BY <1>3, <1>4, StoreSteps DEF AInv
<1>5. CASE ~ (Store!Change(t) \/ Store!LateChange(t))
  <2>1. policy' = policy
    BY <1>5 DEF Store!Step, Store!Start, Store!Refuse, Store!Answer, Store!Keep, Store!Lose,
                Store!Doubt, Store!Return
  <2>2. QED
    BY <1>3, <2>1
<1>6. QED
  BY <1>4, <1>5

\* Policies stay sound, whichever request changes them.
LEMMA StaysSound ==
  ASSUME AInv, NEW t \in Slots, Store!Step(t)
  PROVE  Sound'
<1>1. CASE policy' = policy
  BY <1>1 DEF AInv, Sound
<1>2. CASE policy' # policy
  <2> DEFINE c == call[t]
             p == policy[c.scope]
  <2>1. /\ phase[t] # "idle" /\ Changes(c, p)
        /\ policy' = [policy EXCEPT ![c.scope] = Advance(c, p)]
    BY <1>2, StoreTouches
  <2>2. c \in StoreCalls /\ c.scope \in Scopes /\ p \in Policies /\ RowsBelong(p) /\ Administrable(p)
    BY <2>1, CallFacts
  <2>3. RowsBelong(Advance(c, p)) /\ Administrable(Advance(c, p))
    BY <2>1, <2>2, AdvanceRowsBelong, AdvanceAdministrable
  <2>4. policy \in [Scopes -> Policies]
    BY DEF AInv, IInv, Types
  <2> HIDE DEF p
  <2>5. QED
    BY <2>1, <2>2, <2>3, <2>4 DEF AInv, Sound
<1>3. QED
  BY <1>1, <1>2

\* What others change makes no answer untrue.
LEMMA OthersStayTrue ==
  ASSUME AInv, NEW t \in Slots, Store!Step(t), NEW u \in Slots \ {t}
  PROVE  AnswerIsTrue(u)'
<1>1. phase'[u] = phase[u] /\ call'[u] = call[u] /\ result'[u] = result[u]
  BY StoreTouches
<1> DEFINE s == call[u].scope
<1>2. SUFFICES ASSUME phase[u] = "decided" PROVE TrueOf(call[u], result[u], policy'[s])
  BY <1>1 DEF AnswerIsTrue
<1>3. TrueOf(call[u], result[u], policy[s])
  BY <1>2 DEF AInv, AnswerIsTrue
<1>4. call[u] \in StoreCalls /\ s \in Scopes /\ policy[s] \in Policies
  BY <1>2, CallFacts
<1>5. CASE policy'[s] = policy[s]
  BY <1>3, <1>5
<1>6. CASE policy'[s] # policy[s]
  <2>1. /\ phase[t] # "idle" /\ Changes(call[t], policy[call[t].scope])
        /\ policy' = [policy EXCEPT ![call[t].scope] = Advance(call[t], policy[call[t].scope])]
    BY <1>6, StoreTouches
  <2>2. call[t] \in StoreCalls /\ call[t].scope \in Scopes
    BY <2>1, CallFacts
  <2>3. call[t].scope = s /\ policy'[s] = Advance(call[t], policy[s])
    BY <1>4, <1>6, <2>1, <2>2 DEF AInv, IInv, Types
  <2>4. QED
    BY <1>3, <1>4, <2>1, <2>2, <2>3, StaysTrue
<1>7. QED
  BY <1>5, <1>6

\* A call is answered with what is true when it takes effect.
LEMMA OwnAnswerIsTrue ==
  ASSUME AInv, IInv', NEW t \in Slots, Store!Step(t)
  PROVE  AnswerIsTrue(t)'
<1> DEFINE c == call[t]
           p == policy[c.scope]
<1>1. /\ phase \in [Slots -> {"idle", "called", "decided", "doubt"}]
      /\ call \in [Slots -> Calls \cup {NoCall}] /\ result \in [Slots -> Results]
      /\ policy \in [Scopes -> Policies]
  BY DEF AInv, IInv, Types
<1>2. SUFFICES ASSUME phase'[t] = "decided"
               PROVE  TrueOf(call'[t], result'[t], policy'[call'[t].scope])
  BY DEF AnswerIsTrue
<1>3. phase[t] # "idle" =>
        c \in StoreCalls /\ c.scope \in Scopes /\ p \in Policies /\ RowsBelong(p)
  BY CallFacts
<1>4. CASE Store!Refuse(t)
  <2>1. PICK f \in DomainFailures : Store!Decide(t, "called", Failure(f))
    BY <1>4, SameRefusals, SameAnswers DEF Store!Refuse
  <2>2. phase[t] = "called" /\ result'[t] = Failure(f) /\ call' = call
    BY <1>1, <2>1 DEF Store!Decide
  <2>3. policy' = policy
    BY <1>4 DEF Store!Refuse
  <2>4. QED
    BY <1>3, <2>2, <2>3, AnswersAreTrue
<1>5. CASE Store!Answer(t)
  <2>1. /\ c.op \in ReadOps /\ policy' = policy
        /\ phase[t] = "called" /\ call' = call /\ result' = [result EXCEPT ![t] = ReadAnswer(c, p)]
    BY <1>5, SameRefusals, SameAnswers DEF Store!Answer, Store!Decide
  <2>2. result'[t] = ReadAnswer(c, p)
    BY <1>1, <2>1
  <2>3. QED
    BY <1>3, <2>1, <2>2, AnswersAreTrue
<1>6. CASE Store!Keep(t)
  <2>1. /\ c.op \notin ReadOps /\ policy' = policy /\ Effect(c, p) = p
        /\ phase[t] = "called" /\ call' = call
        /\ result' = [result EXCEPT ![t] = Mutation(FALSE, p.revision)]
    BY <1>6, SameRefusals, SameAnswers, SameEffects DEF Store!Keep, Store!Decide
  <2>2. result'[t] = Mutation(FALSE, p.revision)
    BY <1>1, <2>1
  <2>3. QED
    BY <1>3, <2>1, <2>2, AnswersAreTrue
<1>7. CASE Store!Change(t)
  <2>1. /\ Changes(c, p) /\ policy' = [policy EXCEPT ![c.scope] = Advance(c, p)]
        /\ phase[t] = "called" /\ call' = call
        /\ result' = [result EXCEPT ![t] = Mutation(TRUE, p.revision + 1)]
    BY <1>7, SameAnswers, SameEffects DEF Store!Change, Store!Decide
  <2>2. result'[t] = Mutation(TRUE, p.revision + 1)
    BY <1>1, <2>1
  <2>3. policy'[c.scope] = Advance(c, p)
    BY <1>1, <1>3, <2>1
  <2>4. QED
    BY <1>3, <2>1, <2>2, <2>3, AnswersAreTrue
<1>8. CASE Store!Lose(t) \/ Store!LateChange(t)
  <2>1. PICK from \in {"called", "decided", "doubt"} : Store!Decide(t, from, Unavailable)
    BY <1>8, SameAnswers DEF Store!Lose, Store!LateChange
  <2>2. phase[t] = from /\ result'[t] = Unavailable /\ call' = call
    BY <1>1, <2>1 DEF Store!Decide
  <2>3. Unavailable \notin Versioned
    BY ResultTypes
  <2>4. QED
    BY <2>2, <2>3 DEF TrueOf
<1>9. CASE Store!Doubt(t) \/ Store!Return(t) \/ \E d \in Calls : Store!Start(t, d)
  BY <1>1, <1>2, <1>9 DEF Store!Doubt, Store!Return, Store!Start
<1>10. QED
  BY <1>4, <1>5, <1>6, <1>7, <1>8, <1>9 DEF Store!Step

LEMMA NextAInv == AInv /\ [Next]_vars => AInv'
<1> SUFFICES ASSUME AInv, [Next]_vars PROVE AInv'
  OBVIOUS
<1>1. IInv' /\ [Store!Next]_(Store!vars)
  BY NextIInv, StepsOfTheStore DEF AInv
<1>2. CASE Store!Next
  <2>1. PICK t \in Slots : Store!Step(t)
    BY <1>2 DEF Store!Next
  <2>2. QED
    BY <1>1, <2>1, StaysSound, OthersStayTrue, OwnAnswerIsTrue DEF AInv
<1>3. CASE UNCHANGED Store!vars
  BY <1>1, <1>3 DEF Store!vars, AInv, Sound, AnswerIsTrue
<1>4. QED
  BY <1>1, <1>2, <1>3

LEMMA SpecAInv == Spec => []AInv
<1>1. Init => AInv
  <2> SUFFICES ASSUME Init PROVE AInv
    OBVIOUS
  <2>1. policy = [s \in Scopes |-> NoPolicy] /\ phase = [t \in Slots |-> "idle"]
    BY SameTypes DEF Init, Store!Init
  <2>2. RowsBelong(NoPolicy) /\ Administrable(NoPolicy)
    BY InitialPolicies DEF RowsBelong, Administrable, NoPolicy
  <2>3. QED
    BY <2>1, <2>2, InitIInv DEF AInv, Sound, AnswerIsTrue
<1>2. QED
  BY <1>1, NextAInv, PTL DEF Spec

\* No request, and no sequence of requests, takes a bootstrapped scope its last
\* administrator or leaves rows that do not belong (core/src/lib.rs, handlers before any
\* store of core/src/storage.rs).
THEOREM ServicePoliciesSound == Spec => []Store!PoliciesSound
<1>1. \A p : Store!Grants(p, BootstrapRole) = Grants(p, BootstrapRole)
  BY DEF Store!Grants, Grants
<1>2. \A p : (Store!RowsBelong(p) <=> RowsBelong(p)) /\ (Store!Administrable(p) <=> Administrable(p))
  BY <1>1, SameAuthority, SameTypes DEF Store!RowsBelong, RowsBelong, Store!Administrable, Administrable
<1>3. AInv => Store!PoliciesSound
  BY <1>2 DEF AInv, Sound, Store!PoliciesSound
<1>4. QED
  BY <1>3, SpecAInv, PTL

\* What a requester has been told with success is true of the revision it names: as long as
\* the scope is at that revision, a read would be answered the same and a mutation is in
\* force, whatever other requests, lost answers and late changes there were.
SuccessesHold ==
  \A t \in Slots : response[t].kind = "success" =>
    Store!HoldsAtItsRevision(call[t], response[t].result, policy[call[t].scope])

\* Responses are rendered from answers that hold (core/src/lib.rs, the handlers): what a
\* caller of the service or of a tool is given is what the store has decided.
THEOREM ServiceSuccessesHold == Spec => []SuccessesHold
<1>1. AInv => SuccessesHold
  <2> SUFFICES ASSUME AInv, NEW t \in Slots, response[t].kind = "success"
               PROVE  Store!HoldsAtItsRevision(call[t], response[t].result, policy[call[t].scope])
    BY DEF SuccessesHold
  <2>1. /\ Runtime.kind # "success" /\ \A f : DomainError(f).kind # "success"
        /\ \A r, n : Success(r, n).result = r
    BY DEF Runtime, DomainError, Success
  <2>2. ~ TurnedAway(request[t], response[t])
    BY <2>1 DEF TurnedAway, Answered, DomainError
  <2>3. /\ phase[t] # "idle" /\ call[t] \in StoreCalls /\ result[t] \in Results
        /\ ResultFits(call[t], result[t])
        /\ response[t] = Answered(request[t], Rendered(call[t].op, result[t]))
    BY <2>2, Responded DEF AInv
  <2>4. response[t] = Rendered(call[t].op, result[t])
    BY <2>1, <2>3 DEF Answered
  <2>5. response[t].result = result[t]
    BY <2>1, <2>4 DEF Rendered, Runtime, DomainError, Panic
  <2>6. result[t] # Unavailable
    BY <2>1, <2>4 DEF Rendered, Unavailable
  <2>7. phase[t] = "decided"
    <3>1. Served(phase[t], call[t], result[t], request[t], response[t])
      BY <2>3, ServingSlots DEF AInv
    <3>2. Pending.kind # "success"
      BY DEF Pending
    <3>3. QED
      BY <2>3, <2>6, <3>1, <3>2 DEF Served, AInv, IInv, Types
  <2>8. TrueOf(call[t], result[t], policy[call[t].scope])
    BY <2>7 DEF AInv, AnswerIsTrue
  <2>9. Store!Versioned = Versioned
    BY DEF Store!Versioned, Versioned, Store!RoleRows, RoleRows
  <2>10. QED
    BY <2>5, <2>8, <2>9, SameRefusals, SameAnswers, SameEffects DEF Store!HoldsAtItsRevision, TrueOf
<1>2. QED
  BY <1>1, SpecAInv, PTL

\* The revisions that requesters see count changes: no request changes rows of a scope
\* without advancing its revision by one, or the subject it was bootstrapped for.
THEOREM ServiceRevisionCounts == Spec => Store!RevisionCountsChanges
<1>1. ASSUME AInv, [Next]_vars
      PROVE  [\A s \in Scopes : Store!Counted(policy[s], policy'[s])]_(Store!vars)
  <2>1. SUFFICES ASSUME NEW s \in Scopes, policy'[s] # policy[s]
                 PROVE  Store!Counted(policy[s], policy'[s])
    BY DEF Store!Counted
  <2>2. PICK t \in Slots : Store!Step(t)
    BY <1>1, <2>1, StepsOfTheStore DEF AInv, Store!Next, Store!vars
  <2>3. /\ phase[t] # "idle" /\ Changes(call[t], policy[call[t].scope])
        /\ policy' = [policy EXCEPT ![call[t].scope] = Advance(call[t], policy[call[t].scope])]
    BY <1>1, <2>1, <2>2, StoreTouches
  <2>4. /\ call[t] \in StoreCalls /\ call[t].scope \in Scopes
        /\ policy[call[t].scope] \in Policies /\ RowsBelong(policy[call[t].scope])
    BY <1>1, <2>3, CallFacts
  <2>5. call[t].scope = s /\ policy'[s] = Advance(call[t], policy[s])
    BY <1>1, <2>1, <2>3, <2>4 DEF AInv, IInv, Types
  <2>6. QED
    BY <2>3, <2>4, <2>5, AdvanceCounts DEF Store!Counted
<1>2. QED
  BY <1>1, SpecAInv, PTL DEF Spec, Store!RevisionCountsChanges
=============================================================================
