------------------------------ MODULE D1Proofs ------------------------------
(***************************************************************************)
(* Proofs about D1Store and D1Events, for any number of calls in flight,   *)
(* events, scopes, subjects, roles and permissions.                        *)
(***************************************************************************)
EXTENDS D1Events, PolicyLemmas

\* The workspace row of the batch of t once its request is decided.
Decided(t) ==
  [request |-> call[t], failure |-> Finding(call[t], Stored(t)),
   changed |-> Effective(call[t], Stored(t)), revision |-> Stored(t).revision]

\* What its tables hold after the statements of the operation, and after the revision
\* is counted.
Written(t) == IF Applies(Decided(t)) THEN Effect(call[t], Stored(t)) ELSE Stored(t)
Bumped(t)  == IF Applies(Decided(t)) THEN Advance(call[t], Stored(t)) ELSE Stored(t)

Receipt(t) ==
  [Decided(t) EXCEPT !.revision = IF Applies(Decided(t)) THEN @ + 1 ELSE @]

\* How far the batch of t has come, statement by statement.
OpenStands(t) ==
  LET Seen(p, row, receipt) == open = [policy |-> p, row |-> row, receipt |-> receipt]
  IN  /\ batch[t] = "load"   => Seen(Stored(t), NoRow, NoRow)
      /\ batch[t] = "decide" => Seen(Stored(t), [request |-> call[t], failure |-> "none",
                                                 changed |-> FALSE, revision |-> 0], NoRow)
      /\ batch[t] = "apply"  => Seen(Stored(t), Decided(t), NoRow)
      /\ batch[t] = "bump"   => Seen(Written(t), Decided(t), NoRow)
      /\ batch[t] = "report" => Seen(Bumped(t), Decided(t), NoRow)
      /\ batch[t] = "clean"  => Seen(Bumped(t), Decided(t), Receipt(t))
      /\ batch[t] = "commit" => Seen(Bumped(t), NoRow, Receipt(t))
      /\ batch[t] \in {"report", "clean", "commit"} /\ Applies(Decided(t)) =>
           Stored(t).revision < MaxRevision

\* Who has a batch, whose batch runs, and what a caller who gave up was told.
CallStands(t) ==
  /\ caller[t] = "idle" <=> batch[t] = "none"
  /\ batch[t] # "none" => call[t] \in Calls
  /\ writer = t <=> batch[t] \in Statements
  /\ batch[t] \in Statements => call[t].op \notin ReadOps
  /\ caller[t] = "answered" /\ batch[t] \notin {"ended", "failed"} => result[t] = Unavailable

PoliciesSound == \A s \in Scopes : RowsBelong(db[s]) /\ Administrable(db[s])

IInv ==
  /\ TypeOK
  /\ workspace = NoRow
  /\ PoliciesSound
  /\ \A t \in Slots : CallStands(t) /\ OpenStands(t)

-----------------------------------------------------------------------------
(* What a batch finds out about its request.                               *)

\* Bound subjects are few: a set of them that is no larger than one of its members alone
\* is that member.
LEMMA OnlyBinder ==
  ASSUME NEW p \in Policies, NEW r, NEW s \in Binders(p, r), Cardinality(Binders(p, r)) <= 1
  PROVE  Binders(p, r) = {s}
<1> DEFINE B == Binders(p, r)
<1>1. B \in SUBSET Subjects
  BY DEF Binders
<1>2. IsFiniteSet(B) /\ Cardinality(B) \in Nat
  BY <1>1, PolicyAssumption, FS_Subset, FS_CardinalityType
<1>3. Cardinality(B) # 0
  BY <1>2, FS_EmptySet
<1>4. Cardinality(B) = 1
  BY <1>2, <1>3
<1>5. QED
  BY <1>2, <1>4, FS_Singleton

\* A finding that is a domain failure is the one the Store trait promises.
LEMMA FindingRefuses ==
  ASSUME NEW c \in StoreCalls, c.op \notin ReadOps, NEW p \in Policies,
         Finding(c, p) \in DomainFailures
  PROVE  Refused(c, p, Finding(c, p))
<1>1. CASE c.op = "bootstrap"
  BY <1>1 DEF Finding, BootstrapFinding, Refused, DomainFailures, Bootstrapped
<1>2. CASE c.op \in AdminOps
  <2>1. c.op # "bootstrap" /\ c.op \in {"create", "set", "delete", "assign", "revoke"}
    BY <1>2 DEF AdminOps, RoleOps
  <2>2. CASE ~ Bootstrapped(p)
    BY <1>2, <2>1, <2>2 DEF Finding, Refused
  <2>3. CASE Bootstrapped(p) /\ ~ Allowed(p, c.actor, Needed(c))
    BY <1>2, <2>1, <2>3 DEF Finding, Refused, Authorized
  <2>4. CASE Authorized(c, p)
    <3>1. Finding(c, p) = RoleFinding(c, p)
      BY <2>1, <2>4 DEF Finding, Authorized
    <3>2. CASE c.op = "create"
      BY <2>4, <3>1, <3>2 DEF RoleFinding, Refused, DomainFailures
    <3>3. CASE c.op \in RoleOps /\ c.role \notin p.roles
      BY <2>4, <3>1, <3>3 DEF RoleFinding, Refused, RoleOps
    <3>4. CASE c.op \in {"set", "delete", "assign"} /\ c.role \in p.roles
      BY <2>4, <3>1, <3>4 DEF RoleFinding, Refused, DomainFailures
    <3>5. CASE c.op = "revoke" /\ c.role \in p.roles
      <4>1. /\ c.role \in p.protected /\ c.subject \in Binders(p, c.role)
            /\ Cardinality(Binders(p, c.role)) <= 1 /\ Finding(c, p) = "ProtectedBinding"
        BY <3>1, <3>5 DEF RoleFinding, DomainFailures
      <4>2. Binders(p, c.role) = {c.subject}
        BY <4>1, OnlyBinder
      <4>3. QED
        BY <2>4, <3>5, <4>1, <4>2 DEF Refused
    <3>6. QED
      BY <2>1, <3>2, <3>3, <3>4, <3>5 DEF RoleOps
  <2>5. QED
    BY <2>2, <2>3, <2>4 DEF Authorized
<1>3. QED
  BY <1>1, <1>2, CallShape

\* A request nothing is wrong with is accepted, and effective exactly if it has an effect.
LEMMA FindingNone ==
  ASSUME NEW c \in StoreCalls, c.op \notin ReadOps, NEW p \in Policies,
         Finding(c, p) = "none"
  PROVE  Accepted(c, p) /\ (Effective(c, p) <=> Effect(c, p) # p)
<1>1. CASE c.op = "bootstrap"
  <2>1. Accepted(c, p)
    BY <1>1 DEF Finding, BootstrapFinding, Accepted, Refused, Bootstrapped,
                ReadOps, AdminOps, RoleOps
  <2>2. Effective(c, p) <=> ~ Bootstrapped(p)
    BY <1>1 DEF Effective
  <2>3. QED
    BY <1>1, <2>1, <2>2, EligibleBootstrap, Needless
<1>2. CASE c.op \in AdminOps
  <2>1. c.op # "bootstrap" /\ c.op \in {"create", "set", "delete", "assign", "revoke"}
    BY <1>2 DEF AdminOps, RoleOps
  <2>2. Authorized(c, p) /\ RoleFinding(c, p) = "none"
    BY <2>1 DEF Finding, Authorized
  <2>3. /\ c.op = "create" => c.role \notin p.roles
        /\ c.op \in RoleOps => c.role \in p.roles
        /\ c.op \in {"set", "delete"} => c.role \notin p.protected
    BY <2>2 DEF RoleFinding, RoleOps
  <2>4. ASSUME c.op = "revoke", c.role \in p.protected PROVE Binders(p, c.role) # {c.subject}
    <3>1. c.subject \notin Binders(p, c.role) \/ ~ (Cardinality(Binders(p, c.role)) <= 1)
      BY <2>2, <2>3, <2>4 DEF RoleFinding, RoleOps
    <3>2. Cardinality({c.subject}) = 1
      BY FS_Singleton
    <3>3. QED
      BY <3>1, <3>2
  <2>5. Accepted(c, p)
    BY <2>1, <2>2, <2>3, <2>4 DEF Accepted, Refused, Authorized, AdminOps, RoleOps
  <2>6. CASE Effective(c, p)
    <3>1. /\ c.op = "set" => Grants(p, c.role) # c.permissions
          /\ c.op = "assign" => c.subject \notin Binders(p, c.role)
          /\ c.op = "revoke" => c.subject \in Binders(p, c.role)
      BY <2>1, <2>6 DEF Effective
    <3>2. Bootstrapped(p) /\ Allowed(p, c.actor, Needed(c))
      BY <2>2 DEF Authorized
    <3>3. Effect(c, p) # p
      BY <1>2, <2>3, <2>4, <3>1, <3>2, Eligible
    <3>4. QED
      BY <2>5, <2>6, <3>3
  <2>7. CASE ~ Effective(c, p)
    <3>1. \/ c.op = "set" /\ Grants(p, c.role) = c.permissions
          \/ c.op = "assign" /\ c.subject \in Binders(p, c.role)
          \/ c.op = "revoke" /\ c.subject \notin Binders(p, c.role)
      BY <2>1, <2>7 DEF Effective
    <3>2. Effect(c, p) = p
      BY <3>1, Needless
    <3>3. QED
      BY <2>5, <2>7, <3>2
  <2>8. QED
    BY <2>6, <2>7
<1>3. QED
  BY <1>1, <1>2, CallShape

\* A decided row is well formed.
LEMMA FindingType ==
  ASSUME NEW c, NEW p
  PROVE  Finding(c, p) \in Findings /\ Effective(c, p) \in BOOLEAN
<1>1. Finding(c, p) \in Findings
  BY DEF Finding, BootstrapFinding, RoleFinding, Findings, DomainFailures
<1>2. Effective(c, p) \in BOOLEAN
  <2>1. CASE c.op = "bootstrap"
    BY <2>1 DEF Effective
  <2>2. CASE c.op = "assign"
    BY <2>2 DEF Effective
  <2>3. CASE c.op = "revoke"
    BY <2>3 DEF Effective
  <2>4. CASE c.op = "set"
    BY <2>4 DEF Effective
  <2>5. CASE c.op \notin {"bootstrap", "assign", "revoke", "set"}
    BY <2>5 DEF Effective
  <2>6. QED
    BY <2>1, <2>2, <2>3, <2>4, <2>5
<1>3. QED
  BY <1>1, <1>2

-----------------------------------------------------------------------------
(* The invariant holds at first, and a step of one call leaves what stands *)
(* of the others.                                                          *)

LEMMA InitIInv == Init => IInv
<1> SUFFICES ASSUME Init PROVE IInv
  OBVIOUS
<1>1. TypeOK
  BY InitialPolicies, ResultTypes DEF Init, TypeOK, Closed, Rows
<1>2. RowsBelong(NoPolicy) /\ Administrable(NoPolicy)
  BY InitialPolicies DEF RowsBelong, Administrable, NoPolicy
<1>3. \A t \in Slots : CallStands(t) /\ OpenStands(t)
  BY SlotsAssumption DEF Init, CallStands, OpenStands, Statements
<1>4. QED
  BY <1>1, <1>2, <1>3 DEF IInv, PoliciesSound, Init

\* A step of t: no other call moves, the writer changes hands only from t or to t, and
\* while another batch runs its tables and those it will replace stay.
StepOf(t) ==
  /\ \A u \in Slots \ {t} :
       batch'[u] = batch[u] /\ caller'[u] = caller[u] /\ call'[u] = call[u] /\ result'[u] = result[u]
  /\ writer' = writer \/ {writer, writer'} \subseteq {t, NoSlot}
  /\ writer \in Slots \ {t} => UNCHANGED <<db, open>>

LEMMA StepKeepsIInv ==
  ASSUME IInv, NEW t \in Slots, StepOf(t),
         TypeOK', workspace' = NoRow, PoliciesSound', CallStands(t)', OpenStands(t)'
  PROVE  IInv'
<1>1. ASSUME NEW u \in Slots, u # t PROVE CallStands(u)' /\ OpenStands(u)'
  <2>1. /\ batch'[u] = batch[u] /\ caller'[u] = caller[u] /\ call'[u] = call[u]
        /\ result'[u] = result[u] /\ u # NoSlot
    BY <1>1, SlotsAssumption DEF StepOf
  <2>2. writer' = u <=> writer = u
    BY <1>1, <2>1 DEF StepOf
  <2>3. CallStands(u) /\ OpenStands(u)
    BY DEF IInv
  <2>4. CallStands(u)'
    BY <2>1, <2>2, <2>3 DEF CallStands
  <2>5. CASE writer = u
    <3>1. UNCHANGED <<db, open>>
      BY <1>1, <2>5 DEF StepOf
    <3>2. Stored(u)' = Stored(u)
      BY <2>1, <3>1 DEF Stored
    <3>3. Decided(u)' = Decided(u)
      BY <2>1, <3>2 DEF Decided
    <3>4. Written(u)' = Written(u) /\ Bumped(u)' = Bumped(u) /\ Receipt(u)' = Receipt(u)
      BY <2>1, <3>2, <3>3 DEF Written, Bumped, Receipt
    <3>5. QED
      BY <2>1, <2>3, <2>4, <3>1, <3>2, <3>3, <3>4 DEF OpenStands
  <2>6. CASE writer # u
    <3>1. batch'[u] \notin Statements
      BY <2>1, <2>3, <2>6 DEF CallStands
    <3>2. OpenStands(u)'
      BY <3>1 DEF OpenStands, Statements
    <3>3. QED
      BY <2>4, <3>2
  <2>7. QED
    BY <2>5, <2>6
<1>2. QED
  BY <1>1 DEF IInv

\* Without a statement to run there is nothing open to stand.
LEMMA NothingOpen ==
  ASSUME NEW t \in Slots, batch[t] \notin Statements
  PROVE  OpenStands(t)
BY DEF OpenStands, Statements

-----------------------------------------------------------------------------
(* The batch that runs.                                                    *)

\* A call that has a batch names a scope, and finds a sound policy there.
LEMMA CallFacts ==
  ASSUME IInv, NEW t \in Slots, batch[t] # "none"
  PROVE  /\ call[t] \in Calls /\ call[t] \in StoreCalls /\ call[t].scope \in Scopes
         /\ Stored(t) \in Policies /\ RowsBelong(Stored(t)) /\ Administrable(Stored(t))
         /\ Stored(t).revision \in 0..MaxRevision
<1>1. call[t] \in Calls
  BY DEF IInv, CallStands
<1>2. call[t] \in StoreCalls /\ call[t].scope \in Scopes
  BY <1>1, SlotsAssumption, CallShape
<1>3. Stored(t) \in Policies /\ RowsBelong(Stored(t)) /\ Administrable(Stored(t))
  BY <1>2 DEF IInv, TypeOK, PoliciesSound, Stored
<1>4. QED
  BY <1>1, <1>2, <1>3 DEF Policies

LEMMA BatchFacts ==
  ASSUME IInv, NEW t \in Slots, batch[t] \in Statements
  PROVE  /\ batch[t] # "none" /\ writer = t /\ call[t].op \notin ReadOps
         /\ Decided(t) \in Rows
         /\ Applies(Decided(t)) => Accepted(call[t], Stored(t)) /\ Effect(call[t], Stored(t)) # Stored(t)
         /\ Applies(Decided(t)) /\ Stored(t).revision < MaxRevision => Changes(call[t], Stored(t))
<1>1. batch[t] # "none"
  BY DEF Statements
<1>2. writer = t /\ call[t].op \notin ReadOps
  BY DEF IInv, CallStands
<1>3. Decided(t) \in Rows
  <2>1. call[t] \in Calls /\ Stored(t).revision \in 0..MaxRevision
    BY <1>1, CallFacts
  <2>2. Finding(call[t], Stored(t)) \in Findings /\ Effective(call[t], Stored(t)) \in BOOLEAN
    BY FindingType
  <2>3. QED
    BY <2>1, <2>2 DEF Decided, Rows
<1>4. ASSUME Applies(Decided(t))
      PROVE  Accepted(call[t], Stored(t)) /\ Effect(call[t], Stored(t)) # Stored(t)
  <2>1. Finding(call[t], Stored(t)) = "none" /\ Effective(call[t], Stored(t))
    BY <1>4 DEF Applies, Decided
  <2>2. QED
    BY <1>1, <1>2, <2>1, CallFacts, FindingNone
<1>5. QED
  BY <1>1, <1>2, <1>3, <1>4 DEF Changes

\* What the statements leave in the open tables is well formed.
LEMMA OpenTypes ==
  ASSUME IInv, NEW t \in Slots, batch[t] \in Statements
  PROVE  /\ Written(t) \in Policies
         /\ (Applies(Decided(t)) => Stored(t).revision < MaxRevision) =>
              /\ Bumped(t) \in Policies /\ Receipt(t) \in Rows
              /\ RowsBelong(Bumped(t)) /\ Administrable(Bumped(t))
<1>1. /\ call[t] \in StoreCalls /\ call[t].op \notin ReadOps
      /\ Stored(t) \in Policies /\ RowsBelong(Stored(t)) /\ Administrable(Stored(t))
      /\ Stored(t).revision \in 0..MaxRevision
  BY CallFacts, BatchFacts
<1>2. Written(t) \in Policies
  BY <1>1, EffectType DEF Written
<1>3. ASSUME Applies(Decided(t)) => Stored(t).revision < MaxRevision
      PROVE  /\ Bumped(t) \in Policies /\ Receipt(t) \in Rows
             /\ RowsBelong(Bumped(t)) /\ Administrable(Bumped(t))
  <2>1. CASE Applies(Decided(t))
    <3>1. Changes(call[t], Stored(t))
      BY <1>3, <2>1, BatchFacts
    <3>2. Bumped(t) = Advance(call[t], Stored(t))
      BY <2>1 DEF Bumped
    <3>3. Bumped(t) \in Policies /\ RowsBelong(Bumped(t)) /\ Administrable(Bumped(t))
      BY <1>1, <3>1, <3>2, AdvanceType, AdvanceRowsBelong, AdvanceAdministrable
    <3>4. Receipt(t) = [Decided(t) EXCEPT !.revision = Stored(t).revision + 1]
      BY <2>1 DEF Receipt, Decided
    <3>5. Stored(t).revision + 1 \in 0..MaxRevision
      BY <1>1, <1>3, <2>1, PolicyAssumption
    <3>6. Decided(t) \in Rows
      BY BatchFacts
    <3>7. Receipt(t) \in Rows
      BY <3>4, <3>5, <3>6 DEF Rows, Decided, NoRow
    <3>8. QED
      BY <3>3, <3>7
  <2>2. CASE ~ Applies(Decided(t))
    <3>1. Receipt(t) = Decided(t)
      BY <2>2 DEF Receipt, Decided
    <3>2. QED
      BY <1>1, <2>2, <3>1, BatchFacts DEF Bumped
  <2>3. QED
    BY <2>1, <2>2
<1>4. QED
  BY <1>2, <1>3

\* A statement of the batch of t that leaves the open tables as they should be.
LEMMA StatementKeepsIInv ==
  ASSUME IInv, NEW t \in Slots, batch[t] \in Statements, NEW k \in Statements, GoTo(t, k),
         UNCHANGED <<db, workspace, writer, caller, call, result>>,
         open' \in [policy : Policies, row : Rows, receipt : Rows], OpenStands(t)'
  PROVE  IInv'
<1>1. TypeOK'
  BY DEF IInv, TypeOK, GoTo
<1>2. writer = t /\ batch'[t] = k
  BY BatchFacts DEF IInv, TypeOK, GoTo
<1>3. StepOf(t)
  BY <1>2 DEF StepOf, GoTo, IInv, TypeOK
<1>4. CallStands(t)'
  BY <1>2 DEF IInv, CallStands, Statements
<1>5. workspace' = NoRow /\ PoliciesSound'
  BY DEF IInv, PoliciesSound
<1>6. QED
  BY <1>1, <1>3, <1>4, <1>5, StepKeepsIInv

\* While only the batch moves, what is committed and what was decided stay.
LEMMA SameRequest ==
  ASSUME IInv, NEW t \in Slots, NEW k, GoTo(t, k), UNCHANGED <<db, call>>
  PROVE  /\ batch'[t] = k /\ Stored(t)' = Stored(t) /\ Decided(t)' = Decided(t)
         /\ Written(t)' = Written(t) /\ Bumped(t)' = Bumped(t) /\ Receipt(t)' = Receipt(t)
<1>1. batch'[t] = k /\ Stored(t)' = Stored(t)
  BY DEF IInv, TypeOK, GoTo, Stored
<1>2. Decided(t)' = Decided(t)
  BY <1>1 DEF Decided
<1>3. QED
  BY <1>1, <1>2 DEF Written, Bumped, Receipt

LEMMA LoadKeepsIInv ==
  ASSUME IInv, NEW t \in Slots, Load(t)
  PROVE  IInv'
<1>1. batch[t] = "load" /\ batch[t] \in Statements /\ GoTo(t, "decide")
      /\ UNCHANGED <<db, workspace, writer, caller, call, result>>
  BY DEF Load, At, Statements
<1>2. open = [policy |-> Stored(t), row |-> NoRow, receipt |-> NoRow]
  BY <1>1 DEF IInv, OpenStands
<1> DEFINE row == [request |-> call[t], failure |-> "none", changed |-> FALSE, revision |-> 0]
<1>3. open' = [policy |-> Stored(t), row |-> row, receipt |-> NoRow]
  BY <1>2 DEF Load
<1>4. row \in Rows /\ NoRow \in Rows
  BY <1>1, BatchFacts, CallFacts, PolicyAssumption DEF Rows, Findings
<1>5. batch'[t] = "decide" /\ Stored(t)' = Stored(t) /\ call' = call
  BY <1>1, SameRequest
<1>6. OpenStands(t)'
  BY <1>3, <1>5 DEF OpenStands
<1>7. "decide" \in Statements /\ Stored(t) \in Policies
  BY <1>1, BatchFacts, CallFacts DEF Statements
<1>8. QED
  BY <1>1, <1>3, <1>4, <1>6, <1>7, StatementKeepsIInv

LEMMA DecideKeepsIInv ==
  ASSUME IInv, NEW t \in Slots, Decide(t)
  PROVE  IInv'
<1>1. batch[t] = "decide" /\ batch[t] \in Statements /\ GoTo(t, "apply")
      /\ UNCHANGED <<db, workspace, writer, caller, call, result>>
  BY DEF Decide, At, Statements
<1>2. open = [policy |-> Stored(t),
              row |-> [request |-> call[t], failure |-> "none", changed |-> FALSE, revision |-> 0],
              receipt |-> NoRow]
  BY <1>1 DEF IInv, OpenStands
<1>3. open' = [policy |-> Stored(t), row |-> Decided(t), receipt |-> NoRow]
  BY <1>2 DEF Decide, Decided
<1>4. batch'[t] = "apply" /\ Stored(t)' = Stored(t) /\ Decided(t)' = Decided(t)
  BY <1>1, SameRequest
<1>5. OpenStands(t)'
  BY <1>3, <1>4 DEF OpenStands
<1>6. "apply" \in Statements /\ NoRow \in Rows /\ Decided(t) \in Rows /\ Stored(t) \in Policies
  BY <1>1, BatchFacts, CallFacts DEF Statements, Rows
<1>7. QED
  BY <1>1, <1>3, <1>5, <1>6, StatementKeepsIInv

LEMMA ApplyKeepsIInv ==
  ASSUME IInv, NEW t \in Slots, Apply(t)
  PROVE  IInv'
<1>1. batch[t] = "apply" /\ batch[t] \in Statements /\ GoTo(t, "bump")
      /\ UNCHANGED <<db, workspace, writer, caller, call, result>>
  BY DEF Apply, At, Statements
<1>2. open = [policy |-> Stored(t), row |-> Decided(t), receipt |-> NoRow]
  BY <1>1 DEF IInv, OpenStands
<1>3. open.row = Decided(t) /\ open.row.request = call[t] /\ open.policy = Stored(t)
  BY <1>2 DEF Decided
<1>4. open' = [policy |-> Written(t), row |-> Decided(t), receipt |-> NoRow]
  BY <1>2, <1>3 DEF Apply, Written
<1>5. batch'[t] = "bump" /\ Written(t)' = Written(t) /\ Decided(t)' = Decided(t)
  BY <1>1, SameRequest
<1>6. OpenStands(t)'
  BY <1>4, <1>5 DEF OpenStands
<1>7. "bump" \in Statements /\ NoRow \in Rows /\ Decided(t) \in Rows /\ Written(t) \in Policies
  BY <1>1, BatchFacts, OpenTypes DEF Statements, Rows
<1>8. QED
  BY <1>1, <1>4, <1>6, <1>7, StatementKeepsIInv

\* A rolled back batch leaves nothing behind.
LEMMA RollbackKeepsIInv ==
  ASSUME IInv, NEW t \in Slots, batch[t] \in Statements, Rollback(t)
  PROVE  IInv'
<1>1. writer = t /\ batch'[t] = "failed"
  BY BatchFacts DEF Rollback, GoTo, IInv, TypeOK
<1>2. TypeOK'
  BY InitialPolicies DEF IInv, TypeOK, Rollback, GoTo, Closed, Rows
<1>3. StepOf(t)
  BY <1>1 DEF StepOf, Rollback, GoTo, IInv, TypeOK
<1>4. CallStands(t)'
  BY <1>1, SlotsAssumption DEF IInv, CallStands, Statements, Rollback
<1>5. OpenStands(t)'
  BY <1>1 DEF OpenStands
<1>6. workspace' = NoRow /\ PoliciesSound'
  BY DEF IInv, PoliciesSound, Rollback
<1>7. QED
  BY <1>2, <1>3, <1>4, <1>5, <1>6, StepKeepsIInv

\* Counting the revision of the written rows makes them the policy after the change.
LEMMA CountedIsAdvance ==
  ASSUME IInv, NEW t \in Slots, batch[t] \in Statements, Applies(Decided(t))
  PROVE  /\ Written(t).revision = Stored(t).revision
         /\ [Written(t) EXCEPT !.revision = @ + 1] = Bumped(t)
<1>1. Written(t) = Effect(call[t], Stored(t)) /\ Bumped(t) = Advance(call[t], Stored(t))
  BY DEF Written, Bumped
<1>2. Effect(call[t], Stored(t)).revision = Stored(t).revision
  BY BatchFacts, CallFacts, EffectKeeps DEF RowsBelong
<1>3. QED
  BY <1>1, <1>2 DEF Advance

LEMMA BumpKeepsIInv ==
  ASSUME IInv, NEW t \in Slots, Bump(t)
  PROVE  IInv'
<1>1. batch[t] = "bump" /\ batch[t] \in Statements /\ "report" \in Statements
  BY DEF Bump, Statements
<1>2. open = [policy |-> Written(t), row |-> Decided(t), receipt |-> NoRow]
  BY <1>1 DEF IInv, OpenStands
<1>3. open.row = Decided(t) /\ open.policy = Written(t)
  BY <1>2
<1>4. CASE Applies(Decided(t)) /\ open.policy.revision = MaxRevision /\ Rollback(t)
  BY <1>1, <1>4, RollbackKeepsIInv
<1>5. CASE /\ GoTo(t, "report") /\ UNCHANGED <<db, workspace, writer, caller, call, result>>
           /\ Applies(Decided(t)) => Stored(t).revision < MaxRevision
           /\ open' = [policy |-> Bumped(t), row |-> Decided(t), receipt |-> NoRow]
  <2>1. /\ batch'[t] = "report" /\ Bumped(t)' = Bumped(t) /\ Decided(t)' = Decided(t)
        /\ Stored(t)' = Stored(t)
    BY <1>5, SameRequest
  <2>2. OpenStands(t)'
    BY <1>5, <2>1 DEF OpenStands
  <2>3. NoRow \in Rows /\ Decided(t) \in Rows /\ Bumped(t) \in Policies
    BY <1>1, <1>5, BatchFacts, OpenTypes DEF Rows
  <2>4. QED
    BY <1>1, <1>5, <2>2, <2>3, StatementKeepsIInv
<1>6. CASE /\ Applies(Decided(t)) /\ open.policy.revision < MaxRevision
           /\ At(t, "bump") /\ GoTo(t, "report")
           /\ open' = [open EXCEPT !.policy.revision = @ + 1]
  <2>1. Stored(t).revision < MaxRevision /\ [Written(t) EXCEPT !.revision = @ + 1] = Bumped(t)
    BY <1>1, <1>3, <1>6, CountedIsAdvance
  <2>2. open' = [policy |-> [Written(t) EXCEPT !.revision = @ + 1], row |-> Decided(t), receipt |-> NoRow]
    BY <1>2, <1>6
  <2>3. QED
    BY <1>5, <1>6, <2>1, <2>2 DEF At
<1>7. CASE ~ Applies(Decided(t)) /\ At(t, "bump") /\ GoTo(t, "report") /\ UNCHANGED open
  <2>1. Written(t) = Bumped(t)
    BY <1>7 DEF Written, Bumped
  <2>2. QED
    BY <1>2, <1>5, <1>7, <2>1 DEF At
<1>8. QED
  BY <1>3, <1>4, <1>6, <1>7 DEF Bump

LEMMA ReportKeepsIInv ==
  ASSUME IInv, NEW t \in Slots, Report(t)
  PROVE  IInv'
<1>1. batch[t] = "report" /\ batch[t] \in Statements /\ GoTo(t, "clean")
      /\ UNCHANGED <<db, workspace, writer, caller, call, result>>
  BY DEF Report, At, Statements
<1>2. /\ open = [policy |-> Bumped(t), row |-> Decided(t), receipt |-> NoRow]
      /\ Applies(Decided(t)) => Stored(t).revision < MaxRevision
  BY <1>1 DEF IInv, OpenStands
<1>3. open' = [policy |-> Bumped(t), row |-> Decided(t), receipt |-> Receipt(t)]
  BY <1>2 DEF Report, Receipt
<1>4. /\ batch'[t] = "clean" /\ Bumped(t)' = Bumped(t) /\ Decided(t)' = Decided(t)
      /\ Receipt(t)' = Receipt(t) /\ Stored(t)' = Stored(t)
  BY <1>1, SameRequest
<1>5. OpenStands(t)'
  BY <1>2, <1>3, <1>4 DEF OpenStands
<1>6. "clean" \in Statements /\ Decided(t) \in Rows /\ Receipt(t) \in Rows /\ Bumped(t) \in Policies
  BY <1>1, <1>2, BatchFacts, OpenTypes DEF Statements
<1>7. QED
  BY <1>1, <1>3, <1>5, <1>6, StatementKeepsIInv

LEMMA CleanKeepsIInv ==
  ASSUME IInv, NEW t \in Slots, Clean(t)
  PROVE  IInv'
<1>1. batch[t] = "clean" /\ batch[t] \in Statements /\ GoTo(t, "commit")
      /\ UNCHANGED <<db, workspace, writer, caller, call, result>>
  BY DEF Clean, At, Statements
<1>2. /\ open = [policy |-> Bumped(t), row |-> Decided(t), receipt |-> Receipt(t)]
      /\ Applies(Decided(t)) => Stored(t).revision < MaxRevision
  BY <1>1 DEF IInv, OpenStands
<1>3. open' = [policy |-> Bumped(t), row |-> NoRow, receipt |-> Receipt(t)]
  BY <1>2 DEF Clean
<1>4. /\ batch'[t] = "commit" /\ Bumped(t)' = Bumped(t) /\ Decided(t)' = Decided(t)
      /\ Receipt(t)' = Receipt(t) /\ Stored(t)' = Stored(t)
  BY <1>1, SameRequest
<1>5. OpenStands(t)'
  BY <1>2, <1>3, <1>4 DEF OpenStands
<1>6. "commit" \in Statements /\ NoRow \in Rows /\ Receipt(t) \in Rows /\ Bumped(t) \in Policies
  BY <1>1, <1>2, OpenTypes DEF Statements, Rows
<1>7. QED
  BY <1>1, <1>3, <1>5, <1>6, StatementKeepsIInv

-----------------------------------------------------------------------------
(* Reads.                                                                  *)

\* A statement that reads one row more than the page tells what a page promises.
LEMMA DirectoryPage ==
  ASSUME NEW p, NEW R \in SUBSET RoleIds, NEW n \in Nat \ {0}
  PROVE  Directory(p, R, n) =
           DirectoryRolePage({RoleRow(p, r) : r \in Lowest(n, R)}, p.revision, Lowest(n, R) # R)
<1>1. R \in SUBSET Nat /\ IsFiniteSet(R)
  BY PolicyAssumption, FS_Subset
<1>2. /\ Lowest(n, Lowest(n + 1, R)) = Lowest(n, R)
      /\ Cardinality(Lowest(n + 1, R)) > n <=> Lowest(n, R) # R
  BY <1>1, LookingAhead
<1>3. (Cardinality(Lowest(n + 1, R)) > n) = (Lowest(n, R) # R)
  BY <1>2
<1>4. QED
  BY <1>2, <1>3 DEF Directory

\* The page of one role.
LEMMA DirectoryOfOne ==
  ASSUME NEW p, NEW r \in RoleIds
  PROVE  /\ Directory(p, {r}, 1) = DirectoryRolePage({RoleRow(p, r)}, p.revision, FALSE)
         /\ Directory(p, {}, 1) = DirectoryRolePage({}, p.revision, FALSE)
<1>1. r \in Nat
  BY PolicyAssumption
<1>2. {q \in {r} : q < r} = {}
  BY <1>1
<1>3. Lowest(1, {r}) = {r}
  <2>1. Cardinality({q \in {r} : q < r}) < 1
    BY <1>2, FS_EmptySet
  <2>2. QED
    BY <2>1 DEF Lowest
<1>4. Lowest(1, {}) = {}
  BY DEF Lowest
<1>5. {RoleRow(p, q) : q \in {r}} = {RoleRow(p, r)}
  OBVIOUS
<1>6. {RoleRow(p, q) : q \in {}} = {}
  OBVIOUS
<1>7. Directory(p, {r}, 1) = DirectoryRolePage({RoleRow(p, r)}, p.revision, FALSE)
  <2>1. Directory(p, {r}, 1) =
          DirectoryRolePage({RoleRow(p, q) : q \in {r}}, p.revision, {r} # {r})
    BY <1>3, DirectoryPage
  <2>2. QED
    BY <1>5, <2>1
<1>8. Directory(p, {}, 1) = DirectoryRolePage({}, p.revision, FALSE)
  <2>1. Directory(p, {}, 1) =
          DirectoryRolePage({RoleRow(p, q) : q \in {}}, p.revision, {} # {})
    <3>1. {} \in SUBSET RoleIds /\ 1 \in Nat \ {0}
      OBVIOUS
    <3>2. Directory(p, {}, 1) =
            DirectoryRolePage({RoleRow(p, q) : q \in Lowest(1, {})}, p.revision, Lowest(1, {}) # {})
      BY <3>1, DirectoryPage
    <3>3. QED
      BY <1>4, <3>2
  <2>2. QED
    BY <1>6, <2>1
<1>9. QED
  BY <1>7, <1>8

Reads(t) == CheckPermission(t) \/ GetRole(t) \/ List(t)

\* A read statement answers as the Store trait promises.
LEMMA ReadsAnswer ==
  ASSUME IInv, NEW t \in Slots, Reads(t)
  PROVE  /\ batch[t] = "sent" /\ call[t].op \in ReadOps
         /\ UNCHANGED <<db, workspace, writer, open, caller, call>>
         /\ \/ Accepted(call[t], Stored(t)) /\ Send(t, ReadAnswer(call[t], Stored(t)))
            \/ \E f \in DomainFailures : Refused(call[t], Stored(t), f) /\ Send(t, Failure(f))
<1> DEFINE c == call[t]
           p == Stored(t)
<1>1. /\ batch[t] = "sent" /\ c.op \in ReadOps
      /\ UNCHANGED <<db, workspace, writer, open, caller, call>>
  BY DEF Reads, CheckPermission, GetRole, List, Reading, ReadOps
<1>2. c \in StoreCalls /\ p \in Policies /\ RowsBelong(p)
  BY <1>1, CallFacts
<1>3. CASE CheckPermission(t)
  <2>1. c.op = "check"
    BY <1>3 DEF CheckPermission, Reading
  <2>2. Accepted(c, p)
    BY <2>1 DEF Accepted, Refused, AdminOps, RoleOps
  <2>3. ReadAnswer(c, p) = Decision(Allowed(p, c.subject, c.permission), p.revision)
    BY <2>1 DEF ReadAnswer
  <2>4. CASE Bootstrapped(p)
    BY <1>1, <1>3, <2>2, <2>3, <2>4 DEF CheckPermission
  <2>5. CASE ~ Bootstrapped(p)
    <3>1. p = NoPolicy
      BY <1>2, <2>5 DEF RowsBelong
    <3>2. /\ p.revision = 0 /\ ~ Allowed(p, c.subject, c.permission)
          /\ Allowed(p, c.subject, c.permission) \in BOOLEAN
      BY <3>1 DEF NoPolicy, Allowed
    <3>3. Decision(Allowed(p, c.subject, c.permission), p.revision) = Decision(FALSE, 0)
      BY <3>2 DEF Decision
    <3>4. Send(t, Decision(FALSE, 0))
      BY <1>3, <2>5 DEF CheckPermission
    <3>5. QED
      BY <1>1, <2>2, <2>3, <3>3, <3>4
  <2>6. QED
    BY <2>4, <2>5
<1>4. CASE GetRole(t)
  <2> DEFINE page == Directory(p, p.roles \cap {c.role}, 1)
  <2>1. c.op = "get" /\ c.role \in RoleIds
    BY <1>2, <1>4, CallShape DEF GetRole, Reading
  <2>2. CASE ~ Bootstrapped(p)
    <3>1. Send(t, Failure("ScopeNotBootstrapped"))
      BY <1>4, <2>2 DEF GetRole
    <3>2. Refused(c, p, "ScopeNotBootstrapped")
      BY <2>1, <2>2 DEF Refused
    <3>3. QED
      BY <1>1, <3>1, <3>2 DEF DomainFailures
  <2>3. CASE Bootstrapped(p) /\ c.role \notin p.roles
    <3>1. p.roles \cap {c.role} = {}
      BY <2>3
    <3>2. page.rows = {}
      <4>1. page = DirectoryRolePage({}, p.revision, FALSE)
        BY <2>1, <3>1, DirectoryOfOne
      <4> HIDE DEF page
      <4>2. QED
        BY <4>1 DEF DirectoryRolePage
    <3>3. Send(t, Failure("RoleNotFound"))
      BY <1>4, <2>3, <3>2 DEF GetRole
    <3>4. Refused(c, p, "RoleNotFound")
      BY <2>1, <2>3 DEF Refused
    <3>5. QED
      BY <1>1, <3>3, <3>4 DEF DomainFailures
  <2>4. CASE Bootstrapped(p) /\ c.role \in p.roles
    <3>1. p.roles \cap {c.role} = {c.role}
      BY <2>4
    <3>2. page = DirectoryRolePage({RoleRow(p, c.role)}, p.revision, FALSE)
      BY <2>1, <3>1, DirectoryOfOne
    <3>3. page.rows = {RoleRow(p, c.role)} /\ page.revision = p.revision
      BY <3>2 DEF DirectoryRolePage
    <3>4. (CHOOSE row \in page.rows : TRUE) = RoleRow(p, c.role)
      BY <3>3
    <3>5. page.rows # {}
      BY <3>3
    <3>6. Send(t, DirectoryRole(CHOOSE row \in page.rows : TRUE, page.revision))
      BY <1>4, <2>4, <3>5 DEF GetRole
    <3>7. Accepted(c, p)
      BY <2>1, <2>4 DEF Accepted, Refused, AdminOps, RoleOps
    <3>8. ReadAnswer(c, p) = DirectoryRole(RoleRow(p, c.role), p.revision)
      BY <2>1 DEF ReadAnswer
    <3> HIDE DEF page
    <3>9. QED
      BY <1>1, <3>3, <3>4, <3>6, <3>7, <3>8
  <2>5. QED
    BY <2>2, <2>3, <2>4
<1>5. CASE List(t)
  <2>1. c.op = "list" /\ c.limit \in Nat \ {0}
    BY <1>2, <1>5, CallShape, PolicyAssumption DEF List, Reading
  <2>2. CASE ~ Bootstrapped(p)
    <3>1. Send(t, Failure("ScopeNotBootstrapped"))
      BY <1>5, <2>2 DEF List
    <3>2. Refused(c, p, "ScopeNotBootstrapped")
      BY <2>1, <2>2 DEF Refused
    <3>3. QED
      BY <1>1, <3>1, <3>2 DEF DomainFailures
  <2>3. CASE Bootstrapped(p)
    <3>1. Accepted(c, p)
      BY <2>1, <2>3 DEF Accepted, Refused, AdminOps, RoleOps
    <3>2. Send(t, Directory(p, Listed(c, p), c.limit))
      BY <1>5, <2>3 DEF List
    <3>3. Listed(c, p) \in SUBSET RoleIds
      BY <1>2 DEF Listed, Policies
    <3>4. Directory(p, Listed(c, p), c.limit) = ReadAnswer(c, p)
      BY <2>1, <3>3, DirectoryPage DEF ReadAnswer
    <3>5. QED
      BY <1>1, <3>1, <3>2, <3>4
  <2>4. QED
    BY <2>2, <2>3
<1>6. QED
  BY <1>3, <1>4, <1>5 DEF Reads

\* What a call is answered is well formed.
LEMMA SendTypes ==
  ASSUME IInv, NEW t \in Slots, NEW r \in Results, Send(t, r)
  PROVE  /\ batch' = [batch EXCEPT ![t] = "ended"] /\ batch'[t] = "ended"
         /\ result' \in [Slots -> Results]
         /\ \A u \in Slots \ {t} : result'[u] = result[u]
         /\ caller[t] = "answered" => result'[t] = result[t]
BY DEF Send, GoTo, IInv, TypeOK

LEMMA ReadsKeepIInv ==
  ASSUME IInv, NEW t \in Slots, Reads(t)
  PROVE  IInv'
<1>1. /\ batch[t] = "sent" /\ call[t].op \in ReadOps
      /\ UNCHANGED <<db, workspace, writer, open, caller, call>>
  BY ReadsAnswer
<1>2. \E r \in Results : Send(t, r)
  <2>1. call[t] \in StoreCalls /\ Stored(t) \in Policies
    BY <1>1, CallFacts
  <2>2. ReadAnswer(call[t], Stored(t)) \in Results
    BY <1>1, <2>1, ReadAnswerType, ResultTypes
  <2>3. QED
    BY <2>2, ReadsAnswer, ResultTypes
<1>3. PICK r \in Results : Send(t, r)
  BY <1>2
<1>4. /\ batch' = [batch EXCEPT ![t] = "ended"] /\ batch'[t] = "ended"
      /\ result' \in [Slots -> Results] /\ \A u \in Slots \ {t} : result'[u] = result[u]
  BY <1>3, SendTypes
<1>5. TypeOK'
  BY <1>1, <1>4 DEF IInv, TypeOK
<1>6. StepOf(t)
  BY <1>1, <1>4 DEF StepOf, IInv, TypeOK
<1>7. CallStands(t)'
  BY <1>1, <1>4 DEF IInv, CallStands, Statements
<1>8. OpenStands(t)'
  BY <1>4 DEF OpenStands
<1>9. workspace' = NoRow /\ PoliciesSound'
  BY <1>1 DEF IInv, PoliciesSound
<1>10. QED
  BY <1>5, <1>6, <1>7, <1>8, <1>9, StepKeepsIInv

-----------------------------------------------------------------------------
(* The start and the end of batches and calls.                             *)

LEMMA BeginKeepsIInv ==
  ASSUME IInv, NEW t \in Slots, NEW c \in Calls, NEW k \in {"sent", "failed"},
         caller[t] = "idle",
         caller' = [caller EXCEPT ![t] = "waiting"], call' = [call EXCEPT ![t] = c], GoTo(t, k),
         UNCHANGED <<db, workspace, writer, open, result>>
  PROVE  IInv'
<1>1. TypeOK'
  BY DEF IInv, TypeOK, GoTo
<1>2. batch'[t] = k /\ caller'[t] = "waiting" /\ call'[t] = c
  BY DEF IInv, TypeOK, GoTo
<1>3. writer # t
  BY DEF IInv, CallStands, Statements
<1>4. StepOf(t)
  BY DEF StepOf, GoTo, IInv, TypeOK
<1>5. CallStands(t)' /\ OpenStands(t)'
  BY <1>2, <1>3 DEF CallStands, OpenStands, Statements
<1>6. workspace' = NoRow /\ PoliciesSound'
  BY DEF IInv, PoliciesSound
<1>7. QED
  BY <1>1, <1>4, <1>5, <1>6, StepKeepsIInv

LEMMA ClearKeepsIInv ==
  ASSUME IInv, NEW t \in Slots, Clear(t)
  PROVE  IInv'
<1>1. /\ batch[t] = "sent" /\ call[t].op \notin ReadOps /\ writer = NoSlot /\ writer' = t
      /\ GoTo(t, "load") /\ UNCHANGED <<db, workspace, caller, call, result>>
      /\ open' = [policy |-> Stored(t), row |-> NoRow, receipt |-> NoRow]
  BY DEF Clear, Closed
<1>2. Stored(t) \in Policies /\ call[t] \in Calls
  BY <1>1, CallFacts
<1>3. TypeOK'
  BY <1>1, <1>2 DEF IInv, TypeOK, GoTo, Rows, Statements
<1>4. batch'[t] = "load" /\ Stored(t)' = Stored(t)
  BY <1>1 DEF IInv, TypeOK, GoTo, Stored
<1>5. StepOf(t)
  BY <1>1, SlotsAssumption DEF StepOf, GoTo, IInv, TypeOK
<1>6. CallStands(t)'
  BY <1>1, <1>4 DEF IInv, CallStands, Statements
<1>7. OpenStands(t)'
  BY <1>1, <1>4 DEF OpenStands
<1>8. workspace' = NoRow /\ PoliciesSound'
  BY <1>1 DEF IInv, PoliciesSound
<1>9. QED
  BY <1>3, <1>5, <1>6, <1>7, <1>8, StepKeepsIInv

\* What the batch of t is about to commit and to answer.
LEMMA Committing ==
  ASSUME IInv, NEW t \in Slots, Commit(t)
  PROVE  /\ batch[t] = "commit" /\ batch[t] \in Statements
         /\ Applies(Decided(t)) => Stored(t).revision < MaxRevision
         /\ db' = [db EXCEPT ![call[t].scope] = Bumped(t)] /\ workspace' = NoRow
         /\ writer' = NoSlot /\ open' = Closed /\ UNCHANGED <<caller, call>>
         /\ Send(t, Decoded(Receipt(t)))
         /\ Decoded(Receipt(t)) \in Results
<1>1. batch[t] = "commit" /\ batch[t] \in Statements
  BY DEF Commit, Statements
<1>2. /\ open = [policy |-> Bumped(t), row |-> NoRow, receipt |-> Receipt(t)]
      /\ Applies(Decided(t)) => Stored(t).revision < MaxRevision
  BY <1>1 DEF IInv, OpenStands
<1>3. open.policy = Bumped(t) /\ open.row = NoRow /\ open.receipt = Receipt(t)
  BY <1>2
<1>4. Decoded(Receipt(t)) \in Results
  <2>1. Receipt(t) \in Rows
    BY <1>1, <1>2, OpenTypes
  <2>2. Receipt(t).changed \in BOOLEAN /\ Receipt(t).revision \in 0..MaxRevision
    BY <2>1 DEF Receipt, Decided, Rows, NoRow
  <2>3. Mutation(Receipt(t).changed, Receipt(t).revision) \in Results
    BY <2>2, ResultTypes
  <2>4. QED
    BY <2>3, ResultTypes DEF Decoded
<1>5. QED
  BY <1>1, <1>2, <1>3, <1>4 DEF Commit

LEMMA CommitKeepsIInv ==
  ASSUME IInv, NEW t \in Slots, Commit(t)
  PROVE  IInv'
<1>1. /\ batch[t] = "commit" /\ batch[t] \in Statements
      /\ Applies(Decided(t)) => Stored(t).revision < MaxRevision
      /\ db' = [db EXCEPT ![call[t].scope] = Bumped(t)] /\ workspace' = NoRow
      /\ writer' = NoSlot /\ open' = Closed /\ UNCHANGED <<caller, call>>
  BY Committing
<1>2. /\ batch' = [batch EXCEPT ![t] = "ended"] /\ batch'[t] = "ended"
      /\ result' \in [Slots -> Results] /\ \A u \in Slots \ {t} : result'[u] = result[u]
  BY Committing, SendTypes
<1>3. writer = t /\ call[t].scope \in Scopes /\ batch[t] # "none" /\ call[t] \in Calls
  BY <1>1, BatchFacts, CallFacts
<1>4. Bumped(t) \in Policies /\ RowsBelong(Bumped(t)) /\ Administrable(Bumped(t))
  BY <1>1, OpenTypes
<1>5. TypeOK'
  BY <1>1, <1>2, <1>3, <1>4, InitialPolicies DEF IInv, TypeOK, Closed, Rows
<1>6. StepOf(t)
  BY <1>1, <1>2, <1>3 DEF StepOf, IInv, TypeOK
<1>7. PoliciesSound'
  BY <1>1, <1>3, <1>4 DEF IInv, TypeOK, PoliciesSound
<1>8. CallStands(t)'
  BY <1>1, <1>2, <1>3, SlotsAssumption DEF IInv, CallStands, Statements
<1>9. OpenStands(t)'
  BY <1>2 DEF OpenStands
<1>10. QED
  BY <1>1, <1>5, <1>6, <1>7, <1>8, <1>9, StepKeepsIInv

LEMMA AbortKeepsIInv ==
  ASSUME IInv, NEW t \in Slots, Abort(t)
  PROVE  IInv'
<1>1. CASE batch[t] \in Statements /\ Rollback(t)
  BY <1>1, RollbackKeepsIInv
<1>2. CASE /\ batch[t] = "sent" /\ GoTo(t, "failed")
           /\ UNCHANGED <<db, workspace, writer, open, caller, call, result>>
  <2>1. TypeOK'
    BY <1>2 DEF IInv, TypeOK, GoTo
  <2>2. batch'[t] = "failed" /\ StepOf(t)
    BY <1>2 DEF StepOf, GoTo, IInv, TypeOK
  <2>3. CallStands(t)' /\ OpenStands(t)'
    BY <1>2, <2>2 DEF IInv, CallStands, OpenStands, Statements
  <2>4. workspace' = NoRow /\ PoliciesSound'
    BY <1>2 DEF IInv, PoliciesSound
  <2>5. QED
    BY <2>1, <2>2, <2>3, <2>4, StepKeepsIInv
<1>3. QED
  BY <1>1, <1>2 DEF Abort

\* Telling the caller does not disturb the batch.
LEMMA TellKeepsIInv ==
  ASSUME IInv, NEW t \in Slots, caller[t] = "waiting", Tell(t),
         \/ UNCHANGED result /\ batch[t] = "ended"
         \/ result' = [result EXCEPT ![t] = Unavailable]
  PROVE  IInv'
<1>1. TypeOK'
  BY ResultTypes DEF IInv, TypeOK, Tell
<1>2. /\ caller'[t] = "answered"
      /\ batch[t] \notin {"ended", "failed"} => result'[t] = Unavailable
  BY DEF IInv, TypeOK, Tell
<1>3. StepOf(t)
  BY DEF StepOf, Tell, IInv, TypeOK
<1>4. CallStands(t)'
  BY <1>2 DEF IInv, CallStands, Tell
<1>5. OpenStands(t)'
  BY DEF IInv, OpenStands, Tell, Decided, Written, Bumped, Receipt, Stored
<1>6. workspace' = NoRow /\ PoliciesSound'
  BY DEF IInv, PoliciesSound, Tell
<1>7. QED
  BY <1>1, <1>3, <1>4, <1>5, <1>6, StepKeepsIInv

LEMMA ReleaseKeepsIInv ==
  ASSUME IInv, NEW t \in Slots, Release(t)
  PROVE  IInv'
<1>1. TypeOK'
  BY ResultTypes DEF IInv, TypeOK, Release, GoTo
<1>2. batch'[t] = "none" /\ caller'[t] = "idle" /\ writer # t /\ writer' = writer
  BY DEF IInv, TypeOK, CallStands, Release, GoTo, Statements
<1>3. StepOf(t)
  BY DEF StepOf, Release, GoTo, IInv, TypeOK
<1>4. CallStands(t)' /\ OpenStands(t)'
  BY <1>2 DEF CallStands, OpenStands, Statements
<1>5. workspace' = NoRow /\ PoliciesSound'
  BY DEF IInv, PoliciesSound, Release
<1>6. QED
  BY <1>1, <1>3, <1>4, <1>5, StepKeepsIInv

LEMMA MutateKeepsIInv ==
  ASSUME IInv, NEW t \in Slots, Mutate(t)
  PROVE  IInv'
BY ClearKeepsIInv, LoadKeepsIInv, DecideKeepsIInv, ApplyKeepsIInv, BumpKeepsIInv,
   ReportKeepsIInv, CleanKeepsIInv, CommitKeepsIInv DEF Mutate

\* The steps that tell a caller something.
LEMMA DeliverKeepsIInv ==
  ASSUME IInv, NEW t \in Slots, Deliver(t) \/ GiveUp(t)
  PROVE  IInv'
BY TellKeepsIInv DEF Deliver, GiveUp

LEMMA StutterKeepsIInv ==
  ASSUME IInv, UNCHANGED vars
  PROVE  IInv'
<1>1. TypeOK' /\ workspace' = NoRow /\ PoliciesSound'
  BY DEF vars, IInv, TypeOK, PoliciesSound
<1>2. \A t \in Slots : CallStands(t)'
  BY DEF vars, IInv, CallStands
<1>3. \A t \in Slots : OpenStands(t)'
  BY DEF vars, IInv, OpenStands, Decided, Written, Bumped, Receipt, Stored
<1>4. QED
  BY <1>1, <1>2, <1>3 DEF IInv

LEMMA NextIInv == IInv /\ [Next]_vars => IInv'
<1> SUFFICES ASSUME IInv, [Next]_vars PROVE IInv'
  OBVIOUS
<1>1. ASSUME NEW t \in Slots, Step(t) PROVE IInv'
  <2>1. CASE \E c \in Calls : Begin(t, c)
    BY <2>1, BeginKeepsIInv DEF Begin
  <2>2. CASE Reads(t)
    BY <2>2, ReadsKeepIInv
  <2>3. CASE Mutate(t)
    BY <2>3, MutateKeepsIInv
  <2>4. CASE Deliver(t) \/ GiveUp(t)
    BY <2>4, DeliverKeepsIInv
  <2>5. CASE Abort(t)
    BY <2>5, AbortKeepsIInv
  <2>6. CASE Release(t)
    BY <2>6, ReleaseKeepsIInv
  <2>7. QED
    BY <1>1, <2>1, <2>2, <2>3, <2>4, <2>5, <2>6 DEF Step, Work, Reads
<1>2. CASE Next
  BY <1>1, <1>2 DEF Next
<1>3. QED
  BY <1>2, StutterKeepsIInv

-----------------------------------------------------------------------------
(* The invariants of the store.                                            *)

\* Every behaviour of the batches keeps the inductive invariant.
THEOREM SpecIInv == Spec => []IInv
BY InitIInv, NextIInv, PTL DEF Spec

\* Every variable of the D1 store keeps its type, and no revision leaves its range.
THEOREM D1Types == Spec => []TypeOK
<1>1. IInv => TypeOK
  BY DEF IInv
<1>2. QED
  BY <1>1, SpecIInv, PTL

\* The running batch has the row of its request.
LEMMA AloneInIInv == IInv => BatchesAreAlone
<1> SUFFICES ASSUME IInv, NEW t \in Slots, batch[t] \in Statements
             PROVE  /\ writer = t
                    /\ batch[t] \in {"apply", "bump", "report", "clean"} =>
                         /\ open.row.request = call[t]
                         /\ open.row.revision = Stored(t).revision
  BY DEF BatchesAreAlone, IInv, Statements
<1>1. writer = t
  BY DEF IInv, CallStands
<1>2. batch[t] \in {"apply", "bump", "report", "clean"} => open.row = Decided(t)
  BY DEF IInv, OpenStands
<1>3. QED
  BY <1>1, <1>2 DEF Decided

\* The workspace every batch shares (the access_control_operation table of
\* d1-plugin/src/storage.rs) never holds the request of another batch, and is empty
\* whenever a batch is over, committed, rolled back or never delivered.
THEOREM D1BatchesAreAlone == Spec => []BatchesAreAlone
BY AloneInIInv, SpecIInv, PTL

\* The receipt is computed from the decision that the tables follow.
LEMMA ReceiptsInIInv == IInv => ReceiptsAreTrue
<1> SUFFICES ASSUME IInv, NEW t \in Slots, batch[t] \in {"clean", "commit"}
             PROVE  /\ open.receipt.revision = open.policy.revision
                    /\ open.receipt.failure = "none" /\ open.receipt.changed <=>
                         open.policy # Stored(t)
  BY DEF ReceiptsAreTrue
<1>1. /\ batch[t] \in Statements
      /\ Applies(Decided(t)) => Stored(t).revision < MaxRevision
      /\ open.policy = Bumped(t) /\ open.receipt = Receipt(t)
  BY DEF IInv, OpenStands, Statements
<1>2. Receipt(t).failure = Decided(t).failure /\ Receipt(t).changed = Decided(t).changed
  BY DEF Receipt, Decided
<1>3. CASE Applies(Decided(t))
  <2>1. Changes(call[t], Stored(t))
    BY <1>1, <1>3, BatchFacts
  <2>2. call[t] \in StoreCalls /\ Stored(t) \in Policies
    BY <1>1, BatchFacts, CallFacts
  <2>3. Bumped(t).revision = Stored(t).revision + 1
    BY <1>3, <2>1, <2>2, AdvanceType DEF Bumped
  <2>4. Receipt(t).revision = Stored(t).revision + 1
    BY <1>3 DEF Receipt, Decided
  <2>5. Bumped(t) # Stored(t)
    BY <2>2, <2>3 DEF Policies
  <2>6. QED
    BY <1>1, <1>2, <1>3, <2>3, <2>4, <2>5 DEF Applies
<1>4. CASE ~ Applies(Decided(t))
  BY <1>1, <1>2, <1>4 DEF Applies, Bumped, Receipt, Decided
<1>5. QED
  BY <1>3, <1>4

\* The receipt a batch reports (MutationRow, d1-plugin/src/storage.rs) tells what its
\* tables hold: the revision it computed is the revision stored, and it reports a change
\* exactly if it commits one, whatever the request and the policy are.
THEOREM D1ReceiptsAreTrue == Spec => []ReceiptsAreTrue
BY ReceiptsInIInv, SpecIInv, PTL

\* Every committed policy is whole and has an administrator, whatever batches run, fail,
\* or commit after their caller is gone (d1-plugin/src/storage.rs).
THEOREM D1PoliciesSound == Spec => []PoliciesSound
<1>1. IInv => PoliciesSound
  BY DEF IInv
<1>2. QED
  BY <1>1, SpecIInv, PTL

-----------------------------------------------------------------------------
(* The store implements AccessStore.                                       *)

\* The instance says the same of calls and policies as Policy does.
LEMMA SameAuthority ==
  /\ \A p, s, q : Promise!Allowed(p, s, q) = Allowed(p, s, q)
  /\ \A p : Promise!Bootstrapped(p) <=> Bootstrapped(p)
  /\ \A p, r : Promise!Binders(p, r) = Binders(p, r)
  /\ \A c : Promise!Needed(c) = Needed(c)
  /\ \A c, p : Promise!Authorized(c, p) <=> Authorized(c, p)
BY DEF Promise!Allowed, Allowed, Promise!Bootstrapped, Bootstrapped, Promise!Binders, Binders,
       Promise!Needed, Needed, Promise!Authorized, Authorized

LEMMA SameRefusals ==
  /\ Promise!DomainFailures = DomainFailures /\ Promise!ReadOps = ReadOps
  /\ \A c, p, f : Promise!Refused(c, p, f) <=> Refused(c, p, f)
  /\ \A c, p : Promise!Accepted(c, p) <=> Accepted(c, p)
<1>1. /\ Promise!DomainFailures = DomainFailures /\ Promise!ReadOps = ReadOps
      /\ Promise!AdminOps = AdminOps /\ Promise!RoleOps = RoleOps
  BY DEF Promise!DomainFailures, DomainFailures, Promise!ReadOps, ReadOps,
         Promise!AdminOps, AdminOps, Promise!RoleOps, RoleOps
<1>2. \A c, p, f : Promise!Refused(c, p, f) <=> Refused(c, p, f)
  BY <1>1, SameAuthority DEF Promise!Refused, Refused
<1>3. QED
  BY <1>1, <1>2 DEF Promise!Accepted, Accepted

LEMMA SameEffects ==
  /\ \A c, p : Promise!Effect(c, p) = Effect(c, p)
  /\ \A c, p : Promise!Advance(c, p) = Advance(c, p)
  /\ \A c, p : Promise!Changes(c, p) <=> Changes(c, p)
<1>1. \A s : Promise!SeedPolicy(s) = SeedPolicy(s)
  BY DEF Promise!SeedPolicy, SeedPolicy
<1>2. \A p, r : Promise!WithoutRole(p, r) = WithoutRole(p, r)
  BY DEF Promise!WithoutRole, WithoutRole
<1>3. \A p, r, qs : Promise!WithGrants(p, r, qs) = WithGrants(p, r, qs)
  BY DEF Promise!WithGrants, WithGrants
<1>4. \A c, p : Promise!Effect(c, p) = Effect(c, p)
  BY <1>1, <1>2, <1>3, SameAuthority DEF Promise!Effect, Effect
<1>5. \A c, p : Promise!Advance(c, p) = Advance(c, p)
  BY <1>4 DEF Promise!Advance, Advance
<1>6. \A c, p : Promise!Changes(c, p) <=> Changes(c, p)
  BY <1>4, SameRefusals DEF Promise!Changes, Changes
<1>7. QED
  BY <1>4, <1>5, <1>6

LEMMA SameAnswers ==
  /\ \A c, p : c.op \in ReadOps => Promise!ReadAnswer(c, p) = ReadAnswer(c, p)
  /\ \A f : Promise!Failure(f) = Failure(f)
  /\ Promise!Unavailable = Unavailable /\ Promise!NoResult = NoResult
  /\ \A b, n : Promise!Mutation(b, n) = Mutation(b, n)
<1>1. \A p, r : Promise!RoleRow(p, r) = RoleRow(p, r)
  BY DEF Promise!RoleRow, RoleRow, Promise!Grants, Grants
<1>0. \A S : Promise!Cardinality(S) = Cardinality(S)
  BY DEF Promise!Cardinality, Cardinality, Promise!IsFiniteSet, IsFiniteSet
<1>2. \A n, R : Promise!Lowest(n, R) = Lowest(n, R)
  BY <1>0 DEF Promise!Lowest, Lowest
<1>3. \A c, p : Promise!Listed(c, p) = Listed(c, p)
  BY DEF Promise!Listed, Listed
<1>4. /\ \A b, n : Promise!Decision(b, n) = Decision(b, n)
      /\ \A r, n : Promise!DirectoryRole(r, n) = DirectoryRole(r, n)
      /\ \A r, n, m : Promise!DirectoryRolePage(r, n, m) = DirectoryRolePage(r, n, m)
  BY DEF Promise!Decision, Decision, Promise!DirectoryRole, DirectoryRole,
         Promise!DirectoryRolePage, DirectoryRolePage
<1>5. ASSUME NEW c, NEW p, c.op \in ReadOps PROVE Promise!ReadAnswer(c, p) = ReadAnswer(c, p)
  <2>1. CASE c.op = "check"
    <3>1. Promise!Allowed(p, c.subject, c.permission) = Allowed(p, c.subject, c.permission)
      BY SameAuthority
    <3>2. QED
      BY <1>4, <2>1, <3>1 DEF Promise!ReadAnswer, ReadAnswer
  <2>2. CASE c.op = "get"
    BY <1>1, <1>4, <2>2 DEF Promise!ReadAnswer, ReadAnswer
  <2>3. CASE c.op = "list"
    <3> DEFINE page == Lowest(c.limit, Listed(c, p))
    <3>1. Promise!Lowest(c.limit, Promise!Listed(c, p)) = page
      BY <1>2, <1>3
    <3>2. {Promise!RoleRow(p, r) : r \in page} = {RoleRow(p, r) : r \in page}
      BY <1>1
    <3>3. ReadAnswer(c, p) = DirectoryRolePage({RoleRow(p, r) : r \in page}, p.revision, page # Listed(c, p))
      BY <2>3 DEF ReadAnswer
    <3>4. Promise!ReadAnswer(c, p) =
            Promise!DirectoryRolePage({Promise!RoleRow(p, r) : r \in page}, p.revision, page # Listed(c, p))
      BY <1>3, <2>3, <3>1 DEF Promise!ReadAnswer
    <3> HIDE DEF page
    <3>5. QED
      BY <1>4, <3>2, <3>3, <3>4
  <2>4. QED
    BY <1>5, <2>1, <2>2, <2>3 DEF ReadOps
<1>6. QED
  BY <1>5 DEF Promise!Failure, Failure, Promise!Unavailable, Unavailable, Promise!NoResult,
              NoResult, Promise!Mutation, Mutation

\* The phase of AccessStore a call is in.
Phase(t) ==
  CASE caller[t] = "idle" -> "idle"
    [] caller[t] = "waiting" -> IF batch[t] = "ended" THEN "decided" ELSE "called"
    [] OTHER -> IF batch[t] \in {"ended", "failed"} THEN "decided" ELSE "doubt"

LEMMA PromiseInit == Init => Promise!Init
BY SameAnswers DEF Init, Promise!Init, NoPolicy, Promise!NoPolicy, NoCall, Promise!NoCall

\* Only the phase of t changes.
PhaseGoes(t, from, to) ==
  /\ Phase(t) = from /\ Phase(t)' = to
  /\ \A u \in Slots \ {t} : Phase(u)' = Phase(u)

LEMMA PromiseDecide ==
  ASSUME NEW t \in Slots, NEW from, NEW r, PhaseGoes(t, from, "decided"),
         result' = [result EXCEPT ![t] = r], UNCHANGED call
  PROVE  Promise!Decide(t, from, r)
BY DEF Promise!Decide, PhaseGoes, Phase

LEMMA PromiseStutter ==
  ASSUME UNCHANGED <<db, call, result>>, \A u \in Slots : Phase(u)' = Phase(u)
  PROVE  UNCHANGED Promise!vars
BY DEF Promise!vars, Phase

LEMMA PromiseStart ==
  ASSUME NEW t \in Slots, NEW c \in Calls, PhaseGoes(t, "idle", "called"),
         call' = [call EXCEPT ![t] = c], UNCHANGED <<db, result>>
  PROVE  Promise!Step(t)
<1>1. Promise!Start(t, c)
  BY DEF Promise!Start, PhaseGoes, Phase
<1>2. QED
  BY <1>1 DEF Promise!Step

LEMMA PromiseAnswer ==
  ASSUME NEW t \in Slots, PhaseGoes(t, "called", "decided"), call[t].op \in ReadOps,
         Accepted(call[t], Stored(t)), UNCHANGED <<db, call>>,
         result' = [result EXCEPT ![t] = ReadAnswer(call[t], Stored(t))]
  PROVE  Promise!Step(t)
<1>1. Promise!Decide(t, "called", Promise!ReadAnswer(call[t], db[call[t].scope]))
  <2>1. Promise!ReadAnswer(call[t], db[call[t].scope]) = ReadAnswer(call[t], Stored(t))
    BY SameAnswers DEF Stored
  <2>2. QED
    BY <2>1 DEF Promise!Decide, PhaseGoes, Phase
<1>2. Promise!Accepted(call[t], db[call[t].scope]) /\ call[t].op \in Promise!ReadOps
  BY SameRefusals DEF Stored
<1>3. Promise!Answer(t)
  BY <1>1, <1>2 DEF Promise!Answer, Promise!Decide
<1>4. QED
  BY <1>3 DEF Promise!Step

LEMMA PromiseRefuse ==
  ASSUME NEW t \in Slots, PhaseGoes(t, "called", "decided"), NEW f \in DomainFailures,
         Refused(call[t], Stored(t), f), UNCHANGED <<db, call>>,
         result' = [result EXCEPT ![t] = Failure(f)]
  PROVE  Promise!Step(t)
<1>1. Promise!Decide(t, "called", Promise!Failure(f))
  BY PromiseDecide, SameAnswers
<1>2. Promise!Refused(call[t], db[call[t].scope], f) /\ f \in Promise!DomainFailures
  BY SameRefusals DEF Stored
<1>3. Promise!Refuse(t)
  BY <1>1, <1>2 DEF Promise!Refuse, Promise!Decide
<1>4. QED
  BY <1>3 DEF Promise!Step

LEMMA PromiseKeep ==
  ASSUME NEW t \in Slots, PhaseGoes(t, "called", "decided"), call[t].op \notin ReadOps,
         Accepted(call[t], Stored(t)), Effect(call[t], Stored(t)) = Stored(t),
         UNCHANGED <<db, call>>,
         result' = [result EXCEPT ![t] = Mutation(FALSE, Stored(t).revision)]
  PROVE  Promise!Step(t)
<1>1. Promise!Decide(t, "called", Promise!Mutation(FALSE, db[call[t].scope].revision))
  <2>1. Promise!Mutation(FALSE, db[call[t].scope].revision) = Mutation(FALSE, Stored(t).revision)
    BY SameAnswers DEF Stored
  <2>2. QED
    BY <2>1 DEF Promise!Decide, PhaseGoes, Phase
<1>2. /\ Promise!Accepted(call[t], db[call[t].scope]) /\ call[t].op \notin Promise!ReadOps
      /\ Promise!Effect(call[t], db[call[t].scope]) = db[call[t].scope]
  BY SameRefusals, SameEffects DEF Stored
<1>3. Promise!Keep(t)
  BY <1>1, <1>2 DEF Promise!Keep, Promise!Decide
<1>4. QED
  BY <1>3 DEF Promise!Step

LEMMA PromiseChange ==
  ASSUME NEW t \in Slots, PhaseGoes(t, "called", "decided"), Changes(call[t], Stored(t)),
         db' = [db EXCEPT ![call[t].scope] = Advance(call[t], Stored(t))], UNCHANGED call,
         result' = [result EXCEPT ![t] = Mutation(TRUE, Stored(t).revision + 1)]
  PROVE  Promise!Step(t)
<1>1. Promise!Decide(t, "called", Promise!Mutation(TRUE, db[call[t].scope].revision + 1))
  <2>1. Promise!Mutation(TRUE, db[call[t].scope].revision + 1) = Mutation(TRUE, Stored(t).revision + 1)
    BY SameAnswers DEF Stored
  <2>2. QED
    BY <2>1 DEF Promise!Decide, PhaseGoes, Phase
<1>2. /\ Promise!Changes(call[t], db[call[t].scope])
      /\ db' = [db EXCEPT ![call[t].scope] = Promise!Advance(call[t], db[call[t].scope])]
  BY SameEffects DEF Stored
<1>3. Promise!Change(t)
  BY <1>1, <1>2 DEF Promise!Change, Promise!Decide
<1>4. QED
  BY <1>3 DEF Promise!Step

LEMMA PromiseLose ==
  ASSUME NEW t \in Slots, NEW from \in {"called", "decided", "doubt"},
         PhaseGoes(t, from, "decided"), UNCHANGED <<db, call>>,
         result' = [result EXCEPT ![t] = Unavailable]
  PROVE  Promise!Step(t)
<1>1. Promise!Decide(t, from, Promise!Unavailable)
  BY PromiseDecide, SameAnswers
<1>2. Promise!Lose(t)
  BY <1>1 DEF Promise!Lose
<1>3. QED
  BY <1>2 DEF Promise!Step

LEMMA PromiseDoubt ==
  ASSUME NEW t \in Slots, PhaseGoes(t, "called", "doubt"), UNCHANGED <<db, call>>,
         result' = [result EXCEPT ![t] = Unavailable]
  PROVE  Promise!Step(t)
<1>1. Promise!Doubt(t)
  BY SameAnswers DEF Promise!Doubt, PhaseGoes, Phase
<1>2. QED
  BY <1>1 DEF Promise!Step

LEMMA PromiseLateChange ==
  ASSUME NEW t \in Slots, PhaseGoes(t, "doubt", "decided"), Changes(call[t], Stored(t)),
         db' = [db EXCEPT ![call[t].scope] = Advance(call[t], Stored(t))], UNCHANGED call,
         result' = [result EXCEPT ![t] = Unavailable]
  PROVE  Promise!Step(t)
<1>1. Promise!Decide(t, "doubt", Promise!Unavailable)
  BY PromiseDecide, SameAnswers
<1>2. /\ Promise!Changes(call[t], db[call[t].scope])
      /\ db' = [db EXCEPT ![call[t].scope] = Promise!Advance(call[t], db[call[t].scope])]
  BY SameEffects DEF Stored
<1>3. Promise!LateChange(t)
  BY <1>1, <1>2 DEF Promise!LateChange, Promise!Decide
<1>4. QED
  BY <1>3 DEF Promise!Step

LEMMA PromiseReturn ==
  ASSUME NEW t \in Slots, PhaseGoes(t, "decided", "idle"), UNCHANGED db,
         call' = [call EXCEPT ![t] = NoCall], result' = [result EXCEPT ![t] = NoResult]
  PROVE  Promise!Step(t)
<1>1. Promise!Return(t)
  BY SameAnswers DEF Promise!Return, PhaseGoes, Phase, NoCall, Promise!NoCall
<1>2. QED
  BY <1>1 DEF Promise!Step

-----------------------------------------------------------------------------
(* Every step of the store is a step of AccessStore, or none.              *)

Promised(t) == Promise!Step(t) \/ UNCHANGED Promise!vars

\* The phases of the three kinds of callers.
LEMMA PhaseValues ==
  ASSUME NEW t \in Slots
  PROVE  /\ caller[t] = "idle" => Phase(t) = "idle"
         /\ caller[t] = "waiting" /\ batch[t] = "ended" => Phase(t) = "decided"
         /\ caller[t] = "waiting" /\ batch[t] # "ended" => Phase(t) = "called"
         /\ caller[t] = "answered" /\ batch[t] \in {"ended", "failed"} => Phase(t) = "decided"
         /\ caller[t] = "answered" /\ batch[t] \notin {"ended", "failed"} => Phase(t) = "doubt"
BY DEF Phase

LEMMA OtherPhases ==
  ASSUME NEW t \in Slots, NEW u \in Slots, batch'[u] = batch[u], caller'[u] = caller[u]
  PROVE  Phase(u)' = Phase(u)
BY DEF Phase

\* A caller is told nothing new: its result is Unavailable already.
LEMMA ToldUnavailable ==
  ASSUME IInv, NEW t \in Slots, caller[t] = "answered", batch[t] \notin {"ended", "failed"},
         UNCHANGED result
  PROVE  result' = [result EXCEPT ![t] = Unavailable]
BY DEF IInv, TypeOK, CallStands

LEMMA BeginPromised ==
  ASSUME IInv, NEW t \in Slots, NEW c \in Calls, NEW k \in {"sent", "failed"},
         caller[t] = "idle",
         caller' = [caller EXCEPT ![t] = "waiting"], call' = [call EXCEPT ![t] = c], GoTo(t, k),
         UNCHANGED <<db, workspace, writer, open, result>>
  PROVE  Promised(t)
<1>1. caller'[t] = "waiting" /\ batch'[t] = k
  BY DEF IInv, TypeOK, GoTo
<1>2. Phase(t) = "idle" /\ Phase(t)' = "called"
  BY <1>1 DEF Phase
<1>3. \A u \in Slots \ {t} : Phase(u)' = Phase(u)
  BY DEF IInv, TypeOK, GoTo, Phase
<1>4. QED
  BY <1>2, <1>3, PromiseStart DEF PhaseGoes, Promised

\* The statements in between are not seen from outside.
LEMMA StatementPromised ==
  ASSUME IInv, NEW t \in Slots, batch[t] \in Statements \cup {"sent"},
         NEW k \in Statements, GoTo(t, k), UNCHANGED <<db, caller, call, result>>
  PROVE  Promised(t)
<1>1. batch'[t] = k /\ k \notin {"ended", "failed"} /\ batch[t] \notin {"ended", "failed"}
  BY DEF IInv, TypeOK, GoTo, Statements
<1>2. Phase(t)' = Phase(t)
  BY <1>1 DEF Phase
<1>3. \A u \in Slots \ {t} : Phase(u)' = Phase(u)
  BY DEF IInv, TypeOK, GoTo, Phase
<1>4. QED
  BY <1>2, <1>3, PromiseStutter DEF Promised

\* A batch that fails had no effect, and its caller is told so or was told before.
LEMMA FailurePromised ==
  ASSUME IInv, NEW t \in Slots, batch[t] \in Statements \cup {"sent"},
         GoTo(t, "failed"), UNCHANGED <<db, caller, call, result>>
  PROVE  Promised(t)
<1>1. /\ batch'[t] = "failed" /\ caller'[t] = caller[t]
      /\ batch[t] \notin {"none", "ended", "failed"} /\ caller[t] \in {"waiting", "answered"}
  BY DEF IInv, TypeOK, GoTo, Statements, CallStands
<1>2. \A u \in Slots \ {t} : Phase(u)' = Phase(u)
  BY DEF IInv, TypeOK, GoTo, Phase
<1>3. CASE caller[t] = "waiting"
  <2>1. Phase(t)' = Phase(t)
    BY <1>1, <1>3 DEF Phase
  <2>2. QED
    BY <1>2, <2>1, PromiseStutter DEF Promised
<1>4. CASE caller[t] = "answered"
  <2>1. Phase(t) = "doubt" /\ Phase(t)' = "decided"
    BY <1>1, <1>4 DEF Phase
  <2>2. result' = [result EXCEPT ![t] = Unavailable]
    BY <1>1, <1>4, ToldUnavailable
  <2>3. QED
    BY <1>2, <2>1, <2>2, PromiseLose DEF PhaseGoes, Promised
<1>5. QED
  BY <1>1, <1>3, <1>4

\* What happens when a batch or a read ends, seen from a caller that waits and from one
\* that has gone.
LEMMA Ends ==
  ASSUME IInv, NEW t \in Slots, batch[t] \in Statements \cup {"sent"}, NEW r, Send(t, r),
         UNCHANGED caller
  PROVE  \/ PhaseGoes(t, "called", "decided") /\ result' = [result EXCEPT ![t] = r]
         \/ PhaseGoes(t, "doubt", "decided") /\ result' = [result EXCEPT ![t] = Unavailable]
<1>1. /\ batch'[t] = "ended" /\ caller'[t] = caller[t]
      /\ batch[t] \notin {"none", "ended", "failed"} /\ caller[t] \in {"waiting", "answered"}
  BY DEF IInv, TypeOK, Send, GoTo, Statements, CallStands
<1>2. \A u \in Slots \ {t} : Phase(u)' = Phase(u)
  BY DEF IInv, TypeOK, Send, GoTo, Phase
<1>3. CASE caller[t] = "waiting"
  BY <1>1, <1>2, <1>3 DEF Phase, PhaseGoes, Send
<1>4. CASE caller[t] = "answered"
  <2>1. Phase(t) = "doubt" /\ Phase(t)' = "decided"
    BY <1>1, <1>4 DEF Phase
  <2>2. result' = [result EXCEPT ![t] = Unavailable]
    BY <1>1, <1>4, ToldUnavailable DEF Send
  <2>3. QED
    BY <1>2, <2>1, <2>2 DEF PhaseGoes
<1>5. QED
  BY <1>1, <1>3, <1>4

LEMMA ReadsPromised ==
  ASSUME IInv, NEW t \in Slots, Reads(t)
  PROVE  Promised(t)
<1>1. batch[t] = "sent" /\ call[t].op \in ReadOps /\ UNCHANGED <<db, caller, call>>
  BY ReadsAnswer
<1>2. CASE Accepted(call[t], Stored(t)) /\ Send(t, ReadAnswer(call[t], Stored(t)))
  <2>1. \/ /\ PhaseGoes(t, "called", "decided")
           /\ result' = [result EXCEPT ![t] = ReadAnswer(call[t], Stored(t))]
        \/ PhaseGoes(t, "doubt", "decided") /\ result' = [result EXCEPT ![t] = Unavailable]
    BY <1>1, <1>2, Ends
  <2>2. QED
    BY <1>1, <1>2, <2>1, PromiseAnswer, PromiseLose DEF Promised
<1>3. CASE \E f \in DomainFailures : Refused(call[t], Stored(t), f) /\ Send(t, Failure(f))
  <2>1. PICK f \in DomainFailures : Refused(call[t], Stored(t), f) /\ Send(t, Failure(f))
    BY <1>3
  <2>2. \/ PhaseGoes(t, "called", "decided") /\ result' = [result EXCEPT ![t] = Failure(f)]
        \/ PhaseGoes(t, "doubt", "decided") /\ result' = [result EXCEPT ![t] = Unavailable]
    BY <1>1, <2>1, Ends
  <2>3. QED
    BY <1>1, <2>1, <2>2, PromiseRefuse, PromiseLose DEF Promised
<1>4. QED
  BY <1>2, <1>3, ReadsAnswer

\* The commit is the instant at which a mutation takes effect.
LEMMA CommitPromised ==
  ASSUME IInv, NEW t \in Slots, Commit(t)
  PROVE  Promised(t)
<1> DEFINE c == call[t]
           p == Stored(t)
           f == Finding(c, p)
<1>1. /\ batch[t] \in Statements /\ UNCHANGED <<caller, call>>
      /\ Applies(Decided(t)) => p.revision < MaxRevision
      /\ db' = [db EXCEPT ![c.scope] = Bumped(t)]
      /\ Send(t, Decoded(Receipt(t)))
  BY Committing
<1>2. c \in StoreCalls /\ c.op \notin ReadOps /\ p \in Policies /\ c.scope \in Scopes
  BY <1>1, BatchFacts, CallFacts
<1>3. \/ PhaseGoes(t, "called", "decided") /\ result' = [result EXCEPT ![t] = Decoded(Receipt(t))]
      \/ PhaseGoes(t, "doubt", "decided") /\ result' = [result EXCEPT ![t] = Unavailable]
  BY <1>1, Ends
<1>4. /\ Decided(t).failure = f /\ Decided(t).changed = Effective(c, p)
      /\ Receipt(t).failure = f /\ Receipt(t).changed = Effective(c, p)
      /\ Receipt(t).revision = IF Applies(Decided(t)) THEN p.revision + 1 ELSE p.revision
  BY DEF Receipt, Decided
<1>5. CASE Applies(Decided(t))
  <2>1. Changes(c, p) /\ db' = [db EXCEPT ![c.scope] = Advance(c, p)]
    BY <1>1, <1>5, BatchFacts DEF Bumped
  <2>2. Effective(c, p) = TRUE
    BY <1>4, <1>5, FindingType DEF Applies
  <2>3. Decoded(Receipt(t)) = Mutation(TRUE, p.revision + 1)
    BY <1>4, <1>5, <2>2 DEF Decoded, Applies
  <2>4. QED
    BY <1>1, <1>3, <2>1, <2>3, PromiseChange, PromiseLateChange DEF Promised
<1>6. CASE ~ Applies(Decided(t))
  <2>1. UNCHANGED db
    BY <1>1, <1>2, <1>6 DEF Bumped, Stored, IInv, TypeOK
  <2>2. CASE f = "none"
    <3>1. Effective(c, p) = FALSE
      BY <1>4, <1>6, <2>2, FindingType DEF Applies
    <3>2. Accepted(c, p) /\ Effect(c, p) = p
      BY <1>2, <2>2, <3>1, FindingNone
    <3>3. Decoded(Receipt(t)) = Mutation(FALSE, p.revision)
      BY <1>4, <1>6, <2>2, <3>1 DEF Decoded
    <3>4. QED
      BY <1>1, <1>2, <1>3, <2>1, <3>2, <3>3, PromiseKeep, PromiseLose DEF Promised
  <2>3. CASE f \in DomainFailures
    <3>1. Refused(c, p, f)
      BY <1>2, <2>3, FindingRefuses
    <3>2. Decoded(Receipt(t)) = Failure(f)
      BY <1>4, <2>3 DEF Decoded, DomainFailures
    <3>3. \/ PhaseGoes(t, "called", "decided") /\ result' = [result EXCEPT ![t] = Failure(f)]
          \/ PhaseGoes(t, "doubt", "decided") /\ result' = [result EXCEPT ![t] = Unavailable]
      BY <1>3, <3>2
    <3>4. PICK g \in DomainFailures : g = f
      BY <2>3
    <3> HIDE DEF f
    <3>5. QED
      BY <1>1, <2>1, <3>1, <3>3, <3>4, PromiseRefuse, PromiseLose DEF Promised
  <2>4. CASE f \notin DomainFailures \cup {"none"}
    <3>1. Decoded(Receipt(t)) = Unavailable
      BY <1>4, <2>4 DEF Decoded
    <3>2. QED
      BY <1>1, <1>3, <2>1, <3>1, PromiseLose DEF Promised
  <2>5. QED
    BY <2>2, <2>3, <2>4
<1>7. QED
  BY <1>5, <1>6

LEMMA RollbackPromised ==
  ASSUME IInv, NEW t \in Slots, batch[t] \in Statements, Rollback(t)
  PROVE  Promised(t)
BY FailurePromised DEF Rollback

LEMMA MutatePromised ==
  ASSUME IInv, NEW t \in Slots, Mutate(t)
  PROVE  Promised(t)
<1>1. CASE Commit(t)
  BY <1>1, CommitPromised
<1>2. CASE Bump(t) /\ Rollback(t)
  BY <1>2, RollbackPromised DEF Bump, Statements
<1>3. CASE ~ Commit(t) /\ ~ Rollback(t)
  <2>1. /\ batch[t] \in Statements \cup {"sent"} /\ UNCHANGED <<db, caller, call, result>>
        /\ \E k \in Statements : GoTo(t, k)
    BY <1>3 DEF Mutate, Clear, Load, Decide, Apply, Bump, Report, Clean, At, Statements
  <2>2. QED
    BY <2>1, StatementPromised
<1>4. CASE ~ Bump(t) /\ ~ Commit(t)
  <2>1. /\ batch[t] \in Statements \cup {"sent"} /\ UNCHANGED <<db, caller, call, result>>
        /\ \E k \in Statements : GoTo(t, k)
    BY <1>4 DEF Mutate, Clear, Load, Decide, Apply, Report, Clean, At, Statements
  <2>2. QED
    BY <2>1, StatementPromised
<1>5. QED
  BY <1>1, <1>2, <1>3, <1>4

LEMMA AbortPromised ==
  ASSUME IInv, NEW t \in Slots, Abort(t)
  PROVE  Promised(t)
BY RollbackPromised, FailurePromised DEF Abort

LEMMA DeliverPromised ==
  ASSUME IInv, NEW t \in Slots, Deliver(t) \/ GiveUp(t)
  PROVE  Promised(t)
<1>1. /\ caller[t] = "waiting" /\ caller'[t] = "answered" /\ batch'[t] = batch[t]
      /\ UNCHANGED <<db, call>>
  BY DEF Deliver, GiveUp, Tell, IInv, TypeOK
<1>2. \A u \in Slots \ {t} : Phase(u)' = Phase(u)
  BY DEF Deliver, GiveUp, Tell, IInv, TypeOK, Phase
<1>3. CASE Deliver(t) /\ batch[t] = "ended"
  <2>1. Phase(t)' = Phase(t) /\ UNCHANGED result
    BY <1>1, <1>3 DEF Phase, Deliver
  <2>2. QED
    BY <1>1, <1>2, <2>1, PromiseStutter DEF Promised
<1>4. CASE result' = [result EXCEPT ![t] = Unavailable]
  <2>1. CASE batch[t] = "ended"
    <3>1. Phase(t) = "decided" /\ Phase(t)' = "decided"
      BY <1>1, <2>1 DEF Phase
    <3>2. QED
      BY <1>1, <1>2, <1>4, <3>1, PromiseLose DEF Promised, PhaseGoes
  <2>2. CASE batch[t] = "failed"
    <3>1. Phase(t) = "called" /\ Phase(t)' = "decided"
      BY <1>1, <2>2 DEF Phase
    <3>2. QED
      BY <1>1, <1>2, <1>4, <3>1, PromiseLose DEF Promised, PhaseGoes
  <2>3. CASE batch[t] \notin {"ended", "failed"}
    <3>1. Phase(t) = "called" /\ Phase(t)' = "doubt"
      BY <1>1, <2>3 DEF Phase
    <3>2. QED
      BY <1>1, <1>2, <1>4, <3>1, PromiseDoubt DEF Promised, PhaseGoes
  <2>4. QED
    BY <2>1, <2>2, <2>3
<1>5. QED
  BY <1>3, <1>4 DEF Deliver, GiveUp

LEMMA ReleasePromised ==
  ASSUME IInv, NEW t \in Slots, Release(t)
  PROVE  Promised(t)
<1>1. caller'[t] = "idle" /\ caller[t] = "answered" /\ batch[t] \in {"ended", "failed"}
  BY DEF Release, IInv, TypeOK
<1>2. Phase(t) = "decided" /\ Phase(t)' = "idle"
  BY <1>1 DEF Phase
<1>3. \A u \in Slots \ {t} : Phase(u)' = Phase(u)
  BY DEF Release, IInv, TypeOK, GoTo, Phase
<1>4. QED
  BY <1>2, <1>3, PromiseReturn DEF PhaseGoes, Promised, Release

LEMMA StepPromised ==
  ASSUME IInv, NEW t \in Slots, Step(t)
  PROVE  Promised(t)
<1>1. CASE \E c \in Calls : Begin(t, c)
  BY <1>1, BeginPromised DEF Begin
<1>2. QED
  BY <1>1, ReadsPromised, MutatePromised, DeliverPromised, AbortPromised, ReleasePromised
     DEF Step, Work, Reads

\* The D1 store keeps the promise of the Store trait (core/src/storage.rs): though a
\* mutation is a batch of statements, and events end and answers are lost while it runs,
\* every call authorizes and takes effect at one instant, and is answered truthfully or
\* told that the store is unavailable.
THEOREM D1Implements == Spec => Implements
<1>1. IInv /\ [Next]_vars => [Promise!Next]_(Promise!vars)
  <2> SUFFICES ASSUME IInv, [Next]_vars PROVE Promise!Next \/ UNCHANGED Promise!vars
    OBVIOUS
  <2>1. CASE Next
    <3>1. PICK t \in Slots : Step(t)
      BY <2>1 DEF Next
    <3>2. Promised(t)
      BY <3>1, StepPromised
    <3>3. QED
      BY <3>2 DEF Promised, Promise!Next
  <2>2. CASE UNCHANGED vars
    <3>1. UNCHANGED <<db, call, result>> /\ \A u \in Slots : Phase(u)' = Phase(u)
      BY <2>2 DEF vars, Phase
    <3>2. QED
      BY <3>1, PromiseStutter
  <2>3. QED
    BY <2>1, <2>2
<1>2. QED
  BY <1>1, PromiseInit, SpecIInv, PTL DEF Spec, Implements, Promise!Spec

-----------------------------------------------------------------------------
(* Events.                                                                 *)

Stages == {"new", "verifying", "active", "stopped", "rejected"}

\* What an event has found out about its database by the stage it is in.
StageStands(e) ==
  /\ stage[e] \in {"verifying", "active", "stopped"} => binding[e] # "misnamed"
  /\ stage[e] \in {"active", "stopped"} => schema /\ binding[e] = "exact"

EventTypeOK ==
  /\ stage \in [Events -> Stages] /\ binding \in [Events -> Bindings]
  /\ closed \subseteq Events /\ schema \in BOOLEAN

\* A store that is shared by events, and what its events have verified.
EInv ==
  /\ IInv
  /\ EventTypeOK
  /\ \A e \in Events : StageStands(e)
  /\ OnlyVerifiedDatabasesAreUsed

\* A step of an event leaves the store alone.
LEMMA EventStepsStutter ==
  ASSUME Setup \/ \E e \in Events : EventStep(e)
  PROVE  UNCHANGED vars
BY DEF Setup, EventStep, Activate, Verify, Deactivate, Close, GoOn

\* A call of a slot is a step of the store, or a call that is turned away.
LEMMA SlotSteps ==
  ASSUME NEW t \in Slots, SlotStep(t)
  PROVE  /\ Step(t) \/ \E c \in Calls : TurnAway(t, c)
         /\ UNCHANGED eventVars
BY DEF SlotStep, Submit, TurnAway, RunBatch, Hear, Step, Work

LEMMA EventNextIInv ==
  ASSUME IInv, [EventNext]_<<vars, eventVars>>
  PROVE  IInv'
<1>1. CASE UNCHANGED vars
  BY <1>1, StutterKeepsIInv
<1>2. ASSUME NEW t \in Slots, SlotStep(t) PROVE IInv'
  <2>1. CASE Step(t)
    BY <2>1, NextIInv DEF Next
  <2>2. CASE \E c \in Calls : TurnAway(t, c)
    BY <2>2, BeginKeepsIInv DEF TurnAway
  <2>3. QED
    BY <1>2, <2>1, <2>2, SlotSteps
<1>3. QED
  BY <1>1, <1>2, EventStepsStutter DEF EventNext

LEMMA InitEInv == EventInit => EInv
<1> SUFFICES ASSUME EventInit PROVE EInv
  OBVIOUS
<1>1. IInv
  BY InitIInv DEF EventInit
<1>2. EventTypeOK /\ \A e \in Events : StageStands(e)
  BY DEF EventInit, EventTypeOK, StageStands, Stages
<1>3. OnlyVerifiedDatabasesAreUsed
  BY DEF EventInit, Init, OnlyVerifiedDatabasesAreUsed, InFlight, Statements
<1>4. QED
  BY <1>1, <1>2, <1>3 DEF EInv

\* A step of an event keeps what it has verified: it becomes active only by verifying.
LEMMA EventStepKeepsStages ==
  ASSUME EInv, NEW e \in Events, EventStep(e)
  PROVE  /\ EventTypeOK' /\ UNCHANGED <<binding, schema>>
         /\ \A f \in Events : StageStands(f)'
         /\ \A f \in Events : stage[f] \in {"active", "stopped"} => stage'[f] \in {"active", "stopped"}
<1>1. EventTypeOK
  BY DEF EInv
<1>2. CASE Close(e)
  BY <1>1, <1>2 DEF EInv, Close, EventTypeOK, StageStands
<1>3. CASE Activate(e)
  <2>1. /\ stage[e] = "new" /\ UNCHANGED <<closed, binding, schema>>
        /\ \/ stage' = [stage EXCEPT ![e] = "rejected"]
           \/ binding[e] # "misnamed" /\ stage' = [stage EXCEPT ![e] = "verifying"]
    BY <1>3 DEF Activate, GoOn
  <2>2. QED
    BY <1>1, <2>1 DEF EInv, EventTypeOK, StageStands, Stages
<1>4. CASE Verify(e)
  <2>1. /\ stage[e] = "verifying" /\ UNCHANGED <<closed, binding, schema>>
        /\ \/ stage' = [stage EXCEPT ![e] = "rejected"]
           \/ Verifies(e) /\ stage' = [stage EXCEPT ![e] = "active"]
    BY <1>4 DEF Verify, GoOn
  <2>2. QED
    BY <1>1, <2>1 DEF EInv, EventTypeOK, StageStands, Stages, Verifies
<1>5. CASE Deactivate(e)
  <2>1. /\ stage[e] = "active" /\ stage' = [stage EXCEPT ![e] = "stopped"]
        /\ UNCHANGED <<closed, binding, schema>>
    BY <1>5 DEF Deactivate, GoOn
  <2>2. QED
    BY <1>1, <2>1 DEF EInv, EventTypeOK, StageStands, Stages
<1>6. QED
  BY <1>2, <1>3, <1>4, <1>5 DEF EventStep

\* A batch is in flight because it was before, or because its event was let through.
LEMMA SlotStepInFlight ==
  ASSUME EInv, NEW t \in Slots, SlotStep(t)
  PROVE  /\ \A u \in Slots \ {t} : batch'[u] = batch[u]
         /\ InFlight(t)' => InFlight(t) \/ ReachesD1(EventOf[t])
<1>1. batch \in [Slots -> {"none", "sent", "ended", "failed"} \cup Statements]
  BY DEF EInv, IInv, TypeOK
<1>2. CASE \E c \in Calls : Submit(t, c) \/ TurnAway(t, c)
  BY <1>1, <1>2 DEF Submit, TurnAway, Begin, GoTo, InFlight, Statements
<1>3. CASE RunBatch(t)
  <2>1. InFlight(t) /\ \E k : GoTo(t, k)
    BY <1>3 DEF RunBatch, CheckPermission, GetRole, List, Reading, Send, Mutate, Clear, Load, Decide,
                Apply, Bump, Report, Clean, Commit, Rollback, At, InFlight, Statements
  <2>2. QED
    BY <1>1, <2>1 DEF GoTo
<1>4. CASE Hear(t) \/ GiveUp(t)
  BY <1>4 DEF Hear, Deliver, GiveUp, Tell, InFlight
<1>5. CASE Abort(t) \/ Release(t)
  BY <1>1, <1>5 DEF Abort, Rollback, Release, GoTo, InFlight, Statements
<1>6. QED
  BY <1>2, <1>3, <1>4, <1>5 DEF SlotStep

LEMMA NextEInv == EInv /\ [EventNext]_<<vars, eventVars>> => EInv'
<1> SUFFICES ASSUME EInv, [EventNext]_<<vars, eventVars>> PROVE EInv'
  OBVIOUS
<1>1. IInv'
  BY EventNextIInv DEF EInv
<1>2. ASSUME UNCHANGED vars, EventTypeOK', \A f \in Events : StageStands(f)',
             UNCHANGED binding, schema => schema',
             \A f \in Events : stage[f] \in {"active", "stopped"} => stage'[f] \in {"active", "stopped"}
      PROVE  EInv'
  <2>1. OnlyVerifiedDatabasesAreUsed'
    BY <1>2, EventAssumption DEF EInv, OnlyVerifiedDatabasesAreUsed, InFlight, vars
  <2>2. QED
    BY <1>1, <1>2, <2>1 DEF EInv
<1>3. CASE Setup
  BY <1>2, <1>3 DEF EInv, Setup, EventTypeOK, StageStands
<1>4. CASE \E e \in Events : EventStep(e)
  BY <1>2, <1>4, EventStepKeepsStages, EventStepsStutter
<1>5. ASSUME NEW t \in Slots, SlotStep(t) PROVE EInv'
  <2>1. UNCHANGED eventVars
    BY <1>5, SlotSteps
  <2>2. EventTypeOK' /\ \A f \in Events : StageStands(f)'
    BY <2>1 DEF EInv, EventTypeOK, StageStands, eventVars
  <2>3. ASSUME NEW u \in Slots, InFlight(u)'
        PROVE  (schema /\ binding[EventOf[u]] = "exact" /\ stage[EventOf[u]] \in {"active", "stopped"})'
    <3>1. EventOf[u] \in Events
      BY EventAssumption
    <3>2. CASE InFlight(u)
      BY <2>1, <3>2 DEF EInv, OnlyVerifiedDatabasesAreUsed, eventVars
    <3>3. CASE ReachesD1(EventOf[u])
      BY <2>1, <3>1, <3>3 DEF EInv, StageStands, ReachesD1, Prepared, eventVars
    <3>4. QED
      BY <1>5, <2>3, <3>2, <3>3, SlotStepInFlight DEF InFlight
  <2>4. QED
    BY <1>1, <2>2, <2>3 DEF EInv, OnlyVerifiedDatabasesAreUsed
<1>6. CASE UNCHANGED <<vars, eventVars>>
  BY <1>2, <1>6 DEF EInv, EventTypeOK, StageStands, eventVars
<1>7. QED
  BY <1>3, <1>4, <1>5, <1>6 DEF EventNext

\* Events keep their invariant, and with it that of the store they share.
THEOREM EventSpecEInv == EventSpec => []EInv
BY InitEInv, NextEInv, PTL DEF EventSpec

\* No batch reaches a database before its event has verified that it is the configured
\* one and that its schema is installed (d1-plugin/src/lib.rs, activate), however
\* many events the host opens and in whatever order bindings and calls arrive.
THEOREM D1OnlyVerifiedDatabasesAreUsed == EventSpec => []OnlyVerifiedDatabasesAreUsed
<1>1. EInv => OnlyVerifiedDatabasesAreUsed
  BY DEF EInv
<1>2. QED
  BY <1>1, EventSpecEInv, PTL

\* Events that open, close and stop at any time leave the promise of the Store trait
\* (core/src/storage.rs) as it is: a call that reaches no database is one that is lost.
THEOREM D1EventsImplement == EventSpec => Implements
<1>1. EInv /\ [EventNext]_<<vars, eventVars>> => [Promise!Next]_(Promise!vars)
  <2> SUFFICES ASSUME EInv, [EventNext]_<<vars, eventVars>>
               PROVE  Promise!Next \/ UNCHANGED Promise!vars
    OBVIOUS
  <2>1. IInv
    BY DEF EInv
  <2>2. CASE UNCHANGED vars
    <3>1. UNCHANGED <<db, call, result>> /\ \A u \in Slots : Phase(u)' = Phase(u)
      BY <2>2 DEF vars, Phase
    <3>2. QED
      BY <3>1, PromiseStutter
  <2>3. ASSUME NEW t \in Slots, SlotStep(t) PROVE Promised(t)
    <3>1. CASE Step(t)
      BY <2>1, <3>1, StepPromised
    <3>2. CASE \E c \in Calls : TurnAway(t, c)
      BY <2>1, <3>2, BeginPromised DEF TurnAway
    <3>3. QED
      BY <2>3, <3>1, <3>2, SlotSteps
  <2>4. QED
    BY <2>2, <2>3, EventStepsStutter DEF EventNext, Promised, Promise!Next
<1>2. EventInit => Promise!Init
  BY PromiseInit DEF EventInit
<1>3. QED
  BY <1>1, <1>2, EventSpecEInv, PTL DEF EventSpec, Implements, Promise!Spec

-----------------------------------------------------------------------------
(* What AccessStore promises of its answers and revisions, kept by the     *)
(* store, with the policies and phases that its batches stand for.         *)

\* The answer of a decided call is true of the stored policy, as far as it names its
\* revision: in particular no answer names a revision that is not reached yet.
AnswerIsTrue(t) == Phase(t) = "decided" => TrueOf(call[t], result[t], Stored(t))

AnswersAreTrueNow == \A t \in Slots : AnswerIsTrue(t)

\* What a step of AccessStore does to what it has of the store: it touches the call of t
\* alone, and if it writes, it advances the policy of the scope of that call.
LEMMA PromisedTouches ==
  ASSUME IInv, NEW t \in Slots, Promised(t)
  PROVE  /\ \A u \in Slots \ {t} :
              Phase(u)' = Phase(u) /\ call'[u] = call[u] /\ result'[u] = result[u]
         /\ db' = db \/ /\ batch[t] # "none" /\ Changes(call[t], Stored(t))
                        /\ db' = [db EXCEPT ![call[t].scope] = Advance(call[t], Stored(t))]
<1> DEFINE Phases == [u \in Slots |-> Phase(u)]
<1>1. call \in [Slots -> Calls \cup {NoCall}] /\ result \in [Slots -> Results]
  BY DEF IInv, TypeOK
<1>2. CASE UNCHANGED Promise!vars
  <2>1. Phases' = Phases /\ result' = result /\ call' = call /\ db' = db
    BY <1>2 DEF Promise!vars, Phase
  <2>2. QED
    BY <2>1
<1>3. CASE Promise!Step(t)
  <2>1. /\ \E to : Phases' = [Phases EXCEPT ![t] = to]
        /\ call' = call \/ \E c : call' = [call EXCEPT ![t] = c]
        /\ result' = result \/ \E r : result' = [result EXCEPT ![t] = r]
    BY <1>3 DEF Promise!Step, Promise!Start, Promise!Refuse, Promise!Answer, Promise!Keep,
                Promise!Change, Promise!Lose, Promise!Doubt, Promise!LateChange, Promise!Return,
                Promise!Decide, Phase
  <2>2. \A u \in Slots \ {t} :
          Phase(u)' = Phase(u) /\ call'[u] = call[u] /\ result'[u] = result[u]
    <3>1. \A u \in Slots \ {t} : call'[u] = call[u] /\ result'[u] = result[u]
      BY <1>1, <2>1
    <3>2. \A u \in Slots \ {t} : Phases'[u] = Phases[u]
      BY <2>1
    <3>3. QED
      BY <3>1, <3>2
  <2>3. CASE Promise!Change(t) \/ Promise!LateChange(t)
    <3>1. Phases[t] \in {"called", "doubt"}
      BY <2>3 DEF Promise!Change, Promise!LateChange, Promise!Decide, Phase
    <3>2. batch[t] # "none"
      BY <3>1 DEF Phase, IInv, CallStands
    <3>3. /\ Changes(call[t], Stored(t))
          /\ db' = [db EXCEPT ![call[t].scope] = Advance(call[t], Stored(t))]
      BY <2>3, SameEffects DEF Promise!Change, Promise!LateChange, Stored
    <3>4. QED
      BY <2>2, <3>2, <3>3
  <2>4. CASE ~ (Promise!Change(t) \/ Promise!LateChange(t))
    <3>1. db' = db
      BY <1>3, <2>4 DEF Promise!Step, Promise!Start, Promise!Refuse, Promise!Answer, Promise!Keep,
                        Promise!Lose, Promise!Doubt, Promise!Return
    <3>2. QED
      BY <2>2, <3>1
  <2>5. QED
    BY <2>3, <2>4
<1>4. QED
  BY <1>2, <1>3 DEF Promised

\* What others change makes no answer untrue.
LEMMA OthersStayTrue ==
  ASSUME IInv, AnswersAreTrueNow, NEW t \in Slots, Promised(t), NEW u \in Slots \ {t}
  PROVE  AnswerIsTrue(u)'
<1>1. Phase(u)' = Phase(u) /\ call'[u] = call[u] /\ result'[u] = result[u]
  BY PromisedTouches
<1>2. SUFFICES ASSUME Phase(u) = "decided"
               PROVE  TrueOf(call[u], result[u], db'[call[u].scope])
  BY <1>1 DEF AnswerIsTrue, Stored
<1>3. TrueOf(call[u], result[u], Stored(u))
  BY <1>2 DEF AnswersAreTrueNow, AnswerIsTrue
<1>4. call[u] \in StoreCalls /\ call[u].scope \in Scopes /\ Stored(u) \in Policies
  BY <1>2, CallFacts DEF Phase, IInv, CallStands
<1>5. CASE db'[call[u].scope] = db[call[u].scope]
  BY <1>3, <1>5 DEF Stored
<1>6. CASE db'[call[u].scope] # db[call[u].scope]
  <2>1. /\ batch[t] # "none" /\ Changes(call[t], Stored(t))
        /\ db' = [db EXCEPT ![call[t].scope] = Advance(call[t], Stored(t))]
    BY <1>6, PromisedTouches
  <2>2. call[t] \in StoreCalls /\ call[t].scope \in Scopes
    BY <2>1, CallFacts
  <2>3. Stored(t) = Stored(u) /\ db'[call[u].scope] = Advance(call[t], Stored(u))
    BY <1>4, <1>6, <2>1, <2>2 DEF IInv, TypeOK, Stored
  <2>4. QED
    BY <1>3, <1>4, <2>1, <2>2, <2>3, StaysTrue
<1>7. QED
  BY <1>5, <1>6

\* A call is answered with what is true when it takes effect.
LEMMA OwnAnswerIsTrue ==
  ASSUME IInv, IInv', AnswersAreTrueNow, NEW t \in Slots, Promised(t)
  PROVE  AnswerIsTrue(t)'
<1> DEFINE c == call[t]
           p == Stored(t)
           Phases == [u \in Slots |-> Phase(u)]
<1>1. SUFFICES ASSUME Phase(t)' = "decided"
               PROVE  TrueOf(call'[t], result'[t], Stored(t)')
  BY DEF AnswerIsTrue
<1>2. call'[t] \in StoreCalls /\ Stored(t)' \in Policies
  <2>1. batch'[t] # "none"
    BY <1>1 DEF Phase, IInv, CallStands
  <2>2. call'[t] \in Calls /\ db' \in [Scopes -> Policies]
    BY <2>1 DEF IInv, TypeOK, CallStands
  <2>3. QED
    BY <2>2, CallShape, SlotsAssumption DEF Stored
<1>3. Phase(t) \in {"called", "decided", "doubt"} =>
        c \in StoreCalls /\ c.scope \in Scopes /\ p \in Policies /\ RowsBelong(p)
  BY CallFacts DEF Phase, IInv, CallStands
<1>4. CASE UNCHANGED Promise!vars
  <2>1. Phases' = Phases /\ result' = result /\ call' = call /\ db' = db
    BY <1>4 DEF Promise!vars, Phase
  <2>2. Phase(t)' = Phase(t)
    BY <2>1
  <2>3. QED
    BY <1>1, <2>1, <2>2 DEF AnswersAreTrueNow, AnswerIsTrue, Stored
<1>5. ASSUME NEW from, NEW r, Promise!Decide(t, from, r)
      PROVE  Phase(t) = from /\ result'[t] = r /\ call' = call
  <2>1. Phases[t] = from /\ result' = [result EXCEPT ![t] = r] /\ call' = call
    BY <1>5 DEF Promise!Decide, Phase
  <2>2. QED
    BY <2>1 DEF IInv, TypeOK
<1>6. ASSUME NEW d \in Calls, Promise!Start(t, d) PROVE FALSE
  <2>1. Phases' = [Phases EXCEPT ![t] = "called"]
    BY <1>6 DEF Promise!Start, Phase
  <2>2. QED
    BY <1>1, <2>1
<1>7. CASE Promise!Refuse(t)
  <2>1. PICK f \in DomainFailures : Promise!Decide(t, "called", Failure(f))
    BY <1>7, SameRefusals, SameAnswers DEF Promise!Refuse
  <2>2. Phase(t) = "called" /\ result'[t] = Failure(f) /\ call' = call
    BY <1>5, <2>1
  <2>3. QED
    BY <1>2, <1>3, <2>2, AnswersAreTrue
<1>8. CASE Promise!Answer(t)
  <2>1. /\ c.op \in ReadOps /\ db' = db
        /\ Phases[t] = "called" /\ call' = call /\ result' = [result EXCEPT ![t] = ReadAnswer(c, p)]
    BY <1>8, SameRefusals, SameAnswers DEF Promise!Answer, Promise!Decide, Stored, Phase
  <2>2. Phase(t) = "called" /\ result'[t] = ReadAnswer(c, p) /\ call' = call
    BY <2>1 DEF IInv, TypeOK
  <2>3. QED
    BY <1>3, <2>1, <2>2, AnswersAreTrue DEF Stored
<1>9. CASE Promise!Keep(t)
  <2>1. /\ c.op \notin ReadOps /\ db' = db /\ Effect(c, p) = p
        /\ Phases[t] = "called" /\ call' = call
        /\ result' = [result EXCEPT ![t] = Mutation(FALSE, p.revision)]
    BY <1>9, SameRefusals, SameAnswers, SameEffects DEF Promise!Keep, Promise!Decide, Stored, Phase
  <2>2. Phase(t) = "called" /\ result'[t] = Mutation(FALSE, p.revision) /\ call' = call
    BY <2>1 DEF IInv, TypeOK
  <2>3. QED
    BY <1>3, <2>1, <2>2, AnswersAreTrue DEF Stored
<1>10. CASE Promise!Change(t)
  <2>1. /\ Changes(c, p) /\ db' = [db EXCEPT ![c.scope] = Advance(c, p)]
        /\ Phases[t] = "called" /\ call' = call
        /\ result' = [result EXCEPT ![t] = Mutation(TRUE, p.revision + 1)]
    BY <1>10, SameAnswers, SameEffects DEF Promise!Change, Promise!Decide, Stored, Phase
  <2>2. Phase(t) = "called" /\ result'[t] = Mutation(TRUE, p.revision + 1) /\ call' = call
    BY <2>1 DEF IInv, TypeOK
  <2>3. Stored(t)' = Advance(c, p)
    BY <1>3, <2>1, <2>2 DEF Stored, IInv, TypeOK
  <2>4. QED
    BY <1>3, <2>1, <2>2, <2>3, AnswersAreTrue
<1>11. CASE Promise!Lose(t) \/ Promise!LateChange(t)
  <2>1. PICK from \in {"called", "decided", "doubt"} : Promise!Decide(t, from, Unavailable)
    BY <1>11, SameAnswers DEF Promise!Lose, Promise!LateChange
  <2>2. Phase(t) = from /\ result'[t] = Unavailable /\ call' = call
    BY <1>5, <2>1
  <2>3. QED
    BY <1>2, <1>3, <2>2, AnswersAreTrue
<1>12. CASE Promise!Doubt(t) \/ Promise!Return(t)
  <2>1. Phases' = [Phases EXCEPT ![t] = "doubt"] \/ Phases' = [Phases EXCEPT ![t] = "idle"]
    BY <1>12 DEF Promise!Doubt, Promise!Return, Phase
  <2>2. QED
    BY <1>1, <2>1
<1>13. QED
  BY <1>4, <1>6, <1>7, <1>8, <1>9, <1>10, <1>11, <1>12 DEF Promise!Step, Promised

\* The steps of the store and of its events, as AccessStore sees them.
LEMMA EventsPromised ==
  ASSUME IInv, [EventNext]_<<vars, eventVars>>
  PROVE  UNCHANGED Promise!vars \/ \E t \in Slots : Promised(t)
<1>1. CASE UNCHANGED vars
  <2>1. UNCHANGED <<db, call, result>> /\ \A u \in Slots : Phase(u)' = Phase(u)
    BY <1>1 DEF vars, Phase
  <2>2. QED
    BY <2>1, PromiseStutter
<1>2. ASSUME NEW t \in Slots, SlotStep(t) PROVE Promised(t)
  <2>1. CASE Step(t)
    BY <2>1, StepPromised
  <2>2. CASE \E c \in Calls : TurnAway(t, c)
    BY <2>2, BeginPromised DEF TurnAway
  <2>3. QED
    BY <1>2, <2>1, <2>2, SlotSteps
<1>3. QED
  BY <1>1, <1>2, EventStepsStutter DEF EventNext

LEMMA NextPromised ==
  ASSUME IInv, [Next]_vars
  PROVE  UNCHANGED Promise!vars \/ \E t \in Slots : Promised(t)
<1>1. CASE UNCHANGED vars
  <2>1. UNCHANGED <<db, call, result>> /\ \A u \in Slots : Phase(u)' = Phase(u)
    BY <1>1 DEF vars, Phase
  <2>2. QED
    BY <2>1, PromiseStutter
<1>2. QED
  BY <1>1, StepPromised DEF Next

LEMMA KeepAnswersTrue ==
  ASSUME IInv, IInv', AnswersAreTrueNow,
         UNCHANGED Promise!vars \/ \E t \in Slots : Promised(t)
  PROVE  AnswersAreTrueNow'
<1>1. CASE UNCHANGED Promise!vars
  <2>1. \A t \in Slots : Promised(t)
    BY <1>1 DEF Promised
  <2>2. QED
    BY <2>1, OwnAnswerIsTrue DEF AnswersAreTrueNow
<1>2. CASE \E t \in Slots : Promised(t)
  BY <1>2, OthersStayTrue, OwnAnswerIsTrue DEF AnswersAreTrueNow
<1>3. QED
  BY <1>1, <1>2

LEMMA InitAnswersTrue == Init => AnswersAreTrueNow
BY DEF Init, AnswersAreTrueNow, AnswerIsTrue, Phase

\* What AnswerIsTrue says in the words of AccessStore.
LEMMA TrueAnswersHold == AnswersAreTrueNow => Promise!AnswersHoldAtTheirRevision
<1> SUFFICES ASSUME AnswersAreTrueNow, NEW t \in Slots, Phase(t) = "decided"
             PROVE  Promise!HoldsAtItsRevision(call[t], result[t], Stored(t))
  BY DEF Promise!AnswersHoldAtTheirRevision, Stored, Phase
<1>1. TrueOf(call[t], result[t], Stored(t))
  BY DEF AnswersAreTrueNow, AnswerIsTrue
<1>2. Promise!Versioned = Versioned
  BY DEF Promise!Versioned, Versioned, Promise!RoleRows, RoleRows
<1>3. QED
  BY <1>1, <1>2, SameRefusals, SameAnswers, SameEffects DEF Promise!HoldsAtItsRevision, TrueOf

LEMMA PromisedCounts ==
  ASSUME IInv, UNCHANGED Promise!vars \/ \E t \in Slots : Promised(t)
  PROVE  [\A s \in Scopes : Promise!Counted(db[s], db'[s])]_(Promise!vars)
<1>1. SUFFICES ASSUME NEW s \in Scopes, db'[s] # db[s]
               PROVE  Promise!Counted(db[s], db'[s])
  BY DEF Promise!Counted
<1>2. PICK t \in Slots : Promised(t)
  BY <1>1 DEF Promise!vars
<1>3. /\ batch[t] # "none" /\ Changes(call[t], Stored(t))
      /\ db' = [db EXCEPT ![call[t].scope] = Advance(call[t], Stored(t))]
  BY <1>1, <1>2, PromisedTouches
<1>4. /\ call[t] \in StoreCalls /\ call[t].scope \in Scopes
      /\ Stored(t) \in Policies /\ RowsBelong(Stored(t))
  BY <1>3, CallFacts
<1>5. Stored(t) = db[s] /\ db'[s] = Advance(call[t], db[s])
  BY <1>1, <1>3, <1>4 DEF IInv, TypeOK, Stored
<1>6. QED
  BY <1>3, <1>4, <1>5, AdvanceCounts DEF Promise!Counted

\* A revision of the D1 store names one policy, batch by batch: as long as a scope is at
\* the revision a receipt or a read names, a read is still answered the same, and an
\* acknowledged mutation is in force.
THEOREM D1AnswersHold == Spec => []Promise!AnswersHoldAtTheirRevision
<1>1. IInv /\ AnswersAreTrueNow /\ [Next]_vars => (IInv /\ AnswersAreTrueNow)'
  BY NextIInv, NextPromised, KeepAnswersTrue
<1>2. QED
  BY <1>1, InitIInv, InitAnswersTrue, TrueAnswersHold, PTL DEF Spec

\* The same when events open and close around the calls and turn some of them away.
THEOREM D1EventAnswersHold == EventSpec => []Promise!AnswersHoldAtTheirRevision
<1>1. IInv /\ AnswersAreTrueNow /\ [EventNext]_<<vars, eventVars>> => (IInv /\ AnswersAreTrueNow)'
  BY EventNextIInv, EventsPromised, KeepAnswersTrue
<1>2. EventInit => IInv /\ AnswersAreTrueNow
  BY InitIInv, InitAnswersTrue DEF EventInit
<1>3. QED
  BY <1>1, <1>2, TrueAnswersHold, PTL DEF EventSpec

\* The policy_revision of the D1 store counts changes: no batch, also one nobody waits for
\* any more, changes rows without advancing it by one, or advances it without changing a
\* row, or changes the subject a scope was bootstrapped for; no event ever does.
THEOREM D1RevisionCounts == EventSpec => Promise!RevisionCountsChanges
<1>1. ASSUME IInv, [EventNext]_<<vars, eventVars>>
      PROVE  [\A s \in Scopes : Promise!Counted(db[s], db'[s])]_(Promise!vars)
  BY <1>1, EventsPromised, PromisedCounts
<1>2. EInv => IInv
  BY DEF EInv
<1>3. QED
  BY <1>1, <1>2, EventSpecEInv, PTL DEF EventSpec, Promise!RevisionCountsChanges

-----------------------------------------------------------------------------
(* Who changes a policy.                                                   *)

\* Only the commit of a batch writes the database.
LEMMA OnlyCommitsWrite ==
  ASSUME [Next]_vars, db' # db
  PROVE  \E t \in Slots : Commit(t)
<1>1. PICK t \in Slots : Step(t)
  BY DEF Next, vars
<1>2. CASE \E c \in Calls : Begin(t, c)
  BY <1>2 DEF Begin
<1>3. CASE Work(t)
  BY <1>3 DEF Work, CheckPermission, GetRole, List, Reading, Mutate, Clear, Load, Decide, Apply,
              Bump, Report, Clean, Rollback, At, Deliver, Tell
<1>4. CASE Abort(t) \/ GiveUp(t) \/ Release(t)
  BY <1>4 DEF Abort, Rollback, GiveUp, Tell, Release
<1>5. QED
  BY <1>1, <1>2, <1>3, <1>4 DEF Step

\* What events do to the store is a step of it, or a call turned away.
LEMMA EventsWriteAsTheStore ==
  ASSUME [EventNext]_<<vars, eventVars>>, db' # db
  PROVE  Next
<1>1. PICK t \in Slots : SlotStep(t)
  BY EventStepsStutter DEF EventNext, vars
<1>2. Step(t)
  BY <1>1, SlotSteps DEF TurnAway
<1>3. QED
  BY <1>2 DEF Next

\* What a batch commits was decided on the policy it replaces.
LEMMA CommitsAreEntitled ==
  ASSUME IInv, [Next]_vars, NEW s \in Scopes, db'[s] # db[s]
  PROVE  ChangedByAdministrator(s)
<1>1. PICK t \in Slots : Commit(t)
  BY OnlyCommitsWrite
<1> DEFINE c == call[t]
           p == Stored(t)
<1>2. /\ batch[t] = "commit" /\ batch[t] \in Statements
      /\ Applies(Decided(t)) => p.revision < MaxRevision
      /\ db' = [db EXCEPT ![c.scope] = Bumped(t)]
  BY <1>1, Committing
<1>3. c \in StoreCalls /\ c.scope \in Scopes /\ p \in Policies
  BY <1>2, CallFacts DEF Statements
<1>4. c.scope = s /\ p = db[s] /\ db'[s] = Bumped(t)
  BY <1>2, <1>3 DEF IInv, TypeOK, Stored
<1>5. Applies(Decided(t)) /\ db'[s] = Advance(c, p)
  BY <1>4 DEF Bumped
<1>6. c.op \notin ReadOps /\ Accepted(c, p) /\ Effect(c, p) # p
  BY <1>2, <1>5, BatchFacts
<1>7. CASE c.op = "bootstrap"
  <2>1. ~ Bootstrapped(p)
    BY <1>6, <1>7 DEF Effect
  <2>2. Advance(c, p).owner = c.subject
    BY <1>7, <2>1 DEF Advance, Effect, SeedPolicy
  <2>3. QED
    BY <1>2, <1>4, <1>5, <1>7, <2>1, <2>2 DEF ChangedByAdministrator
<1>8. CASE c.op # "bootstrap"
  <2>1. c.op \in AdminOps
    BY <1>3, <1>6, <1>8, CallShape
  <2>2. Bootstrapped(p)
    BY <1>3, <1>6, <2>1, AcceptedAdmin
  <2>3. Authorized(c, p)
    BY <1>6, <2>1, <2>2 DEF Accepted, Refused, DomainFailures
  <2>4. QED
    BY <1>2, <1>4, <1>8, <2>3 DEF ChangedByAdministrator, Authorized
<1>9. QED
  BY <1>7, <1>8

\* The batch decides and applies in one transaction (d1-plugin/src/storage.rs): a scope
\* changes only in the name of a subject who may change it at the commit, whatever other
\* batches took from the actor, or from the actor's role, while this one waited its turn.
THEOREM D1OnlyAdministratorsChange == Spec => OnlyAdministratorsChange
<1>1. IInv /\ [Next]_vars => [\A s \in Scopes : db'[s] # db[s] => ChangedByAdministrator(s)]_vars
  BY CommitsAreEntitled
<1>2. QED
  BY <1>1, SpecIInv, PTL DEF Spec, OnlyAdministratorsChange

\* The same with events (d1-plugin/src/workers.rs): also when the caller has given up, and
\* its event is closed, long before the batch has its turn.
THEOREM D1EventsOnlyAdministratorsChange == EventSpec => OnlyAdministratorsChange
<1>1. EInv /\ [EventNext]_<<vars, eventVars>> =>
        [\A s \in Scopes : db'[s] # db[s] => ChangedByAdministrator(s)]_vars
  <2> SUFFICES ASSUME EInv, [EventNext]_<<vars, eventVars>>, NEW s \in Scopes, db'[s] # db[s]
               PROVE  ChangedByAdministrator(s)
    OBVIOUS
  <2>1. [Next]_vars
    BY EventsWriteAsTheStore
  <2>2. QED
    BY <2>1, CommitsAreEntitled DEF EInv
<1>2. QED
  BY <1>1, EventSpecEInv, PTL DEF EventSpec, OnlyAdministratorsChange

\* The batches of open, closed and abandoned events alike find the workspace row to
\* themselves, leave a true receipt, and commit only policies that are whole and keep an
\* administrator.
THEOREM D1EventBatchesSound == EventSpec => [](BatchesAreAlone /\ ReceiptsAreTrue /\ PoliciesSound)
<1>1. EInv => BatchesAreAlone /\ ReceiptsAreTrue /\ PoliciesSound
  BY AloneInIInv, ReceiptsInIInv DEF EInv, IInv
<1>2. QED
  BY <1>1, EventSpecEInv, PTL
=============================================================================
