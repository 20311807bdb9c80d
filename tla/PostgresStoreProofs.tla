------------------------- MODULE PostgresStoreProofs -------------------------
(***************************************************************************)
(* Proofs about PostgresStore, for any number of transactions, scopes,     *)
(* subjects, roles and permissions.                                        *)
(***************************************************************************)
EXTENDS PostgresStore, PolicyLemmas

\* The operation a call at each statement has.
OperationFits(t) ==
  /\ call[t] \in Calls
  /\ pc[t] \in AdminSteps => call[t].op \in AdminOps
  /\ pc[t] = "create" => call[t].op = "create"
  /\ pc[t] = "protection" => call[t].op \in RoleOps
  /\ pc[t] = "compare" => call[t].op = "set"
  /\ pc[t] = "bind" => call[t].op = "assign"
  /\ pc[t] \in {"probe", "count"} => call[t].op = "revoke"
  /\ pc[t] \in BootstrapSteps => call[t].op = "bootstrap"
  /\ pc[t] \in {"bump", "publish", "doubt"} => call[t].op \notin ReadOps

\* What the statements that have run found, which decides whether the call may write.
FindingStands(t) ==
  LET c == call[t]
      p == Stored(t)
  IN  /\ pc[t] \in {"compare", "bind", "probe", "count"} => c.role \in p.roles
      /\ pc[t] = "compare" => c.role \notin p.protected
      /\ pc[t] = "count" => c.subject \in Binders(p, c.role) /\ c.role \in p.protected
      /\ pc[t] = "seed" => ~ Bootstrapped(p)
      /\ pc[t] = "verify" => p.owner = c.subject

Stands(t) == pc[t] # "idle" => OperationFits(t) /\ DecisionStands(t) /\ FindingStands(t)

IInv ==
  /\ TypeOK
  /\ PoliciesSound
  /\ \A t \in Slots : Stands(t)

-----------------------------------------------------------------------------
LEMMA InitIInv == Init => IInv
<1> SUFFICES ASSUME Init PROVE IInv
  OBVIOUS
<1>1. NoResult \in Results
  BY DEF Results
<1>2. TypeOK
  BY <1>1, InitialPolicies, PolicyAssumption DEF Init, TypeOK, Running
<1>3. RowsBelong(NoPolicy) /\ Administrable(NoPolicy)
  BY InitialPolicies DEF RowsBelong, Administrable, NoPolicy
<1>4. PoliciesSound /\ \A t \in Slots : Stands(t)
  BY <1>3 DEF Init, PoliciesSound, Stands
<1>5. QED
  BY <1>2, <1>4 DEF IInv

\* What one transaction does leaves the findings of the others as they are: it takes no
\* lock they hold, and changes no scope it has not locked itself.
LEMMA OthersStand ==
  ASSUME IInv, NEW t \in Slots, NEW u \in Slots, u # t,
         pc'[u] = pc[u], call'[u] = call[u], rev'[u] = rev[u],
         \A s \in Scopes : lock[s] = u => lock'[s] = u,
         \A s \in Scopes : db'[s] # db[s] => lock[s] = t
  PROVE  Stands(u)'
<1>1. SUFFICES ASSUME pc[u] # "idle" PROVE (OperationFits(u) /\ DecisionStands(u) /\ FindingStands(u))'
  BY DEF Stands
<1>2. OperationFits(u) /\ DecisionStands(u) /\ FindingStands(u)
  BY <1>1 DEF IInv, Stands
<1>3. OperationFits(u)'
  BY <1>2 DEF OperationFits
<1>4. call[u].scope \in Scopes
  BY <1>2, CallShape, SlotsAssumption DEF OperationFits
<1>5. CASE pc[u] \in Holding
  <2>1. lock[call[u].scope] = u
    BY <1>2, <1>5 DEF DecisionStands
  <2>2. db'[call[u].scope] = db[call[u].scope] /\ lock'[call[u].scope] = u
    BY <1>4, <2>1
  <2>3. DecisionStands(u)'
    BY <1>2, <2>2 DEF DecisionStands, Stored, Scope
  <2>4. FindingStands(u)'
    BY <1>2, <2>2 DEF FindingStands, Stored, Scope
  <2>5. QED
    BY <1>3, <2>3, <2>4
<1>6. CASE pc[u] \notin Holding
  BY <1>3, <1>6 DEF DecisionStands, FindingStands, Holding, AdminSteps
<1>7. QED
  BY <1>5, <1>6

\* A step of t that leaves the database alone keeps the invariant if it keeps the types
\* and what t itself found.
LEMMA LocalStep ==
  ASSUME IInv, NEW t \in Slots, TypeOK', Stands(t)', UNCHANGED db,
         \A u \in Slots : u # t => pc'[u] = pc[u] /\ call'[u] = call[u] /\ rev'[u] = rev[u],
         \A s \in Scopes, u \in Slots : u # t /\ lock[s] = u => lock'[s] = u
  PROVE  IInv'
<1>1. \A u \in Slots : Stands(u)'
  BY OthersStand
<1>2. PoliciesSound'
  BY DEF IInv, PoliciesSound
<1>3. QED
  BY <1>1, <1>2 DEF IInv

-----------------------------------------------------------------------------
(* Each action keeps the invariant.                                        *)

\* A call in flight names a scope, and what it reads there is a sound policy.
LEMMA InFlight ==
  ASSUME IInv, NEW t \in Slots, pc[t] # "idle"
  PROVE  /\ call[t] \in StoreCalls /\ Scope(t) \in Scopes
         /\ Stored(t) \in Policies /\ RowsBelong(Stored(t)) /\ Administrable(Stored(t))
         /\ Stored(t).revision \in 0..MaxRevision
         /\ OperationFits(t) /\ DecisionStands(t) /\ FindingStands(t)
<1>1. OperationFits(t) /\ DecisionStands(t) /\ FindingStands(t)
  BY DEF IInv, Stands
<1>2. call[t] \in StoreCalls /\ Scope(t) \in Scopes
  BY <1>1, CallShape, SlotsAssumption DEF OperationFits, Scope
<1>3. Stored(t) \in Policies /\ RowsBelong(Stored(t)) /\ Administrable(Stored(t))
  BY <1>2 DEF IInv, TypeOK, PoliciesSound, Stored
<1>4. Stored(t).revision \in 0..MaxRevision
  BY <1>3 DEF Policies
<1>5. QED
  BY <1>1, <1>2, <1>3, <1>4

LEMMA BeginKeepsIInv ==
  ASSUME IInv, NEW t \in Slots, NEW c \in Calls, Begin(t, c)
  PROVE  IInv'
<1>1. TypeOK'
  BY DEF IInv, TypeOK, Begin, GoTo, Running
<1>2. pc'[t] = "start" /\ call'[t] = c
  BY DEF IInv, TypeOK, Begin, GoTo
<1>3. Stands(t)'
  BY <1>2 DEF Stands, OperationFits, DecisionStands, FindingStands,
              Holding, AdminSteps, BootstrapSteps
<1>4. QED
  BY <1>1, <1>3, LocalStep DEF IInv, TypeOK, Begin, GoTo

LEMMA ReadKeepsIInv ==
  ASSUME IInv, NEW t \in Slots, Read(t)
  PROVE  IInv'
<1>1. pc[t] # "idle"
  BY DEF Read, CheckPermission, GetRole, ReadPageRevision, ReadPageRows, At
<1>2. Stored(t).revision \in 0..MaxRevision /\ Stored(t) \in Policies /\ call[t] \in StoreCalls
  BY <1>1, InFlight
<1>3. \E k \in {"done", "rows", "commit"} : pc' = [pc EXCEPT ![t] = k]
  BY DEF Read, CheckPermission, GetRole, ReadPageRevision, ReadPageRows, Reply, RefuseWith, GoTo
<1>4. \E r \in Results : result' = [result EXCEPT ![t] = r] \/ result' = result
  <2>1. CASE CheckPermission(t)
    <3>1. Decision(Allowed(Stored(t), call[t].subject, call[t].permission), Stored(t).revision) \in Results
      BY <1>2 DEF Decision, Results, Versioned, Allowed
    <3>2. QED
      BY <2>1, <3>1 DEF CheckPermission, Reply, SetResult
  <2>2. CASE GetRole(t)
    <3>1. Failure("ScopeNotBootstrapped") \in Results /\ Failure("RoleNotFound") \in Results
      BY ResultTypes DEF DomainFailures
    <3>2. DirectoryRole(RoleRow(Stored(t), call[t].role), Stored(t).revision) \in Results
      <4>1. call[t].role \in RoleIds
        BY <1>2, <2>2, CallShape DEF GetRole, At
      <4>2. RoleRow(Stored(t), call[t].role) \in RoleRows
        BY <4>1 DEF RoleRow, RoleRows, Grants
      <4>3. QED
        BY <1>2, <4>2 DEF DirectoryRole, Results, Versioned
    <3>3. QED
      BY <2>2, <3>1, <3>2 DEF GetRole, Reply, SetResult
  <2>3. CASE ReadPageRevision(t)
    <3>1. Failure("ScopeNotBootstrapped") \in Results
      BY ResultTypes DEF DomainFailures
    <3>2. QED
      BY <2>3, <3>1 DEF ReadPageRevision, RefuseWith, Reply, SetResult
  <2>4. CASE ReadPageRows(t)
    <3> DEFINE rows == Lowest(call[t].limit + 1, Listed(call[t], snap[t]))
               page == {RoleRow(snap[t], r) : r \in Lowest(call[t].limit, rows)}
               more == Cardinality(rows) > call[t].limit
    <3>1. page \subseteq RoleRows
      <4>1. Lowest(call[t].limit, rows) \subseteq RoleIds
        BY DEF IInv, TypeOK, Policies, Lowest, Listed
      <4>2. \A r \in RoleIds : RoleRow(snap[t], r) \in RoleRows
        BY DEF RoleRow, RoleRows, Grants
      <4>3. QED
        BY <4>1, <4>2
    <3>2. rev[t] \in 0..MaxRevision /\ more \in BOOLEAN
      BY DEF IInv, TypeOK
    <3>3. result' = [result EXCEPT ![t] = DirectoryRolePage(page, rev[t], more)]
      BY <2>4 DEF ReadPageRows, SetResult
    <3> HIDE DEF page, more
    <3>4. DirectoryRolePage(page, rev[t], more) \in Results
      BY <3>1, <3>2 DEF DirectoryRolePage, Results, Versioned
    <3>5. QED
      BY <3>3, <3>4
  <2>5. QED
    BY <2>1, <2>2, <2>3, <2>4 DEF Read
<1>5. /\ rev' = rev \/ rev' = [rev EXCEPT ![t] = Stored(t).revision]
      /\ snap' = snap \/ snap' = [snap EXCEPT ![t] = Stored(t)]
      /\ UNCHANGED <<db, lock, call>>
  BY DEF Read, CheckPermission, GetRole, ReadPageRevision, ReadPageRows, RefuseWith
<1>6. TypeOK'
  BY <1>2, <1>3, <1>4, <1>5 DEF IInv, TypeOK, Running
<1>7. Stands(t)'
  <2>1. OperationFits(t)
    BY <1>1, InFlight
  <2>2. pc'[t] \in {"done", "rows", "commit"} /\ call'[t] = call[t]
    BY <1>3, <1>5 DEF IInv, TypeOK
  <2>3. QED
    BY <2>1, <2>2 DEF Stands, OperationFits, DecisionStands, FindingStands,
                      Holding, AdminSteps, BootstrapSteps
<1>8. QED
  BY <1>3, <1>5, <1>6, <1>7, LocalStep DEF IInv, TypeOK

\* The shape of the steps of an administration or a bootstrap before its end: the
\* database and the call stay, the lock is taken or left, and only t moves.
Moves(t) ==
  /\ UNCHANGED <<db, call>>
  /\ UNCHANGED lock \/ TakeLock(t)
  /\ \E k \in Running \cup {"done"} : pc' = [pc EXCEPT ![t] = k]
  /\ UNCHANGED result \/ \E r \in Results : result' = [result EXCEPT ![t] = r]
  /\ UNCHANGED rev \/ \E n \in 0..MaxRevision : rev' = [rev EXCEPT ![t] = n]
  /\ UNCHANGED snap

LEMMA MovesKeepIInv ==
  ASSUME IInv, NEW t \in Slots, pc[t] # "idle", Moves(t),
         OperationFits(t)', DecisionStands(t)', FindingStands(t)'
  PROVE  IInv'
<1>1. Scope(t) \in Scopes
  BY InFlight
<1>2. TypeOK'
  BY <1>1, SlotsAssumption DEF IInv, TypeOK, Moves, TakeLock
<1>3. \A u \in Slots : u # t => pc'[u] = pc[u] /\ call'[u] = call[u] /\ rev'[u] = rev[u]
  BY DEF IInv, TypeOK, Moves
<1>4. \A s \in Scopes, u \in Slots : u # t /\ lock[s] = u => lock'[s] = u
  BY <1>1, SlotsAssumption DEF IInv, TypeOK, Moves, TakeLock, LockIsFree
<1>5. Stands(t)'
  BY DEF Stands
<1>6. UNCHANGED db
  BY DEF Moves
<1>7. QED
  BY <1>2, <1>3, <1>4, <1>5, <1>6, LocalStep

\* A refusal leaves nothing to stand.
LEMMA RefusalStands ==
  ASSUME IInv, NEW t \in Slots, pc[t] # "idle", pc' = [pc EXCEPT ![t] = "done"], UNCHANGED call
  PROVE  OperationFits(t)' /\ DecisionStands(t)' /\ FindingStands(t)'
<1>1. call[t] \in Calls
  BY InFlight DEF OperationFits
<1>2. pc'[t] = "done" /\ call'[t] = call[t]
  BY DEF IInv, TypeOK
<1>3. QED
  BY <1>1, <1>2 DEF OperationFits, DecisionStands, FindingStands, Holding, AdminSteps, BootstrapSteps

\* Nor does a transaction that commits without a change.
LEMMA UnchangedStands ==
  ASSUME IInv, NEW t \in Slots, pc[t] # "idle", pc' = [pc EXCEPT ![t] = "commit"], UNCHANGED call
  PROVE  OperationFits(t)' /\ DecisionStands(t)' /\ FindingStands(t)'
<1>1. call[t] \in Calls
  BY InFlight DEF OperationFits
<1>2. pc'[t] = "commit" /\ call'[t] = call[t]
  BY DEF IInv, TypeOK
<1>3. QED
  BY <1>1, <1>2 DEF OperationFits, DecisionStands, FindingStands, Holding, AdminSteps, BootstrapSteps

LEMMA FailuresAreResults ==
  /\ Failure("ScopeNotBootstrapped") \in Results /\ Failure("Forbidden") \in Results
  /\ Failure("ScopeAlreadyBootstrapped") \in Results /\ Failure("RoleAlreadyExists") \in Results
  /\ Failure("RoleNotFound") \in Results /\ Failure("ProtectedRole") \in Results
  /\ Failure("ProtectedBinding") \in Results
BY ResultTypes DEF DomainFailures

\* The lock once taken is held.
LEMMA TakenLockIsHeld ==
  ASSUME IInv, NEW t \in Slots, pc[t] # "idle", TakeLock(t), UNCHANGED call
  PROVE  lock'[call'[t].scope] = t
<1>1. Scope(t) \in Scopes
  BY InFlight
<1>2. QED
  BY <1>1 DEF IInv, TypeOK, TakeLock, Scope

LEMMA BootstrapKeepsIInv ==
  ASSUME IInv, NEW t \in Slots, BootstrapScope(t)
  PROVE  IInv'
<1>1. /\ pc[t] \in {"start", "existing", "verify", "seed"} /\ call[t].op = "bootstrap"
      /\ UNCHANGED <<db, call>>
  BY DEF BootstrapScope, InsertScope, ReadExistingBootstrap, VerifyBootstrapPolicy,
         SeedBootstrap, At
<1>2. /\ call[t] \in StoreCalls /\ Stored(t) \in Policies /\ Stored(t).revision \in 0..MaxRevision
      /\ call[t] \in Calls /\ DecisionStands(t) /\ FindingStands(t)
  BY <1>1, InFlight DEF OperationFits
<1>3. rev[t] \in 0..MaxRevision /\ call'[t] = call[t] /\ Stored(t)' = Stored(t)
  BY <1>1 DEF IInv, TypeOK, Stored, Scope
<1>4. "bootstrap" \notin ReadOps /\ "bootstrap" \notin AdminOps
  BY DEF ReadOps, AdminOps, RoleOps
<1>5. CASE InsertScope(t)
  <2>1. CASE Proceed(t, "existing") /\ UNCHANGED lock
    <3>1. Moves(t)
      BY <1>1, <2>1 DEF Moves, Proceed, GoTo, Running, BootstrapSteps, IInv, TypeOK
    <3>2. pc'[t] = "existing"
      BY <2>1 DEF Proceed, GoTo, IInv, TypeOK
    <3>3. OperationFits(t)' /\ DecisionStands(t)' /\ FindingStands(t)'
      BY <1>1, <1>2, <1>3, <3>2 DEF OperationFits, DecisionStands, FindingStands,
                                    Holding, AdminSteps, BootstrapSteps
    <3>4. QED
      BY <1>1, <3>1, <3>3, MovesKeepIInv
  <2>2. CASE ~ Bootstrapped(Stored(t)) /\ TakeLock(t) /\ Proceed(t, "seed")
    <3>1. Moves(t)
      BY <1>1, <2>2 DEF Moves, Proceed, GoTo, Running, BootstrapSteps, IInv, TypeOK
    <3>2. pc'[t] = "seed" /\ lock'[call'[t].scope] = t
      BY <1>1, <2>2, TakenLockIsHeld DEF Proceed, GoTo, IInv, TypeOK
    <3>3. OperationFits(t)' /\ DecisionStands(t)' /\ FindingStands(t)'
      BY <1>1, <1>2, <1>3, <2>2, <3>2 DEF OperationFits, DecisionStands, FindingStands,
                                    Holding, AdminSteps, BootstrapSteps
    <3>4. QED
      BY <1>1, <3>1, <3>3, MovesKeepIInv
  <2>3. QED
    BY <1>5, <2>1, <2>2 DEF InsertScope
<1>6. CASE ReadExistingBootstrap(t)
  <2>1. TakeLock(t)
    BY <1>6 DEF ReadExistingBootstrap
  <2>2. CASE RefuseWith(t, "ScopeAlreadyBootstrapped")
    <3>1. Moves(t)
      BY <1>1, <2>1, <2>2, FailuresAreResults DEF Moves, RefuseWith, Reply, SetResult, GoTo
    <3>2. QED
      BY <1>1, <2>2, <3>1, RefusalStands, MovesKeepIInv DEF RefuseWith, Reply, GoTo
  <2>3. CASE /\ Stored(t).owner = call[t].subject /\ GoTo(t, "verify")
             /\ rev' = [rev EXCEPT ![t] = Stored(t).revision] /\ UNCHANGED <<result, snap>>
    <3>1. Moves(t)
      BY <1>1, <1>2, <2>1, <2>3 DEF Moves, GoTo, Running, BootstrapSteps, IInv, TypeOK
    <3>2. /\ pc'[t] = "verify" /\ rev'[t] = Stored(t).revision
          /\ lock'[call'[t].scope] = t
      BY <1>1, <2>1, <2>3, TakenLockIsHeld DEF GoTo, IInv, TypeOK
    <3>3. Bootstrapped(Stored(t))
      BY <1>1, <1>2, <2>3, CallShape, PolicyAssumption DEF Bootstrapped
    <3>4. OperationFits(t)' /\ FindingStands(t)'
      BY <1>1, <1>2, <1>3, <2>3, <3>2 DEF OperationFits, FindingStands, AdminSteps, BootstrapSteps
    <3>5. DecisionStands(t)'
      <4>1. Bootstrapped(Stored(t)') /\ rev'[t] = Stored(t)'.revision
        BY <1>3, <3>2, <3>3
      <4>2. QED
        BY <1>3, <3>2, <4>1 DEF DecisionStands, AdminSteps
    <3>6. QED
      BY <1>1, <3>1, <3>4, <3>5, MovesKeepIInv
  <2>4. QED
    BY <1>6, <2>2, <2>3 DEF ReadExistingBootstrap
<1>7. CASE VerifyBootstrapPolicy(t)
  <2>1. Mutation(FALSE, rev[t]) \in Results /\ Unavailable \in Results
    BY <1>3, ResultTypes
  <2>2. \/ pc' = [pc EXCEPT ![t] = "commit"] /\ result' = [result EXCEPT ![t] = Mutation(FALSE, rev[t])]
        \/ pc' = [pc EXCEPT ![t] = "done"] /\ result' = [result EXCEPT ![t] = Unavailable]
    BY <1>7 DEF VerifyBootstrapPolicy, GoTo, SetResult, Reply
  <2>3. Moves(t)
    BY <1>1, <1>7, <2>1, <2>2 DEF VerifyBootstrapPolicy, Moves, Running, IInv, TypeOK
  <2>4. QED
    BY <1>1, <2>2, <2>3, RefusalStands, UnchangedStands, MovesKeepIInv
<1>8. CASE SeedBootstrap(t)
  <2>1. /\ pc[t] = "seed" /\ pc' = [pc EXCEPT ![t] = "bump"] /\ UNCHANGED <<lock, result, rev, snap>>
    BY <1>8 DEF SeedBootstrap, At, Proceed, GoTo
  <2>2. Moves(t)
    BY <1>1, <2>1 DEF Moves, Running, IInv, TypeOK
  <2>3. pc'[t] = "bump" /\ lock'[call'[t].scope] = t
    BY <1>2, <1>3, <2>1 DEF IInv, TypeOK, DecisionStands, Holding
  <2>4. Accepted(call[t], Stored(t)) /\ Effect(call[t], Stored(t)) # Stored(t)
    BY <1>1, <1>2, <2>1, EligibleBootstrap DEF FindingStands
  <2>5. OperationFits(t)' /\ DecisionStands(t)' /\ FindingStands(t)'
    BY <1>1, <1>2, <1>3, <1>4, <2>3, <2>4 DEF OperationFits, DecisionStands, FindingStands,
                                  Holding, AdminSteps, BootstrapSteps
  <2>6. QED
    BY <1>1, <2>2, <2>5, MovesKeepIInv
<1>9. QED
  BY <1>5, <1>6, <1>7, <1>8 DEF BootstrapScope

\* A refusal, with the lock as it is or just taken.
LEMMA RefuseKeepsIInv ==
  ASSUME IInv, NEW t \in Slots, pc[t] # "idle", NEW f \in DomainFailures, RefuseWith(t, f),
         UNCHANGED <<db, call>>, UNCHANGED lock \/ TakeLock(t)
  PROVE  IInv'
<1>1. Failure(f) \in Results
  BY ResultTypes
<1>2. Moves(t)
  BY <1>1 DEF Moves, RefuseWith, Reply, SetResult, GoTo
<1>3. QED
  BY <1>2, RefusalStands, MovesKeepIInv DEF RefuseWith, Reply, GoTo

\* An administration that finds nothing to change.
LEMMA UnchangedKeepsIInv ==
  ASSUME IInv, NEW t \in Slots, pc[t] # "idle", Unchanged(t), UNCHANGED <<db, lock, call>>
  PROVE  IInv'
<1>1. Mutation(FALSE, rev[t]) \in Results
  BY ResultTypes DEF IInv, TypeOK
<1>2. Moves(t)
  BY <1>1 DEF Moves, Unchanged, SetResult, GoTo, Running
<1>3. QED
  BY <1>2, UnchangedStands, MovesKeepIInv DEF Unchanged, GoTo

\* An administration that goes on to statement k has what k relies on.
LEMMA ProceedKeepsIInv ==
  ASSUME IInv, NEW t \in Slots, pc[t] \in AdminSteps,
         NEW k \in {"create", "protection", "compare", "bind", "probe", "count", "bump"},
         Proceed(t, k), UNCHANGED <<db, lock, call>>,
         Allowed(Stored(t), call[t].actor, Needed(call[t])),
         k = "create" => call[t].op = "create",
         k = "protection" => call[t].op \in RoleOps,
         k = "compare" => call[t].op = "set",
         k = "bind" => call[t].op = "assign",
         k \in {"probe", "count"} => call[t].op = "revoke",
         k \in {"compare", "bind", "probe", "count"} => call[t].role \in Stored(t).roles,
         k = "compare" => call[t].role \notin Stored(t).protected,
         k = "count" => /\ call[t].subject \in Binders(Stored(t), call[t].role)
                        /\ call[t].role \in Stored(t).protected,
         k = "bump" => /\ call[t].op \notin ReadOps
                       /\ Accepted(call[t], Stored(t)) /\ Effect(call[t], Stored(t)) # Stored(t)
  PROVE  IInv'
<1>1. pc[t] # "idle" /\ pc[t] \in Holding
  BY DEF AdminSteps, Holding
<1>2. OperationFits(t) /\ DecisionStands(t)
  BY <1>1, InFlight
<1>3. /\ pc'[t] = k /\ call'[t] = call[t] /\ Stored(t)' = Stored(t) /\ rev'[t] = rev[t]
      /\ lock' = lock
  BY DEF Proceed, GoTo, Stored, Scope, IInv, TypeOK
<1>4. /\ call[t].op \in AdminOps /\ lock[call[t].scope] = t
      /\ Bootstrapped(Stored(t)) /\ rev[t] = Stored(t).revision
  BY <1>1, <1>2 DEF OperationFits, DecisionStands
<1>5. Moves(t)
  BY DEF Moves, Proceed, GoTo, Running, AdminSteps
<1>6. OperationFits(t)'
  BY <1>2, <1>3, <1>4 DEF OperationFits, AdminSteps, BootstrapSteps
<1>7. DecisionStands(t)'
  BY <1>3, <1>4 DEF DecisionStands
<1>8. FindingStands(t)'
  BY <1>3 DEF FindingStands
<1>9. QED
  BY <1>1, <1>5, <1>6, <1>7, <1>8, MovesKeepIInv

LEMMA LockScopeKeepsIInv ==
  ASSUME IInv, NEW t \in Slots, LockScope(t), UNCHANGED <<db, call>>
  PROVE  IInv'
<1>1. pc[t] = "start" /\ call[t].op \in AdminOps
  BY DEF LockScope, At
<1>2. Stored(t).revision \in 0..MaxRevision /\ call[t] \in Calls
  BY <1>1, InFlight DEF OperationFits
<1>3. CASE RefuseWith(t, "ScopeNotBootstrapped") /\ UNCHANGED lock
  BY <1>1, <1>3, RefuseKeepsIInv DEF DomainFailures
<1>4. CASE /\ Bootstrapped(Stored(t)) /\ TakeLock(t) /\ GoTo(t, "authorize")
           /\ rev' = [rev EXCEPT ![t] = Stored(t).revision] /\ UNCHANGED <<result, snap>>
  <2>1. Moves(t)
    BY <1>2, <1>4 DEF Moves, GoTo, Running, AdminSteps
  <2>2. /\ pc'[t] = "authorize" /\ call'[t] = call[t] /\ lock'[call'[t].scope] = t
        /\ Stored(t)' = Stored(t) /\ rev'[t] = Stored(t).revision
    BY <1>1, <1>4, TakenLockIsHeld DEF GoTo, Stored, Scope, IInv, TypeOK
  <2>3. OperationFits(t)' /\ FindingStands(t)'
    BY <1>1, <1>2, <2>2 DEF OperationFits, FindingStands, AdminSteps, BootstrapSteps
  <2>4. DecisionStands(t)'
    <3>1. Bootstrapped(Stored(t)') /\ rev'[t] = Stored(t)'.revision
      BY <1>4, <2>2
    <3>2. QED
      BY <2>2, <3>1 DEF DecisionStands, AdminSteps
  <2>5. QED
    BY <1>1, <2>1, <2>3, <2>4, MovesKeepIInv
<1>5. QED
  BY <1>3, <1>4 DEF LockScope

\* At a statement past "authorize" the actor is authorized.
LEMMA PastAuthorize ==
  ASSUME IInv, NEW t \in Slots, pc[t] \in AdminSteps
  PROVE  /\ pc[t] # "idle" /\ call[t] \in StoreCalls /\ call[t].op \in AdminOps
         /\ Stored(t) \in Policies /\ Bootstrapped(Stored(t))
         /\ pc[t] # "authorize" => Allowed(Stored(t), call[t].actor, Needed(call[t]))
         /\ OperationFits(t) /\ FindingStands(t)
<1>1. pc[t] # "idle"
  BY DEF AdminSteps
<1>2. QED
  BY <1>1, InFlight DEF OperationFits, DecisionStands

LEMMA AdministerKeepsIInv ==
  ASSUME IInv, NEW t \in Slots, Administer(t)
  PROVE  IInv'
<1> DEFINE c == call[t]
           p == Stored(t)
<1>0. UNCHANGED <<db, call>>
  BY DEF Administer
<1>1. CASE LockScope(t)
  BY <1>0, <1>1, LockScopeKeepsIInv
<1>2. CASE Authorize(t)
  <2>1. pc[t] = "authorize" /\ UNCHANGED lock
    BY <1>2 DEF Authorize, At
  <2>2. pc[t] \in AdminSteps
    BY <2>1 DEF AdminSteps
  <2>3. CASE RefuseWith(t, "Forbidden")
    BY <1>0, <2>1, <2>3, RefuseKeepsIInv DEF DomainFailures
  <2>4. CASE /\ Allowed(p, c.actor, Needed(c))
             /\ Proceed(t, IF c.op = "create" THEN "create" ELSE "protection")
    <3>1. c.op # "create" => c.op \in RoleOps
      BY <2>2, PastAuthorize DEF AdminOps
    <3>2. CASE c.op = "create"
      BY <1>0, <2>1, <2>2, <2>4, <3>2, ProceedKeepsIInv
    <3>3. CASE c.op # "create"
      BY <1>0, <2>1, <2>2, <2>4, <3>1, <3>3, ProceedKeepsIInv
    <3>4. QED
      BY <3>2, <3>3
  <2>5. QED
    BY <1>2, <2>3, <2>4 DEF Authorize
<1>3. CASE CreateRole(t)
  <2>1. pc[t] = "create" /\ c.op = "create" /\ UNCHANGED lock /\ pc[t] \in AdminSteps
    BY <1>3 DEF CreateRole, At, AdminSteps
  <2>2. CASE RefuseWith(t, "RoleAlreadyExists")
    BY <1>0, <2>1, <2>2, RefuseKeepsIInv DEF DomainFailures
  <2>3. CASE c.role \notin p.roles /\ Proceed(t, "bump")
    <3>1. c.op \notin ReadOps /\ Accepted(c, p) /\ Effect(c, p) # p
      BY <2>1, <2>3, PastAuthorize, Eligible DEF RoleOps
    <3>2. QED
      BY <1>0, <2>1, <2>3, <3>1, PastAuthorize, ProceedKeepsIInv
  <2>4. QED
    BY <1>3, <2>2, <2>3 DEF CreateRole
<1>4. CASE ReadProtection(t)
  <2>1. pc[t] = "protection" /\ c.op \in RoleOps /\ UNCHANGED lock /\ pc[t] \in AdminSteps
    BY <1>4 DEF ReadProtection, At, AdminSteps
  <2>2. CASE RefuseWith(t, "RoleNotFound") \/ RefuseWith(t, "ProtectedRole")
    BY <1>0, <2>1, <2>2, RefuseKeepsIInv DEF DomainFailures
  <2>3. CASE /\ c.role \in p.roles /\ (c.op \in {"set", "delete"} => c.role \notin p.protected)
             /\ Proceed(t, AfterProtection[c.op])
    <3>1. CASE c.op = "delete"
      <4>1. c.op \notin ReadOps /\ Accepted(c, p) /\ Effect(c, p) # p
        BY <2>1, <2>3, <3>1, PastAuthorize, Eligible
      <4>2. AfterProtection[c.op] = "bump"
        BY <3>1 DEF AfterProtection
      <4>3. QED
        BY <1>0, <2>1, <2>3, <3>1, <4>1, <4>2, PastAuthorize, ProceedKeepsIInv
    <3>2. CASE c.op = "set"
      BY <1>0, <2>1, <2>3, <3>2, PastAuthorize, ProceedKeepsIInv DEF AfterProtection
    <3>3. CASE c.op = "assign"
      BY <1>0, <2>1, <2>3, <3>3, PastAuthorize, ProceedKeepsIInv DEF AfterProtection
    <3>4. CASE c.op = "revoke"
      BY <1>0, <2>1, <2>3, <3>4, PastAuthorize, ProceedKeepsIInv DEF AfterProtection
    <3>5. QED
      BY <2>1, <3>1, <3>2, <3>3, <3>4 DEF RoleOps
  <2>4. QED
    BY <1>4, <2>2, <2>3 DEF ReadProtection
<1>5. CASE SetRolePermissions(t)
  <2>1. pc[t] = "compare" /\ c.op = "set" /\ UNCHANGED lock /\ pc[t] \in AdminSteps
    BY <1>5 DEF SetRolePermissions, At, AdminSteps
  <2>2. CASE Unchanged(t)
    BY <1>0, <2>1, <2>2, UnchangedKeepsIInv
  <2>3. CASE Grants(p, c.role) # c.permissions /\ Proceed(t, "bump")
    <3>1. c.role \in p.roles /\ c.role \notin p.protected
      BY <2>1, PastAuthorize DEF FindingStands
    <3>2. c.op \notin ReadOps /\ Accepted(c, p) /\ Effect(c, p) # p
      BY <2>1, <2>3, <3>1, PastAuthorize, Eligible
    <3>3. QED
      BY <1>0, <2>1, <2>3, <3>2, PastAuthorize, ProceedKeepsIInv
  <2>4. QED
    BY <1>5, <2>2, <2>3 DEF SetRolePermissions
<1>6. CASE AssignRole(t)
  <2>1. pc[t] = "bind" /\ c.op = "assign" /\ UNCHANGED lock /\ pc[t] \in AdminSteps
    BY <1>6 DEF AssignRole, At, AdminSteps
  <2>2. CASE Unchanged(t)
    BY <1>0, <2>1, <2>2, UnchangedKeepsIInv
  <2>3. CASE c.subject \notin Binders(p, c.role) /\ Proceed(t, "bump")
    <3>1. c.role \in p.roles
      BY <2>1, PastAuthorize DEF FindingStands
    <3>2. c.op \notin ReadOps /\ Accepted(c, p) /\ Effect(c, p) # p
      BY <2>1, <2>3, <3>1, PastAuthorize, Eligible
    <3>3. QED
      BY <1>0, <2>1, <2>3, <3>2, PastAuthorize, ProceedKeepsIInv
  <2>4. QED
    BY <1>6, <2>2, <2>3 DEF AssignRole
<1>7. CASE ProbeBinding(t)
  <2>1. pc[t] = "probe" /\ c.op = "revoke" /\ UNCHANGED lock /\ pc[t] \in AdminSteps
    BY <1>7 DEF ProbeBinding, At, AdminSteps
  <2>2. c.role \in p.roles
    BY <2>1, PastAuthorize DEF FindingStands
  <2>3. CASE Unchanged(t)
    BY <1>0, <2>1, <2>3, UnchangedKeepsIInv
  <2>4. CASE c.subject \in Binders(p, c.role) /\ c.role \in p.protected /\ Proceed(t, "count")
    BY <1>0, <2>1, <2>2, <2>4, PastAuthorize, ProceedKeepsIInv
  <2>5. CASE c.subject \in Binders(p, c.role) /\ c.role \notin p.protected /\ Proceed(t, "bump")
    <3>1. c.op \notin ReadOps /\ Accepted(c, p) /\ Effect(c, p) # p
      BY <2>1, <2>2, <2>5, PastAuthorize, Eligible
    <3>2. QED
      BY <1>0, <2>1, <2>5, <3>1, PastAuthorize, ProceedKeepsIInv
  <2>6. QED
    BY <1>7, <2>3, <2>4, <2>5 DEF ProbeBinding
<1>8. CASE CountBindings(t)
  <2>1. pc[t] = "count" /\ c.op = "revoke" /\ UNCHANGED lock /\ pc[t] \in AdminSteps
    BY <1>8 DEF CountBindings, At, AdminSteps
  <2>2. CASE RefuseWith(t, "ProtectedBinding")
    BY <1>0, <2>1, <2>2, RefuseKeepsIInv DEF DomainFailures
  <2>3. CASE Cardinality(Binders(p, c.role)) > 1 /\ Proceed(t, "bump")
    <3>1. c.role \in p.roles /\ c.subject \in Binders(p, c.role)
      BY <2>1, PastAuthorize DEF FindingStands
    <3>2. Binders(p, c.role) # {c.subject}
      BY <2>1, <2>3, PastAuthorize, SeveralBinders
    <3>3. c.op \notin ReadOps /\ Accepted(c, p) /\ Effect(c, p) # p
      BY <2>1, <3>1, <3>2, PastAuthorize, Eligible
    <3>4. QED
      BY <1>0, <2>1, <2>3, <3>3, PastAuthorize, ProceedKeepsIInv
  <2>4. QED
    BY <1>8, <2>2, <2>3 DEF CountBindings
<1>9. QED
  BY <1>1, <1>2, <1>3, <1>4, <1>5, <1>6, <1>7, <1>8 DEF Administer

-----------------------------------------------------------------------------
(* The end of a transaction.                                               *)

LEMMA BumpRevisionKeepsIInv ==
  ASSUME IInv, NEW t \in Slots, BumpRevision(t)
  PROVE  IInv'
<1>1. pc[t] = "bump" /\ pc[t] # "idle" /\ TakeLock(t) /\ UNCHANGED <<db, call, snap>>
  BY DEF BumpRevision
<1>2. /\ Stored(t).revision \in 0..MaxRevision /\ call[t] \in Calls
      /\ call[t].op \notin ReadOps
      /\ Accepted(call[t], Stored(t)) /\ Effect(call[t], Stored(t)) # Stored(t)
  BY <1>1, InFlight DEF OperationFits, DecisionStands
<1>3. CASE Stored(t).revision < MaxRevision
  <2>1. /\ pc' = [pc EXCEPT ![t] = "publish"]
        /\ rev' = [rev EXCEPT ![t] = Stored(t).revision + 1] /\ UNCHANGED result
    BY <1>3 DEF BumpRevision, GoTo
  <2>2. Stored(t).revision + 1 \in 0..MaxRevision
    BY <1>2, <1>3, PolicyAssumption
  <2>3. Moves(t)
    BY <1>1, <2>1, <2>2 DEF Moves, Running
  <2>4. /\ pc'[t] = "publish" /\ call'[t] = call[t] /\ lock'[call'[t].scope] = t
        /\ Stored(t)' = Stored(t) /\ rev'[t] = Stored(t).revision + 1
    BY <1>1, <2>1, TakenLockIsHeld DEF Stored, Scope, IInv, TypeOK
  <2>5. OperationFits(t)' /\ FindingStands(t)'
    BY <1>2, <2>4 DEF OperationFits, FindingStands, AdminSteps, BootstrapSteps
  <2>6. DecisionStands(t)'
    BY <1>2, <2>4 DEF DecisionStands, AdminSteps
  <2>7. QED
    BY <1>1, <2>3, <2>5, <2>6, MovesKeepIInv
<1>4. CASE ~ (Stored(t).revision < MaxRevision)
  <2>1. /\ pc' = [pc EXCEPT ![t] = "done"] /\ UNCHANGED rev
        /\ result' = [result EXCEPT ![t] = Unavailable]
    BY <1>4 DEF BumpRevision, Reply, GoTo, SetResult
  <2>2. Moves(t)
    BY <1>1, <2>1, ResultTypes DEF Moves
  <2>3. QED
    BY <1>1, <2>1, <2>2, RefusalStands, MovesKeepIInv
<1>5. QED
  BY <1>3, <1>4

\* Dropping the lock of t takes no lock from the others.
LEMMA DroppedLock ==
  ASSUME IInv, NEW t \in Slots, DropLock(t)
  PROVE  /\ lock' \in [Scopes -> Slots \cup {NoSlot}]
         /\ \A s \in Scopes, u \in Slots : u # t /\ lock[s] = u => lock'[s] = u
BY DEF IInv, TypeOK, DropLock

\* A transaction that may publish changes its scope by an accepted call, and no other.
LEMMA PublishAdvances ==
  ASSUME IInv, NEW t \in Slots, pc[t] \in {"publish", "doubt"}, Publish(t)
  PROVE  /\ Changes(call[t], Stored(t)) /\ lock[Scope(t)] = t
         /\ db' = [db EXCEPT ![Scope(t)] = Advance(call[t], Stored(t))]
<1>1. pc[t] # "idle" /\ pc[t] \in Holding
  BY DEF Holding
<1>2. /\ Stored(t) \in Policies /\ Scope(t) \in Scopes /\ OperationFits(t) /\ DecisionStands(t)
      /\ Stored(t).revision \in 0..MaxRevision
  BY <1>1, InFlight
<1>3. /\ lock[Scope(t)] = t /\ rev[t] = Stored(t).revision + 1 /\ call[t].op \notin ReadOps
      /\ Accepted(call[t], Stored(t)) /\ Effect(call[t], Stored(t)) # Stored(t)
  BY <1>1, <1>2 DEF OperationFits, DecisionStands, Scope
<1>4. rev[t] \in 0..MaxRevision
  BY DEF IInv, TypeOK
<1>5. Stored(t).revision < MaxRevision
  BY <1>2, <1>3, <1>4, PolicyAssumption
<1>6. Changes(call[t], Stored(t))
  BY <1>3, <1>5 DEF Changes
<1>7. db' = [db EXCEPT ![Scope(t)] = Advance(call[t], Stored(t))]
  BY <1>2, <1>3 DEF Publish, Stored, Advance, IInv, TypeOK
<1>8. QED
  BY <1>3, <1>6, <1>7

LEMMA PublishKeepsIInv ==
  ASSUME IInv, NEW t \in Slots, pc[t] \in {"publish", "doubt"}, Publish(t),
         NEW k \in {"committed", "done"}, GoTo(t, k),
         NEW r \in Results, result' = [result EXCEPT ![t] = r] \/ UNCHANGED result,
         UNCHANGED <<call, rev, snap>>
  PROVE  IInv'
<1> DEFINE q == Advance(call[t], Stored(t))
<1>1. /\ Changes(call[t], Stored(t)) /\ lock[Scope(t)] = t
      /\ db' = [db EXCEPT ![Scope(t)] = q]
  BY PublishAdvances
<1>2. /\ call[t] \in StoreCalls /\ Scope(t) \in Scopes /\ Stored(t) \in Policies
      /\ RowsBelong(Stored(t)) /\ Administrable(Stored(t)) /\ call[t] \in Calls
  BY InFlight DEF OperationFits
<1>3. q \in Policies /\ RowsBelong(q) /\ Administrable(q)
  BY <1>1, <1>2, AdvanceType, AdvanceRowsBelong, AdvanceAdministrable
<1>4. /\ lock' \in [Scopes -> Slots \cup {NoSlot}]
      /\ \A s \in Scopes, u \in Slots : u # t /\ lock[s] = u => lock'[s] = u
  BY DroppedLock DEF Publish
<1> HIDE DEF q
<1>5. TypeOK'
  BY <1>1, <1>2, <1>3, <1>4 DEF IInv, TypeOK, GoTo, Running
<1>6. PoliciesSound'
  BY <1>1, <1>2, <1>3 DEF IInv, TypeOK, PoliciesSound
<1>7. Stands(t)'
  <2>1. pc'[t] \in {"committed", "done"} /\ call'[t] = call[t]
    BY DEF IInv, TypeOK, GoTo
  <2>2. QED
    BY <1>2, <2>1 DEF Stands, OperationFits, DecisionStands, FindingStands,
                      Holding, AdminSteps, BootstrapSteps
<1>8. \A s \in Scopes : db'[s] # db[s] => lock[s] = t
  BY <1>1, <1>2 DEF IInv, TypeOK
<1>9. \A u \in Slots : u # t => pc'[u] = pc[u] /\ call'[u] = call[u] /\ rev'[u] = rev[u]
  BY DEF IInv, TypeOK, GoTo
<1>10. \A u \in Slots : Stands(u)'
  BY <1>4, <1>7, <1>8, <1>9, OthersStand
<1>11. QED
  BY <1>5, <1>6, <1>10 DEF IInv

LEMMA CommitChangeKeepsIInv ==
  ASSUME IInv, NEW t \in Slots, CommitChange(t)
  PROVE  IInv'
<1>1. Mutation(TRUE, rev[t]) \in Results
  BY ResultTypes DEF IInv, TypeOK
<1>2. QED
  BY <1>1, PublishKeepsIInv DEF CommitChange, SetResult

LEMMA CommitLateKeepsIInv ==
  ASSUME IInv, NEW t \in Slots, CommitLate(t)
  PROVE  IInv'
BY ResultTypes, PublishKeepsIInv DEF CommitLate, Proceed

\* The rest changes neither the database nor what t found: t holds less, or is done.
LEMMA EndKeepsIInv ==
  ASSUME IInv, NEW t \in Slots, UNCHANGED <<db, call, rev, snap>>,
         UNCHANGED lock \/ DropLock(t),
         pc[t] # "idle", NEW k \in {"committed", "done"}, GoTo(t, k),
         NEW r \in Results, result' = [result EXCEPT ![t] = r] \/ UNCHANGED result
  PROVE  IInv'
<1>1. /\ lock' \in [Scopes -> Slots \cup {NoSlot}]
      /\ \A s \in Scopes, u \in Slots : u # t /\ lock[s] = u => lock'[s] = u
  BY DroppedLock DEF IInv, TypeOK
<1>2. TypeOK'
  BY <1>1 DEF IInv, TypeOK, GoTo, Running
<1>3. Stands(t)'
  <2>1. pc'[t] \in {"committed", "done"} /\ call'[t] = call[t] /\ call[t] \in Calls
    BY InFlight DEF IInv, TypeOK, GoTo, OperationFits
  <2>2. QED
    BY <2>1 DEF Stands, OperationFits, DecisionStands, FindingStands,
                Holding, AdminSteps, BootstrapSteps
<1>4. \A u \in Slots : u # t => pc'[u] = pc[u] /\ call'[u] = call[u] /\ rev'[u] = rev[u]
  BY DEF IInv, TypeOK, GoTo
<1>5. QED
  BY <1>1, <1>2, <1>3, <1>4, LocalStep

LEMMA FailKeepsIInv ==
  ASSUME IInv, NEW t \in Slots, Fail(t)
  PROVE  IInv'
<1>1. Unavailable \in Results
  BY ResultTypes
<1>2. /\ UNCHANGED <<db, lock, call, rev, snap>> /\ pc[t] # "idle"
      /\ result' = [result EXCEPT ![t] = Unavailable]
  BY DEF Fail, SetResult, Running, AdminSteps, BootstrapSteps
<1>3. CASE pc[t] # "publish"
  <2>1. GoTo(t, "done")
    BY <1>3 DEF Fail
  <2>2. QED
    BY <1>1, <1>2, <2>1, EndKeepsIInv
<1>4. CASE pc[t] = "publish"
  <2>1. pc' = [pc EXCEPT ![t] = "doubt"]
    BY <1>4 DEF Fail, GoTo
  <2>2. TypeOK'
    BY <1>1, <1>2, <2>1 DEF IInv, TypeOK
  <2>3. /\ pc'[t] = "doubt" /\ call'[t] = call[t] /\ rev'[t] = rev[t] /\ Stored(t)' = Stored(t)
        /\ lock' = lock
    BY <1>2, <2>1 DEF Stored, Scope, IInv, TypeOK
  <2>4. OperationFits(t) /\ DecisionStands(t)
    BY <1>2, InFlight
  <2>5. OperationFits(t)' /\ FindingStands(t)'
    BY <1>4, <2>3, <2>4 DEF OperationFits, FindingStands, AdminSteps, BootstrapSteps
  <2>6. DecisionStands(t)'
    BY <1>4, <2>3, <2>4 DEF DecisionStands, AdminSteps, Holding
  <2>7. \A u \in Slots : u # t => pc'[u] = pc[u] /\ call'[u] = call[u] /\ rev'[u] = rev[u]
    BY <1>2, <2>1 DEF IInv, TypeOK
  <2>8. QED
    BY <1>2, <2>2, <2>5, <2>6, <2>7, LocalStep DEF Stands
<1>5. QED
  BY <1>3, <1>4

LEMMA ReleaseKeepsIInv ==
  ASSUME IInv, NEW t \in Slots, Release(t)
  PROVE  IInv'
<1>1. /\ lock' \in [Scopes -> Slots \cup {NoSlot}]
      /\ \A s \in Scopes, u \in Slots : u # t /\ lock[s] = u => lock'[s] = u
  BY DroppedLock DEF Release
<1>2. TypeOK'
  BY <1>1, ResultTypes, InitialPolicies, PolicyAssumption DEF IInv, TypeOK, Release, GoTo, SetResult
<1>3. Stands(t)'
  BY DEF Stands, Release, GoTo, IInv, TypeOK
<1>4. \A u \in Slots : u # t => pc'[u] = pc[u] /\ call'[u] = call[u] /\ rev'[u] = rev[u]
  BY DEF IInv, TypeOK, Release, GoTo
<1>5. QED
  BY <1>1, <1>2, <1>3, <1>4, LocalStep DEF Release

-----------------------------------------------------------------------------
(* The invariant of every behaviour, and what follows from it.             *)

LEMMA StepKeepsIInv ==
  ASSUME IInv, NEW t \in Slots, Step(t)
  PROVE  IInv'
<1>1. CASE \E c \in Calls : Begin(t, c)
  BY <1>1, BeginKeepsIInv
<1>2. CASE Read(t)
  BY <1>2, ReadKeepsIInv
<1>3. CASE BootstrapScope(t)
  BY <1>3, BootstrapKeepsIInv
<1>4. CASE Administer(t)
  BY <1>4, AdministerKeepsIInv
<1>5. CASE BumpRevision(t)
  BY <1>5, BumpRevisionKeepsIInv
<1>6. CASE CommitChange(t)
  BY <1>6, CommitChangeKeepsIInv
<1>7. CASE CommitUnchanged(t)
  <2>1. result[t] \in Results
    BY DEF IInv, TypeOK
  <2>2. QED
    BY <1>7, <2>1, EndKeepsIInv DEF CommitUnchanged
<1>8. CASE Acknowledge(t)
  <2>1. result[t] \in Results
    BY DEF IInv, TypeOK
  <2>2. QED
    BY <1>8, <2>1, EndKeepsIInv DEF Acknowledge, Proceed
<1>9. CASE Fail(t)
  BY <1>9, FailKeepsIInv
<1>10. CASE CommitLate(t)
  BY <1>10, CommitLateKeepsIInv
<1>11. CASE Release(t)
  BY <1>11, ReleaseKeepsIInv
<1>12. QED
  BY <1>1, <1>2, <1>3, <1>4, <1>5, <1>6, <1>7, <1>8, <1>9, <1>10, <1>11 DEF Step, Work

LEMMA NextIInv == IInv /\ [Next]_vars => IInv'
<1> SUFFICES ASSUME IInv, [Next]_vars PROVE IInv'
  OBVIOUS
<1>1. CASE Next
  BY <1>1, StepKeepsIInv DEF Next
<1>2. CASE UNCHANGED vars
  <2>1. TypeOK' /\ PoliciesSound'
    BY <1>2 DEF vars, IInv, TypeOK, PoliciesSound
  <2>2. \A t \in Slots : Stands(t)'
    BY <1>2 DEF vars, IInv, Stands, OperationFits, DecisionStands, FindingStands, Stored, Scope
  <2>3. QED
    BY <2>1, <2>2 DEF IInv
<1>3. QED
  BY <1>1, <1>2

\* Every behaviour of the statements keeps the inductive invariant.
THEOREM SpecIInv == Spec => []IInv
BY InitIInv, NextIInv, PTL DEF Spec

\* Every variable keeps its type, and with it every stored revision its range.
THEOREM PostgresTypes == Spec => []TypeOK
<1>1. IInv => TypeOK
  BY DEF IInv
<1>2. QED
  BY <1>1, SpecIInv, PTL

\* What a transaction read under the lock of its scope (storage.rs, begin_authorized and
\* the checks after it) stays true until it ends, however many transactions run.
THEOREM PostgresDecisionsStand == Spec => []DecisionsStand
<1>1. IInv => DecisionsStand
  BY DEF IInv, Stands, DecisionsStand
<1>2. QED
  BY <1>1, SpecIInv, PTL

\* Every committed policy is whole and has an administrator, however the statements of
\* the transactions of storage.rs interleave, fail or commit late.
THEOREM PostgresPoliciesSound == Spec => []PoliciesSound
<1>1. IInv => PoliciesSound
  BY DEF IInv
<1>2. QED
  BY <1>1, SpecIInv, PTL

\* Only the two commits of a change write the database.
LEMMA OnlyCommitsWrite ==
  ASSUME NEW t \in Slots, Step(t), db' # db
  PROVE  pc[t] \in {"publish", "doubt"} /\ Publish(t)
BY DEF Step, Work, Begin, Read, BootstrapScope, Administer, BumpRevision, CommitChange,
       CommitUnchanged, Acknowledge, Fail, CommitLate, Release

\* Who publishes a change is entitled to it.
LEMMA PublisherIsEntitled ==
  ASSUME IInv, NEW t \in Slots, pc[t] \in {"publish", "doubt"}, Publish(t),
         NEW s \in Scopes, db'[s] # db[s]
  PROVE  ChangedByAdministrator(s)
<1> DEFINE c == call[t]
           p == Stored(t)
<1>1. Changes(c, p) /\ db' = [db EXCEPT ![Scope(t)] = Advance(c, p)]
  BY PublishAdvances
<1>2. c \in StoreCalls /\ Scope(t) \in Scopes /\ p \in Policies
  BY InFlight
<1>3. Scope(t) = s /\ p = db[s] /\ db'[s] = Advance(c, p)
  BY <1>1, <1>2 DEF IInv, TypeOK, Stored
<1>4. Accepted(c, p) /\ c.op \notin ReadOps /\ Effect(c, p) # p
  BY <1>1 DEF Changes
<1>5. CASE c.op = "bootstrap"
  <2>1. ~ Bootstrapped(p)
    BY <1>4, <1>5 DEF Effect
  <2>2. Advance(c, p).owner = c.subject
    BY <1>5, <2>1 DEF Advance, Effect, SeedPolicy
  <2>3. QED
    BY <1>3, <1>5, <2>1, <2>2 DEF ChangedByAdministrator
<1>6. CASE c.op # "bootstrap"
  <2>1. c.op \in AdminOps
    BY <1>2, <1>4, <1>6, CallShape
  <2>2. Bootstrapped(p)
    BY <1>2, <1>4, <2>1, AcceptedAdmin
  <2>3. Authorized(c, p)
    BY <1>4, <2>1, <2>2 DEF Accepted, Refused, DomainFailures
  <2>4. QED
    BY <1>3, <1>6, <2>3 DEF ChangedByAdministrator, Authorized
<1>7. QED
  BY <1>5, <1>6

\* A scope changes only in the name of a subject who holds the management permission the
\* change needs at the moment it is committed, also when the COMMIT comes through after
\* the call was answered (storage.rs, begin_authorized to commit).
THEOREM PostgresOnlyAdministratorsChange == Spec => OnlyAdministratorsChange
<1>1. IInv /\ [Next]_vars => [\A s \in Scopes : db'[s] # db[s] => ChangedByAdministrator(s)]_vars
  <2> SUFFICES ASSUME IInv, Next, NEW s \in Scopes, db'[s] # db[s]
               PROVE  ChangedByAdministrator(s)
    BY DEF vars
  <2>1. PICK t \in Slots : Step(t)
    BY DEF Next
  <2>2. QED
    BY <2>1, OnlyCommitsWrite, PublisherIsEntitled
<1>2. QED
  BY <1>1, SpecIInv, PTL DEF Spec, OnlyAdministratorsChange

-----------------------------------------------------------------------------
(* What a call is about to answer.                                         *)

\* A listing reads the rows of the policy whose revision it has read, a scope that was
\* found to exist still exists, though nothing is locked yet, and a call whose COMMIT is
\* in doubt is answered already.
AnswerStands(t) ==
  /\ pc[t] = "existing" => Bootstrapped(Stored(t))
  /\ pc[t] = "rows" => call[t].op = "list" /\ Bootstrapped(snap[t]) /\ rev[t] = snap[t].revision
  /\ pc[t] = "doubt" => result[t] = Unavailable

AInv == IInv /\ \A t \in Slots : AnswerStands(t)

\* A scope once bootstrapped keeps its owner.
LEMMA OwnersStay ==
  ASSUME IInv, NEW t \in Slots, Step(t), NEW s \in Scopes, Bootstrapped(db[s])
  PROVE  Bootstrapped(db'[s]) /\ db'[s].owner = db[s].owner
<1>1. CASE db'[s] = db[s]
  BY <1>1
<1>2. CASE db'[s] # db[s]
  <2>1. pc[t] \in {"publish", "doubt"} /\ Publish(t)
    BY <1>2, OnlyCommitsWrite
  <2>2. /\ call[t] \in StoreCalls /\ Scope(t) \in Scopes /\ Stored(t) \in Policies
        /\ RowsBelong(Stored(t))
    BY <2>1, InFlight
  <2>3. Changes(call[t], Stored(t)) /\ db' = [db EXCEPT ![Scope(t)] = Advance(call[t], Stored(t))]
    BY <2>1, PublishAdvances
  <2>4. Stored(t) = db[s] /\ db'[s] = Advance(call[t], Stored(t))
    BY <1>2, <2>2, <2>3 DEF IInv, TypeOK, Stored
  <2>5. /\ Effect(call[t], Stored(t)) \in Policies
        /\ Effect(call[t], Stored(t)).owner = Stored(t).owner
    BY <2>2, <2>3, <2>4, EffectType, EffectKeeps DEF Changes, RowsBelong
  <2>6. Advance(call[t], Stored(t)).owner = Stored(t).owner
    BY <2>5 DEF Advance, Policies
  <2>7. QED
    BY <2>4, <2>6 DEF Bootstrapped
<1>3. QED
  BY <1>1, <1>2

\* The steps of a transaction touch nothing of another call.
LEMMA OthersUntouched ==
  ASSUME IInv, NEW t \in Slots, Step(t), NEW u \in Slots \ {t}
  PROVE  /\ pc'[u] = pc[u] /\ call'[u] = call[u] /\ result'[u] = result[u]
         /\ rev'[u] = rev[u] /\ snap'[u] = snap[u]
<1>1. CASE \E c \in Calls : Begin(t, c)
  BY <1>1 DEF Begin, GoTo, IInv, TypeOK
<1>2. CASE Read(t)
  BY <1>2 DEF Read, CheckPermission, GetRole, ReadPageRevision, ReadPageRows, RefuseWith, Reply,
              GoTo, SetResult, IInv, TypeOK
<1>3. CASE BootstrapScope(t)
  BY <1>3 DEF BootstrapScope, InsertScope, ReadExistingBootstrap, VerifyBootstrapPolicy,
              SeedBootstrap, Proceed, RefuseWith, Reply, GoTo, SetResult, IInv, TypeOK
<1>4. CASE Administer(t)
  BY <1>4 DEF Administer, LockScope, Authorize, CreateRole, ReadProtection, SetRolePermissions,
              AssignRole, ProbeBinding, CountBindings, Unchanged, Proceed, RefuseWith, Reply,
              GoTo, SetResult, IInv, TypeOK
<1>5. CASE BumpRevision(t)
  BY <1>5 DEF BumpRevision, Reply, GoTo, SetResult, IInv, TypeOK
<1>6. CASE CommitChange(t) \/ CommitUnchanged(t) \/ Acknowledge(t)
  BY <1>6 DEF CommitChange, CommitUnchanged, Acknowledge, Proceed, GoTo, SetResult, IInv, TypeOK
<1>7. CASE Fail(t) \/ CommitLate(t) \/ Release(t)
  BY <1>7 DEF Fail, CommitLate, Release, Proceed, GoTo, SetResult, IInv, TypeOK
<1>8. QED
  BY <1>1, <1>2, <1>3, <1>4, <1>5, <1>6, <1>7 DEF Step, Work

\* Only the first statement of a listing leads to the second, only a conflict to the
\* existing scope, and only a failed COMMIT to doubt.
LEMMA AnswerKeeps ==
  ASSUME IInv, NEW t \in Slots, Step(t)
  PROVE  /\ pc'[t] = "rows" => ReadPageRevision(t) /\ UNCHANGED call
         /\ pc'[t] = "existing" => Bootstrapped(Stored(t)) /\ UNCHANGED <<db, call>>
         /\ pc'[t] = "doubt" => Fail(t)
<1>1. CASE \E c \in Calls : Begin(t, c)
  BY <1>1 DEF Begin, GoTo, IInv, TypeOK
<1>2. CASE Read(t)
  BY <1>2 DEF Read, CheckPermission, GetRole, ReadPageRows, ReadPageRevision, RefuseWith, Reply,
              GoTo, IInv, TypeOK
<1>3. CASE BootstrapScope(t)
  BY <1>3 DEF BootstrapScope, InsertScope, ReadExistingBootstrap, VerifyBootstrapPolicy,
              SeedBootstrap, Proceed, RefuseWith, Reply, GoTo, IInv, TypeOK
<1>4. CASE Administer(t)
  <2>1. CASE ReadProtection(t)
    <3>1. pc'[t] \in {"done", "compare", "bump", "bind", "probe"}
      BY <2>1 DEF ReadProtection, At, RoleOps, AfterProtection, Proceed, RefuseWith, Reply,
                  GoTo, IInv, TypeOK
    <3>2. QED
      BY <3>1
  <2>2. CASE ~ ReadProtection(t)
    BY <1>4, <2>2 DEF Administer, LockScope, Authorize, CreateRole, SetRolePermissions,
              AssignRole, ProbeBinding, CountBindings, Unchanged, Proceed, RefuseWith, Reply,
              GoTo, IInv, TypeOK
  <2>3. QED
    BY <2>1, <2>2
<1>5. CASE BumpRevision(t)
  BY <1>5 DEF BumpRevision, Reply, GoTo, IInv, TypeOK
<1>6. CASE CommitChange(t) \/ CommitUnchanged(t) \/ Acknowledge(t)
  BY <1>6 DEF CommitChange, CommitUnchanged, Acknowledge, Proceed, GoTo, IInv, TypeOK
<1>7. CASE Fail(t) \/ CommitLate(t) \/ Release(t)
  BY <1>7 DEF Fail, CommitLate, Release, Proceed, GoTo, IInv, TypeOK
<1>8. QED
  BY <1>1, <1>2, <1>3, <1>4, <1>5, <1>6, <1>7 DEF Step, Work

LEMMA StepKeepsAInv ==
  ASSUME AInv, NEW t \in Slots, Step(t)
  PROVE  AInv'
<1>1. IInv /\ IInv'
  BY StepKeepsIInv DEF AInv
<1>2. \A u \in Slots \ {t} : AnswerStands(u)'
  <2> SUFFICES ASSUME NEW u \in Slots \ {t} PROVE AnswerStands(u)'
    OBVIOUS
  <2>1. /\ pc'[u] = pc[u] /\ call'[u] = call[u] /\ result'[u] = result[u]
        /\ rev'[u] = rev[u] /\ snap'[u] = snap[u]
    BY <1>1, OthersUntouched
  <2>2. pc[u] = "existing" => Bootstrapped(Stored(u)')
    <3>1. SUFFICES ASSUME pc[u] = "existing" PROVE Bootstrapped(Stored(u)')
      OBVIOUS
    <3>2. Bootstrapped(Stored(u)) /\ Scope(u) \in Scopes
      BY <1>1, <3>1, InFlight DEF AInv, AnswerStands
    <3>3. QED
      BY <1>1, <2>1, <3>2, OwnersStay DEF Stored, Scope
  <2>3. QED
    BY <2>1, <2>2 DEF AInv, AnswerStands
<1>3. AnswerStands(t)'
  <2>1. CASE pc'[t] = "rows"
    <3>1. ReadPageRevision(t) /\ call' = call
      BY <1>1, <2>1, AnswerKeeps
    <3>2. /\ call[t].op = "list" /\ Bootstrapped(Stored(t))
          /\ rev'[t] = Stored(t).revision /\ snap'[t] = Stored(t)
      BY <1>1, <2>1, <3>1 DEF ReadPageRevision, At, RefuseWith, Reply, GoTo, IInv, TypeOK
    <3>3. QED
      BY <2>1, <3>1, <3>2 DEF AnswerStands
  <2>2. CASE pc'[t] = "doubt"
    <3>1. Fail(t)
      BY <1>1, <2>2, AnswerKeeps
    <3>2. result'[t] = Unavailable
      BY <1>1, <3>1 DEF Fail, SetResult, IInv, TypeOK
    <3>3. QED
      BY <2>2, <3>2 DEF AnswerStands
  <2>3. CASE pc'[t] = "existing"
    <3>1. Bootstrapped(Stored(t)) /\ UNCHANGED <<db, call>>
      BY <1>1, <2>3, AnswerKeeps
    <3>2. Bootstrapped(Stored(t)')
      BY <3>1 DEF Stored, Scope
    <3>3. QED
      BY <2>3, <3>2 DEF AnswerStands
  <2>4. QED
    BY <2>1, <2>2, <2>3 DEF AnswerStands
<1>4. QED
  BY <1>1, <1>2, <1>3 DEF AInv

LEMMA NextAInv == AInv /\ [Next]_vars => AInv'
<1> SUFFICES ASSUME AInv, [Next]_vars PROVE AInv'
  OBVIOUS
<1>1. CASE Next
  BY <1>1, StepKeepsAInv DEF Next
<1>2. CASE UNCHANGED vars
  <2>1. IInv'
    BY <1>2, NextIInv DEF AInv
  <2>2. QED
    BY <1>2, <2>1 DEF AInv, AnswerStands, Stored, Scope, vars
<1>3. QED
  BY <1>1, <1>2

LEMMA SpecAInv == Spec => []AInv
<1>1. Init => AInv
  BY InitIInv DEF AInv, Init, AnswerStands
<1>2. QED
  BY <1>1, NextAInv, PTL DEF Spec

-----------------------------------------------------------------------------
(* The store implements AccessStore.                                       *)

\* The instance says the same of calls and policies as Policy does.
LEMMA SameAuthority ==
  /\ \A p, s, q : Promise!Allowed(p, s, q) = Allowed(p, s, q)
  /\ \A p : Promise!Bootstrapped(p) <=> Bootstrapped(p)
  /\ \A p, r : Promise!Binders(p, r) = Binders(p, r)
  /\ \A c : Promise!Needed(c) = Needed(c)
  /\ \A c, p : Promise!Authorized(c, p) <=> Authorized(c, p)
BY DEF Promise!Allowed, Allowed, Promise!Bootstrapped, Bootstrapped, Promise!Binders, Binders,
       Promise!Needed, Needed, Promise!Authorized, Authorized

LEMMA SameRefusals ==
  /\ Promise!DomainFailures = DomainFailures /\ Promise!ReadOps = ReadOps
  /\ \A c, p, f : Promise!Refused(c, p, f) <=> Refused(c, p, f)
  /\ \A c, p : Promise!Accepted(c, p) <=> Accepted(c, p)
<1>1. /\ Promise!DomainFailures = DomainFailures /\ Promise!ReadOps = ReadOps
      /\ Promise!AdminOps = AdminOps /\ Promise!RoleOps = RoleOps
  BY DEF Promise!DomainFailures, DomainFailures, Promise!ReadOps, ReadOps,
         Promise!AdminOps, AdminOps, Promise!RoleOps, RoleOps
<1>2. \A c, p, f : Promise!Refused(c, p, f) <=> Refused(c, p, f)
  BY <1>1, SameAuthority DEF Promise!Refused, Refused
<1>3. QED
  BY <1>1, <1>2 DEF Promise!Accepted, Accepted

LEMMA SameEffects ==
  /\ \A c, p : Promise!Effect(c, p) = Effect(c, p)
  /\ \A c, p : Promise!Advance(c, p) = Advance(c, p)
  /\ \A c, p : Promise!Changes(c, p) <=> Changes(c, p)
<1>1. \A s : Promise!SeedPolicy(s) = SeedPolicy(s)
  BY DEF Promise!SeedPolicy, SeedPolicy
<1>2. \A p, r : Promise!WithoutRole(p, r) = WithoutRole(p, r)
  BY DEF Promise!WithoutRole, WithoutRole
<1>3. \A p, r, qs : Promise!WithGrants(p, r, qs) = WithGrants(p, r, qs)
  BY DEF Promise!WithGrants, WithGrants
<1>4. \A c, p : Promise!Effect(c, p) = Effect(c, p)
  BY <1>1, <1>2, <1>3, SameAuthority DEF Promise!Effect, Effect
<1>5. \A c, p : Promise!Advance(c, p) = Advance(c, p)
  BY <1>4 DEF Promise!Advance, Advance
<1>6. \A c, p : Promise!Changes(c, p) <=> Changes(c, p)
  BY <1>4, SameRefusals DEF Promise!Changes, Changes
<1>7. QED
  BY <1>4, <1>5, <1>6

LEMMA SameAnswers ==
  /\ \A c, p : c.op \in ReadOps => Promise!ReadAnswer(c, p) = ReadAnswer(c, p)
  /\ \A f : Promise!Failure(f) = Failure(f)
  /\ Promise!Unavailable = Unavailable /\ Promise!NoResult = NoResult
  /\ \A b, n : Promise!Mutation(b, n) = Mutation(b, n)
<1>1. \A p, r : Promise!RoleRow(p, r) = RoleRow(p, r)
  BY DEF Promise!RoleRow, RoleRow, Promise!Grants, Grants
<1>0. \A S : Promise!Cardinality(S) = Cardinality(S)
  BY DEF Promise!Cardinality, Cardinality, Promise!IsFiniteSet, IsFiniteSet
<1>2. \A n, R : Promise!Lowest(n, R) = Lowest(n, R)
  BY <1>0 DEF Promise!Lowest, Lowest
<1>3. \A c, p : Promise!Listed(c, p) = Listed(c, p)
  BY DEF Promise!Listed, Listed
<1>4. /\ \A b, n : Promise!Decision(b, n) = Decision(b, n)
      /\ \A r, n : Promise!DirectoryRole(r, n) = DirectoryRole(r, n)
      /\ \A r, n, m : Promise!DirectoryRolePage(r, n, m) = DirectoryRolePage(r, n, m)
  BY DEF Promise!Decision, Decision, Promise!DirectoryRole, DirectoryRole,
         Promise!DirectoryRolePage, DirectoryRolePage
<1>5. ASSUME NEW c, NEW p, c.op \in ReadOps PROVE Promise!ReadAnswer(c, p) = ReadAnswer(c, p)
  <2>1. CASE c.op = "check"
    <3>1. Promise!Allowed(p, c.subject, c.permission) = Allowed(p, c.subject, c.permission)
      BY SameAuthority
    <3>2. QED
      BY <1>4, <2>1, <3>1 DEF Promise!ReadAnswer, ReadAnswer
  <2>2. CASE c.op = "get"
    BY <1>1, <1>4, <2>2 DEF Promise!ReadAnswer, ReadAnswer
  <2>3. CASE c.op = "list"
    <3> DEFINE page == Lowest(c.limit, Listed(c, p))
    <3>1. Promise!Lowest(c.limit, Promise!Listed(c, p)) = page
      BY <1>2, <1>3
    <3>2. {Promise!RoleRow(p, r) : r \in page} = {RoleRow(p, r) : r \in page}
      BY <1>1
    <3>3. ReadAnswer(c, p) = DirectoryRolePage({RoleRow(p, r) : r \in page}, p.revision, page # Listed(c, p))
      BY <2>3 DEF ReadAnswer
    <3>4. Promise!ReadAnswer(c, p) =
            Promise!DirectoryRolePage({Promise!RoleRow(p, r) : r \in page}, p.revision, page # Listed(c, p))
      BY <1>3, <2>3, <3>1 DEF Promise!ReadAnswer
    <3> HIDE DEF page
    <3>5. QED
      BY <1>4, <3>2, <3>3, <3>4
  <2>4. QED
    BY <1>5, <2>1, <2>2, <2>3 DEF ReadOps
<1>6. QED
  BY <1>5 DEF Promise!Failure, Failure, Promise!Unavailable, Unavailable, Promise!NoResult,
              NoResult, Promise!Mutation, Mutation

LEMMA PromiseInit == Init => Promise!Init
BY SameAnswers DEF Init, Promise!Init, NoPolicy, Promise!NoPolicy, NoCall, Promise!NoCall,
                   AbstractPhase, AbstractResult

\* Of all that AccessStore sees of the calls, only what it sees of t changes.
Goes(t, from, to, r) ==
  /\ AbstractPhase(t) = from /\ AbstractPhase(t)' = to /\ AbstractResult(t)' = r
  /\ \A u \in Slots \ {t} : /\ AbstractPhase(u)' = AbstractPhase(u)
                            /\ AbstractResult(u)' = AbstractResult(u)

LEMMA PromiseDecide ==
  ASSUME NEW t \in Slots, NEW from, NEW r, Goes(t, from, "decided", r), UNCHANGED call
  PROVE  Promise!Decide(t, from, r)
<1>1. AbstractPhase(t) = from
  BY DEF Goes
<1>2. [u \in Slots |-> AbstractPhase(u)]' = [[u \in Slots |-> AbstractPhase(u)] EXCEPT ![t] = "decided"]
  BY DEF Goes
<1>3. [u \in Slots |-> AbstractResult(u)]' = [[u \in Slots |-> AbstractResult(u)] EXCEPT ![t] = r]
  BY DEF Goes
<1>4. QED
  BY <1>1, <1>2, <1>3 DEF Promise!Decide

LEMMA PromiseStutter ==
  ASSUME UNCHANGED <<db, call>>,
         \A u \in Slots : AbstractPhase(u)' = AbstractPhase(u) /\ AbstractResult(u)' = AbstractResult(u)
  PROVE  UNCHANGED Promise!vars
BY DEF Promise!vars, AbstractPhase, AbstractResult

LEMMA PromiseStart ==
  ASSUME NEW t \in Slots, NEW c \in Calls, Goes(t, "idle", "called", AbstractResult(t)),
         call' = [call EXCEPT ![t] = c], UNCHANGED db
  PROVE  Promise!Step(t)
<1>1. AbstractPhase(t) = "idle"
  BY DEF Goes
<1>2. [u \in Slots |-> AbstractPhase(u)]' = [[u \in Slots |-> AbstractPhase(u)] EXCEPT ![t] = "called"]
  BY DEF Goes
<1>3. [u \in Slots |-> AbstractResult(u)]' = [u \in Slots |-> AbstractResult(u)]
  BY DEF Goes
<1>4. Promise!Start(t, c)
  BY <1>1, <1>2, <1>3 DEF Promise!Start
<1>5. QED
  BY <1>4 DEF Promise!Step

LEMMA PromiseAnswer ==
  ASSUME NEW t \in Slots, Goes(t, "called", "decided", ReadAnswer(call[t], Stored(t))),
         call[t].op \in ReadOps, Accepted(call[t], Stored(t)), UNCHANGED <<db, call>>
  PROVE  Promise!Step(t)
<1>1. Promise!Decide(t, "called", Promise!ReadAnswer(call[t], db[call[t].scope]))
  <2>1. Promise!ReadAnswer(call[t], db[call[t].scope]) = ReadAnswer(call[t], Stored(t))
    BY SameAnswers DEF Stored, Scope
  <2>2. QED
    BY <2>1, PromiseDecide
<1>2. Promise!Accepted(call[t], db[call[t].scope]) /\ call[t].op \in Promise!ReadOps
  BY SameRefusals DEF Stored, Scope
<1>3. AbstractPhase(t) = "called"
  BY DEF Goes
<1>4. Promise!Answer(t)
  BY <1>1, <1>2, <1>3 DEF Promise!Answer
<1>5. QED
  BY <1>4 DEF Promise!Step

LEMMA PromiseRefuse ==
  ASSUME NEW t \in Slots, NEW f \in DomainFailures, Goes(t, "called", "decided", Failure(f)),
         Refused(call[t], Stored(t), f), UNCHANGED <<db, call>>
  PROVE  Promise!Step(t)
<1>1. Promise!Decide(t, "called", Promise!Failure(f))
  BY PromiseDecide, SameAnswers
<1>2. Promise!Refused(call[t], db[call[t].scope], f) /\ f \in Promise!DomainFailures
  BY SameRefusals DEF Stored, Scope
<1>3. AbstractPhase(t) = "called"
  BY DEF Goes
<1>4. Promise!Refuse(t)
  BY <1>1, <1>2, <1>3 DEF Promise!Refuse
<1>5. QED
  BY <1>4 DEF Promise!Step

LEMMA PromiseKeep ==
  ASSUME NEW t \in Slots, Goes(t, "called", "decided", Mutation(FALSE, Stored(t).revision)),
         call[t].op \notin ReadOps, Accepted(call[t], Stored(t)),
         Effect(call[t], Stored(t)) = Stored(t), UNCHANGED <<db, call>>
  PROVE  Promise!Step(t)
<1>1. Promise!Decide(t, "called", Promise!Mutation(FALSE, db[call[t].scope].revision))
  <2>1. Promise!Mutation(FALSE, db[call[t].scope].revision) = Mutation(FALSE, Stored(t).revision)
    BY SameAnswers DEF Stored, Scope
  <2>2. QED
    BY <2>1, PromiseDecide
<1>2. /\ Promise!Accepted(call[t], db[call[t].scope]) /\ call[t].op \notin Promise!ReadOps
      /\ Promise!Effect(call[t], db[call[t].scope]) = db[call[t].scope]
  BY SameRefusals, SameEffects DEF Stored, Scope
<1>3. AbstractPhase(t) = "called"
  BY DEF Goes
<1>4. Promise!Keep(t)
  BY <1>1, <1>2, <1>3 DEF Promise!Keep
<1>5. QED
  BY <1>4 DEF Promise!Step

LEMMA PromiseChange ==
  ASSUME NEW t \in Slots, Goes(t, "called", "decided", Mutation(TRUE, Stored(t).revision + 1)),
         Changes(call[t], Stored(t)),
         db' = [db EXCEPT ![Scope(t)] = Advance(call[t], Stored(t))], UNCHANGED call
  PROVE  Promise!Step(t)
<1>1. Promise!Decide(t, "called", Promise!Mutation(TRUE, db[call[t].scope].revision + 1))
  <2>1. Promise!Mutation(TRUE, db[call[t].scope].revision + 1) = Mutation(TRUE, Stored(t).revision + 1)
    BY SameAnswers DEF Stored, Scope
  <2>2. QED
    BY <2>1, PromiseDecide
<1>2. /\ Promise!Changes(call[t], db[call[t].scope])
      /\ db' = [db EXCEPT ![call[t].scope] = Promise!Advance(call[t], db[call[t].scope])]
  BY SameEffects DEF Stored, Scope
<1>3. AbstractPhase(t) = "called"
  BY DEF Goes
<1>4. Promise!Change(t)
  BY <1>1, <1>2, <1>3 DEF Promise!Change
<1>5. QED
  BY <1>4 DEF Promise!Step

LEMMA PromiseLose ==
  ASSUME NEW t \in Slots, NEW from \in {"called", "decided", "doubt"},
         Goes(t, from, "decided", Unavailable), UNCHANGED <<db, call>>
  PROVE  Promise!Step(t)
<1>1. Promise!Decide(t, from, Promise!Unavailable)
  BY PromiseDecide, SameAnswers
<1>2. Promise!Lose(t)
  BY <1>1 DEF Promise!Lose
<1>3. QED
  BY <1>2 DEF Promise!Step

LEMMA PromiseDoubt ==
  ASSUME NEW t \in Slots, Goes(t, "called", "doubt", Unavailable), UNCHANGED <<db, call>>
  PROVE  Promise!Step(t)
<1>1. Promise!Doubt(t)
  BY SameAnswers DEF Promise!Doubt, Goes, AbstractPhase, AbstractResult
<1>2. QED
  BY <1>1 DEF Promise!Step

LEMMA PromiseLateChange ==
  ASSUME NEW t \in Slots, Goes(t, "doubt", "decided", Unavailable),
         Changes(call[t], Stored(t)),
         db' = [db EXCEPT ![Scope(t)] = Advance(call[t], Stored(t))], UNCHANGED call
  PROVE  Promise!Step(t)
<1>1. Promise!Decide(t, "doubt", Promise!Unavailable)
  BY PromiseDecide, SameAnswers
<1>2. /\ Promise!Changes(call[t], db[call[t].scope])
      /\ db' = [db EXCEPT ![call[t].scope] = Promise!Advance(call[t], db[call[t].scope])]
  BY SameEffects DEF Stored, Scope
<1>3. AbstractPhase(t) = "doubt"
  BY DEF Goes
<1>4. Promise!LateChange(t)
  BY <1>1, <1>2, <1>3 DEF Promise!LateChange
<1>5. QED
  BY <1>4 DEF Promise!Step

LEMMA PromiseReturn ==
  ASSUME NEW t \in Slots, NEW from \in {"decided", "doubt"}, Goes(t, from, "idle", NoResult),
         call' = [call EXCEPT ![t] = NoCall], UNCHANGED db
  PROVE  Promise!Step(t)
<1>1. Promise!Return(t)
  BY SameAnswers DEF Promise!Return, Goes, AbstractPhase, AbstractResult, NoCall, Promise!NoCall
<1>2. QED
  BY <1>1 DEF Promise!Step

-----------------------------------------------------------------------------
(* Every step of the store is a step of AccessStore, or none.              *)

Promised(t) == Promise!Step(t) \/ UNCHANGED Promise!vars

\* The steps of a call that is not decided yet.
Undecided == {"start", "bump", "publish"} \cup AdminSteps \cup BootstrapSteps

LEMMA Phases ==
  ASSUME NEW t \in Slots
  PROVE  /\ pc[t] = "idle" => AbstractPhase(t) = "idle"
         /\ pc[t] \in Undecided => AbstractPhase(t) = "called"
         /\ pc[t] \in {"rows", "commit", "committed", "done"} => AbstractPhase(t) = "decided"
         /\ pc[t] = "doubt" => AbstractPhase(t) = "doubt"
         /\ pc[t] # "rows" => AbstractResult(t) = result[t]
         /\ pc[t] = "rows" => AbstractResult(t) = ReadAnswer(call[t], snap[t])
BY DEF AbstractPhase, AbstractResult, Undecided, AdminSteps, BootstrapSteps

LEMMA PhasesNext ==
  ASSUME NEW t \in Slots
  PROVE  /\ pc'[t] = "idle" => AbstractPhase(t)' = "idle"
         /\ pc'[t] \in Undecided => AbstractPhase(t)' = "called"
         /\ pc'[t] \in {"rows", "commit", "committed", "done"} => AbstractPhase(t)' = "decided"
         /\ pc'[t] = "doubt" => AbstractPhase(t)' = "doubt"
         /\ pc'[t] # "rows" => AbstractResult(t)' = result'[t]
         /\ pc'[t] = "rows" => AbstractResult(t)' = ReadAnswer(call'[t], snap'[t])
BY DEF AbstractPhase, AbstractResult, Undecided, AdminSteps, BootstrapSteps

\* AccessStore sees no difference in the other calls.
LEMMA OthersSeen ==
  ASSUME IInv, NEW t \in Slots, Step(t)
  PROVE  \A u \in Slots \ {t} : AbstractPhase(u)' = AbstractPhase(u) /\ AbstractResult(u)' = AbstractResult(u)
BY OthersUntouched DEF AbstractPhase, AbstractResult

\* A statement that decides nothing.
LEMMA ProceedPromised ==
  ASSUME IInv, NEW t \in Slots, Step(t), pc[t] \in Undecided, pc'[t] \in Undecided,
         UNCHANGED <<db, call, result>>
  PROVE  Promised(t)
<1>1. pc[t] # "rows" /\ pc'[t] # "rows"
  BY DEF Undecided, AdminSteps, BootstrapSteps
<1>2. AbstractPhase(t)' = AbstractPhase(t) /\ AbstractResult(t)' = AbstractResult(t)
  BY <1>1, Phases, PhasesNext
<1>3. QED
  BY <1>2, OthersSeen, PromiseStutter DEF Promised

\* A call that is decided with answer r.
LEMMA DecisionSeen ==
  ASSUME IInv, NEW t \in Slots, Step(t), pc[t] \in Undecided,
         NEW k \in {"commit", "committed", "done"}, GoTo(t, k), NEW r, SetResult(t, r)
  PROVE  Goes(t, "called", "decided", r)
<1>1. pc'[t] = k /\ result'[t] = r
  BY DEF GoTo, SetResult, IInv, TypeOK
<1>2. QED
  BY <1>1, Phases, PhasesNext, OthersSeen DEF Goes

LEMMA RefusalPromised ==
  ASSUME IInv, NEW t \in Slots, Step(t), pc[t] \in Undecided, NEW f \in DomainFailures,
         Refused(call[t], Stored(t), f), Reply(t, Failure(f)), UNCHANGED <<db, call>>
  PROVE  Promised(t)
BY DecisionSeen, PromiseRefuse DEF Reply, Promised

LEMMA LossPromised ==
  ASSUME IInv, NEW t \in Slots, Step(t), pc[t] \in Undecided, Reply(t, Unavailable),
         UNCHANGED <<db, call>>
  PROVE  Promised(t)
BY DecisionSeen, PromiseLose DEF Reply, Promised

LEMMA BeginPromised ==
  ASSUME IInv, NEW t \in Slots, NEW c \in Calls, Begin(t, c)
  PROVE  Promised(t)
<1>1. pc[t] = "idle" /\ pc'[t] = "start" /\ "start" \in Undecided
  BY DEF Begin, GoTo, IInv, TypeOK, Undecided
<1>2. AbstractPhase(t) = "idle" /\ AbstractPhase(t)' = "called" /\ AbstractResult(t)' = AbstractResult(t)
  BY <1>1, Phases, PhasesNext DEF Begin
<1>3. Goes(t, "idle", "called", AbstractResult(t))
  BY <1>2, OthersSeen DEF Goes, Step
<1>4. QED
  BY <1>3, PromiseStart DEF Begin, Promised

-----------------------------------------------------------------------------
(* Reads.                                                                  *)

\* What the second statement of a listing answers is the page of the snapshot.
LEMMA RowsAnswer ==
  ASSUME AInv, NEW t \in Slots, ReadPageRows(t)
  PROVE  result' = [result EXCEPT ![t] = ReadAnswer(call[t], snap[t])]
<1> DEFINE listed == Listed(call[t], snap[t])
           rows == Lowest(call[t].limit + 1, listed)
           page == Lowest(call[t].limit, listed)
<1>1. call[t] \in StoreCalls /\ call[t].op = "list" /\ pc[t] = "rows"
  <2>1. pc[t] = "rows" /\ call[t].op = "list"
    BY DEF ReadPageRows, At
  <2>2. QED
    BY <2>1, InFlight DEF AInv
<1>2. call[t].limit \in Nat \ {0}
  BY <1>1, CallShape, PolicyAssumption
<1>3. listed \in SUBSET Nat /\ IsFiniteSet(listed)
  <2>1. listed \subseteq RoleIds
    BY DEF AInv, IInv, TypeOK, Policies, Listed
  <2>2. QED
    BY <2>1, PolicyAssumption, FS_Subset
<1>4. Lowest(call[t].limit, rows) = page /\ (Cardinality(rows) > call[t].limit <=> page # listed)
  BY <1>2, <1>3, LookingAhead
<1>5. (Cardinality(rows) > call[t].limit) = (page # listed)
  BY <1>4
<1>6. rev[t] = snap[t].revision
  BY <1>1 DEF AInv, AnswerStands
<1>7. result' = [result EXCEPT ![t] = DirectoryRolePage({RoleRow(snap[t], r) : r \in Lowest(call[t].limit, rows)},
                                        rev[t], Cardinality(rows) > call[t].limit)]
  BY DEF ReadPageRows, SetResult
<1>8. ReadAnswer(call[t], snap[t]) =
        DirectoryRolePage({RoleRow(snap[t], r) : r \in page}, snap[t].revision, page # listed)
  BY <1>1 DEF ReadAnswer
<1> HIDE DEF listed, rows, page
<1>9. QED
  BY <1>4, <1>5, <1>6, <1>7, <1>8

LEMMA ReadPromised ==
  ASSUME AInv, NEW t \in Slots, Read(t)
  PROVE  Promised(t)
<1>1. UNCHANGED <<db, call>> /\ Step(t) /\ IInv
  BY DEF Read, Step, Work, AInv
<1>2. "start" \in Undecided /\ {"check", "get", "list"} = ReadOps
  BY DEF Undecided, ReadOps
<1>3. \A f \in DomainFailures : call[t].op = "check" => ~ Refused(call[t], Stored(t), f)
  BY DEF Refused, AdminOps, RoleOps
<1>4. CASE CheckPermission(t)
  <2>1. pc[t] = "start" /\ call[t].op = "check"
    BY <1>4 DEF CheckPermission, At
  <2>2. ReadAnswer(call[t], Stored(t)) =
          Decision(Allowed(Stored(t), call[t].subject, call[t].permission), Stored(t).revision)
    BY <2>1 DEF ReadAnswer
  <2>3. Goes(t, "called", "decided", ReadAnswer(call[t], Stored(t)))
    BY <1>1, <1>2, <1>4, <2>1, <2>2, DecisionSeen DEF CheckPermission, Reply
  <2>4. Accepted(call[t], Stored(t))
    BY <1>3, <2>1 DEF Accepted
  <2>5. QED
    BY <1>1, <1>2, <2>1, <2>3, <2>4, PromiseAnswer DEF Promised
<1>5. CASE GetRole(t)
  <2>1. pc[t] = "start" /\ call[t].op = "get"
    BY <1>5 DEF GetRole, At
  <2>2. CASE ~ Bootstrapped(Stored(t))
    <3>1. Refused(call[t], Stored(t), "ScopeNotBootstrapped")
      BY <2>1, <2>2 DEF Refused
    <3>2. QED
      BY <1>1, <1>2, <1>5, <2>1, <2>2, <3>1, RefusalPromised DEF GetRole, DomainFailures
  <2>3. CASE Bootstrapped(Stored(t)) /\ call[t].role \notin Stored(t).roles
    <3>1. Refused(call[t], Stored(t), "RoleNotFound")
      BY <2>1, <2>3 DEF Refused
    <3>2. QED
      BY <1>1, <1>2, <1>5, <2>1, <2>3, <3>1, RefusalPromised DEF GetRole, DomainFailures
  <2>4. CASE Bootstrapped(Stored(t)) /\ call[t].role \in Stored(t).roles
    <3>1. ReadAnswer(call[t], Stored(t)) =
            DirectoryRole(RoleRow(Stored(t), call[t].role), Stored(t).revision)
      BY <2>1 DEF ReadAnswer
    <3>2. Goes(t, "called", "decided", ReadAnswer(call[t], Stored(t)))
      BY <1>1, <1>2, <1>5, <2>1, <2>4, <3>1, DecisionSeen DEF GetRole, Reply
    <3>3. Accepted(call[t], Stored(t))
      BY <2>1, <2>4 DEF Accepted, Refused, AdminOps, RoleOps
    <3>4. QED
      BY <1>1, <1>2, <2>1, <3>2, <3>3, PromiseAnswer DEF Promised
  <2>5. QED
    BY <2>2, <2>3, <2>4
<1>6. CASE ReadPageRevision(t)
  <2>1. pc[t] = "start" /\ call[t].op = "list"
    BY <1>6 DEF ReadPageRevision, At
  <2>2. CASE ~ Bootstrapped(Stored(t))
    <3>1. Refused(call[t], Stored(t), "ScopeNotBootstrapped")
      BY <2>1, <2>2 DEF Refused
    <3>2. Reply(t, Failure("ScopeNotBootstrapped"))
      BY <1>6, <2>2 DEF ReadPageRevision, RefuseWith
    <3>3. QED
      BY <1>1, <1>2, <2>1, <3>1, <3>2, RefusalPromised DEF DomainFailures
  <2>3. CASE Bootstrapped(Stored(t))
    <3>1. pc'[t] = "rows" /\ snap'[t] = Stored(t) /\ call'[t] = call[t]
      BY <1>1, <1>6, <2>3 DEF ReadPageRevision, GoTo, IInv, TypeOK
    <3>2. /\ AbstractPhase(t) = "called" /\ AbstractPhase(t)' = "decided"
          /\ AbstractResult(t)' = ReadAnswer(call[t], Stored(t))
      BY <1>2, <2>1, <3>1, Phases, PhasesNext
    <3>3. Goes(t, "called", "decided", ReadAnswer(call[t], Stored(t)))
      BY <1>1, <3>2, OthersSeen DEF Goes
    <3>4. Accepted(call[t], Stored(t))
      BY <2>1, <2>3 DEF Accepted, Refused, AdminOps, RoleOps
    <3>5. QED
      BY <1>1, <1>2, <2>1, <3>3, <3>4, PromiseAnswer DEF Promised
  <2>4. QED
    BY <2>2, <2>3
<1>7. CASE ReadPageRows(t)
  <2>1. pc[t] = "rows" /\ pc'[t] = "commit"
    BY <1>1, <1>7 DEF ReadPageRows, At, GoTo, IInv, TypeOK
  <2>2. result'[t] = ReadAnswer(call[t], snap[t])
    BY <1>1, <1>7, RowsAnswer DEF IInv, TypeOK
  <2>3. AbstractPhase(t)' = AbstractPhase(t) /\ AbstractResult(t)' = AbstractResult(t)
    BY <2>1, <2>2, Phases, PhasesNext
  <2>4. QED
    BY <1>1, <2>3, OthersSeen, PromiseStutter DEF Promised
<1>8. QED
  BY <1>4, <1>5, <1>6, <1>7 DEF Read

-----------------------------------------------------------------------------
(* Mutations.                                                              *)

\* A mutation that is decided without a change.
LEMMA KeepPromised ==
  ASSUME IInv, NEW t \in Slots, Step(t), pc[t] \in Undecided, GoTo(t, "commit"),
         SetResult(t, Mutation(FALSE, rev[t])), UNCHANGED <<db, call>>,
         call[t].op \notin ReadOps, Accepted(call[t], Stored(t)),
         Effect(call[t], Stored(t)) = Stored(t), rev[t] = Stored(t).revision
  PROVE  Promised(t)
<1>1. Goes(t, "called", "decided", Mutation(FALSE, Stored(t).revision))
  BY DecisionSeen
<1>2. QED
  BY <1>1, PromiseKeep DEF Promised

\* Whether a bootstrap is refused, needless, lost or still open.
LEMMA BootstrapPromised ==
  ASSUME AInv, NEW t \in Slots, BootstrapScope(t)
  PROVE  Promised(t)
<1>1. UNCHANGED <<db, call>> /\ Step(t) /\ IInv
  BY DEF BootstrapScope, Step, Work, AInv
<1>2. /\ pc[t] \in {"start", "existing", "verify", "seed"} /\ call[t].op = "bootstrap"
      /\ pc[t] \in Undecided /\ pc[t] # "idle"
  BY DEF BootstrapScope, InsertScope, ReadExistingBootstrap, VerifyBootstrapPolicy,
         SeedBootstrap, At, Undecided, BootstrapSteps
<1>3. {"existing", "seed", "verify", "bump"} \subseteq Undecided
  BY DEF Undecided, BootstrapSteps
<1>4. /\ call[t] \in StoreCalls /\ Stored(t) \in Policies
      /\ DecisionStands(t) /\ FindingStands(t)
  BY <1>1, <1>2, InFlight
<1>5. CASE InsertScope(t) \/ SeedBootstrap(t)
  <2>1. pc'[t] \in Undecided /\ UNCHANGED result
    BY <1>1, <1>3, <1>5 DEF InsertScope, SeedBootstrap, Proceed, GoTo, IInv, TypeOK
  <2>2. QED
    BY <1>1, <1>2, <2>1, ProceedPromised
<1>6. CASE ReadExistingBootstrap(t)
  <2>1. CASE Stored(t).owner = call[t].subject /\ GoTo(t, "verify") /\ UNCHANGED result
    <3>1. pc'[t] \in Undecided
      BY <1>1, <1>3, <2>1 DEF GoTo, IInv, TypeOK
    <3>2. QED
      BY <1>1, <1>2, <2>1, <3>1, ProceedPromised
  <2>2. CASE Stored(t).owner # call[t].subject /\ RefuseWith(t, "ScopeAlreadyBootstrapped")
    <3>1. Stored(t).owner # NoSubject
      <4>1. pc[t] = "existing"
        BY <1>6 DEF ReadExistingBootstrap, At
      <4>2. QED
        BY <4>1 DEF AInv, AnswerStands, Bootstrapped
    <3>2. Refused(call[t], Stored(t), "ScopeAlreadyBootstrapped")
      BY <1>2, <2>2, <3>1 DEF Refused
    <3>3. QED
      BY <1>1, <1>2, <2>2, <3>2, RefusalPromised DEF RefuseWith, DomainFailures
  <2>3. QED
    BY <1>6, <2>1, <2>2 DEF ReadExistingBootstrap
<1>7. CASE VerifyBootstrapPolicy(t)
  <2>1. pc[t] = "verify"
    BY <1>7 DEF VerifyBootstrapPolicy, At
  <2>2. /\ Bootstrapped(Stored(t)) /\ rev[t] = Stored(t).revision
        /\ Stored(t).owner = call[t].subject
    BY <1>4, <2>1 DEF DecisionStands, FindingStands
  <2>3. CASE Reply(t, Unavailable)
    BY <1>1, <1>2, <2>3, LossPromised
  <2>4. CASE GoTo(t, "commit") /\ SetResult(t, Mutation(FALSE, rev[t]))
    <3>1. Effect(call[t], Stored(t)) = Stored(t)
      BY <1>2, <1>4, <2>2, Needless
    <3>2. Accepted(call[t], Stored(t)) /\ call[t].op \notin ReadOps
      BY <1>2, <2>2 DEF Accepted, Refused, AdminOps, RoleOps, ReadOps
    <3>3. QED
      BY <1>1, <1>2, <2>2, <2>4, <3>1, <3>2, KeepPromised
  <2>5. QED
    BY <1>7, <2>3, <2>4 DEF VerifyBootstrapPolicy
<1>8. QED
  BY <1>5, <1>6, <1>7 DEF BootstrapScope

\* An administration that finds nothing to change.
LEMMA UnchangedPromised ==
  ASSUME IInv, NEW t \in Slots, Step(t), pc[t] \in AdminSteps \ {"authorize"}, Unchanged(t),
         UNCHANGED <<db, call>>, Accepted(call[t], Stored(t)),
         Effect(call[t], Stored(t)) = Stored(t)
  PROVE  Promised(t)
<1>1. pc[t] \in Undecided /\ pc[t] # "idle"
  BY DEF Undecided, AdminSteps
<1>2. call[t].op \notin ReadOps
  BY PastAuthorize DEF AdminOps, RoleOps, ReadOps
<1>3. rev[t] = Stored(t).revision
  BY <1>1, InFlight DEF DecisionStands
<1>4. QED
  BY <1>1, <1>2, <1>3, KeepPromised DEF Unchanged

\* What an authorized administration of an existing role is accepted for.
LEMMA AcceptedRole ==
  ASSUME NEW c, NEW p, c.op \in {"set", "assign", "revoke"}, Authorized(c, p), c.role \in p.roles,
         c.op = "set" => c.role \notin p.protected,
         c.op = "revoke" => c.subject \notin Binders(p, c.role)
  PROVE  Accepted(c, p)
<1>1. c.op \in AdminOps /\ c.op \notin {"bootstrap", "create", "get", "list", "delete"} /\ Bootstrapped(p)
  BY DEF AdminOps, RoleOps, Authorized
<1>2. QED
  BY <1>1 DEF Accepted, Refused

\* One binding at most is the only binding.
LEMMA LastBinder ==
  ASSUME NEW p \in Policies, NEW r, NEW s \in Binders(p, r), Cardinality(Binders(p, r)) <= 1
  PROVE  Binders(p, r) = {s}
<1>1. IsFiniteSet(Binders(p, r))
  BY PolicyAssumption, FS_Subset DEF Binders
<1>2. Cardinality(Binders(p, r)) = 1
  <2>1. Cardinality(Binders(p, r)) \in Nat /\ Cardinality(Binders(p, r)) # 0
    BY <1>1, FS_CardinalityType, FS_EmptySet
  <2>2. QED
    BY <2>1
<1>3. QED
  BY <1>1, <1>2, FS_Singleton

LEMMA LockScopePromised ==
  ASSUME IInv, NEW t \in Slots, LockScope(t), UNCHANGED <<db, call>>, Step(t)
  PROVE  Promised(t)
<1>1. pc[t] = "start" /\ call[t].op \in AdminOps /\ pc[t] \in Undecided
  BY DEF LockScope, At, Undecided
<1>2. CASE ~ Bootstrapped(Stored(t)) /\ RefuseWith(t, "ScopeNotBootstrapped")
  <2>1. Refused(call[t], Stored(t), "ScopeNotBootstrapped")
    BY <1>1, <1>2 DEF Refused
  <2>2. QED
    BY <1>1, <1>2, <2>1, RefusalPromised DEF RefuseWith, DomainFailures
<1>3. CASE GoTo(t, "authorize") /\ UNCHANGED result
  <2>1. pc'[t] \in Undecided
    BY <1>3 DEF GoTo, IInv, TypeOK, Undecided, AdminSteps
  <2>2. QED
    BY <1>1, <1>3, <2>1, ProceedPromised
<1>4. QED
  BY <1>2, <1>3 DEF LockScope

\* A refusal of an administration past the lock on its scope.
LEMMA AdminRefusalPromised ==
  ASSUME IInv, NEW t \in Slots, Step(t), pc[t] \in AdminSteps, NEW f \in DomainFailures,
         Refused(call[t], Stored(t), f), RefuseWith(t, f), UNCHANGED <<db, call>>
  PROVE  Promised(t)
BY RefusalPromised DEF RefuseWith, Undecided

\* A statement of an administration that leads to another.
LEMMA AdminProceeds ==
  ASSUME IInv, NEW t \in Slots, Step(t), pc[t] \in AdminSteps,
         NEW k \in AdminSteps \cup {"bump"}, Proceed(t, k), UNCHANGED <<db, call>>
  PROVE  Promised(t)
<1>1. pc'[t] \in Undecided /\ pc[t] \in Undecided
  BY DEF Proceed, GoTo, IInv, TypeOK, Undecided
<1>2. QED
  BY <1>1, ProceedPromised DEF Proceed

LEMMA AdministerPromised ==
  ASSUME IInv, NEW t \in Slots, Administer(t)
  PROVE  Promised(t)
<1> DEFINE c == call[t]
           p == Stored(t)
<1>1. UNCHANGED <<db, call>> /\ Step(t)
  BY DEF Administer, Step, Work
<1>2. CASE LockScope(t)
  BY <1>1, <1>2, LockScopePromised
<1>3. ASSUME pc[t] \in AdminSteps
      PROVE  /\ p \in Policies /\ c \in StoreCalls /\ Bootstrapped(p) /\ FindingStands(t)
             /\ pc[t] # "authorize" => Authorized(c, p)
  BY <1>3, PastAuthorize DEF Authorized
<1>4. CASE Authorize(t)
  <2>1. pc[t] = "authorize" /\ pc[t] \in AdminSteps /\ c.op \in AdminOps
    BY <1>4 DEF Authorize, At, AdminSteps
  <2>2. CASE ~ Allowed(p, c.actor, Needed(c)) /\ RefuseWith(t, "Forbidden")
    <3>1. Refused(c, p, "Forbidden")
      BY <1>3, <2>1, <2>2 DEF Refused, Authorized
    <3>2. QED
      BY <1>1, <2>1, <2>2, <3>1, AdminRefusalPromised DEF DomainFailures
  <2>3. CASE Proceed(t, "create") \/ Proceed(t, "protection")
    BY <1>1, <2>1, <2>3, AdminProceeds DEF AdminSteps
  <2>4. QED
    BY <1>4, <2>2, <2>3 DEF Authorize
<1>5. CASE CreateRole(t)
  <2>1. pc[t] = "create" /\ pc[t] \in AdminSteps /\ c.op = "create"
    BY <1>5 DEF CreateRole, At, AdminSteps
  <2>2. CASE c.role \in p.roles /\ RefuseWith(t, "RoleAlreadyExists")
    <3>1. Refused(c, p, "RoleAlreadyExists")
      BY <1>3, <2>1, <2>2 DEF Refused
    <3>2. QED
      BY <1>1, <2>1, <2>2, <3>1, AdminRefusalPromised DEF DomainFailures
  <2>3. CASE Proceed(t, "bump")
    BY <1>1, <2>1, <2>3, AdminProceeds
  <2>4. QED
    BY <1>5, <2>2, <2>3 DEF CreateRole
<1>6. CASE ReadProtection(t)
  <2>1. pc[t] = "protection" /\ pc[t] \in AdminSteps /\ c.op \in RoleOps
    BY <1>6 DEF ReadProtection, At, AdminSteps
  <2>2. CASE c.role \notin p.roles /\ RefuseWith(t, "RoleNotFound")
    <3>1. Refused(c, p, "RoleNotFound")
      BY <1>3, <2>1, <2>2 DEF Refused
    <3>2. QED
      BY <1>1, <2>1, <2>2, <3>1, AdminRefusalPromised DEF DomainFailures
  <2>3. CASE /\ c.role \in p.roles \cap p.protected /\ c.op \in {"set", "delete"}
             /\ RefuseWith(t, "ProtectedRole")
    <3>1. Refused(c, p, "ProtectedRole")
      BY <1>3, <2>1, <2>3 DEF Refused
    <3>2. QED
      BY <1>1, <2>1, <2>3, <3>1, AdminRefusalPromised DEF DomainFailures
  <2>4. CASE Proceed(t, AfterProtection[c.op])
    <3>1. AfterProtection[c.op] \in AdminSteps \cup {"bump"}
      BY <2>1 DEF AfterProtection, RoleOps, AdminSteps
    <3>2. QED
      BY <1>1, <2>1, <2>4, <3>1, AdminProceeds
  <2>5. QED
    BY <1>6, <2>2, <2>3, <2>4 DEF ReadProtection
<1>7. CASE SetRolePermissions(t)
  <2>1. pc[t] = "compare" /\ pc[t] \in AdminSteps \ {"authorize"} /\ c.op = "set"
    BY <1>7 DEF SetRolePermissions, At, AdminSteps
  <2>2. CASE Grants(p, c.role) = c.permissions /\ Unchanged(t)
    <3>1. Effect(c, p) = p
      BY <1>3, <2>1, <2>2, Needless
    <3>2. Accepted(c, p)
      BY <1>3, <2>1, AcceptedRole DEF FindingStands
    <3>3. QED
      BY <1>1, <2>1, <2>2, <3>1, <3>2, UnchangedPromised
  <2>3. CASE Proceed(t, "bump")
    BY <1>1, <2>1, <2>3, AdminProceeds
  <2>4. QED
    BY <1>7, <2>2, <2>3 DEF SetRolePermissions
<1>8. CASE AssignRole(t)
  <2>1. pc[t] = "bind" /\ pc[t] \in AdminSteps \ {"authorize"} /\ c.op = "assign"
    BY <1>8 DEF AssignRole, At, AdminSteps
  <2>2. CASE c.subject \in Binders(p, c.role) /\ Unchanged(t)
    <3>1. Effect(c, p) = p
      BY <1>3, <2>1, <2>2, Needless
    <3>2. Accepted(c, p)
      BY <1>3, <2>1, AcceptedRole DEF FindingStands
    <3>3. QED
      BY <1>1, <2>1, <2>2, <3>1, <3>2, UnchangedPromised
  <2>3. CASE Proceed(t, "bump")
    BY <1>1, <2>1, <2>3, AdminProceeds
  <2>4. QED
    BY <1>8, <2>2, <2>3 DEF AssignRole
<1>9. CASE ProbeBinding(t)
  <2>1. pc[t] = "probe" /\ pc[t] \in AdminSteps \ {"authorize"} /\ c.op = "revoke"
    BY <1>9 DEF ProbeBinding, At, AdminSteps
  <2>2. CASE c.subject \notin Binders(p, c.role) /\ Unchanged(t)
    <3>1. Effect(c, p) = p
      BY <1>3, <2>1, <2>2, Needless
    <3>2. Accepted(c, p)
      BY <1>3, <2>1, <2>2, AcceptedRole DEF FindingStands
    <3>3. QED
      BY <1>1, <2>1, <2>2, <3>1, <3>2, UnchangedPromised
  <2>3. CASE Proceed(t, "count") \/ Proceed(t, "bump")
    BY <1>1, <2>1, <2>3, AdminProceeds DEF AdminSteps
  <2>4. QED
    BY <1>9, <2>2, <2>3 DEF ProbeBinding
<1>10. CASE CountBindings(t)
  <2>1. pc[t] = "count" /\ pc[t] \in AdminSteps /\ c.op = "revoke"
    BY <1>10 DEF CountBindings, At, AdminSteps
  <2>2. CASE Cardinality(Binders(p, c.role)) <= 1 /\ RefuseWith(t, "ProtectedBinding")
    <3>1. c.role \in p.roles /\ c.role \in p.protected /\ c.subject \in Binders(p, c.role)
      BY <1>3, <2>1 DEF FindingStands
    <3>2. Binders(p, c.role) = {c.subject}
      BY <1>3, <2>1, <2>2, <3>1, LastBinder
    <3>3. Refused(c, p, "ProtectedBinding")
      BY <1>3, <2>1, <3>1, <3>2 DEF Refused
    <3>4. QED
      BY <1>1, <2>1, <2>2, <3>3, AdminRefusalPromised DEF DomainFailures
  <2>3. CASE Proceed(t, "bump")
    BY <1>1, <2>1, <2>3, AdminProceeds
  <2>4. QED
    BY <1>10, <2>2, <2>3 DEF CountBindings
<1>11. QED
  BY <1>2, <1>4, <1>5, <1>6, <1>7, <1>8, <1>9, <1>10 DEF Administer

-----------------------------------------------------------------------------
(* The end of a transaction.                                               *)

LEMMA BumpRevisionPromised ==
  ASSUME IInv, NEW t \in Slots, BumpRevision(t)
  PROVE  Promised(t)
<1>1. pc[t] = "bump" /\ pc[t] \in Undecided /\ UNCHANGED <<db, call>> /\ Step(t)
  BY DEF BumpRevision, Undecided, Step, Work
<1>2. CASE GoTo(t, "publish") /\ UNCHANGED result
  <2>1. pc'[t] \in Undecided
    BY <1>2 DEF GoTo, IInv, TypeOK, Undecided
  <2>2. QED
    BY <1>1, <1>2, <2>1, ProceedPromised
<1>3. CASE Reply(t, Unavailable)
  BY <1>1, <1>3, LossPromised
<1>4. QED
  BY <1>2, <1>3 DEF BumpRevision

\* A change is in force from its COMMIT on, answered or not.
LEMMA CommitPromised ==
  ASSUME AInv, NEW t \in Slots, CommitChange(t) \/ CommitLate(t)
  PROVE  Promised(t)
<1>1. IInv /\ Step(t) /\ UNCHANGED call /\ Publish(t) /\ pc[t] \in {"publish", "doubt"}
  BY DEF AInv, Step, Work, CommitChange, CommitLate, Proceed
<1>2. Changes(call[t], Stored(t)) /\ db' = [db EXCEPT ![Scope(t)] = Advance(call[t], Stored(t))]
  BY <1>1, PublishAdvances
<1>3. CASE CommitChange(t)
  <2>1. pc[t] = "publish" /\ pc[t] \in Undecided /\ pc[t] \in Holding
    BY <1>3 DEF CommitChange, Undecided, Holding
  <2>2. rev[t] = Stored(t).revision + 1
    BY <1>1, <2>1, InFlight DEF DecisionStands
  <2>3. Goes(t, "called", "decided", Mutation(TRUE, Stored(t).revision + 1))
    BY <1>1, <1>3, <2>1, <2>2, DecisionSeen DEF CommitChange
  <2>4. QED
    BY <1>1, <1>2, <2>3, PromiseChange DEF Promised
<1>4. CASE CommitLate(t)
  <2>1. pc[t] = "doubt" /\ pc'[t] = "done" /\ result' = result
    BY <1>1, <1>4 DEF CommitLate, Proceed, GoTo, IInv, TypeOK
  <2>2. result'[t] = Unavailable
    BY <2>1 DEF AInv, AnswerStands
  <2>3. Goes(t, "doubt", "decided", Unavailable)
    BY <1>1, <2>1, <2>2, Phases, PhasesNext, OthersSeen DEF Goes
  <2>4. QED
    BY <1>1, <1>2, <2>3, PromiseLateChange DEF Promised
<1>5. QED
  BY <1>3, <1>4

\* The answer is on its way.
LEMMA EndPromised ==
  ASSUME IInv, NEW t \in Slots, CommitUnchanged(t) \/ Acknowledge(t)
  PROVE  Promised(t)
<1>1. /\ Step(t) /\ UNCHANGED <<db, call, result>>
      /\ pc[t] \in {"commit", "committed"} /\ pc'[t] \in {"committed", "done"}
  BY DEF Step, Work, CommitUnchanged, Acknowledge, Proceed, GoTo, IInv, TypeOK
<1>2. AbstractPhase(t)' = AbstractPhase(t) /\ AbstractResult(t)' = AbstractResult(t)
  BY <1>1, Phases, PhasesNext
<1>3. QED
  BY <1>1, <1>2, OthersSeen, PromiseStutter DEF Promised

\* A failure leaves a call without effect, or its COMMIT in doubt.
LEMMA FailPromised ==
  ASSUME IInv, NEW t \in Slots, Fail(t)
  PROVE  Promised(t)
<1>1. /\ Step(t) /\ UNCHANGED <<db, call>> /\ pc[t] \in Running /\ result'[t] = Unavailable
      /\ pc'[t] = IF pc[t] = "publish" THEN "doubt" ELSE "done"
  BY DEF Step, Fail, SetResult, GoTo, IInv, TypeOK
<1>2. CASE pc[t] = "publish"
  <2>1. Goes(t, "called", "doubt", Unavailable)
    BY <1>1, <1>2, Phases, PhasesNext, OthersSeen DEF Goes, Undecided
  <2>2. QED
    BY <1>1, <2>1, PromiseDoubt DEF Promised
<1>3. CASE pc[t] # "publish"
  <2>1. PICK from \in {"called", "decided"} : AbstractPhase(t) = from
    BY <1>1, Phases DEF Running, Undecided
  <2>2. Goes(t, from, "decided", Unavailable)
    BY <1>1, <1>3, <2>1, PhasesNext, OthersSeen DEF Goes
  <2>3. QED
    BY <1>1, <2>2, PromiseLose DEF Promised
<1>4. QED
  BY <1>2, <1>3

LEMMA ReleasePromised ==
  ASSUME IInv, NEW t \in Slots, Release(t)
  PROVE  Promised(t)
<1>1. /\ Step(t) /\ pc[t] \in {"done", "doubt"} /\ pc'[t] = "idle" /\ result'[t] = NoResult
      /\ UNCHANGED db /\ call' = [call EXCEPT ![t] = NoCall]
  BY DEF Step, Release, SetResult, GoTo, IInv, TypeOK
<1>2. PICK from \in {"decided", "doubt"} : AbstractPhase(t) = from
  BY <1>1, Phases
<1>3. Goes(t, from, "idle", NoResult)
  BY <1>1, <1>2, PhasesNext, OthersSeen DEF Goes
<1>4. QED
  BY <1>1, <1>3, PromiseReturn DEF Promised

LEMMA StepPromised ==
  ASSUME AInv, NEW t \in Slots, Step(t)
  PROVE  Promised(t)
<1>1. IInv
  BY DEF AInv
<1>2. CASE \E c \in Calls : Begin(t, c)
  BY <1>1, <1>2, BeginPromised
<1>3. QED
  BY <1>1, <1>2, ReadPromised, BootstrapPromised, AdministerPromised, BumpRevisionPromised,
     CommitPromised, EndPromised, FailPromised, ReleasePromised DEF Step, Work

\* The PostgreSQL store keeps the promise of the Store trait (core/src/storage.rs): though
\* its calls run statement by statement next to each other, wait for locks, fail, are
\* cancelled or commit late, each authorizes and takes effect at one instant, and is
\* answered truthfully or told that the store is unavailable.
THEOREM PostgresImplements == Spec => Implements
<1>1. AInv /\ [Next]_vars => [Promise!Next]_(Promise!vars)
  <2> SUFFICES ASSUME AInv, [Next]_vars PROVE Promise!Next \/ UNCHANGED Promise!vars
    OBVIOUS
  <2>1. CASE Next
    <3>1. PICK t \in Slots : Step(t)
      BY <2>1 DEF Next
    <3>2. Promised(t)
      BY <3>1, StepPromised
    <3>3. QED
      BY <3>2 DEF Promised, Promise!Next
  <2>2. CASE UNCHANGED vars
    <3>1. /\ UNCHANGED <<db, call>>
          /\ \A u \in Slots : AbstractPhase(u)' = AbstractPhase(u) /\ AbstractResult(u)' = AbstractResult(u)
      BY <2>2 DEF vars, AbstractPhase, AbstractResult
    <3>2. QED
      BY <3>1, PromiseStutter
  <2>3. QED
    BY <2>1, <2>2
<1>2. QED
  BY <1>1, PromiseInit, SpecAInv, PTL DEF Spec, Implements, Promise!Spec

-----------------------------------------------------------------------------
(* What AccessStore promises of its answers and revisions, kept by the     *)
(* store: its properties, with the policies, phases and answers that the   *)
(* statements stand for.                                                   *)

\* The answer of a decided call is true of the stored policy, as far as it names its
\* revision: in particular no answer names a revision that is not reached yet.
AnswerIsTrue(t) ==
  AbstractPhase(t) = "decided" => TrueOf(call[t], AbstractResult(t), Stored(t))

TInv == AInv /\ \A t \in Slots : AnswerIsTrue(t)

\* A step leaves the policies alone or advances that of its own scope by a change.
LEMMA StepWrites ==
  ASSUME IInv, NEW t \in Slots, Step(t), db' # db
  PROVE  /\ call[t] \in StoreCalls /\ Scope(t) \in Scopes
         /\ Stored(t) \in Policies /\ RowsBelong(Stored(t)) /\ Changes(call[t], Stored(t))
         /\ db' = [db EXCEPT ![Scope(t)] = Advance(call[t], Stored(t))]
<1>1. pc[t] \in {"publish", "doubt"} /\ Publish(t)
  BY OnlyCommitsWrite
<1>2. QED
  BY <1>1, InFlight, PublishAdvances

\* A call that has an answer is in flight.
LEMMA DecidedInFlight ==
  ASSUME IInv, NEW t \in Slots, AbstractPhase(t) \in {"called", "decided", "doubt"}
  PROVE  /\ call[t] \in StoreCalls /\ Scope(t) \in Scopes
         /\ Stored(t) \in Policies /\ RowsBelong(Stored(t))
BY InFlight DEF AbstractPhase

\* What others change makes no answer untrue.
LEMMA OthersStayTrue ==
  ASSUME TInv, NEW t \in Slots, Step(t), NEW u \in Slots \ {t}
  PROVE  AnswerIsTrue(u)'
<1>1. IInv
  BY DEF TInv, AInv
<1>2. /\ AbstractPhase(u)' = AbstractPhase(u) /\ AbstractResult(u)' = AbstractResult(u)
      /\ call'[u] = call[u]
  BY <1>1, OthersSeen, OthersUntouched
<1>3. SUFFICES ASSUME AbstractPhase(u) = "decided"
               PROVE  TrueOf(call[u], AbstractResult(u), db'[Scope(u)])
  BY <1>2 DEF AnswerIsTrue, Stored, Scope
<1>4. TrueOf(call[u], AbstractResult(u), Stored(u))
  BY <1>3 DEF TInv, AnswerIsTrue
<1>5. call[u] \in StoreCalls /\ Scope(u) \in Scopes /\ Stored(u) \in Policies
  BY <1>1, <1>3, DecidedInFlight
<1>6. CASE db'[Scope(u)] = db[Scope(u)]
  BY <1>4, <1>6 DEF Stored
<1>7. CASE db'[Scope(u)] # db[Scope(u)]
  <2>1. /\ call[t] \in StoreCalls /\ Scope(t) \in Scopes /\ Changes(call[t], Stored(t))
        /\ db' = [db EXCEPT ![Scope(t)] = Advance(call[t], Stored(t))]
    BY <1>1, <1>7, StepWrites
  <2>2. Stored(t) = Stored(u) /\ db'[Scope(u)] = Advance(call[t], Stored(u))
    BY <1>1, <1>5, <1>7, <2>1 DEF IInv, TypeOK, Stored
  <2>3. QED
    BY <1>4, <1>5, <2>1, <2>2, StaysTrue
<1>8. QED
  BY <1>6, <1>7

\* A call is answered with what is true when it takes effect.
LEMMA OwnAnswerIsTrue ==
  ASSUME TInv, NEW t \in Slots, Step(t)
  PROVE  AnswerIsTrue(t)'
<1> DEFINE c == call[t]
           p == Stored(t)
           Phase == [u \in Slots |-> AbstractPhase(u)]
           Result == [u \in Slots |-> AbstractResult(u)]
<1>1. IInv /\ AInv /\ IInv'
  BY StepKeepsIInv DEF TInv, AInv
<1>2. Promise!Step(t) \/ UNCHANGED Promise!vars
  BY <1>1, StepPromised DEF Promised
<1>3. SUFFICES ASSUME AbstractPhase(t)' = "decided"
               PROVE  TrueOf(call'[t], AbstractResult(t)', Stored(t)')
  BY DEF AnswerIsTrue
<1>4. call'[t] \in StoreCalls /\ Stored(t)' \in Policies
  <2>1. pc'[t] # "idle"
    BY <1>3 DEF AbstractPhase
  <2>2. call'[t] \in Calls /\ db' \in [Scopes -> Policies]
    BY <1>1, <2>1 DEF IInv, TypeOK, Stands, OperationFits
  <2>3. QED
    BY <2>2, CallShape, SlotsAssumption DEF Stored, Scope
<1>5. AbstractPhase(t) \in {"called", "decided", "doubt"} =>
        c \in StoreCalls /\ p \in Policies /\ RowsBelong(p)
  BY <1>1, DecidedInFlight
<1>6. CASE UNCHANGED Promise!vars
  <2>1. Phase' = Phase /\ Result' = Result /\ call' = call /\ db' = db
    BY <1>6 DEF Promise!vars
  <2>2. AbstractPhase(t)' = AbstractPhase(t) /\ AbstractResult(t)' = AbstractResult(t)
    BY <2>1
  <2>3. QED
    BY <1>3, <2>1, <2>2 DEF TInv, AnswerIsTrue, Stored, Scope
<1>7. ASSUME NEW from, NEW r, Promise!Decide(t, from, r)
      PROVE  AbstractPhase(t) = from /\ AbstractResult(t)' = r /\ call' = call
  <2>1. Phase[t] = from /\ Result' = [Result EXCEPT ![t] = r] /\ call' = call
    BY <1>7 DEF Promise!Decide
  <2>2. QED
    BY <2>1
<1>8. ASSUME NEW d \in Calls, Promise!Start(t, d) PROVE FALSE
  <2>1. Phase' = [Phase EXCEPT ![t] = "called"]
    BY <1>8 DEF Promise!Start
  <2>2. QED
    BY <1>3, <2>1
<1>9. CASE Promise!Refuse(t)
  <2>1. PICK f \in DomainFailures : Promise!Decide(t, "called", Failure(f))
    BY <1>9, SameRefusals, SameAnswers DEF Promise!Refuse
  <2>2. AbstractPhase(t) = "called" /\ AbstractResult(t)' = Failure(f) /\ call' = call
    BY <1>7, <2>1
  <2>3. QED
    BY <1>4, <1>5, <2>2, AnswersAreTrue
<1>10. CASE Promise!Answer(t)
  <2>1. /\ c.op \in ReadOps /\ db' = db
        /\ Promise!Decide(t, "called", ReadAnswer(c, p))
    BY <1>10, SameRefusals, SameAnswers DEF Promise!Answer, Stored, Scope
  <2>2. AbstractPhase(t) = "called" /\ AbstractResult(t)' = ReadAnswer(c, p) /\ call' = call
    BY <1>7, <2>1
  <2>3. QED
    BY <1>5, <2>1, <2>2, AnswersAreTrue DEF Stored, Scope
<1>11. CASE Promise!Keep(t)
  <2>1. /\ c.op \notin ReadOps /\ db' = db /\ Effect(c, p) = p
        /\ Promise!Decide(t, "called", Mutation(FALSE, p.revision))
    BY <1>11, SameRefusals, SameAnswers, SameEffects DEF Promise!Keep, Stored, Scope
  <2>2. AbstractPhase(t) = "called" /\ AbstractResult(t)' = Mutation(FALSE, p.revision) /\ call' = call
    BY <1>7, <2>1
  <2>3. QED
    BY <1>5, <2>1, <2>2, AnswersAreTrue DEF Stored, Scope
<1>12. CASE Promise!Change(t)
  <2>1. /\ Changes(c, p) /\ db' = [db EXCEPT ![Scope(t)] = Advance(c, p)]
        /\ Promise!Decide(t, "called", Mutation(TRUE, p.revision + 1))
    BY <1>12, SameAnswers, SameEffects DEF Promise!Change, Stored, Scope
  <2>2. /\ AbstractPhase(t) = "called" /\ AbstractResult(t)' = Mutation(TRUE, p.revision + 1)
        /\ call' = call
    BY <1>7, <2>1
  <2>3. Scope(t) \in Scopes
    BY <1>1, <2>2, DecidedInFlight
  <2>4. Stored(t)' = Advance(c, p)
    BY <1>1, <2>1, <2>2, <2>3 DEF Stored, Scope, IInv, TypeOK
  <2>5. QED
    BY <1>5, <2>1, <2>2, <2>4, AnswersAreTrue
<1>13. CASE Promise!Lose(t) \/ Promise!LateChange(t)
  <2>1. PICK from \in {"called", "decided", "doubt"} : Promise!Decide(t, from, Unavailable)
    BY <1>13, SameAnswers DEF Promise!Lose, Promise!LateChange
  <2>2. AbstractPhase(t) = from /\ AbstractResult(t)' = Unavailable /\ call' = call
    BY <1>7, <2>1
  <2>3. QED
    BY <1>4, <1>5, <2>2, AnswersAreTrue
<1>14. CASE Promise!Doubt(t) \/ Promise!Return(t)
  <2>1. Phase' = [Phase EXCEPT ![t] = "doubt"] \/ Phase' = [Phase EXCEPT ![t] = "idle"]
    BY <1>14 DEF Promise!Doubt, Promise!Return
  <2>2. QED
    BY <1>3, <2>1
<1>15. QED
  BY <1>2, <1>6, <1>8, <1>9, <1>10, <1>11, <1>12, <1>13, <1>14 DEF Promise!Step

LEMMA NextTInv == TInv /\ [Next]_vars => TInv'
<1> SUFFICES ASSUME TInv, [Next]_vars PROVE TInv'
  OBVIOUS
<1>1. AInv'
  BY NextAInv DEF TInv
<1>2. CASE Next
  <2>1. PICK t \in Slots : Step(t)
    BY <1>2 DEF Next
  <2>2. QED
    BY <1>1, <2>1, OthersStayTrue, OwnAnswerIsTrue DEF TInv
<1>3. CASE UNCHANGED vars
  BY <1>1, <1>3 DEF TInv, AnswerIsTrue, AbstractPhase, AbstractResult, Stored, Scope, vars
<1>4. QED
  BY <1>2, <1>3

LEMMA SpecTInv == Spec => []TInv
<1>1. Init => TInv
  BY InitIInv DEF TInv, AInv, Init, AnswerStands, AnswerIsTrue, AbstractPhase
<1>2. QED
  BY <1>1, NextTInv, PTL DEF Spec

\* A revision of the PostgreSQL store names one policy, statement by statement: as long
\* as a scope is at the revision an answer names (policy_revision), a read is still
\* answered the same, a listing of two statements too, and an acknowledged mutation is
\* in force.
THEOREM PostgresAnswersHold == Spec => []Promise!AnswersHoldAtTheirRevision
<1>1. TInv => Promise!AnswersHoldAtTheirRevision
  <2> SUFFICES ASSUME TInv, NEW t \in Slots, AbstractPhase(t) = "decided"
               PROVE  Promise!HoldsAtItsRevision(call[t], AbstractResult(t), Stored(t))
    BY DEF Promise!AnswersHoldAtTheirRevision, Stored, Scope
  <2>1. TrueOf(call[t], AbstractResult(t), Stored(t))
    BY DEF TInv, AnswerIsTrue
  <2>2. Promise!Versioned = Versioned
    BY DEF Promise!Versioned, Versioned, Promise!RoleRows, RoleRows
  <2>3. QED
    BY <2>1, <2>2, SameRefusals, SameAnswers, SameEffects DEF Promise!HoldsAtItsRevision, TrueOf
<1>2. QED
  BY <1>1, SpecTInv, PTL

\* The policy_revision of the PostgreSQL store counts changes: no transaction, also one
\* that commits late, changes rows without advancing it by one, or advances it without
\* changing a row, or changes the subject a scope was bootstrapped for.
THEOREM PostgresRevisionCounts == Spec => Promise!RevisionCountsChanges
<1>1. ASSUME IInv, [Next]_vars
      PROVE  [\A s \in Scopes : Promise!Counted(db[s], db'[s])]_(Promise!vars)
  <2>1. SUFFICES ASSUME NEW s \in Scopes, db'[s] # db[s]
                 PROVE  Promise!Counted(db[s], db'[s])
    BY DEF Promise!Counted
  <2>2. PICK t \in Slots : Step(t)
    BY <1>1, <2>1 DEF Next, vars
  <2>3. /\ call[t] \in StoreCalls /\ Scope(t) \in Scopes
        /\ Stored(t) \in Policies /\ RowsBelong(Stored(t)) /\ Changes(call[t], Stored(t))
        /\ db' = [db EXCEPT ![Scope(t)] = Advance(call[t], Stored(t))]
    BY <1>1, <2>1, <2>2, StepWrites
  <2>4. Stored(t) = db[s] /\ db'[s] = Advance(call[t], db[s])
    BY <1>1, <2>1, <2>3 DEF IInv, TypeOK, Stored
  <2>5. QED
    BY <2>3, <2>4, AdvanceCounts DEF Promise!Counted
<1>2. QED
  BY <1>1, SpecIInv, PTL DEF Spec, Promise!RevisionCountsChanges
=============================================================================
