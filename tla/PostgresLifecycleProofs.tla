----------------------- MODULE PostgresLifecycleProofs -----------------------
(***************************************************************************)
(* Proofs about PostgresLifecycle: a plugin that comes and goes uses the   *)
(* store as PostgresStore says, and only while it serves.                  *)
(***************************************************************************)
EXTENDS PostgresLifecycle, PostgresStoreProofs

Stages == {"new", "resolving", "preparing", "active", "stopping", "stopped", "failed"}

\* Whoever waits for a connection waits with a call, and a pool exists only for a schema
\* that was verified.
LifeStands ==
  /\ waiting \in [Handlers -> Calls \cup {NoCall}]
  /\ stage \in Stages /\ schema \in BOOLEAN
  /\ stage \in {"active", "stopping"} => schema

LInv == IInv /\ LifeStands /\ CallsRunOnlyWhileServing

LEMMA InitLInv == LifeInit => LInv
<1> SUFFICES ASSUME LifeInit PROVE LInv
  OBVIOUS
<1>1. IInv
  BY InitIInv DEF LifeInit
<1>2. LifeStands
  BY DEF LifeInit, LifeStands, Stages
<1>3. CallsRunOnlyWhileServing
  BY OwnAssumption DEF LifeInit, Init, CallsRunOnlyWhileServing, Running, AdminSteps, BootstrapSteps
<1>4. QED
  BY <1>1, <1>2, <1>3 DEF LInv

-----------------------------------------------------------------------------
(* The three kinds of steps.                                               *)

\* A step of the lifecycle leaves the store alone, and ends the service only when no
\* call of this instance runs.
LEMMA LifecycleKeepsLInv ==
  ASSUME LInv, Lifecycle
  PROVE  LInv' /\ UNCHANGED vars
<1>1. UNCHANGED vars
  BY DEF Lifecycle, Setup, Activate, ProviderAnswers, ResolveSecret, Deadline, Prepare, Deactivate,
         PoolCloses, GoOn
<1>2. IInv'
  BY <1>1, NextIInv DEF LInv
<1>3. LifeStands'
  BY DEF LInv, LifeStands, Stages, Lifecycle, Setup, Activate, ProviderAnswers, ResolveSecret,
         Deadline, Prepare, Deactivate, PoolCloses, GoOn
<1>4. \/ schema' = schema /\ stage' = stage
      \/ schema' = TRUE /\ stage' = stage
      \/ schema' = schema /\ stage \notin {"active", "stopping"}
      \/ schema' = schema /\ stage' = "stopping"
      \/ \A t \in Own : pc[t] \in {"idle", "doubt"}
  BY DEF Lifecycle, Setup, Activate, ProviderAnswers, ResolveSecret, Deadline, Prepare, Deactivate,
         PoolCloses, GoOn
<1>5. CallsRunOnlyWhileServing'
  BY <1>1, <1>4 DEF LInv, CallsRunOnlyWhileServing, vars, Running, AdminSteps, BootstrapSteps
<1>6. QED
  BY <1>1, <1>2, <1>3, <1>5 DEF LInv

\* A handler begins a call only while the pool is open.
LEMMA HandlerKeepsLInv ==
  ASSUME LInv, NEW h \in Handlers, HandlerStep(h)
  PROVE  LInv' /\ (Next \/ UNCHANGED vars)
<1>1. LifeStands'
  BY DEF LInv, LifeStands, HandlerStep, Call, Acquire, TurnAway, GiveUp, Free
<1>2. CASE UNCHANGED <<vars, stage, schema>>
  <2>1. IInv'
    BY <1>2, NextIInv DEF LInv
  <2>2. CallsRunOnlyWhileServing'
    BY <1>2 DEF LInv, CallsRunOnlyWhileServing, vars
  <2>3. QED
    BY <1>1, <1>2, <2>1, <2>2 DEF LInv
<1>3. CASE Acquire(h)
  <2>1. waiting[h] \in Calls /\ stage = "active" /\ stage' = stage /\ schema' = schema /\ schema
    BY <1>3 DEF LInv, LifeStands, Acquire, Free
  <2>2. PICK t \in Own : Begin(t, waiting[h])
    BY <1>3 DEF Acquire
  <2>3. Next
    BY <2>1, <2>2, OwnAssumption DEF Next, Step
  <2>4. IInv'
    BY <2>3, NextIInv DEF LInv
  <2>5. CallsRunOnlyWhileServing'
    BY <2>1 DEF CallsRunOnlyWhileServing
  <2>6. QED
    BY <1>1, <2>3, <2>4, <2>5 DEF LInv
<1>4. QED
  BY <1>2, <1>3 DEF HandlerStep, Call, TurnAway, GiveUp, Free

\* What a transaction does by itself it does while it runs.
LEMMA OnlyTheRunningWork ==
  ASSUME NEW t \in Slots, Work(t) \/ Fail(t)
  PROVE  pc[t] \in Running
<1>1. CASE Read(t)
  BY <1>1 DEF Read, CheckPermission, GetRole, ReadPageRevision, ReadPageRows, At, Running
<1>2. CASE BootstrapScope(t)
  BY <1>2 DEF BootstrapScope, InsertScope, ReadExistingBootstrap, VerifyBootstrapPolicy,
              SeedBootstrap, At, Running, BootstrapSteps
<1>3. CASE Administer(t)
  BY <1>3 DEF Administer, LockScope, Authorize, CreateRole, ReadProtection, SetRolePermissions,
              AssignRole, ProbeBinding, CountBindings, At, Running, AdminSteps
<1>4. CASE BumpRevision(t) \/ CommitChange(t) \/ CommitUnchanged(t) \/ Acknowledge(t) \/ Fail(t)
  BY <1>4 DEF BumpRevision, CommitChange, CommitUnchanged, Acknowledge, Fail, Running
<1>5. QED
  BY <1>1, <1>2, <1>3, <1>4 DEF Work

\* No call begins by itself.
LEMMA SlotKeepsLInv ==
  ASSUME LInv, NEW t \in Slots, SlotStep(t)
  PROVE  LInv' /\ Next
<1>1. Step(t) /\ UNCHANGED lifeVars
  BY DEF SlotStep, CallElsewhere, Step
<1>2. Next /\ IInv'
  BY <1>1, NextIInv DEF Next, LInv
<1>3. LifeStands'
  BY <1>1 DEF LInv, LifeStands, lifeVars
<1>4. \A u \in Slots \ {t} : pc'[u] = pc[u]
  BY <1>1, OthersUntouched DEF LInv
<1>5. t \in Own /\ pc'[t] \in Running => pc[t] \in Running
  <2>1. CASE Work(t) \/ Fail(t)
    BY <2>1, OnlyTheRunningWork
  <2>2. CASE CommitLate(t) \/ Release(t)
    BY <2>2 DEF CommitLate, Release, Proceed, GoTo, LInv, IInv, TypeOK, Running, AdminSteps, BootstrapSteps
  <2>3. QED
    BY <2>1, <2>2 DEF SlotStep
<1>6. CallsRunOnlyWhileServing'
  BY <1>1, <1>4, <1>5, OwnAssumption DEF LInv, CallsRunOnlyWhileServing, lifeVars
<1>7. QED
  BY <1>2, <1>3, <1>6 DEF LInv

LEMMA NextLInv == LInv /\ [LifeNext]_<<vars, lifeVars>> => LInv' /\ [Next]_vars
<1> SUFFICES ASSUME LInv, [LifeNext]_<<vars, lifeVars>> PROVE LInv' /\ (Next \/ UNCHANGED vars)
  OBVIOUS
<1>1. CASE LifeNext
  BY <1>1, LifecycleKeepsLInv, HandlerKeepsLInv, SlotKeepsLInv DEF LifeNext
<1>2. CASE UNCHANGED <<vars, lifeVars>>
  <2>1. IInv'
    BY <1>2, NextIInv DEF LInv
  <2>2. LifeStands' /\ CallsRunOnlyWhileServing'
    BY <1>2 DEF LInv, LifeStands, CallsRunOnlyWhileServing, vars, lifeVars
  <2>3. QED
    BY <1>2, <2>1, <2>2 DEF LInv
<1>3. QED
  BY <1>1, <1>2

LEMMA LifeSpecLInv == LifeSpec => []LInv
BY InitLInv, NextLInv, PTL DEF LifeSpec

-----------------------------------------------------------------------------
\* A call runs on a connection of this instance only between a verified schema and the
\* end of the deactivation, however late the provider of the secret answers and whoever
\* still holds a clone of the pool (postgres-plugin/src/lib.rs, activate and deactivate).
THEOREM PostgresCallsRunOnlyWhileServing == LifeSpec => []CallsRunOnlyWhileServing
<1>1. LInv => CallsRunOnlyWhileServing
  BY DEF LInv
<1>2. QED
  BY <1>1, LifeSpecLInv, PTL

\* Whatever becomes of the instance and whatever other processes do, its database sees a
\* behaviour of PostgresStore: all that is proved of the store is true of a plugin that is
\* activated, deactivated, cancelled and run beside others.
THEOREM PostgresLifeIsAStore == LifeSpec => Spec
<1>1. LifeInit => Init
  BY DEF LifeInit
<1>2. QED
  BY <1>1, InitLInv, NextLInv, PTL DEF LifeSpec, Spec

\* In particular it keeps the promise of the Store trait.
THEOREM PostgresLifeImplements == LifeSpec => Implements
BY PostgresLifeIsAStore, PostgresImplements, PTL

\* And what is proved of the store holds of the plugin: at every time of its life each
\* committed policy is whole and keeps an administrator, and an answer stays true at the
\* revision it names.
THEOREM PostgresLifeKeepsPolicies ==
  LifeSpec => [](PoliciesSound /\ Promise!AnswersHoldAtTheirRevision)
BY PostgresLifeIsAStore, PostgresPoliciesSound, PostgresAnswersHold, PTL

\* A scope changes only in the name of an administrator, also when an activation is
\* cancelled, the pool is closed under a call, or another process writes.
THEOREM PostgresLifeOnlyAdministratorsChange == LifeSpec => OnlyAdministratorsChange
BY PostgresLifeIsAStore, PostgresOnlyAdministratorsChange, PTL
=============================================================================
