---------------------------- MODULE PostgresStore ----------------------------
(***************************************************************************)
(* The PostgreSQL store (postgres-plugin/src/storage.rs), one step per SQL *)
(* statement.  A slot is a call and the pooled connection it runs on.      *)
(*                                                                         *)
(* The database runs transactions READ COMMITTED: a statement reads what   *)
(* is committed when it starts.  Listings alone run REPEATABLE READ, on    *)
(* the snapshot their first statement takes.  No statement here reads a    *)
(* row that its own transaction wrote before, so writes are applied when   *)
(* the transaction commits; what holds others back until then is the lock  *)
(* on the row of the scope in access_control_scopes.                       *)
(*                                                                         *)
(* A Transaction that is dropped is rolled back when the connection is     *)
(* used or returned next, after the call has answered: a call may be       *)
(* answered and still hold its lock.                                       *)
(***************************************************************************)
EXTENDS Policy

CONSTANTS
  Slots,     \* the calls in flight at once, each on a connection of the pool
  NoSlot,    \* the holder of a lock nobody holds
  Calls      \* the calls that are made

ASSUME SlotsAssumption == NoSlot \notin Slots /\ Calls \subseteq StoreCalls

VARIABLES
  db,        \* the committed policy of each scope
  lock,      \* the transaction that holds the row lock of each scope
  pc,        \* the statement each call runs next
  call,      \* the call in flight, per slot
  result,    \* its answer, per slot
  rev,       \* the revision a transaction has read or written, per slot
  snap       \* the snapshot a listing reads, per slot

vars == <<db, lock, pc, call, result, rev, snap>>

NoCall == [op |-> "none"]

\* Statements still to run, by the kind of transaction they belong to.
AdminSteps     == {"authorize", "protection", "compare", "bind", "probe", "count", "create"}
BootstrapSteps == {"existing", "verify", "seed"}
Running == {"start", "rows", "bump", "publish", "commit", "committed"} \cup AdminSteps \cup BootstrapSteps

\* "start" to "committed" a call runs; "done" it is answered; "doubt" it is answered
\* with an error while its COMMIT is under way.
TypeOK ==
  /\ db     \in [Scopes -> Policies]
  /\ lock   \in [Scopes -> Slots \cup {NoSlot}]
  /\ pc     \in [Slots -> Running \cup {"idle", "done", "doubt"}]
  /\ call   \in [Slots -> Calls \cup {NoCall}]
  /\ result \in [Slots -> Results]
  /\ rev    \in [Slots -> 0..MaxRevision]
  /\ snap   \in [Slots -> Policies]

Init ==
  /\ db     = [s \in Scopes |-> NoPolicy]
  /\ lock   = [s \in Scopes |-> NoSlot]
  /\ pc     = [t \in Slots |-> "idle"]
  /\ call   = [t \in Slots |-> NoCall]
  /\ result = [t \in Slots |-> NoResult]
  /\ rev    = [t \in Slots |-> 0]
  /\ snap   = [t \in Slots |-> NoPolicy]

-----------------------------------------------------------------------------
Scope(t)  == call[t].scope
Stored(t) == db[Scope(t)]          \* the committed policy a statement of t reads

At(t, step, ops) == pc[t] = step /\ call[t].op \in ops
GoTo(t, step)    == pc' = [pc EXCEPT ![t] = step]
SetResult(t, r)  == result' = [result EXCEPT ![t] = r]
Reply(t, r)      == GoTo(t, "done") /\ SetResult(t, r)

\* Returning early drops the transaction: its lock goes when the slot is released.
RefuseWith(t, f) == Reply(t, Failure(f)) /\ UNCHANGED <<rev, snap>>

Proceed(t, step) == GoTo(t, step) /\ UNCHANGED <<result, rev, snap>>

LockIsFree(t) == lock[Scope(t)] \in {NoSlot, t}
\* Mutant: permissions are replaced without FOR UPDATE.
TakeLockUnlessSet(t) ==
  IF call[t].op = "set" THEN UNCHANGED lock
  ELSE LockIsFree(t) /\ lock' = [lock EXCEPT ![Scope(t)] = t]
TakeLock(t)   == LockIsFree(t) /\ lock' = [lock EXCEPT ![Scope(t)] = t]
\* Mutant: the transaction is neither committed nor rolled back.
KeepLock(t)   == UNCHANGED lock
DropLock(t)   == lock' = [s \in Scopes |-> IF lock[s] = t THEN NoSlot ELSE lock[s]]

Begin(t, c) ==
  /\ pc[t] = "idle"
  /\ GoTo(t, "start")
  /\ call' = [call EXCEPT ![t] = c]
  /\ UNCHANGED <<db, lock, result, rev, snap>>

-----------------------------------------------------------------------------
(* Reads: one statement, or two on one snapshot.                           *)

CheckPermission(t) ==
  /\ At(t, "start", {"check"})
  /\ Reply(t, Decision(Allowed(Stored(t), call[t].subject, call[t].permission), Stored(t).revision))
  /\ UNCHANGED <<rev, snap>>

GetRole(t) ==
  /\ At(t, "start", {"get"})
  /\ Reply(t, IF ~ Bootstrapped(Stored(t)) THEN Failure("ScopeNotBootstrapped")
              ELSE IF call[t].role \notin Stored(t).roles THEN Failure("RoleNotFound")
              ELSE DirectoryRole(RoleRow(Stored(t), call[t].role), Stored(t).revision))
  /\ UNCHANGED <<rev, snap>>

\* The statement that reads the revision takes the snapshot of the transaction.
ReadPageRevision(t) ==
  /\ At(t, "start", {"list"})
  /\ \/ ~ Bootstrapped(Stored(t)) /\ RefuseWith(t, "ScopeNotBootstrapped")
     \/ /\ Bootstrapped(Stored(t))
        /\ GoTo(t, "rows")
        /\ rev'  = [rev EXCEPT ![t] = Stored(t).revision]
        /\ snap' = [snap EXCEPT ![t] = Stored(t)]
        /\ UNCHANGED result

\* Mutant: READ COMMITTED, so that the rows are those of a later policy.
ReadPageRowsCommitted(t) ==
  /\ At(t, "rows", {"list"})
  /\ LET rows == Lowest(call[t].limit + 1, Listed(call[t], Stored(t)))
     IN  SetResult(t, DirectoryRolePage(
                        {RoleRow(Stored(t), r) : r \in Lowest(call[t].limit, rows)},
                        rev[t], Cardinality(rows) > call[t].limit))
  /\ GoTo(t, "commit")
  /\ UNCHANGED <<rev, snap>>

\* One row more than the page holds is read: its presence is has_more.
ReadPageRows(t) ==
  /\ At(t, "rows", {"list"})
  /\ LET rows == Lowest(call[t].limit + 1, Listed(call[t], snap[t]))
     IN  SetResult(t, DirectoryRolePage(
                        {RoleRow(snap[t], r) : r \in Lowest(call[t].limit, rows)},
                        rev[t], Cardinality(rows) > call[t].limit))
  /\ GoTo(t, "commit")
  /\ UNCHANGED <<rev, snap>>

Read(t) ==
  /\ CheckPermission(t) \/ GetRole(t) \/ ReadPageRevision(t) \/ ReadPageRows(t)
  /\ UNCHANGED <<db, lock, call>>

-----------------------------------------------------------------------------
(* bootstrap_scope.                                                        *)

\* INSERT ... ON CONFLICT DO NOTHING waits for a transaction that has inserted the
\* same scope and not ended; a committed row is a conflict at once.
InsertScope(t) ==
  /\ At(t, "start", {"bootstrap"})
  /\ \/ Bootstrapped(Stored(t)) /\ Proceed(t, "existing") /\ UNCHANGED lock
     \/ ~ Bootstrapped(Stored(t)) /\ TakeLock(t) /\ Proceed(t, "seed")

\* Mutant: the owner of the existing scope is not compared.
ReadAnyBootstrap(t) ==
  /\ At(t, "existing", {"bootstrap"})
  /\ TakeLock(t)
  /\ GoTo(t, "verify")
  /\ rev' = [rev EXCEPT ![t] = Stored(t).revision]
  /\ UNCHANGED <<result, snap>>

ReadExistingBootstrap(t) ==
  /\ At(t, "existing", {"bootstrap"})
  /\ TakeLock(t)
  /\ \/ Stored(t).owner # call[t].subject /\ RefuseWith(t, "ScopeAlreadyBootstrapped")
     \/ /\ Stored(t).owner = call[t].subject
        /\ GoTo(t, "verify")
        /\ rev' = [rev EXCEPT ![t] = Stored(t).revision]
        /\ UNCHANGED <<result, snap>>

VerifyBootstrapPolicy(t) ==
  /\ At(t, "verify", {"bootstrap"})
  /\ IF BootstrapComplete(Stored(t))
     THEN GoTo(t, "commit") /\ SetResult(t, Mutation(FALSE, rev[t]))
     ELSE Reply(t, Unavailable)
  /\ UNCHANGED <<lock, rev, snap>>

\* The role, its two grants and its binding are inserted.
SeedBootstrap(t) ==
  At(t, "seed", {"bootstrap"}) /\ Proceed(t, "bump") /\ UNCHANGED lock

BootstrapScope(t) ==
  /\ InsertScope(t) \/ ReadExistingBootstrap(t) \/ VerifyBootstrapPolicy(t) \/ SeedBootstrap(t)
  /\ UNCHANGED <<db, call>>

-----------------------------------------------------------------------------
(* Administration: begin_authorized, the checks of the operation, its write. *)

\* Mutant: the scope row is read without a lock.
LockScopeByReading(t) ==
  /\ At(t, "start", AdminOps)
  /\ \/ ~ Bootstrapped(Stored(t)) /\ RefuseWith(t, "ScopeNotBootstrapped")
     \/ /\ Bootstrapped(Stored(t))
        /\ GoTo(t, "authorize")
        /\ rev' = [rev EXCEPT ![t] = Stored(t).revision]
        /\ UNCHANGED <<result, snap>>
  /\ UNCHANGED lock

\* SELECT ... FOR UPDATE waits for the lock, and for nothing if there is no row.
LockScope(t) ==
  /\ At(t, "start", AdminOps)
  /\ \/ ~ Bootstrapped(Stored(t)) /\ RefuseWith(t, "ScopeNotBootstrapped") /\ UNCHANGED lock
     \/ /\ Bootstrapped(Stored(t)) /\ TakeLock(t)
        /\ GoTo(t, "authorize")
        /\ rev' = [rev EXCEPT ![t] = Stored(t).revision]
        /\ UNCHANGED <<result, snap>>

Authorize(t) ==
  /\ At(t, "authorize", AdminOps)
  /\ IF Allowed(Stored(t), call[t].actor, Needed(call[t]))
     THEN Proceed(t, IF call[t].op = "create" THEN "create" ELSE "protection")
     ELSE RefuseWith(t, "Forbidden")
  /\ UNCHANGED lock

\* The operation found nothing to change and commits as it is.
Unchanged(t) ==
  /\ GoTo(t, "commit")
  /\ SetResult(t, Mutation(FALSE, rev[t]))
  /\ UNCHANGED <<rev, snap>>

CreateRole(t) ==
  /\ At(t, "create", {"create"})
  /\ \/ call[t].role \in Stored(t).roles /\ RefuseWith(t, "RoleAlreadyExists")
     \/ call[t].role \notin Stored(t).roles /\ Proceed(t, "bump")
  /\ UNCHANGED lock

\* role_protection, and what each operation does about it.
AfterProtection == [set |-> "compare", delete |-> "bump", assign |-> "bind", revoke |-> "probe"]

\* Mutant: the protection of the role is not looked at.
ReadExistence(t) ==
  /\ At(t, "protection", RoleOps)
  /\ \/ call[t].role \notin Stored(t).roles /\ RefuseWith(t, "RoleNotFound")
     \/ call[t].role \in Stored(t).roles /\ Proceed(t, AfterProtection[call[t].op])
  /\ UNCHANGED lock

ReadProtection(t) ==
  /\ At(t, "protection", RoleOps)
  /\ \/ call[t].role \notin Stored(t).roles /\ RefuseWith(t, "RoleNotFound")
     \/ /\ call[t].role \in Stored(t).roles \cap Stored(t).protected
        /\ call[t].op \in {"set", "delete"} /\ RefuseWith(t, "ProtectedRole")
     \/ /\ call[t].role \in Stored(t).roles
        /\ call[t].op \in {"set", "delete"} => call[t].role \notin Stored(t).protected
        /\ Proceed(t, AfterProtection[call[t].op])
  /\ UNCHANGED lock

SetRolePermissions(t) ==
  /\ At(t, "compare", {"set"})
  /\ \/ Grants(Stored(t), call[t].role) = call[t].permissions /\ Unchanged(t)
     \/ Grants(Stored(t), call[t].role) # call[t].permissions /\ Proceed(t, "bump")
  /\ UNCHANGED lock

\* Mutant: a binding that is there already is made again.
AssignRoleAgain(t) ==
  At(t, "bind", {"assign"}) /\ Proceed(t, "bump") /\ UNCHANGED lock

AssignRole(t) ==
  /\ At(t, "bind", {"assign"})
  /\ \/ call[t].subject \in Binders(Stored(t), call[t].role) /\ Unchanged(t)
     \/ call[t].subject \notin Binders(Stored(t), call[t].role) /\ Proceed(t, "bump")
  /\ UNCHANGED lock

ProbeBinding(t) ==
  /\ At(t, "probe", {"revoke"})
  /\ \/ call[t].subject \notin Binders(Stored(t), call[t].role) /\ Unchanged(t)
     \/ /\ call[t].subject \in Binders(Stored(t), call[t].role)
        /\ Proceed(t, IF call[t].role \in Stored(t).protected THEN "count" ELSE "bump")
  /\ UNCHANGED lock

\* Mutant: off by one.
CountBindingsOffByOne(t) ==
  /\ At(t, "count", {"revoke"})
  /\ \/ Cardinality(Binders(Stored(t), call[t].role)) < 1 /\ RefuseWith(t, "ProtectedBinding")
     \/ Cardinality(Binders(Stored(t), call[t].role)) >= 1 /\ Proceed(t, "bump")
  /\ UNCHANGED lock

CountBindings(t) ==
  /\ At(t, "count", {"revoke"})
  /\ \/ Cardinality(Binders(Stored(t), call[t].role)) <= 1 /\ RefuseWith(t, "ProtectedBinding")
     \/ Cardinality(Binders(Stored(t), call[t].role)) > 1 /\ Proceed(t, "bump")
  /\ UNCHANGED lock

Administer(t) ==
  /\ \/ LockScope(t) \/ Authorize(t) \/ CreateRole(t) \/ ReadProtection(t)
     \/ SetRolePermissions(t) \/ AssignRole(t) \/ ProbeBinding(t) \/ CountBindings(t)
  /\ UNCHANGED <<db, call>>

-----------------------------------------------------------------------------
(* The end of a transaction.                                               *)

\* Mutant: the column never overflows.
BumpRevisionUnchecked(t) ==
  /\ pc[t] = "bump" /\ TakeLock(t)
  /\ GoTo(t, "publish")
  /\ rev' = [rev EXCEPT ![t] = Stored(t).revision + 1]
  /\ UNCHANGED <<db, call, result, snap>>

\* Mutant: the failed statement is run again for ever.
BumpRevisionRetrying(t) ==
  /\ pc[t] = "bump" /\ TakeLock(t)
  /\ IF Stored(t).revision < MaxRevision
     THEN GoTo(t, "publish") /\ rev' = [rev EXCEPT ![t] = Stored(t).revision + 1]
     ELSE UNCHANGED <<pc, rev>>
  /\ UNCHANGED <<db, call, result, snap>>

\* UPDATE ... SET policy_revision = policy_revision + 1 locks the row, if it is not
\* locked yet, and fails past the largest revision.
BumpRevision(t) ==
  /\ pc[t] = "bump" /\ TakeLock(t)
  /\ IF Stored(t).revision < MaxRevision
     THEN /\ GoTo(t, "publish")
          /\ rev' = [rev EXCEPT ![t] = Stored(t).revision + 1]
          /\ UNCHANGED result
     ELSE Reply(t, Unavailable) /\ UNCHANGED rev
  /\ UNCHANGED <<db, call, snap>>

Publish(t) ==
  /\ db' = [db EXCEPT ![Scope(t)] = [Effect(call[t], @) EXCEPT !.revision = rev[t]]]
  /\ DropLock(t)

CommitChange(t) ==
  /\ pc[t] = "publish" /\ Publish(t)
  /\ GoTo(t, "committed") /\ SetResult(t, Mutation(TRUE, rev[t]))
  /\ UNCHANGED <<call, rev, snap>>

CommitUnchanged(t) ==
  /\ pc[t] = "commit" /\ DropLock(t)
  /\ GoTo(t, "committed")
  /\ UNCHANGED <<db, call, result, rev, snap>>

\* The server's answer to COMMIT arrives.
Acknowledge(t) ==
  pc[t] = "committed" /\ Proceed(t, "done") /\ UNCHANGED <<db, lock, call>>

\* A statement fails, the connection is lost, or the call is cancelled.  A COMMIT
\* that was sent may still be carried out.
Fail(t) ==
  /\ pc[t] \in Running
  /\ GoTo(t, IF pc[t] = "publish" THEN "doubt" ELSE "done")
  /\ SetResult(t, Unavailable)
  /\ UNCHANGED <<db, lock, call, rev, snap>>

CommitLate(t) ==
  /\ pc[t] = "doubt" /\ Publish(t)
  /\ Proceed(t, "done")
  /\ UNCHANGED call

\* The connection goes back to the pool: what was not committed is rolled back.
Release(t) ==
  /\ pc[t] \in {"done", "doubt"}
  /\ GoTo(t, "idle") /\ DropLock(t) /\ SetResult(t, NoResult)
  /\ call' = [call EXCEPT ![t] = NoCall]
  /\ rev'  = [rev EXCEPT ![t] = 0]
  /\ snap' = [snap EXCEPT ![t] = NoPolicy]
  /\ UNCHANGED db

\* What a call does by itself once it has begun.
Work(t) ==
  \/ Read(t)
  \/ BootstrapScope(t)
  \/ Administer(t)
  \/ BumpRevision(t)
  \/ CommitChange(t)
  \/ CommitUnchanged(t)
  \/ Acknowledge(t)

Step(t) ==
  \/ \E c \in Calls : Begin(t, c)
  \/ Work(t)
  \/ Fail(t)
  \/ CommitLate(t)
  \/ Release(t)

Next == \E t \in Slots : Step(t)

Spec == Init /\ [][Next]_vars

\* The runtime polls every call, the database answers every statement and gives a
\* row lock that is freed again and again to each transaction that waits for it (its
\* waiters queue).  Nothing makes a caller call, or a statement fail.
Fairness == \A t \in Slots : SF_vars(Work(t)) /\ WF_vars(Release(t))

-----------------------------------------------------------------------------
(* The store implements AccessStore.  A listing is decided when its        *)
(* snapshot is taken, a refused or needless call at the statement that     *)
(* finds out, and a change when it commits.                                *)

AbstractPhase(t) ==
  CASE pc[t] = "idle" -> "idle"
    [] pc[t] = "doubt" -> "doubt"
    [] pc[t] \in {"rows", "commit", "committed", "done"} -> "decided"
    [] OTHER -> "called"

AbstractResult(t) == IF pc[t] = "rows" THEN ReadAnswer(call[t], snap[t]) ELSE result[t]

Promise == INSTANCE AccessStore WITH
  policy <- db,
  phase  <- [t \in Slots |-> AbstractPhase(t)],
  result <- [t \in Slots |-> AbstractResult(t)]

\* Every behaviour of the statements is one of calls that authorize and mutate
\* atomically, whatever fails, is cancelled or comes through late.
Implements == Promise!Spec

-----------------------------------------------------------------------------
(* Properties.                                                             *)

\* The steps at which a transaction holds the lock of its scope.
Holding == AdminSteps \cup {"verify", "seed", "bump", "publish", "doubt"}

\* What a transaction found out under the lock stays true until it ends: it still
\* holds the lock and has seen the current revision; past "authorize" its actor is
\* still authorized; one about to write would still be accepted, still has something
\* to change, and publishes the next revision.
DecisionStands(t) ==
  LET c == call[t]
      p == Stored(t)
  IN  /\ pc[t] \in Holding => lock[c.scope] = t
      /\ pc[t] \in AdminSteps \cup {"verify"} => Bootstrapped(p) /\ rev[t] = p.revision
      /\ pc[t] \in AdminSteps \ {"authorize"} => Allowed(p, c.actor, Needed(c))
      /\ pc[t] \in {"bump", "publish", "doubt"} =>
           Accepted(c, p) /\ Effect(c, p) # p
      /\ pc[t] \in {"publish", "doubt"} => rev[t] = p.revision + 1

\* DecisionStands for every call in flight.
DecisionsStand == \A t \in Slots : pc[t] # "idle" => DecisionStands(t)

\* RowsBelong and Administrable for every committed policy.
PoliciesSound == \A s \in Scopes : RowsBelong(db[s]) /\ Administrable(db[s])

\* A scope changes only in the name of a subject who, at that very instant, holds
\* the management permission the change needs, or who bootstraps it for the first time.
ChangedByAdministrator(s) ==
  \E t \in Slots :
    /\ pc[t] \in {"publish", "doubt"} /\ Scope(t) = s
    /\ IF call[t].op = "bootstrap"
       THEN ~ Bootstrapped(db[s]) /\ db'[s].owner = call[t].subject
       ELSE Allowed(db[s], call[t].actor, Needed(call[t]))

\* ChangedByAdministrator for every step that changes a scope.
OnlyAdministratorsChange ==
  [][\A s \in Scopes : db'[s] # db[s] => ChangedByAdministrator(s)]_vars

\* Every call that has begun is answered: no wait for a lock lasts forever, also
\* when the transaction that held it was refused, failed or left in doubt.
EveryCallEnds == \A t \in Slots : pc[t] = "start" ~> pc[t] \in {"done", "doubt"}

\* A lock that is held is let go.
EveryLockIsReleased == \A s \in Scopes, t \in Slots : lock[s] = t ~> lock[s] # t
=============================================================================
