------------------------------- MODULE D1Store -------------------------------
(***************************************************************************)
(* The D1 store (d1-plugin/src/storage.rs).  A mutation is one batch of    *)
(* statements that share a workspace row: the batch writes the request     *)
(* into it, finds out there what is wrong with the request and whether it  *)
(* changes anything, and every later statement asks the row whether it may *)
(* write.  D1 runs a batch as a transaction, one batch at a time: the      *)
(* running one works on tables of its own until it commits.  A read is one *)
(* statement.                                                              *)
(*                                                                         *)
(* The caller waits in an event of a Workers host.  If the event ends, or  *)
(* the answer is lost, the caller is told of a transport error, and the    *)
(* batch it has submitted runs all the same, or does not.                  *)
(***************************************************************************)
EXTENDS Policy

CONSTANTS
  Slots,     \* the calls in flight at once
  NoSlot,    \* the writer when no batch runs
  Calls      \* the calls that are made

ASSUME SlotsAssumption == NoSlot \notin Slots /\ Calls \subseteq StoreCalls

VARIABLES
  db,        \* the committed policy of each scope
  workspace, \* the committed access_control_operation table
  writer,    \* the slot whose batch is running
  open,      \* what the running batch sees and has written, and its receipt
  batch,     \* the next statement of the batch of each slot
  caller,    \* "idle", "waiting" or "answered", per slot
  call,      \* the call in flight, per slot
  result     \* its answer, per slot: on its way until the caller is answered

vars == <<db, workspace, writer, open, batch, caller, call, result>>

NoCall == [op |-> "none"]
NoRow  == [op |-> "none"]     \* the workspace is empty

Findings == DomainFailures \cup {"none", "invalid_bootstrap"}
Rows == [request : Calls, failure : Findings, changed : BOOLEAN, revision : 0..MaxRevision]
        \cup {NoRow}

\* No batch runs.
Closed == [policy |-> NoPolicy, row |-> NoRow, receipt |-> NoRow]

Statements == {"load", "decide", "apply", "bump", "report", "clean", "commit"}

\* "none" no batch; "sent" submitted; then its statements; "ended" committed or read;
\* "failed" rolled back, or never run.
TypeOK ==
  /\ db        \in [Scopes -> Policies]
  /\ workspace \in Rows
  /\ writer    \in Slots \cup {NoSlot}
  /\ open      \in [policy : Policies, row : Rows, receipt : Rows]
  /\ batch     \in [Slots -> {"none", "sent", "ended", "failed"} \cup Statements]
  /\ caller    \in [Slots -> {"idle", "waiting", "answered"}]
  /\ call      \in [Slots -> Calls \cup {NoCall}]
  /\ result    \in [Slots -> Results]

Init ==
  /\ db        = [s \in Scopes |-> NoPolicy]
  /\ workspace = NoRow
  /\ writer    = NoSlot
  /\ open      = Closed
  /\ batch     = [t \in Slots |-> "none"]
  /\ caller    = [t \in Slots |-> "idle"]
  /\ call      = [t \in Slots |-> NoCall]
  /\ result    = [t \in Slots |-> NoResult]

-----------------------------------------------------------------------------
Stored(t)      == db[call[t].scope]
GoTo(t, step)  == batch' = [batch EXCEPT ![t] = step]

Begin(t, c) ==
  /\ caller[t] = "idle"
  /\ caller' = [caller EXCEPT ![t] = "waiting"]
  /\ call'   = [call EXCEPT ![t] = c]
  /\ GoTo(t, "sent")
  /\ UNCHANGED <<db, workspace, writer, open, result>>

\* The answer sets out; nobody may be waiting for it any more.
Send(t, r) ==
  /\ GoTo(t, "ended")
  /\ result' = IF caller[t] = "waiting" THEN [result EXCEPT ![t] = r] ELSE result

-----------------------------------------------------------------------------
(* Reads: one statement each.                                              *)

Reading(t, ops) ==
  /\ batch[t] = "sent" /\ call[t].op \in ops
  /\ UNCHANGED <<db, workspace, writer, open, caller, call>>

\* A scope without a row has no decision row: the store answers for it.
CheckPermission(t) ==
  /\ Reading(t, {"check"})
  /\ Send(t, IF ~ Bootstrapped(Stored(t)) THEN Decision(FALSE, 0)
             ELSE Decision(Allowed(Stored(t), call[t].subject, call[t].permission),
                           Stored(t).revision))

\* The scope's row joined with at most `limit' + 1 of the roles R: a scope without roles
\* still has one row, which carries the revision and no role.
Directory(p, R, limit) ==
  LET rows == Lowest(limit + 1, R)
  IN  DirectoryRolePage({RoleRow(p, r) : r \in Lowest(limit, rows)}, p.revision,
                        Cardinality(rows) > limit)

\* A page of one role, the one that is asked for.
GetRole(t) ==
  /\ Reading(t, {"get"})
  /\ LET page == Directory(Stored(t), Stored(t).roles \cap {call[t].role}, 1)
     IN  Send(t, IF ~ Bootstrapped(Stored(t)) THEN Failure("ScopeNotBootstrapped")
                 ELSE IF page.rows = {} THEN Failure("RoleNotFound")
                 ELSE DirectoryRole(CHOOSE row \in page.rows : TRUE, page.revision))

\* Mutant: one row is not read beyond the page.
ListWithoutLookingAhead(t) ==
  /\ Reading(t, {"list"})
  /\ LET R == Lowest(call[t].limit, Listed(call[t], Stored(t)))
     IN  Send(t, IF ~ Bootstrapped(Stored(t)) THEN Failure("ScopeNotBootstrapped")
                 ELSE Directory(Stored(t), R, call[t].limit))

List(t) ==
  /\ Reading(t, {"list"})
  /\ Send(t, IF ~ Bootstrapped(Stored(t)) THEN Failure("ScopeNotBootstrapped")
             ELSE Directory(Stored(t), Listed(call[t], Stored(t)), call[t].limit))

-----------------------------------------------------------------------------
(* Mutations.                                                              *)

\* The CASE expressions of the batch: the first condition that holds names the failure.
BootstrapFinding(c, p) ==
  IF Bootstrapped(p) /\ p.owner # c.subject THEN "ScopeAlreadyBootstrapped"
  ELSE IF Bootstrapped(p) /\ ~ BootstrapComplete(p) THEN "invalid_bootstrap"
  ELSE "none"

RoleFinding(c, p) ==
  IF c.op = "create" THEN IF c.role \in p.roles THEN "RoleAlreadyExists" ELSE "none"
  ELSE IF c.role \notin p.roles THEN "RoleNotFound"
  ELSE IF c.op \in {"set", "delete"} /\ c.role \in p.protected THEN "ProtectedRole"
  ELSE IF c.op = "revoke" /\ c.role \in p.protected /\ c.subject \in Binders(p, c.role)
          /\ Cardinality(Binders(p, c.role)) <= 1
       THEN "ProtectedBinding"
  ELSE "none"

\* Mutant: any role of the actor will do, the grants are not joined.
FindingByBinding(c, p) ==
  IF c.op = "bootstrap" THEN BootstrapFinding(c, p)
  ELSE IF ~ Bootstrapped(p) THEN "ScopeNotBootstrapped"
  ELSE IF \A r \in RoleIds : c.actor \notin Binders(p, r) THEN "Forbidden"
  ELSE RoleFinding(c, p)

\* Mutant: authorization is left to the caller.
FindingUnauthorized(c, p) ==
  IF c.op = "bootstrap" THEN BootstrapFinding(c, p)
  ELSE IF ~ Bootstrapped(p) THEN "ScopeNotBootstrapped"
  ELSE RoleFinding(c, p)

Finding(c, p) ==
  IF c.op = "bootstrap" THEN BootstrapFinding(c, p)
  ELSE IF ~ Bootstrapped(p) THEN "ScopeNotBootstrapped"
  ELSE IF ~ Allowed(p, c.actor, Needed(c)) THEN "Forbidden"
  ELSE RoleFinding(c, p)

\* Mutant: permissions that would only be taken away are no change.
EffectiveIfMore(c, p) ==
  CASE c.op = "bootstrap" -> ~ Bootstrapped(p)
    [] c.op = "assign"    -> c.subject \notin Binders(p, c.role)
    [] c.op = "revoke"    -> c.subject \in Binders(p, c.role)
    [] c.op = "set"       -> ~ c.permissions \subseteq Grants(p, c.role)
    [] OTHER              -> TRUE

\* Whether the request, if nothing is wrong with it, changes anything.
Effective(c, p) ==
  CASE c.op = "bootstrap" -> ~ Bootstrapped(p)
    [] c.op = "assign"    -> c.subject \notin Binders(p, c.role)
    [] c.op = "revoke"    -> c.subject \in Binders(p, c.role)
    [] c.op = "set"       -> Grants(p, c.role) # c.permissions
    [] OTHER              -> TRUE

\* APPLY: what every writing statement asks of the workspace.
Applies(row) == row.failure = "none" /\ row.changed

At(t, step) == batch[t] = step /\ UNCHANGED <<db, workspace, writer, caller, call, result>>

\* Mutant: batches run side by side.
ClearAnyTime(t) ==
  /\ batch[t] = "sent" /\ call[t].op \notin ReadOps
  /\ writer' = t
  /\ open' = [Closed EXCEPT !.policy = Stored(t)]
  /\ GoTo(t, "load")
  /\ UNCHANGED <<db, workspace, caller, call, result>>

\* DELETE FROM access_control_operation starts the transaction; batches wait their turn.
Clear(t) ==
  /\ batch[t] = "sent" /\ call[t].op \notin ReadOps
  /\ writer = NoSlot
  /\ writer' = t
  /\ open' = [Closed EXCEPT !.policy = Stored(t)]
  /\ GoTo(t, "load")
  /\ UNCHANGED <<db, workspace, caller, call, result>>

Load(t) ==
  /\ At(t, "load") /\ GoTo(t, "decide")
  /\ open' = [open EXCEPT !.row = [request |-> call[t], failure |-> "none",
                                   changed |-> FALSE, revision |-> 0]]

Decide(t) ==
  /\ At(t, "decide") /\ GoTo(t, "apply")
  /\ LET c == open.row.request
         p == open.policy
     IN  open' = [open EXCEPT !.row = [request |-> c, failure |-> Finding(c, p),
                                       changed |-> Effective(c, p), revision |-> p.revision]]

\* The statements that write the tables of the operation, each guarded by APPLY.
Apply(t) ==
  /\ At(t, "apply") /\ GoTo(t, "bump")
  /\ open' = IF Applies(open.row)
             THEN [open EXCEPT !.policy = Effect(open.row.request, @)]
             ELSE open

\* Nothing of a batch that fails remains.
Rollback(t) ==
  /\ writer' = NoSlot /\ open' = Closed
  /\ GoTo(t, "failed")
  /\ UNCHANGED <<db, workspace, caller, call, result>>

\* Mutant: the column has no CHECK.
BumpUnchecked(t) ==
  /\ At(t, "bump") /\ GoTo(t, "report")
  /\ open' = IF Applies(open.row) THEN [open EXCEPT !.policy.revision = @ + 1] ELSE open

\* A revision past the largest one is no integer: the CHECK of its column fails the batch.
Bump(t) ==
  /\ batch[t] = "bump"
  /\ \/ Applies(open.row) /\ open.policy.revision = MaxRevision /\ Rollback(t)
     \/ /\ Applies(open.row) /\ open.policy.revision < MaxRevision
        /\ At(t, "bump") /\ GoTo(t, "report")
        /\ open' = [open EXCEPT !.policy.revision = @ + 1]
     \/ ~ Applies(open.row) /\ At(t, "bump") /\ GoTo(t, "report") /\ UNCHANGED open

\* Mutant: the flag of a refused request counts as well.
ReportAlways(t) ==
  /\ At(t, "report") /\ GoTo(t, "clean")
  /\ open' = [open EXCEPT !.receipt =
                [open.row EXCEPT !.revision = IF open.row.changed THEN @ + 1 ELSE @]]

\* The revision is computed from the one captured, not read again.
Report(t) ==
  /\ At(t, "report") /\ GoTo(t, "clean")
  /\ open' = [open EXCEPT !.receipt =
                [open.row EXCEPT !.revision = IF Applies(open.row) THEN @ + 1 ELSE @]]

Clean(t) ==
  At(t, "clean") /\ GoTo(t, "commit") /\ open' = [open EXCEPT !.row = NoRow]

\* What the caller makes of the receipt.
Decoded(row) ==
  IF row.failure = "none" THEN Mutation(row.changed, row.revision)
  ELSE IF row.failure \in DomainFailures THEN Failure(row.failure)
  ELSE Unavailable

Commit(t) ==
  /\ batch[t] = "commit"
  /\ db' = [db EXCEPT ![call[t].scope] = open.policy]
  /\ workspace' = open.row
  /\ writer' = NoSlot /\ open' = Closed
  /\ Send(t, Decoded(open.receipt))
  /\ UNCHANGED <<caller, call>>

Mutate(t) ==
  \/ Clear(t) \/ Load(t) \/ Decide(t) \/ Apply(t) \/ Bump(t)
  \/ Report(t) \/ Clean(t) \/ Commit(t)

-----------------------------------------------------------------------------
(* What the network and the host do.                                       *)

\* A batch is not delivered, or one of its statements fails.
Abort(t) ==
  \/ /\ batch[t] = "sent" /\ GoTo(t, "failed")
     /\ UNCHANGED <<db, workspace, writer, open, caller, call, result>>
  \/ batch[t] \in Statements /\ Rollback(t)

Tell(t) == caller' = [caller EXCEPT ![t] = "answered"] /\ UNCHANGED <<db, workspace, writer, open, batch, call>>

\* Mutant: only a batch that succeeds is answered.
DeliverSuccess(t) ==
  caller[t] = "waiting" /\ batch[t] = "ended" /\ UNCHANGED result /\ Tell(t)

Deliver(t) ==
  /\ caller[t] = "waiting"
  /\ \/ batch[t] = "ended" /\ UNCHANGED result
     \/ batch[t] = "failed" /\ result' = [result EXCEPT ![t] = Unavailable]
  /\ Tell(t)

\* The event ends, or the answer is lost: the caller no longer hears of the batch.
GiveUp(t) ==
  /\ caller[t] = "waiting"
  /\ result' = [result EXCEPT ![t] = Unavailable]
  /\ Tell(t)

\* The call and its batch are over.
Release(t) ==
  /\ caller[t] = "answered" /\ batch[t] \in {"ended", "failed"}
  /\ caller' = [caller EXCEPT ![t] = "idle"]
  /\ call'   = [call EXCEPT ![t] = NoCall]
  /\ result' = [result EXCEPT ![t] = NoResult]
  /\ GoTo(t, "none")
  /\ UNCHANGED <<db, workspace, writer, open>>

Work(t) == CheckPermission(t) \/ GetRole(t) \/ List(t) \/ Mutate(t) \/ Deliver(t)

Step(t) ==
  \/ \E c \in Calls : Begin(t, c)
  \/ Work(t)
  \/ Abort(t)
  \/ GiveUp(t)
  \/ Release(t)

Next == \E t \in Slots : Step(t)

Spec == Init /\ [][Next]_vars

-----------------------------------------------------------------------------
(* The store implements AccessStore: a read is decided when its statement  *)
(* runs, a mutation when its batch commits, and a call given up before     *)
(* that is in doubt until its batch is over.                               *)

Promise == INSTANCE AccessStore WITH
  policy <- db,
  phase  <- [t \in Slots |->
    CASE caller[t] = "idle" -> "idle"
      [] caller[t] = "waiting" -> IF batch[t] = "ended" THEN "decided" ELSE "called"
      [] OTHER -> IF batch[t] \in {"ended", "failed"} THEN "decided" ELSE "doubt"]

\* The batches behave like calls that authorize and mutate atomically, also the ones
\* whose callers have gone.
Implements == Promise!Spec

-----------------------------------------------------------------------------
(* Properties.                                                             *)

\* The running batch is alone: it works on its own request, from the revision that is
\* committed still, and the workspace it shares with all others is empty when it starts
\* and when it is over.
BatchesAreAlone ==
  /\ workspace = NoRow
  /\ \A t \in Slots :
       /\ batch[t] \in Statements => writer = t
       /\ batch[t] \in {"apply", "bump", "report", "clean"} =>
            /\ open.row.request = call[t]
            /\ open.row.revision = Stored(t).revision

\* A batch that is about to commit tells its caller what it has done: the revision in
\* its receipt, which it has computed, is the one its tables hold, and it says that
\* something changed exactly if something did.
ReceiptsAreTrue ==
  \A t \in Slots : batch[t] \in {"clean", "commit"} =>
    /\ open.receipt.revision = open.policy.revision
    /\ open.receipt.failure = "none" /\ open.receipt.changed <=> open.policy # Stored(t)

\* A scope changes only by the batch of an actor who still holds the management permission
\* the change needs, or by one that bootstraps the scope for the first time.
ChangedByAdministrator(s) ==
  \E t \in Slots :
    /\ batch[t] = "commit" /\ call[t].scope = s
    /\ IF call[t].op = "bootstrap"
       THEN ~ Bootstrapped(db[s]) /\ db'[s].owner = call[t].subject
       ELSE Allowed(db[s], call[t].actor, Needed(call[t]))

\* Between the submission of a batch and its turn the actor may lose the role, or the role
\* the permission, and the caller may be gone: no change is committed on an authority that
\* has ended.
OnlyAdministratorsChange ==
  [][\A s \in Scopes : db'[s] # db[s] => ChangedByAdministrator(s)]_vars
=============================================================================
