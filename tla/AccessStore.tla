----------------------------- MODULE AccessStore -----------------------------
(***************************************************************************)
(* What a Store promises (core/src/storage.rs: "Implementations must       *)
(* authorize and mutate atomically"): every call takes effect at one       *)
(* instant between its start and its answer, as if calls ran one by one.   *)
(*                                                                         *)
(* The answer may be lost.  A call that is told Unavailable has had its    *)
(* effect, or has not, or may still have it a little later ("in doubt"):   *)
(* a commit that was sent cannot be called back.                           *)
(***************************************************************************)
EXTENDS Policy

CONSTANTS
  Slots,     \* the calls in flight at once
  Calls      \* the calls that are made

ASSUME CallsAssumption == Calls \subseteq StoreCalls

VARIABLES
  policy,    \* the policy of each scope
  phase,     \* "idle", "called", "decided" (answered) or "doubt", per slot
  call,      \* the call in flight, per slot
  result     \* its answer, per slot

vars == <<policy, phase, call, result>>

NoCall == [op |-> "none"]

TypeOK ==
  /\ policy \in [Scopes -> Policies]
  /\ phase  \in [Slots -> {"idle", "called", "decided", "doubt"}]
  /\ call   \in [Slots -> Calls \cup {NoCall}]
  /\ result \in [Slots -> Results]

-----------------------------------------------------------------------------
Init ==
  /\ policy = [s \in Scopes |-> NoPolicy]
  /\ phase  = [t \in Slots |-> "idle"]
  /\ call   = [t \in Slots |-> NoCall]
  /\ result = [t \in Slots |-> NoResult]

Start(t, c) ==
  /\ phase[t] = "idle"
  /\ phase' = [phase EXCEPT ![t] = "called"]
  /\ call'  = [call EXCEPT ![t] = c]
  /\ UNCHANGED <<policy, result>>

Decide(t, from, r) ==
  /\ phase[t] = from
  /\ phase'  = [phase EXCEPT ![t] = "decided"]
  /\ result' = [result EXCEPT ![t] = r]
  /\ UNCHANGED call

Refuse(t) ==
  /\ \E f \in DomainFailures :
       /\ phase[t] = "called" /\ Refused(call[t], policy[call[t].scope], f)
       /\ Decide(t, "called", Failure(f))
  /\ UNCHANGED policy

Answer(t) ==
  /\ phase[t] = "called" /\ call[t].op \in ReadOps
  /\ LET p == policy[call[t].scope]
     IN  Accepted(call[t], p) /\ Decide(t, "called", ReadAnswer(call[t], p))
  /\ UNCHANGED policy

\* Mutant: the revision advances although nothing changed.
KeepCounting(t) ==
  /\ phase[t] = "called" /\ call[t].op \notin ReadOps
  /\ LET s == call[t].scope
         p == policy[s]
     IN  /\ Accepted(call[t], p) /\ Effect(call[t], p) = p /\ p.revision < MaxRevision
         /\ policy' = [policy EXCEPT ![s].revision = @ + 1]
         /\ Decide(t, "called", Mutation(FALSE, p.revision + 1))

\* A mutation that finds nothing to change.
Keep(t) ==
  /\ phase[t] = "called" /\ call[t].op \notin ReadOps
  /\ LET p == policy[call[t].scope]
     IN  /\ Accepted(call[t], p) /\ Effect(call[t], p) = p
         /\ Decide(t, "called", Mutation(FALSE, p.revision))
  /\ UNCHANGED policy

Change(t) ==
  /\ phase[t] = "called"
  /\ LET s == call[t].scope
         p == policy[s]
     IN  /\ Changes(call[t], p)
         /\ policy' = [policy EXCEPT ![s] = Advance(call[t], p)]
         /\ Decide(t, "called", Mutation(TRUE, p.revision + 1))

\* A storage error: the call had its effect if it was decided, none otherwise, and
\* one in doubt will have none any more.
Lose(t) ==
  /\ \E from \in {"called", "decided", "doubt"} : Decide(t, from, Unavailable)
  /\ UNCHANGED policy

\* A storage error while the outcome is open.
Doubt(t) ==
  /\ phase[t] = "called"
  /\ phase'  = [phase EXCEPT ![t] = "doubt"]
  /\ result' = [result EXCEPT ![t] = Unavailable]
  /\ UNCHANGED <<policy, call>>

\* The change of a call in doubt comes through after its caller was told Unavailable.
LateChange(t) ==
  /\ phase[t] = "doubt"
  /\ LET s == call[t].scope
         p == policy[s]
     IN  Changes(call[t], p) /\ policy' = [policy EXCEPT ![s] = Advance(call[t], p)]
  /\ Decide(t, "doubt", Unavailable)

Return(t) ==
  /\ phase[t] \in {"decided", "doubt"}
  /\ phase'  = [phase EXCEPT ![t] = "idle"]
  /\ call'   = [call EXCEPT ![t] = NoCall]
  /\ result' = [result EXCEPT ![t] = NoResult]
  /\ UNCHANGED policy

Step(t) ==
  \/ \E c \in Calls : Start(t, c)
  \/ Refuse(t)
  \/ Answer(t)
  \/ Keep(t)
  \/ Change(t)
  \/ Lose(t)
  \/ Doubt(t)
  \/ LateChange(t)
  \/ Return(t)

Next == \E t \in Slots : Step(t)

Spec == Init /\ [][Next]_vars

-----------------------------------------------------------------------------
(* Properties.                                                             *)

\* Every committed policy is one that the operations may leave: RowsBelong and
\* Administrable in every scope.
PoliciesSound == \A s \in Scopes : RowsBelong(policy[s]) /\ Administrable(policy[s])

\* An answer is true of the revision it names.  If the scope is still at that
\* revision, a read would be answered the same again, and a mutation that was
\* acknowledged is in force: making it again would change nothing.
HoldsAtItsRevision(c, r, p) ==
  r \in Versioned /\ r.revision = p.revision =>
    IF c.op \in ReadOps THEN r = ReadAnswer(c, p) ELSE Effect(c, p) = p

\* HoldsAtItsRevision for the answer of every call that has one.
AnswersHoldAtTheirRevision ==
  \A t \in Slots : phase[t] = "decided" => HoldsAtItsRevision(call[t], result[t], policy[call[t].scope])

\* The revision counts changes: it advances by one exactly when a row of the scope
\* changes, and the subject that bootstrapped a scope stays its owner.
Counted(p, q) ==
  q # p => /\ q.revision = p.revision + 1
           /\ [q EXCEPT !.revision = p.revision] # p
           /\ p.owner \in {NoSubject, q.owner}

\* No step changes a scope without Counted.
RevisionCountsChanges == [][\A s \in Scopes : Counted(policy[s], policy'[s])]_vars
=============================================================================
