--------------------------- MODULE PostgresLifecycle ---------------------------
(***************************************************************************)
(* The life of one instance of the PostgreSQL plugin (postgres-plugin/src/ *)
(* lib.rs, operator.rs): it asks another plugin for the secret URL of its  *)
(* database, prepares a pool if the schema is installed, serves calls on   *)
(* the connections of that pool, and closes the pool when it is            *)
(* deactivated.  Other processes use the same database meanwhile.          *)
(*                                                                         *)
(* A handler takes a clone of the pool when it is called and waits for a   *)
(* connection: the clone outlives the deactivation, the pool does not.     *)
(***************************************************************************)
EXTENDS PostgresStore

CONSTANTS
  Own,        \* the connections of this instance's pool; other slots are of other processes
  Handlers    \* the calls that wait for a connection at once

ASSUME OwnAssumption == Own \subseteq Slots

VARIABLES
  stage,      \* "new", "resolving", "preparing", "active" while `prepared' holds the pool,
              \* "stopping" while it is being closed, "stopped" or "failed"
  provider,   \* "silent", "answered" or "refused": what came of the question for the secret
  schema,     \* the operator has installed the schema
  waiting     \* the call each handler wants a connection for

lifeVars == <<stage, provider, schema, waiting>>

LifeInit ==
  /\ Init
  /\ stage = "new" /\ provider = "silent" /\ schema = FALSE
  /\ waiting = [h \in Handlers |-> NoCall]

-----------------------------------------------------------------------------
(* Activation and deactivation.                                            *)

GoOn(from, to) == stage = from /\ stage' = to /\ UNCHANGED <<vars, provider, schema, waiting>>

\* The operator's explicit setup; the instance itself only verifies.
Setup == ~ schema /\ schema' = TRUE /\ UNCHANGED <<vars, stage, provider, waiting>>

Activate == GoOn("new", "resolving")

\* The other plugin answers when it likes, or never.
ProviderAnswers ==
  /\ provider = "silent" /\ provider' \in {"answered", "refused"}
  /\ UNCHANGED <<vars, stage, schema, waiting>>

ResolveSecret ==
  \/ provider = "answered" /\ GoOn("resolving", "preparing")
  \/ provider = "refused" /\ GoOn("resolving", "failed")

\* Mutant: the question for the secret has no deadline.
DeadlineIfAnswered == provider # "silent" /\ GoOn("resolving", "failed")

\* DEPENDENCY_TIMEOUT is over, or the activation is cancelled.
Deadline == GoOn("resolving", "failed")

\* The pool connects and verifies the schema; the database may be out of reach.
Prepare ==
  \/ schema /\ GoOn("preparing", "active")
  \/ GoOn("preparing", "failed")

\* The pool is taken from `prepared' and told to close.
Deactivate == GoOn("active", "stopping")

\* The connections are back, those with a commit in doubt are lost.
PoolCloses ==
  /\ \A t \in Own : pc[t] \in {"idle", "doubt"}
  /\ GoOn("stopping", "stopped")

-----------------------------------------------------------------------------
(* Calls.                                                                  *)

\* Without a pool the service answers Unavailable at once: nothing is kept of it.
Call(h, c) ==
  /\ stage = "active" /\ waiting[h] = NoCall
  /\ waiting' = [waiting EXCEPT ![h] = c]
  /\ UNCHANGED <<vars, stage, provider, schema>>

Free(h) == waiting' = [waiting EXCEPT ![h] = NoCall] /\ UNCHANGED <<stage, provider, schema>>

\* Mutant: the clone of the pool works on although the pool is closed.
AcquireFromClone(h) ==
  /\ waiting[h] # NoCall
  /\ \E t \in Own : Begin(t, waiting[h])
  /\ Free(h)

Acquire(h) ==
  /\ waiting[h] # NoCall /\ stage = "active"
  /\ \E t \in Own : Begin(t, waiting[h])
  /\ Free(h)

\* A closed pool gives out no connection, also to those who wait already.
TurnAway(h) ==
  /\ waiting[h] # NoCall /\ stage \in {"stopping", "stopped"}
  /\ Free(h) /\ UNCHANGED vars

\* The wait has been too long, or the call is cancelled.
GiveUp(h) == waiting[h] # NoCall /\ Free(h) /\ UNCHANGED vars

\* Other processes have verified the schema for themselves.
CallElsewhere(t, c) == schema /\ Begin(t, c) /\ UNCHANGED lifeVars

Lifecycle ==
  \/ Setup \/ Activate \/ ProviderAnswers \/ ResolveSecret \/ Deadline
  \/ Prepare \/ Deactivate \/ PoolCloses

HandlerStep(h) ==
  \/ \E c \in Calls : Call(h, c)
  \/ Acquire(h) \/ TurnAway(h) \/ GiveUp(h)

SlotStep(t) ==
  \/ t \notin Own /\ \E c \in Calls : CallElsewhere(t, c)
  \/ (Work(t) \/ Fail(t) \/ CommitLate(t) \/ Release(t)) /\ UNCHANGED lifeVars

LifeNext ==
  \/ Lifecycle
  \/ \E h \in Handlers : HandlerStep(h)
  \/ \E t \in Slots : SlotStep(t)

LifeSpec == LifeInit /\ [][LifeNext]_<<vars, lifeVars>>

\* As in PostgresStore; besides, the clock runs, the database answers the one that
\* prepares the pool, and the pool serves its waiters in turn until it is closed.
\* The plugin that is asked for the secret owes no answer.
FairLifeSpec ==
  /\ LifeSpec /\ Fairness
  /\ \A h \in Handlers : SF_<<vars, lifeVars>>(Acquire(h)) /\ WF_<<vars, lifeVars>>(TurnAway(h))
  /\ WF_<<vars, lifeVars>>(Deadline) /\ WF_<<vars, lifeVars>>(Prepare)
  /\ WF_<<vars, lifeVars>>(PoolCloses)

-----------------------------------------------------------------------------
\* A call runs on a connection of this instance only between a verified schema and the
\* end of the deactivation: no answer of the secret provider that comes too late, no
\* clone of the pool taken before the deactivation gets past that.
CallsRunOnlyWhileServing ==
  \A t \in Own : pc[t] \in Running => schema /\ stage \in {"active", "stopping"}

\* An activation ends, also if the secret is never answered.
ActivationEnds == stage = "resolving" ~> stage \in {"active", "stopping", "stopped", "failed"}

\* A deactivation ends, whatever locks of other processes its last calls wait for.
DeactivationEnds == stage = "stopping" ~> stage = "stopped"

\* A call that waits for a connection gets one, or is turned away: with one connection
\* for several calls, with a deactivation in between, and without a time limit.
EveryWaitEnds == \A h \in Handlers : waiting[h] # NoCall ~> waiting[h] = NoCall
=============================================================================
