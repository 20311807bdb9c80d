------------------------------- MODULE D1Events -------------------------------
(***************************************************************************)
(* The D1 plugin in a Workers host (d1-plugin/src/lib.rs, workers.rs,      *)
(* host_facilities.rs; workers/binding.mjs).  Every event has a plugin     *)
(* instance and a binding of its own; all of them use one database.  The   *)
(* host may close an event at any time: what it has submitted to D1 runs   *)
(* on, but nothing more is submitted and no answer is let in.              *)
(***************************************************************************)
EXTENDS D1Store

CONSTANTS
  Events,     \* the events of the host
  EventOf     \* the event each slot makes its calls in

ASSUME EventAssumption == EventOf \in [Slots -> Events]

\* What the host has handed to an event: the configured database; the same under another
\* name; a database nobody has set up; something that throws or answers nonsense.
Bindings == {"exact", "misnamed", "empty", "broken"}

VARIABLES
  stage,      \* "new", "verifying", "active", "stopped" or "rejected", per event
  closed,     \* the events whose resources are closed
  binding,    \* the binding of each event
  schema      \* the operator has installed the schema of the configured database

eventVars == <<stage, closed, binding, schema>>

EventInit ==
  /\ Init
  /\ stage   = [e \in Events |-> "new"]
  /\ closed  = {}
  /\ binding \in [Events -> Bindings]
  /\ schema  = FALSE

-----------------------------------------------------------------------------
(* The life of an event.                                                   *)

GoOn(e, from, to) ==
  stage[e] = from /\ stage' = [stage EXCEPT ![e] = to] /\ UNCHANGED <<vars, closed, binding, schema>>

\* The operator sets the configured database up.  No event ever does.
Setup == ~ schema /\ schema' = TRUE /\ UNCHANGED <<vars, stage, closed, binding>>

\* The binding must bear the configured name.
Activate(e) ==
  IF binding[e] = "misnamed" THEN GoOn(e, "new", "rejected") ELSE GoOn(e, "new", "verifying")

\* Mutant: whatever the verification finds, the event is prepared.
VerifyAnything(e) == GoOn(e, "verifying", "active")

\* The migration history can be read through the binding, and is the one of the schema.
Verifies(e) == binding[e] \in {"exact", "misnamed"} /\ schema /\ e \notin closed

\* Reading may fail.
Verify(e) ==
  \/ Verifies(e) /\ GoOn(e, "verifying", "active")
  \/ GoOn(e, "verifying", "rejected")

Deactivate(e) == GoOn(e, "active", "stopped")

Close(e) ==
  /\ e \notin closed
  /\ closed' = closed \cup {e}
  /\ UNCHANGED <<vars, stage, binding, schema>>

-----------------------------------------------------------------------------
(* Its calls.                                                              *)

Prepared(e) == stage[e] = "active"

\* Mutant: a closed event may still submit.
ReachesD1OnceClosed(e) == Prepared(e) /\ binding[e] # "broken"

\* A batch an event submits reaches its database: the service hands out the binding
\* only while it is prepared, and the binding runs nothing for a closed event.
ReachesD1(e) == Prepared(e) /\ binding[e] # "broken" /\ e \notin closed

Submit(t, c) == ReachesD1(EventOf[t]) /\ Begin(t, c) /\ UNCHANGED eventVars

\* A call that reaches no database is answered with a transport error.
TurnAway(t, c) ==
  /\ caller[t] = "idle" /\ ~ ReachesD1(EventOf[t])
  /\ caller' = [caller EXCEPT ![t] = "waiting"]
  /\ call'   = [call EXCEPT ![t] = c]
  /\ GoTo(t, "failed")
  /\ UNCHANGED <<db, workspace, writer, open, result>>
  /\ UNCHANGED eventVars

RunBatch(t) == (CheckPermission(t) \/ GetRole(t) \/ List(t) \/ Mutate(t)) /\ UNCHANGED eventVars

\* Mutant: a call whose answer is lost is made again.
HearOrRetry(t) ==
  /\ caller[t] = "waiting" /\ UNCHANGED eventVars
  /\ \/ Deliver(t)
     \/ /\ batch[t] = "ended" /\ GoTo(t, "sent")
        /\ UNCHANGED <<db, workspace, writer, open, caller, call, result>>

\* What comes back from D1 reaches an event that is open.  Errors of its own making reach
\* every event.
Hear(t) ==
  /\ EventOf[t] \in closed => batch[t] = "failed"
  /\ Deliver(t)
  /\ UNCHANGED eventVars

EventStep(e) ==
  \/ Activate(e) \/ Verify(e) \/ Deactivate(e) \/ Close(e)

SlotStep(t) ==
  \/ \E c \in Calls : Submit(t, c) \/ TurnAway(t, c)
  \/ RunBatch(t) \/ Hear(t)
  \/ (Abort(t) \/ GiveUp(t) \/ Release(t)) /\ UNCHANGED eventVars

EventNext ==
  \/ Setup
  \/ \E e \in Events : EventStep(e)
  \/ \E t \in Slots : SlotStep(t)

EventSpec == EventInit /\ [][EventNext]_<<vars, eventVars>>

\* D1 takes batches in turn and finishes them, whether or not anybody waits, and the
\* host polls what has an answer in an event that is open.
FairEventSpec ==
  /\ EventSpec
  /\ \A t \in Slots : SF_<<vars, eventVars>>(RunBatch(t)) /\ WF_<<vars, eventVars>>(Hear(t))

-----------------------------------------------------------------------------
InFlight(t) == batch[t] \in Statements \cup {"sent"}

\* A database sees batches of an event only when the event verified the schema before,
\* and that the database is the configured one, though the host gives bindings out, the
\* operator sets the database up, and calls come in at any time.
OnlyVerifiedDatabasesAreUsed ==
  \A t \in Slots : InFlight(t) =>
    schema /\ binding[EventOf[t]] = "exact" /\ stage[EventOf[t]] \in {"active", "stopped"}

\* An event that is closed or stopped falls silent: what it has in flight comes to an end
\* and nothing follows, no retry and no call that was made too late.
EndedEventsFallSilent ==
  \A e \in Events :
    e \in closed \/ stage[e] = "stopped" ~> [](\A t \in Slots : EventOf[t] = e => ~ InFlight(t))

\* A caller is answered, unless its event is closed: also when the batch has failed or was
\* never delivered, and whatever the batches of other events do to the shared database.
OpenEventsAreAnswered ==
  \A t \in Slots : caller[t] = "waiting" ~> caller[t] = "answered" \/ EventOf[t] \in closed
=============================================================================
