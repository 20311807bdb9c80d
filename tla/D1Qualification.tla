---------------------------- MODULE D1Qualification ----------------------------
(***************************************************************************)
(* The qualification of the D1 plugin in a Workers host (workers-smoke/src/ *)
(* lib.rs; workers/proof.mjs, worker.mjs).  Every run is an event with a   *)
(* slot of its own, named after the run.  A run starts the plugin with the *)
(* binding its mode asks for, makes the calls of its script one after the  *)
(* other, and shuts down; the runs of the races and the conformance        *)
(* vectors call the store itself.  Runs of one round go on at once, and    *)
(* all of them share one database with its workspace row.                  *)
(***************************************************************************)
EXTENDS D1Events, Conformance

CONSTANTS
  Rounds,     \* the runs that are made at once, round after round
  ModeOf,     \* the mode of each run
  ScopeOf     \* the scope each run works in

PluginModes == {"success", "conformance", "expired", "closed"}
BrokenModes == {"missing-schema", "wrong-binding", "throws"}
RaceModes   == {"race-setup", "race-create", "race-revoke", "race-assign"}

ASSUME QualificationAssumption ==
  /\ Slots = Events /\ EventOf = [e \in Events |-> e]
  /\ Events = UNION {Rounds[i] : i \in DOMAIN Rounds}
  /\ ModeOf \in [Events -> PluginModes \cup BrokenModes \cup RaceModes]
  /\ ScopeOf \in [Events -> Scopes]

VARIABLES
  step,   \* "new", "starting", "calling", "shutdown" or an outcome, per run
  made    \* the number of calls each run has made

scriptVars == <<vars, eventVars, step, made>>

Outcomes == {"passed", "startup-rejected", "failed"}

Provided(mode) ==
  CASE mode = "wrong-binding"  -> "misnamed"
    [] mode = "missing-schema" -> "empty"
    [] mode = "throws"         -> "broken"
    [] OTHER                   -> "exact"

ScriptInit ==
  /\ binding = [e \in Events |-> Provided(ModeOf[e])]
  /\ EventInit
  /\ step    = [e \in Events |-> "new"]
  /\ made    = [e \in Events |-> 0]

-----------------------------------------------------------------------------
(* The scripts: calls, and what is asserted of their answers.              *)

Anything == <<>>

\* An assertion that is not valid keeps the creation from the store, and one role is listed.
Ordinary(mode) ==
  <<Test(Bootstrap("owner"), Reaches(1))>>
  \o (CASE mode = "success" -> <<Test(Create("owner", Viewer), Reaches(2))>>
        [] mode = "closed"  -> <<Test(Create("owner", Viewer), Unavailable)>>
        [] OTHER            -> <<>>)
  \o (CASE mode = "success" -> <<Test(ListAfter(NoCursor, 10), ListsMany(2))>>
        [] mode = "expired" -> <<Test(ListAfter(NoCursor, 10), ListsMany(1))>>
        [] OTHER            -> <<>>)

\* The answers of a race are compared when all of them are there.
Racing(mode) ==
  CASE mode = "race-setup"  -> <<Test(Bootstrap("owner"), Succeeds),
                                 Test(Assign("owner", "other", BootstrapRole), Succeeds)>>
    [] mode = "race-create" -> <<Test(Create("owner", Viewer), Anything)>>
    [] mode = "race-revoke" -> <<Test(Revoke("other", "owner", BootstrapRole), Succeeds)>>
    [] mode = "race-assign" -> <<Test(Assign("other", "third", BootstrapRole), Succeeds)>>

Script ==
  [e \in Events |->
     LET tests == IF ModeOf[e] = "conformance" THEN Vectors
                  ELSE IF ModeOf[e] \in RaceModes THEN Racing(ModeOf[e]) ELSE Ordinary(ModeOf[e])
     IN  [i \in DOMAIN tests |-> [tests[i] EXCEPT !.call.scope = ScopeOf[e]]]]

ScriptCalls == UNION {{Script[e][i].call : i \in DOMAIN Script[e]} : e \in Events}

-----------------------------------------------------------------------------
(* The steps of a run.                                                     *)

GoToStep(e, to) == step' = [step EXCEPT ![e] = to]

\* The database is set up first.  Races do without the plugin.
Launch(e) ==
  /\ schema /\ step[e] = "new" /\ UNCHANGED made
  /\ \E i \in DOMAIN Rounds :
       e \in Rounds[i] /\ \A j \in 1..(i - 1) : \A r \in Rounds[j] : step[r] \in Outcomes
  /\ IF ModeOf[e] \in RaceModes THEN GoToStep(e, "calling") /\ UNCHANGED <<vars, eventVars>>
     ELSE GoToStep(e, "starting") /\ Activate(e)

\* Nothing fails here but what the mode has prepared.
Start(e) ==
  /\ Verify(e) /\ (Verifies(e) => stage'[e] = "active")
  /\ UNCHANGED <<step, made>>

Started(e) ==
  /\ step[e] = "starting"
  /\ \/ stage[e] = "active" /\ GoToStep(e, IF ModeOf[e] \in BrokenModes THEN "failed" ELSE "calling")
     \/ /\ stage[e] = "rejected"
        /\ GoToStep(e, IF ModeOf[e] \in BrokenModes THEN "startup-rejected" ELSE "failed")
  /\ UNCHANGED <<vars, eventVars, made>>

\* The resources of the event are closed before the creation.
CloseEarly(e) ==
  /\ step[e] = "calling" /\ ModeOf[e] = "closed" /\ made[e] = 1 /\ caller[e] = "idle"
  /\ Close(e) /\ UNCHANGED <<step, made>>

Ask(e) ==
  /\ step[e] = "calling" /\ (ModeOf[e] = "closed" /\ made[e] = 1 => e \in closed)
  /\ made' = [made EXCEPT ![e] = @ + 1]
  /\ LET c == Script[e][made'[e]].call
     IN  IF ModeOf[e] \in RaceModes \cup {"conformance"} THEN Begin(e, c) /\ UNCHANGED eventVars
         ELSE Submit(e, c) \/ TurnAway(e, c)
  /\ UNCHANGED step

AsAsserted(e) == Matches(Observed(result[e]), Script[e][made[e]].expected)

\* The first assertion that fails ends the run.  The last answer stays.
Judge(e) ==
  /\ step[e] = "calling" /\ caller[e] = "answered" /\ UNCHANGED <<eventVars, made>>
  /\ \/ ~ AsAsserted(e) /\ GoToStep(e, "failed") /\ UNCHANGED vars
     \/ AsAsserted(e) /\ made[e] < Len(Script[e]) /\ Release(e) /\ UNCHANGED step
     \/ /\ AsAsserted(e) /\ made[e] = Len(Script[e]) /\ UNCHANGED vars
        /\ GoToStep(e, IF ModeOf[e] \in RaceModes THEN "passed" ELSE "shutdown")

Shutdown(e) == step[e] = "shutdown" /\ Deactivate(e) /\ GoToStep(e, "passed") /\ UNCHANGED made

ScriptNext ==
  \/ Setup /\ UNCHANGED <<step, made>>
  \/ \E e \in Events :
       \/ Launch(e) \/ Start(e) \/ Started(e) \/ CloseEarly(e) \/ Ask(e) \/ Judge(e) \/ Shutdown(e)
       \/ (RunBatch(e) \/ Hear(e)) /\ UNCHANGED <<step, made>>

ScriptSpec == ScriptInit /\ [][ScriptNext]_scriptVars

-----------------------------------------------------------------------------
RunsOf(modes) == {e \in Events : ModeOf[e] \in modes}
Over(runs)    == \A e \in runs : step[e] \in Outcomes

\* No assertion of a script fails, in no mode and in no vector, whatever runs of a round
\* are under way at the same time; and when all is over, every run that succeeded has
\* changed its own scope twice, and the workspace they share is empty.
QualificationPasses ==
  /\ \A e \in Events : step[e] # "failed"
  /\ Over(Events) =>
       workspace = NoRow /\ \A e \in RunsOf({"success"}) : db[ScopeOf[e]].revision = 2

\* An administrator creates a role while another revokes its administration: the creation
\* is allowed or not, and either way the answers and the tables tell of one order.  Of equal
\* assignments made at once one changes something, and all are answered with the
\* revision it makes.
RacesSerialize ==
  \A c \in RunsOf({"race-create"}), r \in RunsOf({"race-revoke"}) :
    LET allowed == result[c].kind = "mutation"
        repeats == RunsOf({"race-assign"})
        p       == db[ScopeOf[c]]
    IN  /\ Over({c, r}) =>
             /\ allowed \/ result[c] = Failure("Forbidden")
             /\ result[r] = Mutation(TRUE, IF allowed THEN 4 ELSE 3)
             /\ allowed <=> Viewer \in p.roles
             /\ <<"owner", BootstrapRole>> \notin p.bindings
        /\ Over(repeats) =>
             /\ Cardinality({e \in repeats : result[e].changed}) = 1
             /\ \A e \in repeats : result[e].revision = result[r].revision + 1
=============================================================================
