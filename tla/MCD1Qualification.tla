-------------------------- MODULE MCD1Qualification --------------------------
(* D1Qualification with a run of each mode, four that succeed at once, and a race. *)
EXTENDS D1Qualification, TLC

MCConcurrent == {"concurrent-1", "concurrent-2", "concurrent-3", "concurrent-4"}
MCRepeats    == {"race-assign-1", "race-assign-2", "race-assign-3", "race-assign-4"}

\* The vectors are made beside another run.
MCRounds ==
  <<{"conformance", "success"}, {"expired"}, {"closed"}, {"missing-schema"}, {"wrong-binding"},
    {"throws"}, MCConcurrent, {"race-setup"}, {"race-create", "race-revoke"}, MCRepeats>>

MCEvents  == UNION {MCRounds[i] : i \in DOMAIN MCRounds}
MCModeOf  == [e \in MCEvents |-> IF e \in MCConcurrent THEN "success"
                                 ELSE IF e \in MCRepeats THEN "race-assign" ELSE e]
MCScopeOf == [e \in MCEvents |-> IF MCModeOf[e] \in RaceModes THEN "race" ELSE e]
MCScopes  == {MCScopeOf[e] : e \in MCEvents}
MCEventOf == [e \in MCEvents |-> e]
=============================================================================
