------------------------- MODULE PostgresConformance -------------------------
(***************************************************************************)
(* The vectors of Conformance made on the PostgreSQL store, statement by   *)
(* statement, while other callers use, and fail in, scopes of their own.   *)
(***************************************************************************)
EXTENDS PostgresStore, Conformance

CONSTANTS
  Tester,     \* the slot the vectors are made on, one call after the other
  Elsewhere   \* the calls others make meanwhile, in scopes of their own

ASSUME TesterAssumption ==
  /\ Tester \in Slots /\ {Vectors[i].call : i \in DOMAIN Vectors} \subseteq Calls
  /\ Elsewhere \subseteq {c \in Calls : c.scope # Fresh}

VARIABLE made       \* the number of calls made

testVars == <<vars, made>>

TestInit == Init /\ made = 0

\* The next call is made when the one before has been answered.
NextCall ==
  /\ made < Len(Vectors)
  /\ made' = made + 1
  /\ Begin(Tester, Vectors[made'].call)

\* The connections of a test that passes do not fail.
Testing ==
  \/ NextCall
  \/ (Work(Tester) \/ Release(Tester)) /\ UNCHANGED made

Others(t) ==
  /\ \/ \E c \in Elsewhere : Begin(t, c)
     \/ Work(t) \/ Fail(t) \/ CommitLate(t) \/ Release(t)
  /\ UNCHANGED made

TestNext == Testing \/ \E t \in Slots \ {Tester} : Others(t)

TestSpec == TestInit /\ [][TestNext]_testVars

-----------------------------------------------------------------------------
\* Every assertion of the vectors holds of the answer the store gives, whatever goes on,
\* fails or is in doubt in other scopes.
ExpectationsMet ==
  pc[Tester] = "done" => Matches(Observed(result[Tester]), Vectors[made].expected)
=============================================================================
