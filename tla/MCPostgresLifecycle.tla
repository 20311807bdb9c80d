------------------------- MODULE MCPostgresLifecycle -------------------------
(* PostgresLifecycle: a pool of one connection, two calls that wait, and another process. *)
EXTENDS PostgresLifecycle, MCCalls

CONSTANTS here, elsewhere

\* Calls that all take the lock of the scope.
LockingCalls ==
  [op : {"bootstrap"}, scope : Scopes, subject : {alice}]
  \cup [op : {"assign", "revoke"}, scope : Scopes, actor : {alice}, subject : {bob}, role : {2}]
=============================================================================
