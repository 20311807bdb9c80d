------------------------------ MODULE MCD1Events ------------------------------
(* D1Events for two calls at once, each of an event of its own. *)
EXTENDS D1Events, MCCalls

CONSTANTS e1, e2, t1, t2

MCEventOf == (t1 :> e1) @@ (t2 :> e2)

\* Alice sets the scope up and shares it with Bob; whoever comes too early is refused.
HandOverCalls ==
  [op : {"bootstrap"}, scope : Scopes, subject : {alice}]
  \cup [op : {"assign"}, scope : Scopes, actor : {alice}, subject : {bob}, role : {2}]
=============================================================================
