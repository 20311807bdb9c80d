--------------------------- MODULE MCDirectoryWalk ---------------------------
(* DirectoryWalk while Alice creates, binds and deletes roles. *)
EXTENDS DirectoryWalk, MCCalls

CONSTANTS reader, t1

\* All roles are ordinary ones but the second.
GrowingCalls ==
  [op : {"bootstrap"}, scope : Scopes, subject : {alice}]
  \cup [op : {"create", "delete"}, scope : Scopes, actor : {alice}, role : {1, 3}]
  \cup [op : {"assign", "revoke"}, scope : Scopes, actor : {alice}, subject : {bob}, role : {1, 2}]
  \cup [op : {"list"}, scope : Scopes, subject : Subjects \cup {NoSubject},
        after : RoleIds \cup {NoCursor}, limit : PageLimits]
=============================================================================
