----------------------------- MODULE DirectoryWalk -----------------------------
(***************************************************************************)
(* A caller lists the roles of a scope, or those of a subject, page after  *)
(* page (core/src/lib.rs, list_roles and list_subject_roles): it asks for  *)
(* the first page without a cursor, and for each next one with the cursor  *)
(* it was given, until it is given none.  Every page is of one policy, but *)
(* roles are created, bound and deleted between the pages.  A page that is *)
(* lost is asked for again.                                                *)
(***************************************************************************)
EXTENDS AccessStore

CONSTANTS
  Reader,      \* the slot of the caller
  WalkScope    \* the scope whose roles it lists

ASSUME ReaderAssumption == Reader \in Slots /\ WalkScope \in Scopes

VARIABLES
  walk,        \* "new", "under way" or "over"
  subject,     \* the subject whose roles are listed, or NoSubject for all roles
  limit,       \* the page size
  cursor,      \* the cursor of the next page
  seen,        \* the roles listed so far
  revisions,   \* the revisions the pages named
  first,       \* the roles there were when the first page was read
  always, ever \* the roles there were all the time, and at some time, since the start

walkVars == <<walk, subject, limit, cursor, seen, revisions, first, always, ever>>

WalkInit ==
  /\ Init
  /\ walk = "new" /\ cursor = NoCursor
  /\ subject \in Subjects \cup {NoSubject} /\ limit \in PageLimits
  /\ seen = {} /\ revisions = {} /\ first = {} /\ always = {} /\ ever = {}

PageCall ==
  [op |-> "list", scope |-> WalkScope, subject |-> subject, after |-> cursor, limit |-> limit]

\* The roles the walk is about, in policy p.
Wanted(p) == Listed([PageCall EXCEPT !.after = NoCursor], p)

-----------------------------------------------------------------------------
\* The first page, or the next one, or once more one that was not answered.
AskForPage ==
  /\ walk # "over" /\ Bootstrapped(policy[WalkScope])
  /\ Start(Reader, PageCall)
  /\ walk'   = "under way"
  /\ always' = IF walk = "new" THEN Wanted(policy[WalkScope]) ELSE always
  /\ ever'   = IF walk = "new" THEN Wanted(policy[WalkScope]) ELSE ever
  /\ UNCHANGED <<subject, limit, cursor, seen, revisions, first>>

ReadPage ==
  /\ Answer(Reader)
  /\ first' = IF revisions = {} THEN Wanted(policy[WalkScope]) ELSE first
  /\ UNCHANGED <<walk, subject, limit, cursor, seen, revisions, always, ever>>

LosePage == Lose(Reader) /\ UNCHANGED walkVars

TurnPage ==
  /\ Return(Reader)
  /\ LET page == result[Reader]
     IN  IF page.kind = "page"
         THEN /\ seen'      = seen \cup PageRoles(page)
              /\ revisions' = revisions \cup {page.revision}
              /\ cursor'    = NextCursor(page)
              /\ walk'      = IF NextCursor(page) = NoCursor THEN "over" ELSE walk
         ELSE UNCHANGED <<seen, revisions, cursor, walk>>
  /\ UNCHANGED <<subject, limit, first, always, ever>>

\* Mutations go on until the walk is over.  Reads of others are left out.
Meanwhile(t) ==
  /\ walk # "over" /\ Step(t) /\ call'[t].op \notin ReadOps
  /\ always' = always \cap Wanted(policy'[WalkScope])
  /\ ever'   = ever \cup Wanted(policy'[WalkScope])
  /\ UNCHANGED <<walk, subject, limit, cursor, seen, revisions, first>>

WalkNext ==
  \/ AskForPage \/ ReadPage \/ LosePage \/ TurnPage
  \/ \E t \in Slots \ {Reader} : Meanwhile(t)

WalkSpec == WalkInit /\ [][WalkNext]_<<vars, walkVars>>

\* The caller goes on, and pages are not lost for ever, neither before they are read nor
\* after.  Nobody else need do anything.
FairWalkSpec ==
  /\ WalkSpec
  /\ WF_<<vars, walkVars>>(AskForPage) /\ WF_<<vars, walkVars>>(TurnPage)
  /\ SF_<<vars, walkVars>>(ReadPage)
  /\ SF_<<vars, walkVars>>(TurnPage /\ result[Reader].kind = "page")

-----------------------------------------------------------------------------
\* A page lists no role that a page before it has listed, whatever was created or
\* deleted in between.
NoRoleIsListedTwice ==
  phase[Reader] = "decided" /\ result[Reader].kind = "page" => PageRoles(result[Reader]) \cap seen = {}

\* When the walk is over it has listed every role that was there from its start to its
\* end, also when the role that was its cursor has gone meanwhile, and no role that was
\* never there.
WalkIsComplete == walk = "over" => always \subseteq seen /\ seen \subseteq ever

\* A walk whose pages all name one revision has listed exactly the roles of that
\* revision: the pages together are a snapshot.
OneRevisionIsASnapshot == walk = "over" /\ Cardinality(revisions) = 1 => seen = first

\* A walk that has begun ends, however fast roles are created behind its cursor.
WalkEnds == walk = "under way" ~> walk = "over"
=============================================================================
