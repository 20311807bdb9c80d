-------------------------- MODULE AccessStoreProofs --------------------------
(***************************************************************************)
(* Proofs about AccessStore, for every set of scopes, subjects, roles,     *)
(* permissions, calls and slots, and about DirectoryWalk, a caller of it,  *)
(* for any roles, page sizes and calls of others.                          *)
(***************************************************************************)
EXTENDS DirectoryWalk, PolicyLemmas

-----------------------------------------------------------------------------
(* The abstract store.                                                     *)


\* Types, sound policies, and answers that name no revision of the future.  The last
\* part is what makes AnswersHoldAtTheirRevision inductive: after a change no other
\* answer can name the revision just made.
NoAnswerFromTheFuture ==
  \A t \in Slots : phase[t] = "decided" /\ result[t] \in Versioned =>
                     result[t].revision <= policy[call[t].scope].revision

\* The slots that have a call.
ActiveCalls == \A t \in Slots : phase[t] # "idle" => call[t] \in Calls

IInv == TypeOK /\ ActiveCalls /\ PoliciesSound /\ NoAnswerFromTheFuture /\ AnswersHoldAtTheirRevision

-----------------------------------------------------------------------------
LEMMA InitIInv == Init => IInv
<1> SUFFICES ASSUME Init PROVE IInv
  OBVIOUS
<1>1. TypeOK
  BY InitialPolicies, ResultTypes DEF Init, TypeOK
<1>2. ActiveCalls /\ NoAnswerFromTheFuture /\ AnswersHoldAtTheirRevision
  BY DEF Init, ActiveCalls, NoAnswerFromTheFuture, AnswersHoldAtTheirRevision
<1>3. RowsBelong(NoPolicy) /\ Administrable(NoPolicy)
  BY InitialPolicies DEF RowsBelong, Administrable, NoPolicy
<1>4. PoliciesSound
  BY <1>3 DEF Init, PoliciesSound
<1>5. QED
  BY <1>1, <1>2, <1>4 DEF IInv

\* A step that leaves the policies alone and answers, if it answers, with a result
\* that holds now, keeps the invariant.
LEMMA AnswerKeepsIInv ==
  ASSUME IInv, NEW t \in Slots, phase[t] # "idle", UNCHANGED policy,
         NEW r \in Results, Decide(t, phase[t], r),
         r \in Versioned => r.revision = policy[call[t].scope].revision,
         HoldsAtItsRevision(call[t], r, policy[call[t].scope])
  PROVE  IInv'
<1>1. /\ phase' = [phase EXCEPT ![t] = "decided"] /\ result' = [result EXCEPT ![t] = r]
      /\ policy' = policy /\ call' = call
  BY DEF Decide
<1>2. TypeOK' /\ ActiveCalls' /\ PoliciesSound'
  BY <1>1 DEF IInv, TypeOK, ActiveCalls, PoliciesSound
<1>3. call[t].scope \in Scopes /\ policy[call[t].scope].revision \in Int
  BY CallShape, CallsAssumption DEF IInv, TypeOK, ActiveCalls, Policies
<1>4. NoAnswerFromTheFuture'
  BY <1>1, <1>3 DEF IInv, NoAnswerFromTheFuture, TypeOK
<1>5. AnswersHoldAtTheirRevision'
  BY <1>1 DEF IInv, AnswersHoldAtTheirRevision, TypeOK
<1>6. QED
  BY <1>2, <1>4, <1>5 DEF IInv

\* A step that advances the policy of a call's scope by an accepted change keeps the
\* invariant: every other answer names an older revision, or another scope.
LEMMA AdvanceKeepsIInv ==
  ASSUME IInv, NEW t \in Slots, phase[t] \in {"called", "doubt"},
         Changes(call[t], policy[call[t].scope]),
         policy' = [policy EXCEPT ![call[t].scope] = Advance(call[t], policy[call[t].scope])],
         NEW r \in {Unavailable, Mutation(TRUE, policy[call[t].scope].revision + 1)},
         Decide(t, phase[t], r)
  PROVE  IInv'
<1> DEFINE c == call[t]
           p == policy[c.scope]
           q == Advance(c, p)
<1>1. /\ phase' = [phase EXCEPT ![t] = "decided"] /\ result' = [result EXCEPT ![t] = r]
      /\ call' = call
  BY DEF Decide
<1>2. c \in StoreCalls /\ c.scope \in Scopes /\ p \in Policies
  BY CallShape, CallsAssumption DEF IInv, TypeOK, ActiveCalls
<1>3. RowsBelong(p) /\ Administrable(p)
  BY <1>2 DEF IInv, PoliciesSound
<1>4. /\ q \in Policies /\ q.revision = p.revision + 1
      /\ RowsBelong(q) /\ Administrable(q) /\ Effect(c, q) = q
  BY <1>2, <1>3, AdvanceType, AdvanceRowsBelong, AdvanceAdministrable, AdvanceInForce
<1>5. p.revision \in Int /\ q.revision \in 0..MaxRevision
  BY <1>2, <1>4 DEF Policies
<1>6. r \in Results /\ (r \in Versioned => r.revision = q.revision)
  BY <1>4, <1>5, ResultTypes
<1>7. policy' = [policy EXCEPT ![c.scope] = q]
  OBVIOUS
<1> HIDE DEF q, p
<1>8. TypeOK'
  BY <1>1, <1>2, <1>4, <1>6, <1>7 DEF IInv, TypeOK
<1>9. ActiveCalls'
  BY <1>1 DEF IInv, TypeOK, ActiveCalls
<1>10. PoliciesSound'
  BY <1>2, <1>4, <1>7 DEF IInv, TypeOK, PoliciesSound
<1>11. \A u \in Slots : u # t /\ phase[u] = "decided" /\ result[u] \in Versioned =>
         /\ call[u].scope \in Scopes /\ result[u].revision \in Int
         /\ result[u].revision <= policy[call[u].scope].revision
         /\ call[u].scope = c.scope => result[u].revision < q.revision
  <2> SUFFICES ASSUME NEW u \in Slots, u # t, phase[u] = "decided", result[u] \in Versioned
               PROVE  /\ call[u].scope \in Scopes /\ result[u].revision \in Int
                      /\ result[u].revision <= policy[call[u].scope].revision
                      /\ call[u].scope = c.scope => result[u].revision < q.revision
    OBVIOUS
  <2>1. call[u].scope \in Scopes
    BY CallShape, CallsAssumption DEF IInv, ActiveCalls
  <2>2. result[u].revision \in Int
    BY DEF Versioned
  <2>3. result[u].revision <= policy[call[u].scope].revision
    BY DEF IInv, NoAnswerFromTheFuture
  <2>4. QED
    BY <1>4, <1>5, <2>1, <2>2, <2>3 DEF p
<1>12. NoAnswerFromTheFuture'
  <2> SUFFICES ASSUME NEW u \in Slots, (phase[u] = "decided" /\ result[u] \in Versioned)'
               PROVE  (result[u].revision <= policy[call[u].scope].revision)'
    BY DEF NoAnswerFromTheFuture
  <2>1. CASE u = t
    BY <1>1, <1>2, <1>5, <1>6, <1>7, <2>1 DEF IInv, TypeOK
  <2>2. CASE u # t
    BY <1>1, <1>2, <1>5, <1>7, <1>11, <2>2 DEF IInv, TypeOK
  <2>3. QED
    BY <2>1, <2>2
<1>13. AnswersHoldAtTheirRevision'
  <2> SUFFICES ASSUME NEW u \in Slots, phase[u]' = "decided",
                      result[u]' \in Versioned,
                      result[u]'.revision = policy'[call[u]'.scope].revision
               PROVE  IF call[u]'.op \in ReadOps
                      THEN result[u]' = ReadAnswer(call[u]', policy'[call[u]'.scope])
                      ELSE Effect(call[u]', policy'[call[u]'.scope]) = policy'[call[u]'.scope]
    BY DEF AnswersHoldAtTheirRevision, HoldsAtItsRevision
  <2>1. CASE u = t
    <3>1. call[u]' = c /\ policy'[c.scope] = q /\ c.op \notin ReadOps
      BY <1>1, <1>2, <1>7, <2>1 DEF IInv, TypeOK, Changes
    <3>2. QED
      BY <1>4, <3>1
  <2>2. CASE u # t
    <3>1. phase[u] = "decided" /\ result[u]' = result[u] /\ call[u]' = call[u]
      BY <1>1, <2>2 DEF IInv, TypeOK
    <3>2. call[u].scope # c.scope
      BY <1>2, <1>5, <1>7, <1>11, <2>2, <3>1 DEF IInv, TypeOK
    <3>3. policy'[call[u].scope] = policy[call[u].scope]
      BY <1>7, <1>11, <2>2, <3>1, <3>2 DEF IInv, TypeOK
    <3>4. QED
      BY <3>1, <3>3 DEF IInv, AnswersHoldAtTheirRevision, HoldsAtItsRevision
  <2>3. QED
    BY <2>1, <2>2
<1>14. QED
  BY <1>8, <1>9, <1>10, <1>12, <1>13 DEF IInv

-----------------------------------------------------------------------------
\* Each action keeps the invariant.
LEMMA StepKeepsIInv ==
  ASSUME IInv, NEW t \in Slots, Step(t)
  PROVE  IInv'
<1> DEFINE c == call[t]
           p == policy[c.scope]
<1>1. phase[t] # "idle" => c \in StoreCalls /\ c.scope \in Scopes /\ p \in Policies
  BY CallShape, CallsAssumption DEF IInv, TypeOK, ActiveCalls
<1>2. phase[t] # "idle" => p.revision \in 0..MaxRevision
  BY <1>1 DEF Policies
<1>3. ASSUME NEW d \in Calls, Start(t, d) PROVE IInv'
  <2>1. TypeOK' /\ ActiveCalls' /\ PoliciesSound'
    BY <1>3 DEF Start, IInv, TypeOK, ActiveCalls, PoliciesSound
  <2>2. \A u \in Slots : phase'[u] = "decided" =>
          phase[u] = "decided" /\ call'[u] = call[u] /\ result'[u] = result[u]
    BY <1>3 DEF Start, IInv, TypeOK
  <2>3. NoAnswerFromTheFuture' /\ AnswersHoldAtTheirRevision'
    BY <1>3, <2>2 DEF Start, IInv, NoAnswerFromTheFuture, AnswersHoldAtTheirRevision
  <2>4. QED
    BY <2>1, <2>3 DEF IInv
<1>4. CASE Refuse(t)
  <2>1. PICK f \in DomainFailures : phase[t] = "called" /\ Decide(t, "called", Failure(f))
    BY <1>4 DEF Refuse
  <2>2. Failure(f) \in Results /\ Failure(f) \notin Versioned
    BY ResultTypes
  <2>3. UNCHANGED policy
    BY <1>4 DEF Refuse
  <2>4. QED
    BY <2>1, <2>2, <2>3, AnswerKeepsIInv DEF HoldsAtItsRevision
<1>5. CASE Answer(t)
  <2>1. /\ phase[t] = "called" /\ c.op \in ReadOps /\ UNCHANGED policy
        /\ Decide(t, "called", ReadAnswer(c, p))
    BY <1>5 DEF Answer
  <2>2. ReadAnswer(c, p) \in Versioned /\ ReadAnswer(c, p).revision = p.revision
    BY <1>1, <2>1, ReadAnswerType
  <2>3. HoldsAtItsRevision(c, ReadAnswer(c, p), p)
    BY <2>1 DEF HoldsAtItsRevision
  <2>4. QED
    BY <2>1, <2>2, <2>3, ResultTypes, AnswerKeepsIInv
<1>6. CASE Keep(t)
  <2>1. /\ phase[t] = "called" /\ c.op \notin ReadOps /\ UNCHANGED policy
        /\ Effect(c, p) = p /\ Decide(t, "called", Mutation(FALSE, p.revision))
    BY <1>6 DEF Keep
  <2>2. /\ Mutation(FALSE, p.revision) \in Versioned
        /\ Mutation(FALSE, p.revision).revision = p.revision
    BY <1>2, <2>1, ResultTypes
  <2>3. HoldsAtItsRevision(c, Mutation(FALSE, p.revision), p)
    BY <2>1 DEF HoldsAtItsRevision
  <2>4. QED
    BY <2>1, <2>2, <2>3, ResultTypes, AnswerKeepsIInv
<1>7. CASE Change(t)
  BY <1>7, AdvanceKeepsIInv DEF Change
<1>8. CASE Lose(t)
  <2>1. UNCHANGED policy /\ phase[t] # "idle" /\ Decide(t, phase[t], Unavailable)
    BY <1>8 DEF Lose, Decide
  <2>2. HoldsAtItsRevision(c, Unavailable, p)
    BY ResultTypes DEF HoldsAtItsRevision
  <2>3. QED
    BY <2>1, <2>2, ResultTypes, AnswerKeepsIInv
<1>9. CASE Doubt(t)
  <2>1. TypeOK' /\ ActiveCalls' /\ PoliciesSound'
    BY <1>9, ResultTypes DEF Doubt, IInv, TypeOK, ActiveCalls, PoliciesSound
  <2>2. \A u \in Slots : phase'[u] = "decided" =>
          phase[u] = "decided" /\ call'[u] = call[u] /\ result'[u] = result[u]
    BY <1>9 DEF Doubt, IInv, TypeOK
  <2>3. NoAnswerFromTheFuture' /\ AnswersHoldAtTheirRevision'
    BY <1>9, <2>2 DEF Doubt, IInv, NoAnswerFromTheFuture, AnswersHoldAtTheirRevision
  <2>4. QED
    BY <2>1, <2>3 DEF IInv
<1>10. CASE LateChange(t)
  BY <1>10, AdvanceKeepsIInv DEF LateChange
<1>11. CASE Return(t)
  <2>1. TypeOK' /\ ActiveCalls' /\ PoliciesSound'
    BY <1>11, ResultTypes DEF Return, IInv, TypeOK, ActiveCalls, PoliciesSound
  <2>2. \A u \in Slots : phase'[u] = "decided" =>
          phase[u] = "decided" /\ call'[u] = call[u] /\ result'[u] = result[u]
    BY <1>11 DEF Return, IInv, TypeOK
  <2>3. NoAnswerFromTheFuture' /\ AnswersHoldAtTheirRevision'
    BY <1>11, <2>2 DEF Return, IInv, NoAnswerFromTheFuture, AnswersHoldAtTheirRevision
  <2>4. QED
    BY <2>1, <2>3 DEF IInv
<1>12. QED
  BY <1>3, <1>4, <1>5, <1>6, <1>7, <1>8, <1>9, <1>10, <1>11 DEF Step

LEMMA NextIInv == IInv /\ [Next]_vars => IInv'
<1> SUFFICES ASSUME IInv, [Next]_vars PROVE IInv'
  OBVIOUS
<1>1. CASE Next
  BY <1>1, StepKeepsIInv DEF Next
<1>2. CASE UNCHANGED vars
  BY <1>2 DEF vars, IInv, TypeOK, ActiveCalls, PoliciesSound, NoAnswerFromTheFuture,
              AnswersHoldAtTheirRevision
<1>3. QED
  BY <1>1, <1>2

LEMMA SpecIInv == Spec => []IInv
BY InitIInv, NextIInv, PTL DEF Spec

\* The variables keep their types.
THEOREM StoreTypes == Spec => []TypeOK
<1>1. IInv => TypeOK
  BY DEF IInv
<1>2. QED
  BY <1>1, SpecIInv, PTL

\* However calls interleave, fail, or come through late, no bootstrapped scope loses
\* its last administrator, and no stored policy has rows that do not belong.
THEOREM StorePoliciesSound == Spec => []PoliciesSound
<1>1. IInv => PoliciesSound
  BY DEF IInv
<1>2. QED
  BY <1>1, SpecIInv, PTL

\* A revision names one policy: every answer given at the current revision is still true.
THEOREM StoreAnswersHold == Spec => []AnswersHoldAtTheirRevision
<1>1. IInv => AnswersHoldAtTheirRevision
  BY DEF IInv
<1>2. QED
  BY <1>1, SpecIInv, PTL

\* Every step that changes a scope advances its revision by one and changes a row; the
\* owner of a bootstrapped scope never changes.
THEOREM StoreRevisionCounts == Spec => RevisionCountsChanges
<1>1. ASSUME IInv, [Next]_vars
      PROVE  [\A s \in Scopes : Counted(policy[s], policy'[s])]_vars
  <2>1. SUFFICES ASSUME NEW s \in Scopes, policy'[s] # policy[s]
                 PROVE  Counted(policy[s], policy'[s])
    BY DEF Counted
  <2>2. PICK t \in Slots : Step(t)
    BY <1>1, <2>1 DEF Next, vars
  <2>3. Change(t) \/ LateChange(t)
    BY <2>1, <2>2 DEF Step, Start, Refuse, Answer, Keep, Lose, Doubt, Return
  <2>4. /\ Changes(call[t], policy[call[t].scope]) /\ phase[t] # "idle"
        /\ policy' = [policy EXCEPT ![call[t].scope] = Advance(call[t], policy[call[t].scope])]
    BY <2>3 DEF Change, LateChange, Decide
  <2>5. call[t] \in StoreCalls /\ call[t].scope \in Scopes
    BY <1>1, <2>4, CallShape, CallsAssumption DEF IInv, ActiveCalls
  <2>6. call[t].scope = s /\ policy'[s] = Advance(call[t], policy[s])
    BY <1>1, <2>1, <2>4, <2>5 DEF IInv, TypeOK
  <2>7. policy[s] \in Policies /\ RowsBelong(policy[s])
    BY <1>1 DEF IInv, TypeOK, PoliciesSound
  <2>8. QED
    BY <2>4, <2>5, <2>6, <2>7, AdvanceCounts DEF Counted
<1>2. QED
  BY <1>1, SpecIInv, PTL DEF Spec, RevisionCountsChanges

-----------------------------------------------------------------------------
(* A walk through the pages of a list: a role that is on no page yet is    *)
(* above the cursor, and a page holds all that is above the cursor up to   *)
(* its own last role.                                                      *)


\* The policy the walk is about, now.
Now == policy[WalkScope]

\* The answer the reader has is a page.
OnPage == phase[Reader] = "decided" /\ result[Reader].kind = "page"

\* Role r is on the page, or comes after all that is on it and the page says there is more.
OnOrAfter(page, r) ==
  \/ r \in PageRoles(page)
  \/ (page.more /\ \A q \in PageRoles(page) : q < r)

WalkTypes ==
  /\ policy \in [Scopes -> Policies]
  /\ phase  \in [Slots -> {"idle", "called", "decided", "doubt"}]
  /\ call   \in [Slots -> StoreCalls \cup {NoCall}]
  /\ result \in [Slots -> Results]
  /\ \A t \in Slots : phase[t] # "idle" => call[t] \in StoreCalls
  /\ subject \in Subjects \cup {NoSubject} /\ limit \in PageLimits
  /\ cursor \in RoleIds \cup {NoCursor}
  /\ walk \in {"new", "under way", "over"}
  /\ seen \in SUBSET RoleIds /\ first \in SUBSET RoleIds
  /\ always \in SUBSET RoleIds /\ ever \in SUBSET RoleIds
  /\ revisions \in SUBSET (0..MaxRevision)

\* The reader has at most the call for the next page, and only while it walks.
ReaderWalks ==
  /\ phase[Reader] \in {"idle", "called", "decided"}
  /\ phase[Reader] # "idle" => walk = "under way" /\ call[Reader] = PageCall

\* What has been read so far: of the roles up to the cursor, all that were there all the
\* time, and none that never was.
PagesStand ==
  /\ walk = "new" \/ revisions = {} => seen = {} /\ revisions = {} /\ cursor = NoCursor
  /\ walk = "under way" => Wanted(Now) \subseteq ever /\ always \subseteq Wanted(Now)
  /\ walk # "over" => \A r \in seen : r <= cursor
  /\ walk # "new" => /\ seen \subseteq ever
                     /\ \A r \in always : walk = "over" \/ r <= cursor => r \in seen
  /\ \A v \in revisions : v <= Now.revision

\* While the pages name one revision, they are the roles of it up to the cursor, and the
\* directory has them still if it is at that revision.
SnapshotStands ==
  \A v \in revisions : revisions = {v} =>
    /\ seen = {r \in first : walk = "over" \/ r <= cursor}
    /\ walk = "under way" /\ Now.revision = v => Wanted(Now) = first

\* The page the reader has been given, but has not looked at.
AnswerStands ==
  OnPage =>
    LET page == result[Reader]
    IN  /\ page.revision <= Now.revision
        /\ page.more => PageRoles(page) # {}
        /\ PageRoles(page) \subseteq {r \in ever : r > cursor}
        /\ \A r \in always : r > cursor => OnOrAfter(page, r)
        /\ revisions \subseteq {page.revision} =>
             /\ PageRoles(page) \subseteq first
             /\ \A r \in first : r > cursor => OnOrAfter(page, r)
             /\ Now.revision = page.revision => Wanted(Now) = first

WalkInv == WalkTypes /\ ReaderWalks /\ PagesStand /\ SnapshotStands /\ AnswerStands

-----------------------------------------------------------------------------
(* The roles of a walk.                                                    *)

\* The roles of policy p, or those of subject u.
RolesOf(u, p) == {r \in p.roles : r > NoCursor /\ (u = NoSubject \/ <<u, r>> \in p.bindings)}

LEMMA WantedIs == ASSUME NEW p PROVE Wanted(p) = RolesOf(subject, p)
BY DEF Wanted, Listed, PageCall, RolesOf

\* The call for the next page ranges over the roles of the walk above the cursor.
LEMMA PageCallIs ==
  ASSUME WalkTypes
  PROVE  /\ PageCall \in StoreCalls /\ PageCall.op = "list" /\ PageCall.scope = WalkScope
         /\ PageCall.limit \in Nat \ {0}
         /\ \A p \in Policies : Wanted(p) \in SUBSET RoleIds
         /\ \A p \in Policies : Listed(PageCall, p) = {r \in Wanted(p) : r > cursor}
         /\ cursor \in Nat /\ RoleIds \subseteq Nat \ {0} /\ NoCursor = 0 /\ Now \in Policies
<1>1. PageCall \in StoreCalls
  BY ReaderAssumption DEF PageCall, StoreCalls, ListCalls, WalkTypes
<1>2. /\ PageCall.op = "list" /\ PageCall.scope = WalkScope /\ PageCall.limit = limit
      /\ PageCall.subject = subject /\ PageCall.after = cursor
  BY DEF PageCall
<1>3. limit \in Nat \ {0} /\ cursor \in Nat /\ RoleIds \subseteq Nat \ {0} /\ NoCursor = 0
  <2>1. PageLimits \subseteq Nat \ {0} /\ RoleIds \subseteq Nat \ {0} /\ NoCursor = 0
    BY PolicyAssumption DEF NoCursor
  <2>2. limit \in PageLimits /\ cursor \in RoleIds \cup {NoCursor}
    BY DEF WalkTypes
  <2>3. QED
    BY <2>1, <2>2
<1>4. Now \in Policies
  BY ReaderAssumption DEF WalkTypes, Now
<1>5. \A p \in Policies : p.roles \in SUBSET RoleIds
  BY DEF Policies
<1>6. \A p \in Policies : Wanted(p) \in SUBSET RoleIds
  BY <1>5, WantedIs DEF RolesOf
<1>7. \A p \in Policies : Listed(PageCall, p) = {r \in Wanted(p) : r > cursor}
  <2>1. SUFFICES ASSUME NEW p \in Policies
                 PROVE  Listed(PageCall, p) = {r \in Wanted(p) : r > cursor}
    OBVIOUS
  <2>2. Listed(PageCall, p) =
          {r \in p.roles : r > cursor /\ (subject = NoSubject \/ <<subject, r>> \in p.bindings)}
    BY <1>2 DEF Listed
  <2>3. \A r \in p.roles : r > cursor => r > NoCursor
    <3>1. \A r \in p.roles : r \in Nat
      BY <1>3, <1>5
    <3>2. QED
      BY <1>3, <3>1
  <2>4. QED
    BY <2>2, <2>3, WantedIs DEF RolesOf
<1>8. QED
  BY <1>1, <1>2, <1>3, <1>4, <1>6, <1>7

LEMMA InitWalkInv == WalkInit => WalkInv
<1> SUFFICES ASSUME WalkInit PROVE WalkInv
  OBVIOUS
<1>1. WalkTypes
  BY InitialPolicies, ResultTypes DEF WalkInit, Init, WalkTypes
<1>2. ReaderWalks /\ ~ OnPage
  BY ReaderAssumption DEF WalkInit, Init, ReaderWalks, OnPage
<1>3. PagesStand /\ SnapshotStands
  BY DEF WalkInit, PagesStand, SnapshotStands
<1>4. QED
  BY <1>1, <1>2, <1>3 DEF WalkInv, AnswerStands

-----------------------------------------------------------------------------
(* The steps of the reader.                                                *)

LEMMA AskKeepsWalkInv == WalkInv /\ AskForPage => WalkInv'
<1> SUFFICES ASSUME WalkInv, AskForPage PROVE WalkInv'
  OBVIOUS
<1>0. WalkTypes /\ ReaderWalks /\ PagesStand /\ SnapshotStands
  BY DEF WalkInv
<1>1. /\ walk # "over" /\ walk' = "under way" /\ phase[Reader] = "idle"
      /\ phase' = [phase EXCEPT ![Reader] = "called"] /\ call' = [call EXCEPT ![Reader] = PageCall]
      /\ policy' = policy /\ result' = result
      /\ always' = (IF walk = "new" THEN Wanted(Now) ELSE always)
      /\ ever' = (IF walk = "new" THEN Wanted(Now) ELSE ever)
      /\ subject' = subject /\ limit' = limit /\ cursor' = cursor /\ seen' = seen
      /\ revisions' = revisions /\ first' = first
  BY DEF AskForPage, Start, Now
<1>2. PageCall \in StoreCalls /\ Wanted(Now) \in SUBSET RoleIds /\ RoleIds \subseteq Nat \ {0} /\ NoCursor = 0
  BY <1>0, PageCallIs
<1>3. PageCall' = PageCall /\ Now' = Now /\ Wanted(Now)' = Wanted(Now)
  BY <1>1 DEF PageCall, Now, Wanted, Listed
<1>4. WalkTypes'
  BY <1>0, <1>1, <1>2 DEF WalkTypes
<1>5. ReaderWalks' /\ ~ OnPage'
  BY <1>0, <1>1, <1>3, ReaderAssumption DEF WalkTypes, ReaderWalks, OnPage
<1>6. PagesStand'
  <2>1. CASE walk = "new"
    <3>1. seen = {} /\ revisions = {} /\ cursor = NoCursor
      BY <1>0, <2>1 DEF PagesStand
    <3>2. always' = Wanted(Now) /\ ever' = Wanted(Now)
      BY <1>1, <2>1
    <3>3. \A r \in always' : ~ (r <= cursor')
      <4>1. \A r \in Wanted(Now) : r \in Nat /\ r > 0
        <5>1. RoleIds \subseteq Nat \ {0} /\ Wanted(Now) \subseteq RoleIds
          BY <1>2
        <5>2. \A r \in Nat \ {0} : r \in Nat /\ r > 0
          OBVIOUS
        <5>3. QED
          BY <5>1, <5>2
      <4>2. cursor' = 0
        BY <1>1, <1>2, <3>1
      <4>3. QED
        BY <3>2, <4>1, <4>2
    <3>4. QED
      BY <1>1, <1>3, <3>1, <3>2, <3>3 DEF PagesStand
  <2>2. CASE walk = "under way"
    BY <1>0, <1>1, <1>3, <2>2 DEF PagesStand
  <2>3. QED
    BY <1>0, <1>1, <2>1, <2>2 DEF WalkTypes
<1>7. SnapshotStands'
  <2>1. CASE walk = "new"
    BY <1>0, <1>1, <2>1 DEF PagesStand, SnapshotStands
  <2>2. CASE walk = "under way"
    BY <1>0, <1>1, <1>3, <2>2 DEF SnapshotStands
  <2>3. QED
    BY <1>0, <1>1, <2>1, <2>2 DEF WalkTypes
<1>8. QED
  BY <1>4, <1>5, <1>6, <1>7 DEF WalkInv, AnswerStands

\* A step that only ends the call of the reader, without a page.
LEMMA NoPageKeepsWalkInv ==
  ASSUME WalkInv, UNCHANGED <<policy, walkVars>>, WalkTypes', ReaderWalks', ~ OnPage'
  PROVE  WalkInv'
<1>1. /\ policy' = policy /\ walk' = walk /\ subject' = subject /\ limit' = limit /\ cursor' = cursor
      /\ seen' = seen /\ revisions' = revisions /\ first' = first /\ always' = always /\ ever' = ever
  BY DEF walkVars
<1>2. Now' = Now /\ Wanted(Now)' = Wanted(Now)
  BY <1>1 DEF Now, Wanted, Listed, PageCall
<1>3. PagesStand' /\ SnapshotStands'
  BY <1>1, <1>2 DEF WalkInv, PagesStand, SnapshotStands
<1>4. QED
  BY <1>3 DEF WalkInv, AnswerStands

LEMMA LoseKeepsWalkInv == WalkInv /\ LosePage => WalkInv'
<1> SUFFICES ASSUME WalkInv, LosePage PROVE WalkInv'
  OBVIOUS
<1>1. /\ phase[Reader] # "idle" /\ phase' = [phase EXCEPT ![Reader] = "decided"]
      /\ result' = [result EXCEPT ![Reader] = Unavailable]
      /\ UNCHANGED <<policy, call>> /\ UNCHANGED walkVars
  BY DEF LosePage, Lose, Decide
<1>2. Unavailable.kind # "page"
  BY DEF Unavailable
<1>3. WalkTypes'
  BY <1>1, ResultTypes DEF WalkInv, WalkTypes, walkVars
<1>4. ReaderWalks' /\ ~ OnPage'
  BY <1>1, <1>2, ReaderAssumption DEF WalkInv, WalkTypes, ReaderWalks, OnPage, PageCall, walkVars
<1>5. QED
  BY <1>1, <1>3, <1>4, NoPageKeepsWalkInv

LEMMA ReadKeepsWalkInv == WalkInv /\ ReadPage => WalkInv'
<1> SUFFICES ASSUME WalkInv, ReadPage PROVE WalkInv'
  OBVIOUS
<1> DEFINE page == ReadAnswer(PageCall, Now)
<1>0. WalkTypes /\ ReaderWalks /\ PagesStand /\ SnapshotStands
  BY DEF WalkInv
<1>1. phase[Reader] = "called" /\ walk = "under way" /\ call[Reader] = PageCall
  BY <1>0 DEF ReadPage, Answer, ReaderWalks
<1>2. /\ PageCall \in StoreCalls /\ PageCall.op = "list" /\ PageCall.scope = WalkScope
      /\ PageCall.limit \in Nat \ {0}
      /\ Wanted(Now) \in SUBSET RoleIds /\ Listed(PageCall, Now) = {r \in Wanted(Now) : r > cursor}
      /\ cursor \in Nat /\ RoleIds \subseteq Nat \ {0} /\ NoCursor = 0 /\ Now \in Policies
  BY <1>0, PageCallIs
<1>3. /\ phase' = [phase EXCEPT ![Reader] = "decided"] /\ result' = [result EXCEPT ![Reader] = page]
      /\ policy' = policy /\ call' = call
      /\ first' = (IF revisions = {} THEN Wanted(Now) ELSE first)
      /\ walk' = walk /\ subject' = subject /\ limit' = limit /\ cursor' = cursor
      /\ seen' = seen /\ revisions' = revisions /\ always' = always /\ ever' = ever
  BY <1>1, <1>2 DEF ReadPage, Answer, Decide, Now
<1>4. PageCall' = PageCall /\ Now' = Now /\ Wanted(Now)' = Wanted(Now)
  BY <1>3 DEF PageCall, Now, Wanted, Listed
<1>5. page \in Results
  BY <1>2, ReadAnswerType, ResultTypes DEF ReadOps
<1>6. /\ page.kind = "page" /\ page.revision = Now.revision /\ page.more \in BOOLEAN
      /\ PageRoles(page) \subseteq {r \in Wanted(Now) : r > cursor}
      /\ \A r \in Wanted(Now) : r > cursor => OnOrAfter(page, r)
      /\ page.more => PageRoles(page) # {}
  <2>1. /\ page.kind = "page" /\ page.revision = Now.revision /\ page.more \in BOOLEAN
        /\ PageRoles(page) = Lowest(PageCall.limit, Listed(PageCall, Now))
        /\ page.more <=> PageRoles(page) # Listed(PageCall, Now)
        /\ Listed(PageCall, Now) \in SUBSET Nat /\ IsFiniteSet(Listed(PageCall, Now))
    BY <1>2, ListAnswer
  <2>2. /\ PageRoles(page) \subseteq Listed(PageCall, Now)
        /\ \A r \in Listed(PageCall, Now) \ PageRoles(page), q \in PageRoles(page) : q < r
        /\ PageRoles(page) # Listed(PageCall, Now) => PageRoles(page) # {}
    <3> DEFINE R == Listed(PageCall, Now)
               n == PageCall.limit
    <3>1. R \in SUBSET Nat /\ IsFiniteSet(R) /\ n \in Nat \ {0} /\ PageRoles(page) = Lowest(n, R)
      BY <1>2, <2>1
    <3> HIDE DEF R, n
    <3>2. /\ Lowest(n, R) \subseteq R
          /\ \A r \in R \ Lowest(n, R), q \in Lowest(n, R) : q < r
          /\ Lowest(n, R) # R => Lowest(n, R) # {}
      BY <3>1, PagesAreFirst
    <3>3. QED
      BY <3>1, <3>2 DEF R
  <2> HIDE DEF page
  <2>3. \A r \in Listed(PageCall, Now) : OnOrAfter(page, r)
    BY <2>1, <2>2 DEF OnOrAfter
  <2>4. QED
    BY <1>2, <2>1, <2>2, <2>3
<1> HIDE DEF page
<1>7. WalkTypes'
  BY <1>0, <1>1, <1>2, <1>3, <1>5 DEF WalkTypes
<1>8. ReaderWalks' /\ result'[Reader] = page
  BY <1>0, <1>1, <1>3, <1>4, ReaderAssumption DEF WalkTypes, ReaderWalks
<1>9. PagesStand'
  BY <1>0, <1>3, <1>4 DEF PagesStand
<1>10. SnapshotStands'
  <2>1. SUFFICES ASSUME NEW v \in revisions, revisions = {v} PROVE first' = first
    BY <1>0, <1>3, <1>4 DEF SnapshotStands
  <2>2. QED
    BY <1>3, <2>1
<1>11. AnswerStands'
  <2>1. /\ Wanted(Now) \subseteq ever /\ always \subseteq Wanted(Now)
    BY <1>0, <1>1 DEF PagesStand
  <2>2. revisions \subseteq {page.revision} => first' = Wanted(Now)
    <3>1. CASE revisions = {}
      BY <1>3, <3>1
    <3>2. CASE revisions = {page.revision}
      BY <1>0, <1>1, <1>3, <1>6, <3>2 DEF SnapshotStands
    <3>3. QED
      BY <3>1, <3>2
  <2>3. Now.revision \in Nat
    BY <1>2 DEF Policies
  <2>4. QED
    BY <1>3, <1>4, <1>6, <1>8, <2>1, <2>2, <2>3 DEF AnswerStands
<1>12. QED
  BY <1>7, <1>8, <1>9, <1>10, <1>11 DEF WalkInv

\* What there is to know of the page the reader has, and of the cursor that follows it.
LEMMA PageIs ==
  ASSUME WalkInv, OnPage
  PROVE  LET page == result[Reader]
         IN  /\ walk = "under way"
             /\ page.more \in BOOLEAN /\ page.revision \in 0..MaxRevision
             /\ PageRoles(page) \in SUBSET RoleIds
             /\ \A r \in PageRoles(page) : r > cursor
             /\ page.more => /\ NextCursor(page) \in RoleIds \ {NoCursor}
                             /\ NextCursor(page) \in PageRoles(page)
                             /\ \A q \in PageRoles(page) : q <= NextCursor(page)
             /\ ~ page.more => NextCursor(page) = NoCursor
<1> DEFINE page == result[Reader]
<1>1. phase[Reader] = "decided" /\ page.kind = "page" /\ page \in Results /\ walk = "under way"
  BY ReaderAssumption DEF WalkInv, WalkTypes, OnPage, ReaderWalks
<1>2. page \in [kind : {"page"}, rows : SUBSET RoleRows, revision : 0..MaxRevision, more : BOOLEAN]
  <2>1. page \in Versioned
    <3>1. /\ \A x \in [kind : {"failure"}, failure : DomainFailures] : x.kind = "failure"
          /\ Unavailable.kind # "page" /\ NoResult.kind # "page"
      BY DEF Unavailable, NoResult
    <3>2. QED
      BY <1>1, <3>1 DEF Results
  <2>2. \A x \in Versioned : x.kind = "page" =>
          x \in [kind : {"page"}, rows : SUBSET RoleRows, revision : 0..MaxRevision, more : BOOLEAN]
    BY DEF Versioned
  <2>3. QED
    BY <1>1, <2>1, <2>2
<1>3. page.more \in BOOLEAN /\ page.revision \in 0..MaxRevision
  BY <1>2
<1>4. PageRoles(page) \subseteq {r \in ever : r > cursor} /\ (page.more => PageRoles(page) # {})
  BY DEF WalkInv, AnswerStands
<1> HIDE DEF page
<1>5. PageRoles(page) \in SUBSET RoleIds /\ \A r \in PageRoles(page) : r > cursor
  BY <1>4 DEF WalkInv, WalkTypes
<1>6. ASSUME page.more
      PROVE  /\ NextCursor(page) \in RoleIds \ {NoCursor} /\ NextCursor(page) \in PageRoles(page)
             /\ \A q \in PageRoles(page) : q <= NextCursor(page)
  <2>1. IsFiniteSet(PageRoles(page)) /\ PageRoles(page) \in SUBSET Nat /\ PageRoles(page) # {}
    BY <1>4, <1>5, <1>6, PolicyAssumption, FS_Subset
  <2>2. LastRole(page) \in PageRoles(page) /\ \A q \in PageRoles(page) : q <= LastRole(page)
    BY <2>1, LastRoleIsLast
  <2>3. NextCursor(page) = LastRole(page)
    BY <1>6 DEF NextCursor
  <2>4. NoCursor \notin RoleIds
    BY PolicyAssumption DEF NoCursor
  <2>5. QED
    BY <1>5, <2>2, <2>3, <2>4
<1>7. ~ page.more => NextCursor(page) = NoCursor
  BY DEF NextCursor
<1>8. QED
  BY <1>1, <1>3, <1>5, <1>6, <1>7 DEF page

LEMMA TurnKeepsWalkInv == WalkInv /\ TurnPage => WalkInv'
<1> SUFFICES ASSUME WalkInv, TurnPage PROVE WalkInv'
  OBVIOUS
<1> DEFINE page == result[Reader]
<1>0. WalkTypes /\ ReaderWalks /\ PagesStand /\ SnapshotStands /\ AnswerStands
  BY DEF WalkInv
<1>1. /\ phase[Reader] = "decided" /\ phase' = [phase EXCEPT ![Reader] = "idle"]
      /\ call' = [call EXCEPT ![Reader] = NoCall] /\ result' = [result EXCEPT ![Reader] = NoResult]
      /\ policy' = policy
      /\ subject' = subject /\ limit' = limit /\ first' = first /\ always' = always /\ ever' = ever
  BY <1>0 DEF TurnPage, Return, ReaderWalks
<1>2. phase'[Reader] = "idle"
  BY <1>0, <1>1, ReaderAssumption DEF WalkTypes
<1>3. ReaderWalks' /\ ~ OnPage'
  BY <1>2 DEF ReaderWalks, OnPage
<1>4. CASE page.kind # "page"
  <2>1. UNCHANGED <<policy, walkVars>>
    BY <1>1, <1>4 DEF TurnPage, walkVars
  <2>2. WalkTypes'
    BY <1>0, <1>1, <2>1, ResultTypes DEF WalkTypes, walkVars
  <2>3. QED
    BY <1>3, <2>1, <2>2, NoPageKeepsWalkInv
<1>5. CASE page.kind = "page"
  <2> DEFINE roles == PageRoles(page)
             next  == NextCursor(page)
  <2>1. OnPage
    BY <1>1, <1>5 DEF OnPage
  <2>2. /\ seen' = seen \cup roles /\ revisions' = revisions \cup {page.revision} /\ cursor' = next
        /\ walk' = (IF next = NoCursor THEN "over" ELSE walk)
    BY <1>5 DEF TurnPage
  <2>3. /\ walk = "under way" /\ page.more \in BOOLEAN /\ page.revision \in 0..MaxRevision
        /\ roles \in SUBSET RoleIds /\ \A r \in roles : r > cursor
        /\ page.more => /\ next \in RoleIds \ {NoCursor} /\ next \in roles
                        /\ \A q \in roles : q <= next
        /\ ~ page.more => next = NoCursor
    BY <2>1, PageIs
  <2>4. /\ page.revision <= Now.revision /\ roles \subseteq ever
        /\ \A r \in always : r > cursor => OnOrAfter(page, r)
        /\ revisions \subseteq {page.revision} =>
             /\ roles \subseteq first
             /\ \A r \in first : r > cursor => OnOrAfter(page, r)
             /\ Now.revision = page.revision => Wanted(Now) = first
    BY <1>0, <2>1 DEF AnswerStands
  <2>5. \A r : OnOrAfter(page, r) <=> r \in roles \/ (page.more /\ \A q \in roles : q < r)
    BY DEF OnOrAfter
  <2>6. page.more => walk' = "under way"
    BY <2>2, <2>3
  <2>7. ~ page.more => walk' = "over"
    BY <2>2, <2>3
  <2>8. /\ \A r \in RoleIds : r \in Nat /\ r > 0
        /\ cursor \in Nat /\ NoCursor = 0 /\ Now \in Policies
        /\ roles \subseteq RoleIds /\ seen \subseteq RoleIds /\ first \subseteq RoleIds /\ always \subseteq RoleIds
    <3>1. /\ RoleIds \subseteq Nat \ {0} /\ cursor \in Nat /\ NoCursor = 0 /\ Now \in Policies
      BY <1>0, PageCallIs
    <3>2. \A r \in Nat \ {0} : r \in Nat /\ r > 0
      OBVIOUS
    <3>3. seen \subseteq RoleIds /\ first \subseteq RoleIds /\ always \subseteq RoleIds
      BY <1>0 DEF WalkTypes
    <3>4. \A r \in RoleIds : r \in Nat /\ r > 0
      BY <3>1, <3>2
    <3>5. QED
      BY <2>3, <3>1, <3>3, <3>4
  <2>9. Now' = Now /\ Wanted(Now)' = Wanted(Now)
    BY <1>1 DEF Now, Wanted, Listed, PageCall
  <2> HIDE DEF page, roles, next
  <2>10. WalkTypes'
    BY <1>0, <1>1, <2>2, <2>3, ResultTypes DEF WalkTypes
  \* What is below the next cursor, or anywhere if there is none, was below the cursor or is
  \* on the page.
  <2>11. ASSUME NEW S \in SUBSET RoleIds, \A r \in S : r > cursor => OnOrAfter(page, r),
                NEW r \in S, walk' = "over" \/ r <= cursor'
         PROVE  r <= cursor \/ r \in roles
    <3>1. SUFFICES ASSUME ~ (r <= cursor), r \notin roles PROVE FALSE
      OBVIOUS
    <3>2. r \in Nat /\ r > cursor
      BY <2>8, <2>11, <3>1
    <3>3. page.more /\ \A q \in roles : q < r
      BY <2>5, <2>11, <3>1, <3>2
    <3>4. next \in roles /\ next \in Nat
      BY <2>3, <2>8, <3>3
    <3>5. next < r /\ r <= next
      BY <2>2, <2>6, <2>11, <3>3, <3>4
    <3>6. QED
      BY <3>2, <3>4, <3>5
  \* What has been listed is below the next cursor, if there is one.
  <2>12. ASSUME NEW r \in RoleIds, r <= cursor \/ r \in roles
         PROVE  walk' = "over" \/ r <= cursor'
    <3>1. SUFFICES ASSUME walk' # "over" PROVE r <= next
      BY <2>2
    <3>2. page.more
      BY <2>3, <2>7, <3>1
    <3>3. next \in roles /\ next \in Nat /\ next > cursor /\ \A q \in roles : q <= next
      BY <2>3, <2>8, <3>2
    <3>4. QED
      BY <2>8, <2>12, <3>3
  <2>13. PagesStand'
    <3>1. walk' # "new" /\ revisions' # {}
      BY <2>2, <2>3, <2>6, <2>7
    <3>2. walk' = "under way" => Wanted(Now)' \subseteq ever' /\ always' \subseteq Wanted(Now)'
      BY <1>0, <1>1, <2>3, <2>9 DEF PagesStand
    <3>3. \A r \in seen : r <= cursor
      BY <1>0, <2>3 DEF PagesStand
    <3>4. walk' # "over" => \A r \in seen' : r <= cursor'
      BY <2>2, <2>8, <2>12, <3>3
    <3>5. seen' \subseteq ever'
      BY <1>0, <1>1, <2>2, <2>3, <2>4 DEF PagesStand
    <3>6. \A r \in always' : walk' = "over" \/ r <= cursor' => r \in seen'
      <4>1. \A r \in always : r <= cursor => r \in seen
        BY <1>0, <2>3 DEF PagesStand
      <4>2. \A r \in always : walk' = "over" \/ r <= cursor' => r <= cursor \/ r \in roles
        BY <2>4, <2>8, <2>11
      <4>3. QED
        BY <1>1, <2>2, <4>1, <4>2
    <3>7. \A v \in revisions' : v <= Now'.revision
      BY <1>0, <2>2, <2>4, <2>9 DEF PagesStand
    <3>8. QED
      BY <3>1, <3>2, <3>4, <3>5, <3>6, <3>7 DEF PagesStand
  <2>14. SnapshotStands'
    <3>1. SUFFICES ASSUME revisions \subseteq {page.revision}
                   PROVE  /\ seen' = {r \in first : walk' = "over" \/ r <= cursor'}
                          /\ Now.revision = page.revision => Wanted(Now) = first
      BY <1>1, <2>2, <2>9 DEF SnapshotStands
    <3>2. /\ roles \subseteq first /\ \A r \in first : r > cursor => OnOrAfter(page, r)
          /\ Now.revision = page.revision => Wanted(Now) = first
      BY <2>4, <3>1
    <3>3. seen = {r \in first : r <= cursor}
      <4>1. CASE revisions = {}
        <5>1. seen = {} /\ cursor = 0
          BY <1>0, <2>8, <4>1 DEF PagesStand
        <5>2. \A r \in first : ~ (r <= 0)
          BY <2>8
        <5>3. QED
          BY <5>1, <5>2
      <4>2. CASE revisions = {page.revision}
        BY <1>0, <2>3, <4>2 DEF SnapshotStands
      <4>3. QED
        BY <3>1, <4>1, <4>2
    <3>4. \A r \in first : walk' = "over" \/ r <= cursor' => r <= cursor \/ r \in roles
      BY <2>8, <2>11, <3>2
    <3>5. \A r \in first : r <= cursor \/ r \in roles => walk' = "over" \/ r <= cursor'
      BY <2>8, <2>12
    <3>6. QED
      BY <2>2, <3>2, <3>3, <3>4, <3>5
  <2>15. QED
    BY <1>3, <2>10, <2>13, <2>14 DEF WalkInv, AnswerStands
<1>6. QED
  BY <1>4, <1>5

-----------------------------------------------------------------------------
(* The steps of the others.                                                *)

\* Another slot touches no other slot, and changes a policy only to one of the next revision.
LEMMA OthersSteps ==
  ASSUME WalkTypes, NEW t \in Slots, Step(t)
  PROVE  /\ policy' \in [Scopes -> Policies]
         /\ phase'  \in [Slots -> {"idle", "called", "decided", "doubt"}]
         /\ call'   \in [Slots -> StoreCalls \cup {NoCall}]
         /\ result' \in [Slots -> Results]
         /\ \A u \in Slots : phase'[u] # "idle" => call'[u] \in StoreCalls
         /\ \A u \in Slots \ {t} : phase'[u] = phase[u] /\ call'[u] = call[u] /\ result'[u] = result[u]
         /\ \A s \in Scopes : policy'[s] = policy[s] \/ policy'[s].revision = policy[s].revision + 1
<1> DEFINE Goal ==
      /\ policy' \in [Scopes -> Policies]
      /\ phase'  \in [Slots -> {"idle", "called", "decided", "doubt"}]
      /\ call'   \in [Slots -> StoreCalls \cup {NoCall}]
      /\ result' \in [Slots -> Results]
      /\ \A u \in Slots : phase'[u] # "idle" => call'[u] \in StoreCalls
      /\ \A u \in Slots \ {t} : phase'[u] = phase[u] /\ call'[u] = call[u] /\ result'[u] = result[u]
      /\ \A s \in Scopes : policy'[s] = policy[s] \/ policy'[s].revision = policy[s].revision + 1
<1> DEFINE c == call[t]
           p == policy[c.scope]
<1>1. phase[t] # "idle" => c \in StoreCalls /\ c.scope \in Scopes /\ p \in Policies
  BY CallShape DEF WalkTypes
<1>2. phase[t] # "idle" => p.revision \in 0..MaxRevision
  BY <1>1 DEF Policies
<1>3. ASSUME phase[t] # "idle", policy' = policy, NEW r \in Results, Decide(t, phase[t], r)
      PROVE  Goal
  BY <1>3 DEF Decide, WalkTypes
<1>4. ASSUME phase[t] # "idle", Changes(c, p), policy' = [policy EXCEPT ![c.scope] = Advance(c, p)],
             NEW r \in Results, Decide(t, phase[t], r)
      PROVE  Goal
  <2>1. Advance(c, p) \in Policies /\ Advance(c, p).revision = p.revision + 1
    BY <1>1, <1>4, AdvanceType
  <2>2. /\ policy' \in [Scopes -> Policies]
        /\ \A s \in Scopes : policy'[s] = policy[s] \/ policy'[s].revision = policy[s].revision + 1
    BY <1>1, <1>4, <2>1 DEF WalkTypes
  <2>3. QED
    BY <1>4, <2>2 DEF Decide, WalkTypes
<1>5. ASSUME NEW d \in Calls, Start(t, d) PROVE Goal
  BY <1>5, CallsAssumption DEF Start, WalkTypes
<1>6. CASE Refuse(t)
  BY <1>3, <1>6, ResultTypes DEF Refuse, Decide
<1>7. CASE Answer(t)
  <2>1. ReadAnswer(c, p) \in Results
    BY <1>1, <1>7, ReadAnswerType, ResultTypes DEF Answer
  <2>2. QED
    BY <1>3, <1>7, <2>1 DEF Answer
<1>8. CASE Keep(t)
  <2>1. Mutation(FALSE, p.revision) \in Results
    BY <1>2, <1>8, ResultTypes DEF Keep
  <2>2. QED
    BY <1>3, <1>8, <2>1 DEF Keep
<1>9. CASE Change(t)
  <2>1. Changes(c, p) /\ phase[t] = "called"
    BY <1>9 DEF Change
  <2>2. p.revision + 1 \in 0..MaxRevision
    BY <1>2, <2>1, PolicyAssumption DEF Changes
  <2>3. Mutation(TRUE, p.revision + 1) \in Results
    BY <2>2, ResultTypes
  <2>4. QED
    BY <1>4, <1>9, <2>1, <2>3 DEF Change
<1>10. CASE Lose(t)
  BY <1>3, <1>10, ResultTypes DEF Lose, Decide
<1>11. CASE Doubt(t)
  BY <1>11, ResultTypes DEF Doubt, WalkTypes
<1>12. CASE LateChange(t)
  BY <1>4, <1>12, ResultTypes DEF LateChange
<1>13. CASE Return(t)
  BY <1>13, ResultTypes DEF Return, WalkTypes
<1>14. Goal
  BY <1>5, <1>6, <1>7, <1>8, <1>9, <1>10, <1>11, <1>12, <1>13 DEF Step
<1>15. QED
  BY <1>14

LEMMA OthersKeepWalkInv == ASSUME WalkInv, NEW t \in Slots \ {Reader}, Meanwhile(t) PROVE WalkInv'
<1>0. WalkTypes /\ ReaderWalks /\ PagesStand /\ SnapshotStands /\ AnswerStands
  BY DEF WalkInv
<1>1. /\ walk # "over" /\ Step(t)
      /\ always' = always \cap Wanted(policy'[WalkScope])
      /\ ever' = ever \cup Wanted(policy'[WalkScope])
      /\ walk' = walk /\ subject' = subject /\ limit' = limit /\ cursor' = cursor /\ seen' = seen
      /\ revisions' = revisions /\ first' = first
  BY DEF Meanwhile
<1>2. Wanted(Now)' = Wanted(policy'[WalkScope]) /\ PageCall' = PageCall
  BY <1>1 DEF Now, Wanted, Listed, PageCall
<1>3. /\ policy' \in [Scopes -> Policies]
      /\ phase'  \in [Slots -> {"idle", "called", "decided", "doubt"}]
      /\ call'   \in [Slots -> StoreCalls \cup {NoCall}]
      /\ result' \in [Slots -> Results]
      /\ \A u \in Slots : phase'[u] # "idle" => call'[u] \in StoreCalls
      /\ phase'[Reader] = phase[Reader] /\ call'[Reader] = call[Reader] /\ result'[Reader] = result[Reader]
      /\ Now' = Now \/ Now'.revision = Now.revision + 1
  BY <1>0, <1>1, OthersSteps, ReaderAssumption DEF Now
<1>4. Now' \in Policies /\ Wanted(Now)' \in SUBSET RoleIds
  <2>1. policy'[WalkScope] \in Policies
    BY <1>3, ReaderAssumption
  <2>2. QED
    BY <1>0, <1>2, <2>1, PageCallIs DEF Now
<1>5. Now.revision \in Nat /\ Now.revision <= Now'.revision
  BY <1>0, <1>3, PageCallIs DEF Policies
<1>6. WalkTypes'
  BY <1>0, <1>1, <1>2, <1>3, <1>4 DEF WalkTypes
<1>7. ReaderWalks' /\ OnPage' = OnPage
  BY <1>0, <1>1, <1>2, <1>3 DEF ReaderWalks, OnPage
<1>8. \A v \in revisions : v \in Nat /\ v <= Now.revision
  <2>1. revisions \in SUBSET (0..MaxRevision) /\ \A v \in revisions : v <= Now.revision
    BY <1>0 DEF WalkTypes, PagesStand
  <2>2. \A v \in 0..MaxRevision : v \in Nat
    OBVIOUS
  <2>3. QED
    BY <2>1, <2>2
<1>9. PagesStand'
  <2>1. \A v \in revisions : v <= Now'.revision
    <3>1. Now'.revision \in Nat
      BY <1>4 DEF Policies
    <3>2. QED
      BY <1>5, <1>8, <3>1
  <2>2. always' \subseteq always /\ ever \subseteq ever'
    BY <1>1
  <2>3. QED
    BY <1>0, <1>1, <1>2, <2>1, <2>2 DEF PagesStand
\* What was said of the roles at a revision is still so if the revision is.
<1>10. ASSUME NEW v \in Nat, v <= Now.revision, Now'.revision = v, Now.revision = v => Wanted(Now) = first
       PROVE  Wanted(Now)' = first'
  <2>1. Now' = Now
    BY <1>3, <1>5, <1>10
  <2>2. Wanted(Now)' = Wanted(Now)
    BY <1>2, <2>1 DEF Now
  <2>3. QED
    BY <1>1, <1>10, <2>1, <2>2
<1>11. SnapshotStands'
  <2>1. SUFFICES ASSUME NEW v \in revisions, revisions = {v}
                 PROVE  /\ seen = {r \in first : walk = "over" \/ r <= cursor}
                        /\ walk = "under way" /\ Now'.revision = v => Wanted(Now)' = first'
    BY <1>1 DEF SnapshotStands
  <2>2. /\ seen = {r \in first : walk = "over" \/ r <= cursor}
        /\ walk = "under way" /\ Now.revision = v => Wanted(Now) = first
    BY <1>0, <2>1 DEF SnapshotStands
  <2>3. QED
    BY <1>8, <1>10, <2>2
<1>12. AnswerStands'
  <2>1. SUFFICES ASSUME OnPage PROVE AnswerStands'
    BY <1>7 DEF AnswerStands
  <2> DEFINE page == result[Reader]
  <2>2. /\ page.revision <= Now.revision /\ (page.more => PageRoles(page) # {})
        /\ PageRoles(page) \subseteq {r \in ever : r > cursor}
        /\ \A r \in always : r > cursor => OnOrAfter(page, r)
        /\ revisions \subseteq {page.revision} =>
             /\ PageRoles(page) \subseteq first
             /\ \A r \in first : r > cursor => OnOrAfter(page, r)
             /\ Now.revision = page.revision => Wanted(Now) = first
    BY <1>0, <2>1 DEF AnswerStands
  <2>3. page.revision \in Nat
    <3>1. page.revision \in 0..MaxRevision
      BY <2>1, PageIs
    <3>2. QED
      BY <3>1
  <2>4. result'[Reader] = page
    BY <1>3
  <2> HIDE DEF page
  <2>5. page.revision <= Now'.revision
    <3>1. Now'.revision \in Nat
      BY <1>4 DEF Policies
    <3>2. QED
      BY <1>5, <2>2, <2>3, <3>1
  <2>6. revisions \subseteq {page.revision} /\ Now'.revision = page.revision => Wanted(Now)' = first'
    BY <1>10, <2>2, <2>3
  <2>7. always' \subseteq always /\ ever \subseteq ever'
    BY <1>1
  <2>8. QED
    BY <1>1, <2>2, <2>4, <2>5, <2>6, <2>7 DEF AnswerStands
<1>13. QED
  BY <1>6, <1>7, <1>9, <1>11, <1>12 DEF WalkInv

-----------------------------------------------------------------------------
LEMMA NextWalkInv == WalkInv /\ [WalkNext]_<<vars, walkVars>> => WalkInv'
<1> SUFFICES ASSUME WalkInv, [WalkNext]_<<vars, walkVars>> PROVE WalkInv'
  OBVIOUS
<1>1. CASE WalkNext
  BY <1>1, AskKeepsWalkInv, ReadKeepsWalkInv, LoseKeepsWalkInv, TurnKeepsWalkInv, OthersKeepWalkInv
     DEF WalkNext
<1>2. CASE UNCHANGED <<vars, walkVars>>
  BY <1>2 DEF vars, walkVars, WalkInv, WalkTypes, ReaderWalks, PagesStand, SnapshotStands, AnswerStands,
              OnPage, OnOrAfter, Now, Wanted, Listed, PageCall
<1>3. QED
  BY <1>1, <1>2

LEMMA SpecWalkInv == WalkSpec => []WalkInv
BY InitWalkInv, NextWalkInv, PTL DEF WalkSpec

\* However roles are created and deleted between the pages, and however often a page is
\* lost and asked for again, no role is on two pages.
THEOREM WalkListsNoRoleTwice == WalkSpec => []NoRoleIsListedTwice
<1>1. WalkInv => NoRoleIsListedTwice
  <2> SUFFICES ASSUME WalkInv, OnPage PROVE PageRoles(result[Reader]) \cap seen = {}
    BY DEF NoRoleIsListedTwice, OnPage
  <2>1. walk = "under way" /\ \A r \in PageRoles(result[Reader]) : r \in RoleIds /\ r > cursor
    BY PageIs
  <2>2. \A r \in seen : r <= cursor
    BY <2>1 DEF WalkInv, PagesStand
  <2>3. cursor \in Nat /\ RoleIds \subseteq Nat
    BY PageCallIs DEF WalkInv
  <2>4. \A r \in PageRoles(result[Reader]) : r \notin seen
    <3>1. \A r \in Nat : r > cursor => ~ (r <= cursor)
      BY <2>3
    <3>2. QED
      BY <2>1, <2>2, <2>3, <3>1
  <2>5. QED
    BY <2>4
<1>2. QED
  BY <1>1, SpecWalkInv, PTL

\* A walk that is over has listed every role that stayed, and none that never was: a
\* deleted role may be its cursor.
THEOREM WalkListsAll == WalkSpec => []WalkIsComplete
<1>1. WalkInv => WalkIsComplete
  BY DEF WalkInv, PagesStand, WalkIsComplete
<1>2. QED
  BY <1>1, SpecWalkInv, PTL

\* A walk whose pages name one revision has listed the roles there were at its first page.
THEOREM WalkOfOneRevision == WalkSpec => []OneRevisionIsASnapshot
<1>1. WalkInv => OneRevisionIsASnapshot
  <2> SUFFICES ASSUME WalkInv, walk = "over", Cardinality(revisions) = 1 PROVE seen = first
    BY DEF OneRevisionIsASnapshot
  <2>1. IsFiniteSet(revisions)
    <3>1. IsFiniteSet(0..MaxRevision)
      BY FS_Interval, PolicyAssumption
    <3>2. revisions \in SUBSET (0..MaxRevision)
      BY DEF WalkInv, WalkTypes
    <3>3. QED
      BY <3>1, <3>2, FS_Subset
  <2>2. PICK v : revisions = {v}
    BY <2>1, FS_Singleton
  <2>3. seen = {r \in first : walk = "over" \/ r <= cursor}
    BY <2>2 DEF WalkInv, SnapshotStands
  <2>4. QED
    BY <2>3
<1>2. QED
  BY <1>1, SpecWalkInv, PTL
=============================================================================
