-------------------------- MODULE ConformanceProofs --------------------------
(***************************************************************************)
(* Every assertion of the conformance vectors holds of the PostgreSQL      *)
(* store, for any connections, other callers and other scopes.             *)
(*                                                                         *)
(* A table says which policy each vector leaves; EachVector, that a call   *)
(* the contract of the store decides on the policy before it has the       *)
(* expected answer and leaves the policy after it.  That the store decides *)
(* by the contract is the refinement of PostgresStoreProofs.               *)
(***************************************************************************)
EXTENDS PostgresConformance, PostgresStoreProofs, SequenceTheorems

-----------------------------------------------------------------------------
(* The vectors, one after the other.                                       *)

\* What the parts of Vectors are made of.
Elements ==
  {FreshScope[i] : i \in 1..6} \cup {OrdinaryRole[i] : i \in 1..14} \cup {Refusals[i] : i \in 1..7}
  \cup {Handover[i] : i \in 1..11} \cup {PageOrder[i] : i \in 1..12} \cup {Union[i] : i \in 1..10}

\* Two sequences, one after the other.
LEMMA Joined ==
  ASSUME NEW S
  PROVE
  \A s \in Seq(S), t \in Seq(S) :
    /\ s \o t \in Seq(S) /\ Len(s \o t) = Len(s) + Len(t)
    /\ \A i \in 1..Len(s) : (s \o t)[i] = s[i]
    /\ \A i \in 1..Len(t) : (s \o t)[Len(s) + i] = t[i]
<1> SUFFICES ASSUME NEW s \in Seq(S), NEW t \in Seq(S)
             PROVE  /\ s \o t \in Seq(S) /\ Len(s \o t) = Len(s) + Len(t)
                    /\ \A i \in 1..Len(s) : (s \o t)[i] = s[i]
                    /\ \A i \in 1..Len(t) : (s \o t)[Len(s) + i] = t[i]
  OBVIOUS
<1>1. s \o t \in Seq(S) /\ Len(s \o t) = Len(s) + Len(t)
  BY ConcatProperties
<1>2. \A i \in 1..Len(s) + Len(t) : (s \o t)[i] = IF i <= Len(s) THEN s[i] ELSE t[i - Len(s)]
  BY ConcatProperties
<1>3. Len(s) \in Nat /\ Len(t) \in Nat
  BY LenProperties
<1>4. ASSUME NEW i \in 1..Len(s) PROVE (s \o t)[i] = s[i]
  BY <1>2, <1>3
<1>5. ASSUME NEW i \in 1..Len(t) PROVE (s \o t)[Len(s) + i] = t[i]
  <2>1. Len(s) + i \in 1..Len(s) + Len(t) /\ ~ (Len(s) + i <= Len(s)) /\ (Len(s) + i) - Len(s) = i
    BY <1>3
  <2>2. QED
    BY <1>2, <2>1
<1>6. QED
  BY <1>1, <1>4, <1>5

\* A function on 1..n is a sequence.
LEMMA AnElementEach ==
  ASSUME NEW n \in Nat, NEW S, NEW s, s = [i \in 1..n |-> s[i]], \A i \in 1..n : s[i] \in S
  PROVE  s \in Seq(S) /\ Len(s) = n
<1>1. s \in [1..n -> S]
  OBVIOUS
<1>2. s \in Seq(S)
  BY <1>1
<1>3. QED
  BY <1>2

\* The six parts of the vectors, and how many vectors each has.
LEMMA Parts ==
  /\ FreshScope \in Seq(Elements) /\ Len(FreshScope) = 6
  /\ OrdinaryRole \in Seq(Elements) /\ Len(OrdinaryRole) = 14
  /\ Refusals \in Seq(Elements) /\ Len(Refusals) = 7
  /\ Handover \in Seq(Elements) /\ Len(Handover) = 11
  /\ PageOrder \in Seq(Elements) /\ Len(PageOrder) = 12
  /\ Union \in Seq(Elements) /\ Len(Union) = 10
<1>1. FreshScope = [i \in 1..6 |-> FreshScope[i]]
  BY DEF FreshScope
<1>2. OrdinaryRole = [i \in 1..14 |-> OrdinaryRole[i]]
  BY DEF OrdinaryRole
<1>3. Refusals = [i \in 1..7 |-> Refusals[i]]
  BY DEF Refusals
<1>4. Handover = [i \in 1..11 |-> Handover[i]]
  BY DEF Handover
<1>5. Union = [i \in 1..10 |-> Union[i]]
  BY DEF Union
<1>6. PageOrder = [i \in 1..12 |-> PageOrder[i]]
  <2> DEFINE X == [i \in 1..5 |-> Test(Create("other", <<UpperZ, Under, Dash, UpperA, LowerZ>>[i]),
                                  Succeeds)]
             Y == <<Test(ListAfter(NoCursor, 10), Lists({Listing[i] : i \in DOMAIN Listing}))>>
             Z == [i \in DOMAIN Listing |->
                     Test(ListAfter(IF i = 1 THEN NoCursor ELSE Listing[i - 1], 1), Lists({Listing[i]}))]
             S == {X[i] : i \in 1..5} \cup {Y[1]} \cup {Z[i] : i \in 1..6}
  <2>1. X \in Seq(S) /\ Len(X) = 5
    OBVIOUS
  <2>2. Y \in Seq(S) /\ Len(Y) = 1
    OBVIOUS
  <2>3. Z \in Seq(S) /\ Len(Z) = 6
    BY DEF Listing
  <2>4. PageOrder = X \o Y \o Z
    BY DEF PageOrder
  <2> HIDE DEF X, Y, Z, S
  <2>5. X \o Y \in Seq(S) /\ Len(X \o Y) = Len(X) + Len(Y)
    BY <2>1, <2>2, ConcatProperties, Zenon
  <2>6. X \o Y \o Z \in Seq(S) /\ Len(X \o Y \o Z) = Len(X \o Y) + Len(Z)
    BY <2>3, <2>5, ConcatProperties, Zenon
  <2>7. PageOrder \in Seq(S) /\ Len(PageOrder) = 12
    BY <2>1, <2>2, <2>3, <2>4, <2>5, <2>6
  <2>8. QED
    BY <2>7
<1>7. FreshScope \in Seq(Elements) /\ Len(FreshScope) = 6
  BY <1>1, AnElementEach DEF Elements
<1>8. OrdinaryRole \in Seq(Elements) /\ Len(OrdinaryRole) = 14
  BY <1>2, AnElementEach DEF Elements
<1>9. Refusals \in Seq(Elements) /\ Len(Refusals) = 7
  BY <1>3, AnElementEach DEF Elements
<1>10. Handover \in Seq(Elements) /\ Len(Handover) = 11
  BY <1>4, AnElementEach DEF Elements
<1>11. PageOrder \in Seq(Elements) /\ Len(PageOrder) = 12
  BY <1>6, AnElementEach DEF Elements
<1>12. Union \in Seq(Elements) /\ Len(Union) = 10
  BY <1>5, AnElementEach DEF Elements
<1>13. QED
  BY <1>7, <1>8, <1>9, <1>10, <1>11, <1>12

\* Where each part is among the vectors.
LEMMA VectorsInTurn ==
  /\ Vectors \in Seq(Elements) /\ Len(Vectors) = 60
  /\ \A i \in 1..6 : Vectors[i] = FreshScope[i]
  /\ \A i \in 1..14 : Vectors[6 + i] = OrdinaryRole[i]
  /\ \A i \in 1..7 : Vectors[20 + i] = Refusals[i]
  /\ \A i \in 1..11 : Vectors[27 + i] = Handover[i]
  /\ \A i \in 1..12 : Vectors[38 + i] = PageOrder[i]
  /\ \A i \in 1..10 : Vectors[50 + i] = Union[i]
<1> DEFINE A == FreshScope \o OrdinaryRole
           B == A \o Refusals
           C == B \o Handover
           D == C \o PageOrder
<1>0. \A s \in Seq(Elements), t \in Seq(Elements) :
        /\ s \o t \in Seq(Elements) /\ Len(s \o t) = Len(s) + Len(t)
        /\ \A i \in 1..Len(s) : (s \o t)[i] = s[i]
        /\ \A i \in 1..Len(t) : (s \o t)[Len(s) + i] = t[i]
  BY Joined
<1>1. /\ A \in Seq(Elements) /\ Len(A) = 20
      /\ \A i \in 1..6 : A[i] = FreshScope[i]
      /\ \A i \in 1..14 : A[6 + i] = OrdinaryRole[i]
  <2>1. FreshScope \in Seq(Elements) /\ OrdinaryRole \in Seq(Elements) /\ Len(FreshScope) = 6
          /\ Len(OrdinaryRole) = 14
    BY Parts
  <2>2. A = FreshScope \o OrdinaryRole
    BY DEF A
  <2> HIDE DEF A, B, C, D
  <2>3. /\ FreshScope \o OrdinaryRole \in Seq(Elements)
             /\ Len(FreshScope \o OrdinaryRole) = Len(FreshScope) + Len(OrdinaryRole)
        /\ \A i \in 1..Len(FreshScope) : (FreshScope \o OrdinaryRole)[i] = FreshScope[i]
        /\ \A i \in 1..Len(OrdinaryRole) : (FreshScope \o OrdinaryRole)[Len(FreshScope) + i] = OrdinaryRole[i]
    BY <2>1, <1>0, Zenon
  <2>4. 6 + 14 = 20
    OBVIOUS
  <2>5. QED
    BY <2>1, <2>2, <2>3, <2>4, Zenon
<1>2. /\ B \in Seq(Elements) /\ Len(B) = 27
      /\ \A i \in 1..20 : B[i] = A[i]
      /\ \A i \in 1..7 : B[20 + i] = Refusals[i]
  <2>1. A \in Seq(Elements) /\ Refusals \in Seq(Elements) /\ Len(A) = 20 /\ Len(Refusals) = 7
    BY <1>1, Parts
  <2>2. B = A \o Refusals
    BY DEF B
  <2> HIDE DEF A, B, C, D
  <2>3. /\ A \o Refusals \in Seq(Elements) /\ Len(A \o Refusals) = Len(A) + Len(Refusals)
        /\ \A i \in 1..Len(A) : (A \o Refusals)[i] = A[i]
        /\ \A i \in 1..Len(Refusals) : (A \o Refusals)[Len(A) + i] = Refusals[i]
    BY <2>1, <1>0, Zenon
  <2>4. 20 + 7 = 27
    OBVIOUS
  <2>5. QED
    BY <2>1, <2>2, <2>3, <2>4, Zenon
<1>3. /\ C \in Seq(Elements) /\ Len(C) = 38
      /\ \A i \in 1..27 : C[i] = B[i]
      /\ \A i \in 1..11 : C[27 + i] = Handover[i]
  <2>1. B \in Seq(Elements) /\ Handover \in Seq(Elements) /\ Len(B) = 27 /\ Len(Handover) = 11
    BY <1>2, Parts
  <2>2. C = B \o Handover
    BY DEF C
  <2> HIDE DEF A, B, C, D
  <2>3. /\ B \o Handover \in Seq(Elements) /\ Len(B \o Handover) = Len(B) + Len(Handover)
        /\ \A i \in 1..Len(B) : (B \o Handover)[i] = B[i]
        /\ \A i \in 1..Len(Handover) : (B \o Handover)[Len(B) + i] = Handover[i]
    BY <2>1, <1>0, Zenon
  <2>4. 27 + 11 = 38
    OBVIOUS
  <2>5. QED
    BY <2>1, <2>2, <2>3, <2>4, Zenon
<1>4. /\ D \in Seq(Elements) /\ Len(D) = 50
      /\ \A i \in 1..38 : D[i] = C[i]
      /\ \A i \in 1..12 : D[38 + i] = PageOrder[i]
  <2>1. C \in Seq(Elements) /\ PageOrder \in Seq(Elements) /\ Len(C) = 38 /\ Len(PageOrder) = 12
    BY <1>3, Parts
  <2>2. D = C \o PageOrder
    BY DEF D
  <2> HIDE DEF A, B, C, D
  <2>3. /\ C \o PageOrder \in Seq(Elements) /\ Len(C \o PageOrder) = Len(C) + Len(PageOrder)
        /\ \A i \in 1..Len(C) : (C \o PageOrder)[i] = C[i]
        /\ \A i \in 1..Len(PageOrder) : (C \o PageOrder)[Len(C) + i] = PageOrder[i]
    BY <2>1, <1>0, Zenon
  <2>4. 38 + 12 = 50
    OBVIOUS
  <2>5. QED
    BY <2>1, <2>2, <2>3, <2>4, Zenon
<1>5. /\ Vectors \in Seq(Elements) /\ Len(Vectors) = 60
      /\ \A i \in 1..50 : Vectors[i] = D[i]
      /\ \A i \in 1..10 : Vectors[50 + i] = Union[i]
  <2>1. D \in Seq(Elements) /\ Union \in Seq(Elements) /\ Len(D) = 50 /\ Len(Union) = 10
    BY <1>4, Parts
  <2>2. Vectors = D \o Union
    BY DEF Vectors, A, B, C, D
  <2> HIDE DEF A, B, C, D
  <2>3. /\ D \o Union \in Seq(Elements) /\ Len(D \o Union) = Len(D) + Len(Union)
        /\ \A i \in 1..Len(D) : (D \o Union)[i] = D[i]
        /\ \A i \in 1..Len(Union) : (D \o Union)[Len(D) + i] = Union[i]
    BY <2>1, <1>0, Zenon
  <2>4. 50 + 10 = 60
    OBVIOUS
  <2>5. QED
    BY <2>1, <2>2, <2>3, <2>4, ZenonT(60)
<1> HIDE DEF A, B, C, D
<1>6. /\ \A i \in 1..6 : A[i] = FreshScope[i]
      /\ \A i \in 1..14 : A[6 + i] = OrdinaryRole[i]
  BY <1>1, Zenon
<1>7. /\ \A i \in 1..20 : B[i] = A[i]
      /\ \A i \in 1..7 : B[20 + i] = Refusals[i]
  BY <1>2, Zenon
<1>8. /\ \A i \in 1..27 : C[i] = B[i]
      /\ \A i \in 1..11 : C[27 + i] = Handover[i]
  BY <1>3, Zenon
<1>9. /\ \A i \in 1..38 : D[i] = C[i]
      /\ \A i \in 1..12 : D[38 + i] = PageOrder[i]
  BY <1>4, Zenon
<1>10. /\ \A i \in 1..50 : Vectors[i] = D[i]
      /\ \A i \in 1..10 : Vectors[50 + i] = Union[i]
  BY <1>5, Zenon
<1>11. Vectors \in Seq(Elements) /\ Len(Vectors) = 60
  BY <1>5, Zenon
<1>12. /\ \A i \in 1..6 : Vectors[i] = FreshScope[i]
       /\ \A i \in 1..14 : Vectors[6 + i] = OrdinaryRole[i]
       /\ \A i \in 1..7 : Vectors[20 + i] = Refusals[i]
       /\ \A i \in 1..11 : Vectors[27 + i] = Handover[i]
       /\ \A i \in 1..12 : Vectors[38 + i] = PageOrder[i]
       /\ \A i \in 1..10 : Vectors[50 + i] = Union[i]
  BY <1>6, <1>7, <1>8, <1>9, <1>10
<1>13. QED
  BY <1>11, <1>12, Zenon

-----------------------------------------------------------------------------
(* A test that passes.                                                     *)

\* What the contract of a store lets call c come to on policy p: answer r, and n the policy it leaves.
Outcome(c, p, r, n) ==
  \/ \E f \in DomainFailures : Refused(c, p, f) /\ r = Failure(f) /\ n = p
  \/ c.op \in ReadOps /\ Accepted(c, p) /\ r = ReadAnswer(c, p) /\ n = p
  \/ /\ c.op \notin ReadOps /\ Accepted(c, p) /\ Effect(c, p) = p
     /\ r = Mutation(FALSE, p.revision) /\ n = p
  \/ Changes(c, p) /\ r = Mutation(TRUE, p.revision + 1) /\ n = Advance(c, p)

\* Test t passes on p and leaves q.
Right(t, p, q) ==
  \A r, n : Outcome(t.call, p, r, n) => n = q /\ Matches(Observed(r), t.expected)

\* A call that one failure refuses is answered by it.
LEMMA RightIfRefused ==
  ASSUME NEW c, NEW p, NEW f \in DomainFailures,
         Refused(c, p, f), \A g \in DomainFailures : Refused(c, p, g) => g = f
  PROVE  Right(Test(c, Fails(f)), p, p)
<1>1. Test(c, Fails(f)).call = c /\ Test(c, Fails(f)).expected = Fails(f)
  BY DEF Test
<1>2. Matches(Observed(Failure(f)), Fails(f))
  BY DEF Matches, Observed, Failure, Fails
<1>3. ~ Accepted(c, p)
  BY DEF Accepted
<1>4. QED
  BY <1>1, <1>2, <1>3 DEF Right, Outcome, Changes

\* What an accepted call comes to.
LEMMA AcceptedOutcomes ==
  ASSUME NEW c, NEW p, Accepted(c, p), NEW r, NEW n, Outcome(c, p, r, n)
  PROVE  \/ c.op \in ReadOps /\ r = ReadAnswer(c, p) /\ n = p
         \/ c.op \notin ReadOps /\ Effect(c, p) = p /\ r = Mutation(FALSE, p.revision) /\ n = p
         \/ /\ c.op \notin ReadOps /\ Effect(c, p) # p
            /\ r = Mutation(TRUE, p.revision + 1) /\ n = Advance(c, p)
<1>1. \A f \in DomainFailures : ~ Refused(c, p, f)
  BY DEF Accepted
<1>2. QED
  BY <1>1 DEF Outcome, Changes

\* An accepted read is answered from the policy, and changes nothing.
LEMMA RightIfRead ==
  ASSUME NEW c, NEW p, Accepted(c, p), c.op \in ReadOps,
         NEW e, Matches(Observed(ReadAnswer(c, p)), e)
  PROVE  Right(Test(c, e), p, p)
<1>1. Test(c, e).call = c /\ Test(c, e).expected = e
  BY DEF Test
<1>2. QED
  BY <1>1, AcceptedOutcomes DEF Right

\* So is a change for which there is nothing to do.
LEMMA RightIfKept ==
  ASSUME NEW c, NEW p, Accepted(c, p), c.op \notin ReadOps, Effect(c, p) = p,
         NEW e, Matches(Observed(Mutation(FALSE, p.revision)), e)
  PROVE  Right(Test(c, e), p, p)
<1>1. Test(c, e).call = c /\ Test(c, e).expected = e
  BY DEF Test
<1>2. QED
  BY <1>1, AcceptedOutcomes DEF Right

\* Any other change advances the policy.
LEMMA RightIfChanged ==
  ASSUME NEW c, NEW p, Accepted(c, p), c.op \notin ReadOps, Effect(c, p) # p,
         NEW e, Matches(Observed(Mutation(TRUE, p.revision + 1)), e)
  PROVE  Right(Test(c, e), p, Advance(c, p))
<1> DEFINE a == Mutation(TRUE, p.revision + 1)
<1>1. Test(c, e).call = c /\ Test(c, e).expected = e
  BY DEF Test
<1>2. \A r, n : Outcome(c, p, r, n) => r = a /\ n = Advance(c, p)
  BY AcceptedOutcomes
<1>3. Matches(Observed(a), e)
  OBVIOUS
<1> HIDE DEF a
<1>4. QED
  BY <1>1, <1>2, <1>3 DEF Right

\* What the tests look at in the answer to a change.
LEMMA MutationsMatch ==
  ASSUME NEW b \in BOOLEAN, NEW n
  PROVE  /\ Matches(Observed(Mutation(b, n)), Succeeds)
         /\ Matches(Observed(Mutation(b, n)), Reaches(n))
         /\ Matches(Observed(Mutation(b, n)), Makes(b, n))
         /\ Matches(Observed(Mutation(b, n)), [kind |-> "mutation", changed |-> b])
BY DEF Matches, Observed, Mutation, Succeeds, Reaches, Makes

-----------------------------------------------------------------------------
(* The policies of the vectors.                                            *)

\* The two rows of the bootstrap role.
Management == {BootstrapRole} \X {RolesManage, BindingsManage}

\* The policy of a scope that "owner" has bootstrapped, at revision n: with the roles R besides the
\* bootstrap role, the grants G of these, and the bindings B.
Kept(n, R, G, B) ==
  [owner |-> "owner", revision |-> n, roles |-> {BootstrapRole} \cup R,
   protected |-> {BootstrapRole}, grants |-> Management \cup G, bindings |-> B]

\* What keeps such a policy within the constants.
Fits(n, R, G, B) ==
  /\ n \in 1..20
  /\ R \subseteq RoleIds \ {BootstrapRole}
  /\ G \subseteq R \X DocumentPermissions
  /\ B \subseteq Subjects \X (R \cup {BootstrapRole})

\* It is the policy of a bootstrapped scope.
LEMMA KeptIsPolicy ==
  ASSUME NEW n, NEW R, NEW G, NEW B, Fits(n, R, G, B)
  PROVE  Kept(n, R, G, B) \in Policies /\ Bootstrapped(Kept(n, R, G, B))
<1>1. n \in 0..MaxRevision /\ n \in Nat
  BY PolicyAssumption, VectorAssumption DEF Fits
<1>2. "owner" \in Subjects /\ "owner" # NoSubject /\ BootstrapRole \in RoleIds
  BY PolicyAssumption, VectorAssumption DEF VectorSubjects
<1>3. Management \cup G \subseteq RoleIds \X Permissions
  <2>1. G \subseteq RoleIds \X Permissions
    BY VectorAssumption DEF Fits
  <2>2. QED
    BY <2>1, <1>2, PolicyAssumption DEF Management
<1>4. B \subseteq Subjects \X RoleIds /\ {BootstrapRole} \cup R \subseteq RoleIds
  BY <1>2 DEF Fits
<1>5. QED
  BY <1>1, <1>2, <1>3, <1>4 DEF Kept, Policies, Bootstrapped

\* Whom it allows what.
LEMMA KeptAllows ==
  ASSUME NEW n, NEW R, NEW G, NEW B, Fits(n, R, G, B), NEW s \in Subjects
  PROVE  LET p == Kept(n, R, G, B)
         IN  /\ \A q \in {RolesManage, BindingsManage} :
                  Allowed(p, s, q) <=> <<s, BootstrapRole>> \in B
             /\ \A q \in DocumentPermissions :
                  Allowed(p, s, q) <=> \E r \in R : <<s, r>> \in B /\ <<r, q>> \in G
<1> DEFINE p == Kept(n, R, G, B)
<1>1. p.grants = Management \cup G /\ p.bindings = B
  BY DEF Kept
<1>2. \A r, q : <<r, q>> \in Management <=> r = BootstrapRole /\ q \in {RolesManage, BindingsManage}
  BY DEF Management
<1>3. \A r, q : <<r, q>> \in G => r \in R /\ q \in DocumentPermissions
  BY DEF Fits
<1>4. DocumentPermissions \cap {RolesManage, BindingsManage} = {}
  BY VectorAssumption
<1>5. BootstrapRole \in RoleIds /\ R \subseteq RoleIds
  BY PolicyAssumption DEF Fits
<1> HIDE DEF p
<1>6. QED
  BY <1>1, <1>2, <1>3, <1>4, <1>5 DEF Allowed, p

\* The permissions of its roles, and who is bound to them.
LEMMA KeptRows ==
  ASSUME NEW n, NEW R, NEW G, NEW B, Fits(n, R, G, B)
  PROVE  LET p == Kept(n, R, G, B)
         IN  /\ \A r \in R : Grants(p, r) = {q \in DocumentPermissions : <<r, q>> \in G}
             /\ \A r : Binders(p, r) = {s \in Subjects : <<s, r>> \in B}
<1>1. \A r \in R : r # BootstrapRole
  BY DEF Fits
<1>2. \A r, q : <<r, q>> \in Management => r = BootstrapRole
  BY DEF Management
<1>3. \A r, q : <<r, q>> \in G => q \in DocumentPermissions
  BY DEF Fits
<1>4. DocumentPermissions \subseteq Permissions
  BY VectorAssumption
<1>5. QED
  BY <1>1, <1>2, <1>3, <1>4 DEF Kept, Grants, Binders

\* The calls of the vectors are calls of a store.
LEMMA CallsOfVectors ==
  /\ \A s \in Subjects, q \in Permissions : Check(s, q) \in StoreCalls
  /\ \A r \in RoleIds : Get(r) \in StoreCalls
  /\ \A s \in Subjects, n \in {1, 10} : ListOf(s, n) \in StoreCalls
  /\ \A r \in RoleIds \cup {NoCursor}, n \in {1, 10} : ListAfter(r, n) \in StoreCalls
  /\ \A s \in Subjects : Bootstrap(s) \in StoreCalls
  /\ \A a \in Subjects, r \in RoleIds \ {BootstrapRole} : Create(a, r) \in StoreCalls
  /\ \A a \in Subjects, r \in RoleIds, qs \in SUBSET Permissions : SetTo(a, r, qs) \in StoreCalls
  /\ \A a \in Subjects, r \in RoleIds : Delete(a, r) \in StoreCalls
  /\ \A a \in Subjects, s \in Subjects, r \in RoleIds :
       Assign(a, s, r) \in StoreCalls /\ Revoke(a, s, r) \in StoreCalls
<1>1. \A s \in Subjects, q \in Permissions : Check(s, q) \in CheckCalls
  BY VectorAssumption DEF Check, CheckCalls
<1>2. \A r \in RoleIds : Get(r) \in GetCalls
  BY VectorAssumption DEF Get, GetCalls
<1>3. /\ \A s \in Subjects, n \in {1, 10} : ListOf(s, n) \in ListCalls
      /\ \A r \in RoleIds \cup {NoCursor}, n \in {1, 10} : ListAfter(r, n) \in ListCalls
  BY VectorAssumption DEF ListOf, ListAfter, ListCalls
<1>4. \A s \in Subjects : Bootstrap(s) \in BootstrapCalls
  BY VectorAssumption DEF Bootstrap, BootstrapCalls
<1>5. \A a \in Subjects, r \in RoleIds \ {BootstrapRole} : Create(a, r) \in CreateCalls
  BY VectorAssumption DEF Create, CreateCalls
<1>6. \A a \in Subjects, r \in RoleIds, qs \in SUBSET Permissions : SetTo(a, r, qs) \in SetCalls
  BY VectorAssumption DEF SetTo, SetCalls
<1>7. \A a \in Subjects, r \in RoleIds : Delete(a, r) \in DeleteCalls
  BY VectorAssumption DEF Delete, DeleteCalls
<1>8. \A a \in Subjects, s \in Subjects, r \in RoleIds :
        Assign(a, s, r) \in BindingCalls /\ Revoke(a, s, r) \in BindingCalls
  BY VectorAssumption DEF Assign, Revoke, BindingCalls
<1>9. QED
  BY <1>1, <1>2, <1>3, <1>4, <1>5, <1>6, <1>7, <1>8 DEF StoreCalls

\* Who may administer a scope with the bindings B.
Administers(s, B)  == <<s, BootstrapRole>> \in B
Administrators(B) == {s \in Subjects : Administers(s, B)}

\* Whom the store lets administer such a policy, and what refuses an administration call.
LEMMA AdministrationRefused ==
  ASSUME NEW n, NEW R, NEW G, NEW B, Fits(n, R, G, B), NEW p, p = Kept(n, R, G, B),
         NEW c \in StoreCalls, c.op \in AdminOps
  PROVE  /\ Authorized(c, p) <=> Administers(c.actor, B)
         /\ ~ Administers(c.actor, B) => Right(Test(c, Fails("Forbidden")), p, p)
         /\ Administers(c.actor, B) /\ c.op = "create" /\ c.role \in R
              => Right(Test(c, Fails("RoleAlreadyExists")), p, p)
         /\ Administers(c.actor, B) /\ c.op \in RoleOps /\ c.role \notin R \cup {BootstrapRole}
              => Right(Test(c, Fails("RoleNotFound")), p, p)
         /\ Administers(c.actor, B) /\ c.op \in {"set", "delete"} /\ c.role = BootstrapRole
              => Right(Test(c, Fails("ProtectedRole")), p, p)
         /\ (Administers(c.actor, B) /\ c.op = "revoke" /\ c.role = BootstrapRole
             /\ Administrators(B) = {c.subject}) => Right(Test(c, Fails("ProtectedBinding")), p, p)
<1>1. c.actor \in Subjects /\ Needed(c) \in {RolesManage, BindingsManage}
  BY CallShape DEF Needed
<1>2. /\ Bootstrapped(p) /\ p.owner = "owner" /\ p.protected = {BootstrapRole}
      /\ p.roles = R \cup {BootstrapRole}
  BY KeptIsPolicy DEF Kept
<1>3. Authorized(c, p) <=> Administers(c.actor, B)
  BY <1>1, <1>2, KeptAllows DEF Authorized, Administers
<1>4. Binders(p, BootstrapRole) = Administrators(B)
  BY KeptRows DEF Administrators, Administers
<1>5. \A f \in DomainFailures : Refused(c, p, f) <=>
        \/ f = "Forbidden" /\ ~ Administers(c.actor, B)
        \/ f = "RoleAlreadyExists" /\ Administers(c.actor, B) /\ c.op = "create" /\ c.role \in p.roles
        \/ f = "RoleNotFound" /\ Administers(c.actor, B) /\ c.op \in RoleOps /\ c.role \notin p.roles
        \/ /\ f = "ProtectedRole" /\ Administers(c.actor, B)
           /\ c.op \in {"set", "delete"} /\ c.role = BootstrapRole
        \/ /\ f = "ProtectedBinding" /\ Administers(c.actor, B) /\ c.op = "revoke"
           /\ c.role = BootstrapRole /\ Administrators(B) = {c.subject}
  BY <1>2, <1>3, <1>4 DEF Refused, AdminOps, RoleOps
<1> DEFINE Only(f) == f \in DomainFailures /\ \A g \in DomainFailures : Refused(c, p, g) <=> g = f
<1>6. ASSUME NEW f, Only(f) PROVE Right(Test(c, Fails(f)), p, p)
  BY <1>6, RightIfRefused
<1>7. ~ Administers(c.actor, B) => Only("Forbidden")
  BY <1>5 DEF DomainFailures
<1>8. Administers(c.actor, B) /\ c.op = "create" /\ c.role \in R => Only("RoleAlreadyExists")
  BY <1>2, <1>5 DEF DomainFailures, RoleOps
<1>9. Administers(c.actor, B) /\ c.op \in RoleOps /\ c.role \notin R \cup {BootstrapRole}
        => Only("RoleNotFound")
  BY <1>2, <1>5 DEF DomainFailures, RoleOps
<1>10. Administers(c.actor, B) /\ c.op \in {"set", "delete"} /\ c.role = BootstrapRole
         => Only("ProtectedRole")
  BY <1>2, <1>5 DEF DomainFailures
<1>11. (Administers(c.actor, B) /\ c.op = "revoke" /\ c.role = BootstrapRole
        /\ Administrators(B) = {c.subject}) => Only("ProtectedBinding")
  BY <1>2, <1>5 DEF DomainFailures
<1> HIDE DEF Only
<1>12. QED
  BY <1>3, <1>6, <1>7, <1>8, <1>9, <1>10, <1>11

\* The fields of a policy of the vectors.
LEMMA KeptFields ==
  ASSUME NEW n, NEW R, NEW G, NEW B, NEW p, p = Kept(n, R, G, B)
  PROVE  /\ p.owner = "owner" /\ p.revision = n /\ p.roles = {BootstrapRole} \cup R
         /\ p.protected = {BootstrapRole} /\ p.grants = Management \cup G /\ p.bindings = B
BY DEF Kept

\* A change that leaves these parts leaves this policy.
LEMMA KeptIs ==
  ASSUME NEW c, NEW p, Effect(c, p) \in Policies,
         NEW R, NEW G, NEW B, NEW q, q = Effect(c, p),
         q.owner = "owner", q.roles = {BootstrapRole} \cup R,
         q.protected = {BootstrapRole}, q.grants = Management \cup G, q.bindings = B,
         NEW m, m = p.revision + 1
  PROVE  Advance(c, p) = Kept(m, R, G, B)
<1>1. q = [owner |-> q.owner, revision |-> q.revision, roles |-> q.roles,
           protected |-> q.protected, grants |-> q.grants, bindings |-> q.bindings]
  BY DEF Policies
<1>2. [q EXCEPT !.revision = m]
        = [owner |-> q.owner, revision |-> m, roles |-> q.roles,
           protected |-> q.protected, grants |-> q.grants, bindings |-> q.bindings]
  BY <1>1
<1>3. Advance(c, p) = [q EXCEPT !.revision = m]
  BY DEF Advance
<1>4. QED
  BY <1>2, <1>3, Zenon DEF Kept

\* What the administration calls make of such a policy.
LEMMA KeptEffects ==
  ASSUME NEW n, NEW R, NEW G, NEW B, Fits(n, R, G, B), NEW p, p = Kept(n, R, G, B),
         NEW c, c.op \in AdminOps, c.op # "create" => c.op \in {"assign", "revoke"}
           \/ c.role # BootstrapRole,
         Effect(c, p) \in Policies, NEW m, m = n + 1,
         NEW S, S = IF c.op = "create" THEN R \cup {c.role}
                    ELSE IF c.op = "delete" THEN R \ {c.role} ELSE R,
         NEW H, H = IF c.op = "set" THEN {g \in G : g[1] # c.role} \cup ({c.role} \X c.permissions)
                    ELSE IF c.op = "delete" THEN {g \in G : g[1] # c.role} ELSE G,
         NEW C, C = IF c.op = "assign" THEN B \cup {<<c.subject, c.role>>}
                    ELSE IF c.op = "revoke" THEN B \ {<<c.subject, c.role>>}
                    ELSE IF c.op = "delete" THEN {b \in B : b[2] # c.role} ELSE B
  PROVE  Advance(c, p) = Kept(m, S, H, C)
<1> DEFINE q == Effect(c, p)
<1>0. q \in Policies /\ q = Effect(c, p)
  OBVIOUS
<1>1. p \in Policies
  BY KeptIsPolicy
<1>2. /\ p.owner = "owner" /\ p.roles = {BootstrapRole} \cup R /\ p.revision = n
      /\ p.protected = {BootstrapRole} /\ p.grants = Management \cup G /\ p.bindings = B
  BY KeptFields
<1>3. \A g \in Management : g[1] = BootstrapRole
  BY DEF Management
<1>4. CASE c.op = "create"
  <2>1. q = [p EXCEPT !.roles = @ \cup {c.role}]
    BY <1>4 DEF Effect
  <2> HIDE DEF q
  <2>2. /\ q.owner = p.owner /\ q.roles = p.roles \cup {c.role}
        /\ q.protected = p.protected /\ q.grants = p.grants /\ q.bindings = p.bindings
    BY <1>1, <2>1 DEF Policies
  <2>3. S = R \cup {c.role} /\ H = G /\ C = B
    BY <1>4
  <2>4. q.roles = {BootstrapRole} \cup S /\ q.grants = Management \cup H /\ q.bindings = C
    BY <1>2, <2>2, <2>3
  <2>5. q.owner = "owner" /\ q.protected = {BootstrapRole} /\ m = p.revision + 1
    BY <1>2, <2>2
  <2>6. QED
    BY <1>0, <2>4, <2>5, KeptIs
<1>5. CASE c.op = "set"
  <2>1. q = [p EXCEPT !.grants = {g \in @ : g[1] # c.role} \cup ({c.role} \X c.permissions)]
    BY <1>5 DEF Effect, WithGrants
  <2> HIDE DEF q
  <2>2. /\ q.owner = p.owner /\ q.roles = p.roles
        /\ q.protected = p.protected /\ q.bindings = p.bindings
        /\ q.grants = {g \in p.grants : g[1] # c.role} \cup ({c.role} \X c.permissions)
    BY <1>1, <2>1 DEF Policies
  <2>3. S = R /\ C = B /\ H = {g \in G : g[1] # c.role} \cup ({c.role} \X c.permissions)
    BY <1>5
  <2>4. q.grants = Management \cup H /\ q.roles = {BootstrapRole} \cup S /\ q.bindings = C
    BY <1>2, <1>3, <1>5, <2>2, <2>3
  <2>5. q.owner = "owner" /\ q.protected = {BootstrapRole} /\ m = p.revision + 1
    BY <1>2, <2>2
  <2>6. QED
    BY <1>0, <2>4, <2>5, KeptIs
<1>6. CASE c.op = "delete"
  <2>1. q = [p EXCEPT !.roles = @ \ {c.role}, !.protected = @ \ {c.role},
                      !.grants = {g \in @ : g[1] # c.role}, !.bindings = {b \in @ : b[2] # c.role}]
    BY <1>6 DEF Effect, WithoutRole
  <2> HIDE DEF q
  <2>2. /\ q.owner = p.owner /\ q.roles = p.roles \ {c.role}
        /\ q.protected = p.protected \ {c.role} /\ q.bindings = {b \in p.bindings : b[2] # c.role}
        /\ q.grants = {g \in p.grants : g[1] # c.role}
    BY <1>1, <2>1 DEF Policies
  <2>3. S = R \ {c.role} /\ H = {g \in G : g[1] # c.role} /\ C = {b \in B : b[2] # c.role}
    BY <1>6
  <2>4. q.grants = Management \cup H /\ q.bindings = C
    BY <1>2, <1>3, <1>6, <2>2, <2>3
  <2>5. q.roles = {BootstrapRole} \cup S /\ q.protected = {BootstrapRole}
    BY <1>2, <1>6, <2>2, <2>3
  <2>6. QED
    BY <1>0, <1>2, <2>2, <2>4, <2>5, KeptIs
<1>7. CASE c.op = "assign"
  <2>1. q = [p EXCEPT !.bindings = @ \cup {<<c.subject, c.role>>}]
    BY <1>7 DEF Effect
  <2> HIDE DEF q
  <2>2. /\ q.owner = p.owner /\ q.roles = p.roles /\ q.protected = p.protected
        /\ q.grants = p.grants /\ q.bindings = p.bindings \cup {<<c.subject, c.role>>}
    BY <1>1, <2>1 DEF Policies
  <2>3. S = R /\ H = G /\ C = B \cup {<<c.subject, c.role>>}
    BY <1>7
  <2>4. q.bindings = C
    BY <1>2, <2>2, <2>3
  <2>5. QED
    BY <1>0, <1>2, <2>2, <2>3, <2>4, KeptIs
<1>8. CASE c.op = "revoke"
  <2>1. q = [p EXCEPT !.bindings = @ \ {<<c.subject, c.role>>}]
    BY <1>8 DEF Effect
  <2> HIDE DEF q
  <2>2. /\ q.owner = p.owner /\ q.roles = p.roles /\ q.protected = p.protected
        /\ q.grants = p.grants /\ q.bindings = p.bindings \ {<<c.subject, c.role>>}
    BY <1>1, <2>1 DEF Policies
  <2>3. S = R /\ H = G /\ C = B \ {<<c.subject, c.role>>}
    BY <1>8
  <2>4. q.bindings = C
    BY <1>2, <2>2, <2>3
  <2>5. QED
    BY <1>0, <1>2, <2>2, <2>3, <2>4, KeptIs
<1>9. QED
  BY <1>4, <1>5, <1>6, <1>7, <1>8 DEF AdminOps, RoleOps

\* The administration calls that change such a policy, seen by its parts.
LEMMA AdministrationChanges ==
  ASSUME NEW n, NEW R, NEW G, NEW B, Fits(n, R, G, B), NEW p, p = Kept(n, R, G, B),
         NEW c \in StoreCalls, c.op \in AdminOps, Administers(c.actor, B),
         c.op = "create" => c.role \notin R,
         c.op \in RoleOps => c.role \in R \cup {BootstrapRole},
         c.op \in {"set", "delete"} => c.role # BootstrapRole,
         c.op = "set" => {q \in DocumentPermissions : <<c.role, q>> \in G} # c.permissions,
         c.op = "assign" => <<c.subject, c.role>> \notin B,
         c.op = "revoke" => <<c.subject, c.role>> \in B,
         c.op = "revoke" /\ c.role = BootstrapRole => Administrators(B) # {c.subject},
         NEW m, m = n + 1, NEW e, Matches(Observed(Mutation(TRUE, m)), e)
  PROVE  /\ Right(Test(c, e), p, Advance(c, p))
         /\ Effect(c, p) \in Policies
<1>1. /\ p \in Policies /\ Bootstrapped(p) /\ p.revision = n /\ p.roles = {BootstrapRole} \cup R
      /\ p.protected = {BootstrapRole}
  BY KeptIsPolicy, KeptFields
<1>2. c.actor \in Subjects /\ Needed(c) \in {RolesManage, BindingsManage}
  BY CallShape DEF Needed
<1>3. Allowed(p, c.actor, Needed(c))
  BY <1>2, KeptAllows DEF Administers
<1>4. c.op = "create" => c.role \notin p.roles
  BY <1>1, CallShape
<1>5. c.op \in RoleOps => c.role \in p.roles
  BY <1>1
<1>6. c.op \in {"set", "delete"} => c.role \notin p.protected
  BY <1>1
<1>7. c.op = "set" => Grants(p, c.role) # c.permissions
  <2> SUFFICES ASSUME c.op = "set" PROVE Grants(p, c.role) # c.permissions
    OBVIOUS
  <2>1. c.role \in R
    BY DEF RoleOps
  <2>2. QED
    BY <2>1, KeptRows
<1>8. /\ c.op = "assign" => c.subject \notin Binders(p, c.role)
      /\ c.op = "revoke" => c.subject \in Binders(p, c.role)
  BY CallShape, KeptRows
<1>9. c.op = "revoke" /\ c.role \in p.protected => Binders(p, c.role) # {c.subject}
  <2>1. Binders(p, BootstrapRole) = Administrators(B)
    BY KeptRows DEF Administrators, Administers
  <2>2. QED
    BY <1>1, <2>1
<1>10. c.op \notin ReadOps /\ Accepted(c, p) /\ Effect(c, p) # p
  BY <1>1, <1>3, <1>4, <1>5, <1>6, <1>7, <1>8, <1>9, Eligible
<1>11. Right(Test(c, e), p, Advance(c, p))
  <2> DEFINE a == Mutation(TRUE, p.revision + 1)
  <2>1. Matches(Observed(a), e)
    BY <1>1, Zenon DEF a
  <2> HIDE DEF a
  <2>2. QED
    BY <1>10, <2>1, RightIfChanged, Zenon DEF a
<1>12. QED
  BY <1>1, <1>10, <1>11, EffectType

\* An administration call for which there is nothing to change.
LEMMA NothingToChange ==
  ASSUME NEW n, NEW R, NEW G, NEW B, Fits(n, R, G, B), NEW p, p = Kept(n, R, G, B),
         NEW c \in StoreCalls, c.op \in {"set", "assign", "revoke"}, Administers(c.actor, B),
         c.role \in R,
         c.op = "set" => {q \in DocumentPermissions : <<c.role, q>> \in G} = c.permissions,
         c.op = "assign" => <<c.subject, c.role>> \in B,
         c.op = "revoke" => <<c.subject, c.role>> \notin B,
         NEW e, Matches(Observed(Mutation(FALSE, n)), e)
  PROVE  Right(Test(c, e), p, p)
<1>1. /\ p \in Policies /\ Bootstrapped(p) /\ p.revision = n /\ p.roles = {BootstrapRole} \cup R
      /\ p.protected = {BootstrapRole} /\ p.owner = "owner"
  BY KeptIsPolicy, KeptFields
<1>2. c.actor \in Subjects /\ Needed(c) \in {RolesManage, BindingsManage} /\ c.role \in RoleIds
  BY CallShape DEF Needed, AdminOps, RoleOps
<1>3. Authorized(c, p)
  BY <1>1, <1>2, KeptAllows DEF Administers, Authorized
<1>4. Accepted(c, p) /\ c.op \notin ReadOps
  <2>1. c.role # BootstrapRole /\ c.role \in p.roles /\ c.role \notin p.protected
    BY <1>1 DEF Fits
  <2>2. QED
    BY <1>1, <1>3, <2>1 DEF Accepted, Refused, ReadOps
<1>5. /\ c.op = "set" => Grants(p, c.role) = c.permissions
      /\ c.op = "assign" => c.subject \in Binders(p, c.role)
      /\ c.op = "revoke" => c.subject \notin Binders(p, c.role)
  <2>1. Grants(p, c.role) = {q \in DocumentPermissions : <<c.role, q>> \in G}
    BY KeptRows
  <2>2. Binders(p, c.role) = {s \in Subjects : <<s, c.role>> \in B}
    BY KeptRows
  <2>3. c.op = "set" => Grants(p, c.role) = c.permissions
    BY <2>1, Zenon
  <2>4. c.op \in {"assign", "revoke"} => c.subject \in Subjects
    BY CallShape
  <2>5. QED
    BY <2>2, <2>3, <2>4
<1>6. Effect(c, p) = p
  BY <1>1, <1>5, Needless
<1> DEFINE a == Mutation(FALSE, p.revision)
<1>7. Matches(Observed(a), e)
  BY <1>1, Zenon DEF a
<1> HIDE DEF a
<1>8. QED
  BY <1>4, <1>6, <1>7, RightIfKept, Zenon DEF a

-----------------------------------------------------------------------------
(* The policies of the vectors, by revision.                               *)

\* The roles, grants and bindings the vectors leave at each revision.
RolesAt(n) ==
  {r \in VectorRoles :
     \/ r = Viewer /\ n \in 2..8
     \/ r = UpperZ /\ n >= 10
     \/ r = Under  /\ n >= 11
     \/ r = Dash   /\ n >= 12
     \/ r = UpperA /\ n >= 13
     \/ r = LowerZ /\ n >= 14}

GrantsAt(n) ==
  {g \in VectorRoles \X DocumentPermissions :
     \/ g[1] = Viewer /\ (n = 7 \/ (n \in 3..6 /\ g[2] \in ReadAndExport))
     \/ g = <<UpperA, "read">>  /\ n >= 15
     \/ g = <<UpperZ, "write">> /\ n >= 17}

BindingsAt(n) ==
  {b \in VectorSubjects \X VectorRoles :
     \/ b = <<"owner", BootstrapRole>> /\ n <= 5
     \/ b = <<"other", BootstrapRole>> /\ n >= 5
     \/ b = <<"member", Viewer>> /\ n \in 4..8
     \/ b = <<"member", UpperA>> /\ n \in 16..18
     \/ b = <<"member", UpperZ>> /\ n >= 18}

\* The policy of the vectors at revision n.
PolicyAt(n) == IF n = 0 THEN NoPolicy ELSE Kept(n, RolesAt(n), GrantsAt(n), BindingsAt(n))

\* The revision the first i vectors reach.
RevisionAfter(i) ==
  IF i < 4 THEN 0 ELSE IF i < 8 THEN 1 ELSE IF i < 10 THEN 2 ELSE IF i < 12 THEN 3
  ELSE IF i < 28 THEN 4 ELSE IF i < 29 THEN 5 ELSE IF i < 32 THEN 6 ELSE IF i < 34 THEN 7
  ELSE IF i < 36 THEN 8 ELSE IF i < 39 THEN 9 ELSE IF i < 44 THEN i - 29
  ELSE IF i < 51 THEN 14 ELSE IF i < 54 THEN i - 36 ELSE IF i < 57 THEN 18 ELSE 19

\* The table is one of policies.
LEMMA TableFits ==
  ASSUME NEW n \in 1..19
  PROVE  Fits(n, RolesAt(n), GrantsAt(n), BindingsAt(n))
<1>1. VectorRoles \subseteq RoleIds /\ VectorSubjects \subseteq Subjects /\ BootstrapRole = 6
  BY VectorAssumption
<1>2. RolesAt(n) \subseteq RoleIds \ {BootstrapRole}
  BY <1>1 DEF RolesAt, Viewer, UpperZ, Under, Dash, UpperA, LowerZ
<1>3. GrantsAt(n) \subseteq RolesAt(n) \X DocumentPermissions
  <2> SUFFICES ASSUME NEW g \in GrantsAt(n) PROVE g \in RolesAt(n) \X DocumentPermissions
    OBVIOUS
  <2>1. g \in VectorRoles \X DocumentPermissions
    BY DEF GrantsAt
  <2>2. g[1] \in RolesAt(n)
    <3>1. CASE g[1] = Viewer /\ (n = 7 \/ n \in 3..6)
      BY <2>1, <3>1 DEF RolesAt
    <3>2. CASE g[1] = UpperA /\ n >= 15
      BY <2>1, <3>2 DEF RolesAt
    <3>3. CASE g[1] = UpperZ /\ n >= 17
      BY <2>1, <3>3 DEF RolesAt
    <3>4. QED
      BY <3>1, <3>2, <3>3 DEF GrantsAt
  <2>3. QED
    BY <2>1, <2>2
<1>4. BindingsAt(n) \subseteq Subjects \X (RolesAt(n) \cup {BootstrapRole})
  <2> SUFFICES ASSUME NEW b \in BindingsAt(n) PROVE b \in Subjects \X (RolesAt(n) \cup {BootstrapRole})
    OBVIOUS
  <2>1. b \in VectorSubjects \X VectorRoles
    BY DEF BindingsAt
  <2>2. b[2] \in RolesAt(n) \cup {BootstrapRole}
    <3>1. CASE b[2] = BootstrapRole
      BY <3>1
    <3>2. CASE b[2] = Viewer /\ n \in 4..8
      BY <2>1, <3>2 DEF RolesAt
    <3>3. CASE b[2] = UpperA /\ n \in 16..18
      BY <2>1, <3>3 DEF RolesAt
    <3>4. CASE b[2] = UpperZ /\ n >= 18
      BY <2>1, <3>4 DEF RolesAt
    <3>5. QED
      BY <3>1, <3>2, <3>3, <3>4 DEF BindingsAt
  <2>3. QED
    BY <1>1, <2>1, <2>2
<1>5. QED
  BY <1>2, <1>3, <1>4 DEF Fits

\* Who is who in the vectors.
LEMMA Cast ==
  /\ "owner" \in Subjects /\ "other" \in Subjects /\ "member" \in Subjects
  /\ "stranger" \in Subjects /\ "nobody" \in Subjects
  /\ UpperA \in RoleIds /\ UpperZ \in RoleIds /\ Dash \in RoleIds /\ Under \in RoleIds
  /\ Absent \in RoleIds /\ BootstrapRole \in RoleIds /\ Denied \in RoleIds /\ Viewer \in RoleIds
  /\ LowerZ \in RoleIds
  /\ {"read", "export", "write", "more", RolesManage, BindingsManage} \subseteq Permissions
BY PolicyAssumption, VectorAssumption DEF VectorRoles, VectorSubjects, DocumentPermissions

\* The owner administers the scope until the other one does.
LEMMA TableAdministrators ==
  ASSUME NEW n \in 1..19
  PROVE  /\ Administers("owner", BindingsAt(n)) <=> n <= 5
         /\ Administers("other", BindingsAt(n)) <=> n >= 5
         /\ \A s \in {"stranger", "member", "nobody"} : ~ Administers(s, BindingsAt(n))
         /\ n < 5 => Administrators(BindingsAt(n)) = {"owner"}
         /\ n > 5 => Administrators(BindingsAt(n)) = {"other"}
<1>1. BootstrapRole = 6 /\ VectorSubjects \subseteq Subjects
  BY VectorAssumption
<1>2. Viewer # BootstrapRole /\ UpperA # BootstrapRole /\ UpperZ # BootstrapRole
  BY <1>1 DEF Viewer, UpperA, UpperZ
<1>3. <<"owner", BootstrapRole>> \in VectorSubjects \X VectorRoles
      /\ <<"other", BootstrapRole>> \in VectorSubjects \X VectorRoles
  BY DEF VectorSubjects, VectorRoles
<1>4. \A s : Administers(s, BindingsAt(n)) <=> (s = "owner" /\ n <= 5) \/ (s = "other" /\ n >= 5)
  BY <1>2, <1>3 DEF Administers, BindingsAt
<1>5. "owner" \in Subjects /\ "other" \in Subjects
  BY <1>1 DEF VectorSubjects
<1>6. QED
  BY <1>4, <1>5 DEF Administrators

\* The policy of the table at a revision is one that fits.
LEMMA TableIs ==
  ASSUME NEW n \in 1..19
  PROVE  /\ Fits(n, RolesAt(n), GrantsAt(n), BindingsAt(n))
         /\ PolicyAt(n) = Kept(n, RolesAt(n), GrantsAt(n), BindingsAt(n))
BY TableFits DEF PolicyAt

\* What refuses an administration call on the policies of the table.
LEMMA Refuses ==
  ASSUME NEW n \in 1..19, NEW c \in StoreCalls, c.op \in AdminOps
  PROVE  /\ ~ Administers(c.actor, BindingsAt(n)) =>
              Right(Test(c, Fails("Forbidden")), PolicyAt(n), PolicyAt(n))
         /\ Administers(c.actor, BindingsAt(n)) /\ c.op = "create" /\ c.role \in RolesAt(n) =>
              Right(Test(c, Fails("RoleAlreadyExists")), PolicyAt(n), PolicyAt(n))
         /\ Administers(c.actor, BindingsAt(n)) /\ c.op \in RoleOps
              /\ c.role \notin RolesAt(n) \cup {BootstrapRole} =>
              Right(Test(c, Fails("RoleNotFound")), PolicyAt(n), PolicyAt(n))
         /\ Administers(c.actor, BindingsAt(n)) /\ c.op \in {"set", "delete"} /\ c.role = BootstrapRole =>
              Right(Test(c, Fails("ProtectedRole")), PolicyAt(n), PolicyAt(n))
         /\ Administers(c.actor, BindingsAt(n)) /\ c.op = "revoke" /\ c.role = BootstrapRole
              /\ Administrators(BindingsAt(n)) = {c.subject} =>
              Right(Test(c, Fails("ProtectedBinding")), PolicyAt(n), PolicyAt(n))
<1> DEFINE p == PolicyAt(n)
<1>1. p = Kept(n, RolesAt(n), GrantsAt(n), BindingsAt(n)) /\ Fits(n, RolesAt(n), GrantsAt(n), BindingsAt(n))
  BY TableIs
<1> HIDE DEF p
<1>2. Administers(c.actor, BindingsAt(n)) \in BOOLEAN
  BY DEF Administers
<1>3. QED
  BY <1>1, AdministrationRefused DEF p

\* The changes from one revision of the table to the next.
LEMMA RolesInTable ==
  /\ \A n \in {2, 3, 4, 5, 6, 7, 14, 15, 16, 17, 18} : RolesAt(n + 1) = RolesAt(n)
  /\ RolesAt(2) = RolesAt(1) \cup {Viewer} /\ Viewer \notin RolesAt(1)
  /\ RolesAt(9) = RolesAt(8) \ {Viewer}
  /\ RolesAt(10) = RolesAt(9) \cup {UpperZ}  /\ UpperZ \notin RolesAt(9)
  /\ RolesAt(11) = RolesAt(10) \cup {Under}  /\ Under \notin RolesAt(10)
  /\ RolesAt(12) = RolesAt(11) \cup {Dash}   /\ Dash \notin RolesAt(11)
  /\ RolesAt(13) = RolesAt(12) \cup {UpperA} /\ UpperA \notin RolesAt(12)
  /\ RolesAt(14) = RolesAt(13) \cup {LowerZ} /\ LowerZ \notin RolesAt(13)
<1>1. \A n \in {2, 3, 4, 5, 6, 7, 14, 15, 16, 17, 18} : RolesAt(n + 1) = RolesAt(n)
  BY DEF RolesAt
<1>2. RolesAt(2) = RolesAt(1) \cup {Viewer} /\ Viewer \notin RolesAt(1)
  BY DEF RolesAt, VectorRoles, Viewer, UpperZ, Under, Dash, UpperA, LowerZ
<1>3. RolesAt(9) = RolesAt(8) \ {Viewer}
  BY DEF RolesAt, VectorRoles, Viewer, UpperZ, Under, Dash, UpperA, LowerZ
<1>4. RolesAt(10) = RolesAt(9) \cup {UpperZ}  /\ UpperZ \notin RolesAt(9)
  BY DEF RolesAt, VectorRoles, Viewer, UpperZ, Under, Dash, UpperA, LowerZ
<1>5. RolesAt(11) = RolesAt(10) \cup {Under}  /\ Under \notin RolesAt(10)
  BY DEF RolesAt, VectorRoles, Viewer, UpperZ, Under, Dash, UpperA, LowerZ
<1>6. RolesAt(12) = RolesAt(11) \cup {Dash}   /\ Dash \notin RolesAt(11)
  BY DEF RolesAt, VectorRoles, Viewer, UpperZ, Under, Dash, UpperA, LowerZ
<1>7. RolesAt(13) = RolesAt(12) \cup {UpperA} /\ UpperA \notin RolesAt(12)
  BY DEF RolesAt, VectorRoles, Viewer, UpperZ, Under, Dash, UpperA, LowerZ
<1>8. RolesAt(14) = RolesAt(13) \cup {LowerZ} /\ LowerZ \notin RolesAt(13)
  BY DEF RolesAt, VectorRoles, Viewer, UpperZ, Under, Dash, UpperA, LowerZ
<1>9. QED
  BY <1>1, <1>2, <1>3, <1>4, <1>5, <1>6, <1>7, <1>8

\* The grants of the table after those of one role have been replaced.
Regrants(n, r, qs) == {g \in GrantsAt(n) : g[1] # r} \cup ({r} \X qs)

\* How the grants of the table change from one revision to the next.
LEMMA GrantsInTable ==
  /\ \A n \in 1..18 \ {2, 6, 7, 14, 16} : GrantsAt(n + 1) = GrantsAt(n)
  /\ GrantsAt(3) = Regrants(2, Viewer, ReadAndExport)
  /\ GrantsAt(7) = Regrants(6, Viewer, DocumentPermissions)
  /\ GrantsAt(8) = Regrants(7, Viewer, {})
  /\ GrantsAt(9) = {g \in GrantsAt(8) : g[1] # Viewer}
  /\ GrantsAt(15) = Regrants(14, UpperA, {"read"})
  /\ GrantsAt(17) = Regrants(16, UpperZ, {"write"})
<1>1. \A n \in 1..18 \ {2, 6, 7, 14, 16} : GrantsAt(n + 1) = GrantsAt(n)
  BY DEF GrantsAt
<1>2. /\ {Viewer} \X ReadAndExport \subseteq VectorRoles \X DocumentPermissions
      /\ {Viewer} \X DocumentPermissions \subseteq VectorRoles \X DocumentPermissions
      /\ <<UpperA, "read">> \in VectorRoles \X DocumentPermissions
      /\ <<UpperZ, "write">> \in VectorRoles \X DocumentPermissions
  BY DEF ReadAndExport, DocumentPermissions, VectorRoles
<1>3. Viewer # UpperA /\ Viewer # UpperZ /\ UpperA # UpperZ
  BY DEF Viewer, UpperA, UpperZ
<1>4. GrantsAt(3) = Regrants(2, Viewer, ReadAndExport)
  BY <1>2, <1>3 DEF GrantsAt, Regrants
<1>5. GrantsAt(7) = Regrants(6, Viewer, DocumentPermissions)
  BY <1>2, <1>3 DEF GrantsAt, Regrants
<1>6. GrantsAt(8) = Regrants(7, Viewer, {})
  BY <1>2, <1>3 DEF GrantsAt, Regrants
<1>7. GrantsAt(9) = {g \in GrantsAt(8) : g[1] # Viewer}
  BY <1>2, <1>3 DEF GrantsAt
<1>8. GrantsAt(15) = Regrants(14, UpperA, {"read"})
  BY <1>2, <1>3 DEF GrantsAt, Regrants
<1>9. GrantsAt(17) = Regrants(16, UpperZ, {"write"})
  BY <1>2, <1>3 DEF GrantsAt, Regrants
<1>10. QED
  BY <1>1, <1>4, <1>5, <1>6, <1>7, <1>8, <1>9

\* How its bindings do.
LEMMA BindingsInTable ==
  /\ \A n \in 1..18 \ {3, 4, 5, 8, 15, 17, 18} : BindingsAt(n + 1) = BindingsAt(n)
  /\ BindingsAt(4) = BindingsAt(3) \cup {<<"member", Viewer>>} /\ <<"member", Viewer>> \notin BindingsAt(3)
  /\ BindingsAt(5) = BindingsAt(4) \cup {<<"other", BootstrapRole>>}
  /\ <<"other", BootstrapRole>> \notin BindingsAt(4)
  /\ BindingsAt(6) = BindingsAt(5) \ {<<"owner", BootstrapRole>>}
       /\ <<"owner", BootstrapRole>> \in BindingsAt(5)
  /\ BindingsAt(9) = {b \in BindingsAt(8) : b[2] # Viewer}
  /\ BindingsAt(16) = BindingsAt(15) \cup {<<"member", UpperA>>}
       /\ <<"member", UpperA>> \notin BindingsAt(15)
  /\ BindingsAt(18) = BindingsAt(17) \cup {<<"member", UpperZ>>}
       /\ <<"member", UpperZ>> \notin BindingsAt(17)
  /\ BindingsAt(19) = BindingsAt(18) \ {<<"member", UpperA>>} /\ <<"member", UpperA>> \in BindingsAt(18)
<1>1. \A n \in 1..18 \ {3, 4, 5, 8, 15, 17, 18} : BindingsAt(n + 1) = BindingsAt(n)
  BY DEF BindingsAt
<1>2. /\ <<"owner", BootstrapRole>> \in VectorSubjects \X VectorRoles
      /\ <<"other", BootstrapRole>> \in VectorSubjects \X VectorRoles
      /\ <<"member", Viewer>> \in VectorSubjects \X VectorRoles
      /\ <<"member", UpperA>> \in VectorSubjects \X VectorRoles
      /\ <<"member", UpperZ>> \in VectorSubjects \X VectorRoles
  BY DEF VectorSubjects, VectorRoles
<1>3. /\ Viewer # UpperA /\ Viewer # UpperZ /\ UpperA # UpperZ
      /\ BootstrapRole \notin {Viewer, UpperA, UpperZ}
  BY VectorAssumption DEF Viewer, UpperA, UpperZ
<1>4. BindingsAt(4) = BindingsAt(3) \cup {<<"member", Viewer>>} /\ <<"member", Viewer>> \notin BindingsAt(3)
  BY <1>2, <1>3 DEF BindingsAt
<1>5. /\ BindingsAt(5) = BindingsAt(4) \cup {<<"other", BootstrapRole>>}
      /\ <<"other", BootstrapRole>> \notin BindingsAt(4)
  BY <1>2, <1>3 DEF BindingsAt
<1>6. BindingsAt(6) = BindingsAt(5) \ {<<"owner", BootstrapRole>>}
        /\ <<"owner", BootstrapRole>> \in BindingsAt(5)
  BY <1>2, <1>3 DEF BindingsAt
<1>7. BindingsAt(9) = {b \in BindingsAt(8) : b[2] # Viewer}
  BY <1>2, <1>3 DEF BindingsAt
<1>8. BindingsAt(16) = BindingsAt(15) \cup {<<"member", UpperA>>}
        /\ <<"member", UpperA>> \notin BindingsAt(15)
  BY <1>2, <1>3 DEF BindingsAt
<1>9. BindingsAt(18) = BindingsAt(17) \cup {<<"member", UpperZ>>}
        /\ <<"member", UpperZ>> \notin BindingsAt(17)
  BY <1>2, <1>3 DEF BindingsAt
<1>10. BindingsAt(19) = BindingsAt(18) \ {<<"member", UpperA>>} /\ <<"member", UpperA>> \in BindingsAt(18)
  BY <1>2, <1>3 DEF BindingsAt
<1>11. QED
  BY <1>1, <1>4, <1>5, <1>6, <1>7, <1>8, <1>9, <1>10

-----------------------------------------------------------------------------
(* What the calls make of these policies.                                  *)

\* The calls of the vectors, one lemma for each.
LEMMA Creates ==
  ASSUME NEW n \in 1..18, NEW m, m = n + 1,
         NEW a \in Subjects, Administers(a, BindingsAt(n)), NEW r \in RoleIds,
         r # BootstrapRole, r \notin RolesAt(n), RolesAt(m) = RolesAt(n) \cup {r},
         GrantsAt(m) = GrantsAt(n),
         BindingsAt(m) = BindingsAt(n),
         NEW e, Matches(Observed(Mutation(TRUE, m)), e)
  PROVE  Right(Test(Create(a, r), e), PolicyAt(n), PolicyAt(m))
<1> DEFINE p == PolicyAt(n)
           c == Create(a, r)
<1>1. /\ Fits(n, RolesAt(n), GrantsAt(n), BindingsAt(n))
      /\ p = Kept(n, RolesAt(n), GrantsAt(n), BindingsAt(n))
      /\ PolicyAt(m) = Kept(m, RolesAt(m), GrantsAt(m), BindingsAt(m))
  BY TableIs
<1>2. r \in RoleIds /\ r # BootstrapRole
  BY <1>1, PolicyAssumption DEF Fits
<1>3. c \in StoreCalls /\ c.op = "create" /\ c.actor = a /\ c.role = r
  BY <1>2, CallsOfVectors DEF Create
<1> HIDE DEF p, c
<1>4. c.op \in AdminOps
  BY <1>3 DEF AdminOps, RoleOps
<1>5. Right(Test(c, e), p, Advance(c, p)) /\ Effect(c, p) \in Policies
  <2>1. c.op \notin RoleOps \cup {"set", "delete", "assign", "revoke"}
    BY <1>3 DEF RoleOps
  <2>2. QED
    BY <1>1, <1>2, <1>3, <1>4, <2>1, AdministrationChanges
<1>6. Advance(c, p) = PolicyAt(m)
  <2>1. Advance(c, p) = Kept(m, RolesAt(m), GrantsAt(m), BindingsAt(m))
    BY <1>1, <1>2, <1>3, <1>4, <1>5, KeptEffects
  <2>2. QED
    BY <1>1, <2>1, Zenon
<1>7. QED
  BY <1>5, <1>6, Zenon DEF p, c

\* Replacing the permissions of a role.
LEMMA Sets ==
  ASSUME NEW n \in 1..18, NEW m, m = n + 1,
         NEW a \in Subjects, Administers(a, BindingsAt(n)), NEW r \in RolesAt(n),
         NEW qs \in SUBSET Permissions, {q \in DocumentPermissions : <<r, q>> \in GrantsAt(n)} # qs,
         RolesAt(m) = RolesAt(n),
         GrantsAt(m) = Regrants(n, r, qs),
         BindingsAt(m) = BindingsAt(n),
         NEW e, Matches(Observed(Mutation(TRUE, m)), e)
  PROVE  Right(Test(SetTo(a, r, qs), e), PolicyAt(n), PolicyAt(m))
<1> DEFINE p == PolicyAt(n)
           c == SetTo(a, r, qs)
<1>1. /\ Fits(n, RolesAt(n), GrantsAt(n), BindingsAt(n))
      /\ p = Kept(n, RolesAt(n), GrantsAt(n), BindingsAt(n))
      /\ PolicyAt(m) = Kept(m, RolesAt(m), GrantsAt(m), BindingsAt(m))
  BY TableIs
<1>2. r \in RoleIds /\ r # BootstrapRole
  BY <1>1, PolicyAssumption DEF Fits
<1>3. c \in StoreCalls /\ c.op = "set" /\ c.actor = a /\ c.role = r /\ c.permissions = qs
  BY <1>2, CallsOfVectors DEF SetTo
<1> HIDE DEF p, c
<1>4. c.op \in AdminOps
  BY <1>3 DEF AdminOps, RoleOps
<1>5. Right(Test(c, e), p, Advance(c, p)) /\ Effect(c, p) \in Policies
  <2>1. c.op \notin {"create", "assign", "revoke"} /\ c.role \in RolesAt(n) \cup {BootstrapRole}
    BY <1>3
  <2>2. {q \in DocumentPermissions : <<c.role, q>> \in GrantsAt(n)} # c.permissions
    BY <1>3, Zenon
  <2>3. Administers(c.actor, BindingsAt(n)) /\ c.role # BootstrapRole
    BY <1>2, <1>3
  <2>4. QED
    BY <1>1, <1>3, <1>4, <2>1, <2>2, <2>3, AdministrationChanges
<1>6. Advance(c, p) = PolicyAt(m)
  <2>1. Advance(c, p) = Kept(m, RolesAt(m), GrantsAt(m), BindingsAt(m))
    BY <1>1, <1>2, <1>3, <1>4, <1>5, KeptEffects DEF Regrants
  <2>2. QED
    BY <1>1, <2>1, Zenon
<1>7. QED
  BY <1>5, <1>6, Zenon DEF p, c

\* Deleting a role, with its permissions and its bindings.
LEMMA Deletes ==
  ASSUME NEW n \in 1..18, NEW m, m = n + 1,
         NEW a \in Subjects, Administers(a, BindingsAt(n)), NEW r \in RolesAt(n),
         RolesAt(m) = RolesAt(n) \ {r},
         GrantsAt(m) = {g \in GrantsAt(n) : g[1] # r},
         BindingsAt(m) = {b \in BindingsAt(n) : b[2] # r},
         NEW e, Matches(Observed(Mutation(TRUE, m)), e)
  PROVE  Right(Test(Delete(a, r), e), PolicyAt(n), PolicyAt(m))
<1> DEFINE p == PolicyAt(n)
           c == Delete(a, r)
<1>1. /\ Fits(n, RolesAt(n), GrantsAt(n), BindingsAt(n))
      /\ p = Kept(n, RolesAt(n), GrantsAt(n), BindingsAt(n))
      /\ PolicyAt(m) = Kept(m, RolesAt(m), GrantsAt(m), BindingsAt(m))
  BY TableIs
<1>2. r \in RoleIds /\ r # BootstrapRole
  BY <1>1, PolicyAssumption DEF Fits
<1>3. c \in StoreCalls /\ c.op = "delete" /\ c.actor = a /\ c.role = r
  BY <1>2, CallsOfVectors DEF Delete
<1> HIDE DEF p, c
<1>4. c.op \in AdminOps
  BY <1>3 DEF AdminOps, RoleOps
<1>5. Right(Test(c, e), p, Advance(c, p)) /\ Effect(c, p) \in Policies
  BY <1>1, <1>2, <1>3, <1>4, AdministrationChanges
<1>6. Advance(c, p) = PolicyAt(m)
  <2>1. Advance(c, p) = Kept(m, RolesAt(m), GrantsAt(m), BindingsAt(m))
    BY <1>1, <1>2, <1>3, <1>4, <1>5, KeptEffects
  <2>2. QED
    BY <1>1, <2>1, Zenon
<1>7. QED
  BY <1>5, <1>6, Zenon DEF p, c

\* Binding a subject to a role.
LEMMA Assigns ==
  ASSUME NEW n \in 1..18, NEW m, m = n + 1,
         NEW a \in Subjects, Administers(a, BindingsAt(n)), NEW s \in Subjects,
           NEW r \in RolesAt(n) \cup {BootstrapRole},
         <<s, r>> \notin BindingsAt(n), RolesAt(m) = RolesAt(n),
         GrantsAt(m) = GrantsAt(n),
         BindingsAt(m) = BindingsAt(n) \cup {<<s, r>>},
         NEW e, Matches(Observed(Mutation(TRUE, m)), e)
  PROVE  Right(Test(Assign(a, s, r), e), PolicyAt(n), PolicyAt(m))
<1> DEFINE p == PolicyAt(n)
           c == Assign(a, s, r)
<1>1. /\ Fits(n, RolesAt(n), GrantsAt(n), BindingsAt(n))
      /\ p = Kept(n, RolesAt(n), GrantsAt(n), BindingsAt(n))
      /\ PolicyAt(m) = Kept(m, RolesAt(m), GrantsAt(m), BindingsAt(m))
  BY TableIs
<1>2. r \in RoleIds
  BY <1>1, PolicyAssumption DEF Fits
<1>3. c \in StoreCalls /\ c.op = "assign" /\ c.actor = a /\ c.role = r /\ c.subject = s
  BY <1>2, CallsOfVectors DEF Assign
<1> HIDE DEF p, c
<1>4. c.op \in AdminOps
  BY <1>3 DEF AdminOps, RoleOps
<1>5. Right(Test(c, e), p, Advance(c, p)) /\ Effect(c, p) \in Policies
  BY <1>1, <1>2, <1>3, <1>4, AdministrationChanges
<1>6. Advance(c, p) = PolicyAt(m)
  <2>1. Advance(c, p) = Kept(m, RolesAt(m), GrantsAt(m), BindingsAt(m))
    BY <1>1, <1>2, <1>3, <1>4, <1>5, KeptEffects
  <2>2. QED
    BY <1>1, <2>1, Zenon
<1>7. QED
  BY <1>5, <1>6, Zenon DEF p, c

\* Revoking a binding, unless it is the last administrator's.
LEMMA Revokes ==
  ASSUME NEW n \in 1..18, NEW m, m = n + 1,
         NEW a \in Subjects, Administers(a, BindingsAt(n)), NEW s \in Subjects,
           NEW r \in RolesAt(n) \cup {BootstrapRole},
         <<s, r>> \in BindingsAt(n), Administrators(BindingsAt(n)) # {s},
         RolesAt(m) = RolesAt(n),
         GrantsAt(m) = GrantsAt(n),
         BindingsAt(m) = BindingsAt(n) \ {<<s, r>>},
         NEW e, Matches(Observed(Mutation(TRUE, m)), e)
  PROVE  Right(Test(Revoke(a, s, r), e), PolicyAt(n), PolicyAt(m))
<1> DEFINE p == PolicyAt(n)
           c == Revoke(a, s, r)
<1>1. /\ Fits(n, RolesAt(n), GrantsAt(n), BindingsAt(n))
      /\ p = Kept(n, RolesAt(n), GrantsAt(n), BindingsAt(n))
      /\ PolicyAt(m) = Kept(m, RolesAt(m), GrantsAt(m), BindingsAt(m))
  BY TableIs
<1>2. r \in RoleIds
  BY <1>1, PolicyAssumption DEF Fits
<1>3. c \in StoreCalls /\ c.op = "revoke" /\ c.actor = a /\ c.role = r /\ c.subject = s
  BY <1>2, CallsOfVectors DEF Revoke
<1> HIDE DEF p, c
<1>4. c.op \in AdminOps
  BY <1>3 DEF AdminOps, RoleOps
<1>5. Right(Test(c, e), p, Advance(c, p)) /\ Effect(c, p) \in Policies
  BY <1>1, <1>2, <1>3, <1>4, AdministrationChanges
<1>6. Advance(c, p) = PolicyAt(m)
  <2>1. Advance(c, p) = Kept(m, RolesAt(m), GrantsAt(m), BindingsAt(m))
    BY <1>1, <1>2, <1>3, <1>4, <1>5, KeptEffects
  <2>2. QED
    BY <1>1, <2>1, Zenon
<1>7. QED
  BY <1>5, <1>6, Zenon DEF p, c

\* Replacing the permissions of a role by the same ones.
LEMMA SetsAgain ==
  ASSUME NEW n \in 1..19, NEW a \in Subjects, Administers(a, BindingsAt(n)),
         NEW r \in RolesAt(n), NEW qs \in SUBSET Permissions,
         {q \in DocumentPermissions : <<r, q>> \in GrantsAt(n)} = qs,
         NEW e, Matches(Observed(Mutation(FALSE, n)), e)
  PROVE  Right(Test(SetTo(a, r, qs), e), PolicyAt(n), PolicyAt(n))
<1> DEFINE c == SetTo(a, r, qs)
<1>1. r \in RoleIds
  BY TableIs DEF Fits
<1>2. c \in StoreCalls /\ c.op = "set" /\ c.actor = a /\ c.role = r /\ c.permissions = qs
  BY <1>1, CallsOfVectors DEF SetTo
<1> HIDE DEF c
<1>3. {q \in DocumentPermissions : <<c.role, q>> \in GrantsAt(n)} = c.permissions
  BY <1>2, Zenon
<1>4. Right(Test(c, e), PolicyAt(n), PolicyAt(n))
  BY <1>2, <1>3, TableIs, NothingToChange
<1>5. QED
  BY <1>4, Zenon DEF c

\* Binding what is bound, and revoking what is not.
LEMMA BindsNothing ==
  ASSUME NEW n \in 1..19, NEW a \in Subjects, Administers(a, BindingsAt(n)),
         NEW s \in Subjects, NEW r \in RolesAt(n), NEW e, Matches(Observed(Mutation(FALSE, n)), e)
  PROVE  /\ <<s, r>> \in BindingsAt(n) => Right(Test(Assign(a, s, r), e), PolicyAt(n), PolicyAt(n))
         /\ <<s, r>> \notin BindingsAt(n) => Right(Test(Revoke(a, s, r), e), PolicyAt(n), PolicyAt(n))
<1> DEFINE c == Assign(a, s, r)
           d == Revoke(a, s, r)
<1>1. r \in RoleIds
  BY TableIs DEF Fits
<1>2. /\ c \in StoreCalls /\ c.op = "assign" /\ c.actor = a /\ c.role = r /\ c.subject = s
      /\ d \in StoreCalls /\ d.op = "revoke" /\ d.actor = a /\ d.role = r /\ d.subject = s
  BY <1>1, CallsOfVectors DEF Assign, Revoke
<1> HIDE DEF c, d
<1>3. <<s, r>> \in BindingsAt(n) => Right(Test(c, e), PolicyAt(n), PolicyAt(n))
  BY <1>2, TableIs, NothingToChange
<1>4. <<s, r>> \notin BindingsAt(n) => Right(Test(d, e), PolicyAt(n), PolicyAt(n))
  BY <1>2, TableIs, NothingToChange
<1>5. QED
  BY <1>3, <1>4, Zenon DEF c, d

\* A bootstrapped scope is bootstrapped for nobody else, and again for its owner.
LEMMA BootstrapsAgain ==
  ASSUME NEW n \in 1..19, NEW e, Matches(Observed(Mutation(FALSE, n)), e)
  PROVE  Right(Test(Bootstrap("owner"), e), PolicyAt(n), PolicyAt(n))
<1> DEFINE p == PolicyAt(n)
           c == Bootstrap("owner")
           a == Mutation(FALSE, p.revision)
<1>1. c \in StoreCalls /\ c.op = "bootstrap" /\ c.subject = "owner"
  BY CallsOfVectors, Cast DEF Bootstrap
<1>2. p \in Policies /\ Bootstrapped(p) /\ p.owner = "owner" /\ p.revision = n
  BY TableIs, KeptIsPolicy, KeptFields
<1>3. Matches(Observed(a), e)
  BY <1>2, Zenon
<1> HIDE DEF p, c, a
<1>4. Accepted(c, p) /\ c.op \notin ReadOps /\ Effect(c, p) = p
  BY <1>1, <1>2, Needless DEF Accepted, Refused, ReadOps, AdminOps, RoleOps
<1>5. QED
  BY <1>3, <1>4, RightIfKept, Zenon DEF a, p, c

\* Somebody else may not bootstrap the scope again.
LEMMA BootstrapRefused ==
  ASSUME NEW n \in 1..19, NEW s \in Subjects, s # "owner"
  PROVE  Right(Test(Bootstrap(s), Fails("ScopeAlreadyBootstrapped")), PolicyAt(n), PolicyAt(n))
<1> DEFINE p == PolicyAt(n)
           c == Bootstrap(s)
           f == "ScopeAlreadyBootstrapped"
<1>1. c \in StoreCalls /\ c.op = "bootstrap" /\ c.subject = s
  BY CallsOfVectors DEF Bootstrap
<1>2. p \in Policies /\ Bootstrapped(p) /\ p.owner = "owner"
  BY TableIs, KeptIsPolicy, KeptFields
<1> HIDE DEF p, c
<1>3. f \in DomainFailures /\ \A g \in DomainFailures : Refused(c, p, g) <=> g = f
  BY <1>1, <1>2 DEF Refused, AdminOps, RoleOps, DomainFailures, Bootstrapped
<1>4. QED
  BY <1>3, RightIfRefused, Zenon DEF p, c

\* What is answered to a check.
LEMMA Checks ==
  ASSUME NEW n \in 1..19, NEW s \in Subjects, NEW q \in Permissions,
         NEW b \in BOOLEAN, Allowed(PolicyAt(n), s, q) <=> b
  PROVE  /\ Right(Test(Check(s, q), SaysAt(b, n)), PolicyAt(n), PolicyAt(n))
         /\ Right(Test(Check(s, q), Says(b)), PolicyAt(n), PolicyAt(n))
<1> DEFINE p == PolicyAt(n)
           c == Check(s, q)
           d == Allowed(p, s, q)
<1>1. c \in StoreCalls /\ c.op = "check" /\ c.subject = s /\ c.permission = q
  BY CallsOfVectors DEF Check
<1>2. p.revision = n
  BY TableIs, KeptFields
<1>3. d = b
  <2>1. d \in BOOLEAN
    BY DEF Allowed
  <2>2. QED
    BY <2>1
<1> HIDE DEF p, c
<1>4. Accepted(c, p) /\ c.op \in ReadOps
  BY <1>1 DEF Accepted, Refused, ReadOps, AdminOps, RoleOps
<1>5. ReadAnswer(c, p) = Decision(d, p.revision)
  BY <1>1 DEF ReadAnswer
<1>6. ReadAnswer(c, p) = Decision(b, n)
  BY <1>2, <1>3, <1>5, Zenon
<1>7. Matches(Observed(ReadAnswer(c, p)), SaysAt(b, n)) /\ Matches(Observed(ReadAnswer(c, p)), Says(b))
  BY <1>6 DEF Matches, Observed, Decision, SaysAt, Says
<1>8. QED
  BY <1>4, <1>7, RightIfRead, Zenon DEF p, c

\* A role is read back as it is kept.
LEMMA Gets ==
  ASSUME NEW n \in 1..19, NEW r \in RolesAt(n),
         NEW qs, qs = {q \in DocumentPermissions : <<r, q>> \in GrantsAt(n)}
  PROVE  /\ Right(Test(Get(r), [kind |-> "role", revision |-> n,
                       row |-> [role |-> r, protected |-> FALSE, permissions |-> qs]]),
                  PolicyAt(n), PolicyAt(n))
         /\ Right(Test(Get(r), [kind |-> "role", grants |-> Cardinality(qs)]),
                  PolicyAt(n), PolicyAt(n))
<1> DEFINE p == PolicyAt(n)
           c == Get(r)
           row == [role |-> r, protected |-> FALSE, permissions |-> qs]
<1>0. r \in RoleIds /\ r # BootstrapRole
  BY TableIs DEF Fits
<1>1. c \in StoreCalls /\ c.op = "get" /\ c.role = r
  BY <1>0, CallsOfVectors DEF Get
<1>2. /\ p.revision = n /\ p.roles = {BootstrapRole} \cup RolesAt(n) /\ p.protected = {BootstrapRole}
      /\ Bootstrapped(p)
  BY TableIs, KeptIsPolicy, KeptFields
<1>3. Grants(p, r) = qs
  BY TableIs, KeptRows
<1> HIDE DEF p, c
<1>4. Accepted(c, p) /\ c.op \in ReadOps
  BY <1>1, <1>2 DEF Accepted, Refused, ReadOps, AdminOps, RoleOps
<1>5. ReadAnswer(c, p) = DirectoryRole(RoleRow(p, r), p.revision)
  BY <1>1 DEF ReadAnswer
<1>6. (r \in p.protected) = FALSE
  BY <1>0, <1>2
<1>7. RoleRow(p, r) = row
  BY <1>3, <1>6, Zenon DEF RoleRow
<1>8. ReadAnswer(c, p) = DirectoryRole(row, n)
  BY <1>2, <1>5, <1>7, Zenon
<1>9. row.permissions = qs
  OBVIOUS
<1> HIDE DEF row
<1> DEFINE card == Cardinality(qs)
<1>10. Observed(DirectoryRole(row, n)) = [kind |-> "role", row |-> row, revision |-> n, grants |-> card]
  BY <1>9 DEF Observed, DirectoryRole
<1> HIDE DEF card
<1>11. /\ Matches(Observed(ReadAnswer(c, p)), [kind |-> "role", revision |-> n, row |-> row])
       /\ Matches(Observed(ReadAnswer(c, p)), [kind |-> "role", grants |-> card])
  BY <1>8, <1>10 DEF Matches
<1>12. QED
  BY <1>4, <1>11, RightIfRead, Zenon DEF p, c, row, card

\* The roles a listing of such a policy ranges over.
Ranged(c, n) ==
  {r \in {BootstrapRole} \cup RolesAt(n) :
     r > c.after /\ (c.subject = NoSubject \/ <<c.subject, r>> \in BindingsAt(n))}

\* A page of the policy at a revision.
LEMMA Pages ==
  ASSUME NEW n \in 1..19, NEW c \in StoreCalls, c.op = "list",
         NEW L, L = Ranged(c, n), NEW P, P = Lowest(c.limit, L)
  PROVE  /\ Right(Test(c, Lists(P)), PolicyAt(n), PolicyAt(n))
         /\ \A b \in BOOLEAN : (b <=> P # L) =>
              Right(Test(c, ListsAt(P, b, n)), PolicyAt(n), PolicyAt(n))
<1> DEFINE p == PolicyAt(n)
           page == ReadAnswer(c, p)
<1>1. p \in Policies /\ Bootstrapped(p) /\ p.revision = n /\ p.roles = {BootstrapRole} \cup RolesAt(n)
        /\ p.bindings = BindingsAt(n)
  BY TableIs, KeptIsPolicy, KeptFields
<1>2. Listed(c, p) = L
  BY <1>1 DEF Listed, Ranged
<1> HIDE DEF p
<1>3. /\ page.kind = "page" /\ page.revision = n /\ PageRoles(page) = P
      /\ page.more \in BOOLEAN /\ (page.more <=> P # L)
  BY <1>1, <1>2, ListAnswer
<1>4. Accepted(c, p) /\ c.op \in ReadOps
  BY <1>1 DEF Accepted, Refused, ReadOps, AdminOps, RoleOps
<1> HIDE DEF page
<1> DEFINE card == Cardinality(page.rows)
           more == page.more
<1>5. Observed(page) = [kind |-> "page", roles |-> P, count |-> card, more |-> more, revision |-> n]
  BY <1>3 DEF Observed
<1>6. more \in BOOLEAN /\ (more <=> P # L)
  BY <1>3
<1> HIDE DEF card, more
<1>7. Matches(Observed(page), Lists(P))
  BY <1>5 DEF Matches, Lists
<1>8. ASSUME NEW b \in BOOLEAN, b <=> P # L PROVE Matches(Observed(page), ListsAt(P, b, n))
  <2>1. b = more
    BY <1>6, <1>8
  <2>2. Matches(Observed(page), ListsAt(P, more, n))
    BY <1>5 DEF Matches, ListsAt
  <2>3. QED
    BY <2>1, <2>2, Zenon
<1>9. Right(Test(c, Lists(P)), p, p)
  BY <1>4, <1>7, RightIfRead, Zenon DEF page
<1>10. ASSUME NEW b \in BOOLEAN, b <=> P # L PROVE Right(Test(c, ListsAt(P, b, n)), p, p)
  BY <1>4, <1>8, <1>10, RightIfRead, Zenon DEF page
<1>11. QED
  BY <1>9, <1>10, Zenon DEF p

\* Few roles are one page, and a page of one role holds the lowest.
LEMMA AllOnAPage ==
  ASSUME NEW L, L \subseteq 1..9
  PROVE  Lowest(10, L) = L
<1> SUFFICES ASSUME NEW r \in L PROVE Cardinality({q \in L : q < r}) < 10
  BY DEF Lowest
<1>1. IsFiniteSet(1..9) /\ Cardinality(1..9) = 9
  <2>1. 1 \in Int /\ 9 \in Int /\ 9 - 1 + 1 = 9 /\ ~ (1 > 9)
    OBVIOUS
  <2>2. IsFiniteSet(1..9) /\ Cardinality(1..9) = IF 1 > 9 THEN 0 ELSE 9 - 1 + 1
    BY <2>1, FS_Interval, Zenon
  <2>3. QED
    BY <2>1, <2>2, Zenon
<1>2. {q \in L : q < r} \subseteq 1..9
  OBVIOUS
<1>3. Cardinality({q \in L : q < r}) <= 9 /\ Cardinality({q \in L : q < r}) \in Nat
  BY <1>1, <1>2, FS_Subset, FS_CardinalityType
<1>4. QED
  BY <1>3

\* A page of one role is the lowest one.
LEMMA LowestOnAPage ==
  ASSUME NEW L, L \subseteq 1..9, NEW x \in L, \A q \in L : x <= q
  PROVE  Lowest(1, L) = {x}
<1> DEFINE below(r) == {q \in L : q < r}
<1>1. \A r \in L : IsFiniteSet(below(r)) /\ Cardinality(below(r)) \in Nat
  <2>1. IsFiniteSet(1..9)
    <3>1. 1 \in Int /\ 9 \in Int
      OBVIOUS
    <3>2. QED
      BY <3>1, FS_Interval, Zenon
  <2>2. QED
    BY <2>1, FS_Subset, FS_CardinalityType
<1>2. \A r \in L : below(r) = {} <=> r = x
  <2> SUFFICES ASSUME NEW r \in L PROVE below(r) = {} <=> r = x
    OBVIOUS
  <2>1. ASSUME r # x PROVE x \in below(r)
    BY <2>1
  <2>2. ASSUME r = x, NEW q \in L PROVE ~ (q < r)
    BY <2>2
  <2>3. QED
    BY <2>1, <2>2
<1>3. Lowest(1, L) = {r \in L : Cardinality(below(r)) < 1}
  BY DEF Lowest
<1> HIDE DEF below
<1>4. \A r \in L : Cardinality(below(r)) = 0 <=> below(r) = {}
  BY <1>1, FS_EmptySet
<1>5. \A r \in L : Cardinality(below(r)) < 1 <=> r = x
  BY <1>1, <1>2, <1>4
<1>6. QED
  BY <1>3, <1>5

-----------------------------------------------------------------------------
(* Each vector passes on the policy the ones before it leave.              *)

\* What the vectors say of mutations.
LEMMA Acknowledged ==
  ASSUME NEW n
  PROVE  /\ Matches(Observed(Mutation(TRUE, n)), Makes(TRUE, n))
         /\ Matches(Observed(Mutation(TRUE, n)), Reaches(n))
         /\ Matches(Observed(Mutation(TRUE, n)), Succeeds)
         /\ Matches(Observed(Mutation(FALSE, n)), Makes(FALSE, n))
         /\ Matches(Observed(Mutation(FALSE, n)), [kind |-> "mutation", changed |-> FALSE])
<1>1. ASSUME NEW b \in BOOLEAN
      PROVE  /\ Matches(Observed(Mutation(b, n)), Succeeds)
             /\ Matches(Observed(Mutation(b, n)), Reaches(n))
             /\ Matches(Observed(Mutation(b, n)), Makes(b, n))
             /\ Matches(Observed(Mutation(b, n)), [kind |-> "mutation", changed |-> b])
  BY MutationsMatch
<1>2. TRUE \in BOOLEAN /\ FALSE \in BOOLEAN
  OBVIOUS
<1>3. QED
  BY <1>1, <1>2, Zenon

\* The policy of the bootstrap: the owner, and no role besides.
LEMMA FirstTable ==
  RolesAt(1) = {} /\ GrantsAt(1) = {} /\ BindingsAt(1) = {<<"owner", BootstrapRole>>}
<1>1. RolesAt(1) = {}
  BY DEF RolesAt
<1>2. GrantsAt(1) = {}
  BY DEF GrantsAt
<1>3. <<"owner", BootstrapRole>> \in VectorSubjects \X VectorRoles
  BY DEF VectorSubjects, VectorRoles
<1>4. BindingsAt(1) = {<<"owner", BootstrapRole>>}
  BY <1>3 DEF BindingsAt
<1>5. QED
  BY <1>1, <1>2, <1>4

\* A scope that is not bootstrapped refuses, and its first bootstrap makes the first policy.
LEMMA FreshVectors ==
  \A i \in 1..6 : Right(FreshScope[i], PolicyAt(RevisionAfter(i - 1)), PolicyAt(RevisionAfter(i)))
<1>0. /\ PolicyAt(0) = NoPolicy
      /\ \A i \in 0..3 : RevisionAfter(i) = 0
      /\ \A i \in 4..6 : RevisionAfter(i) = 1
  BY DEF PolicyAt, RevisionAfter
<1>1. /\ ~ Bootstrapped(NoPolicy) /\ NoPolicy.revision = 0 /\ NoPolicy.owner = NoSubject
      /\ NoPolicy.bindings = {} /\ NoPolicy \in Policies
  BY InitialPolicies DEF NoPolicy
<1>2. Right(FreshScope[1], NoPolicy, NoPolicy)
  <2> DEFINE c == Check("owner", "read")
             p == NoPolicy
  <2>1. c \in StoreCalls /\ c.op = "check" /\ c.subject = "owner" /\ c.permission = "read"
    BY CallsOfVectors, Cast DEF Check
  <2>2. FreshScope[1] = Test(c, SaysAt(FALSE, 0))
    BY DEF FreshScope
  <2>3. Allowed(p, "owner", "read") = FALSE
    BY <1>1 DEF Allowed
  <2> HIDE DEF c, p
  <2>4. Accepted(c, p) /\ c.op \in ReadOps
    BY <2>1 DEF Accepted, Refused, ReadOps, AdminOps, RoleOps
  <2>5. ReadAnswer(c, p) = Decision(Allowed(p, "owner", "read"), p.revision)
    BY <2>1 DEF ReadAnswer
  <2>6. ReadAnswer(c, p) = Decision(FALSE, 0)
    BY <1>1, <2>3, <2>5, Zenon DEF p
  <2>7. Matches(Observed(ReadAnswer(c, p)), SaysAt(FALSE, 0))
    BY <2>6 DEF Matches, Observed, Decision, SaysAt
  <2>8. QED
    BY <2>2, <2>4, <2>7, RightIfRead, Zenon DEF p
<1>3. ASSUME NEW c \in StoreCalls, c.op \in AdminOps \cup {"list"}
      PROVE  Right(Test(c, Fails("ScopeNotBootstrapped")), NoPolicy, NoPolicy)
  <2> DEFINE f == "ScopeNotBootstrapped"
  <2>1. c.op \in {"create", "set", "delete", "assign", "revoke", "list"}
    BY <1>3 DEF AdminOps, RoleOps
  <2>2. f \in DomainFailures /\ \A g \in DomainFailures : Refused(c, NoPolicy, g) <=> g = f
    BY <1>1, <2>1 DEF DomainFailures, Refused, Authorized, AdminOps, RoleOps
  <2>3. QED
    BY <2>2, RightIfRefused, Zenon
<1>4. Right(FreshScope[2], NoPolicy, NoPolicy)
  <2>1. FreshScope[2] = Test(Create("owner", Viewer), Fails("ScopeNotBootstrapped"))
    BY DEF FreshScope
  <2>2. Create("owner", Viewer) \in StoreCalls /\ Create("owner", Viewer).op \in AdminOps
    BY CallsOfVectors, Cast, VectorAssumption DEF Create, AdminOps, Viewer
  <2>3. QED
    BY <1>3, <2>1, <2>2, Zenon
<1>5. Right(FreshScope[3], NoPolicy, NoPolicy)
  <2>1. FreshScope[3] = Test(ListAfter(NoCursor, 10), Fails("ScopeNotBootstrapped"))
    BY DEF FreshScope
  <2>2. ListAfter(NoCursor, 10) \in StoreCalls /\ ListAfter(NoCursor, 10).op = "list"
    BY CallsOfVectors DEF ListAfter
  <2>3. QED
    BY <1>3, <2>1, <2>2
<1>6. Right(FreshScope[4], NoPolicy, PolicyAt(1))
  <2> DEFINE c == Bootstrap("owner")
             p == NoPolicy
             q == SeedPolicy("owner")
  <2>1. c \in StoreCalls /\ c.op = "bootstrap" /\ c.subject = "owner"
    BY CallsOfVectors, Cast DEF Bootstrap
  <2>2. FreshScope[4] = Test(c, Makes(TRUE, 1))
    BY DEF FreshScope
  <2>3. q \in Policies
    BY InitialPolicies, Cast
  <2>4. /\ q.owner = "owner" /\ q.roles = {BootstrapRole} \cup RolesAt(1)
        /\ q.protected = {BootstrapRole} /\ q.grants = Management \cup GrantsAt(1)
        /\ q.bindings = BindingsAt(1)
    BY FirstTable DEF SeedPolicy, Management
  <2> HIDE DEF c, p, q
  <2>5. c.op \notin ReadOps /\ Accepted(c, p) /\ Effect(c, p) # p
    BY <1>1, <2>1, EligibleBootstrap DEF p
  <2>6. q = Effect(c, p) /\ p.revision = 0
    BY <1>1, <2>1 DEF Effect, p, q
  <2>7. Advance(c, p) = PolicyAt(1)
    <3>1. PolicyAt(1) = Kept(1, RolesAt(1), GrantsAt(1), BindingsAt(1))
      BY TableIs
    <3>2. Effect(c, p) \in Policies /\ 1 = p.revision + 1
      BY <2>3, <2>6
    <3>3. QED
      BY <2>4, <2>6, <3>1, <3>2, KeptIs
  <2> DEFINE a == Mutation(TRUE, p.revision + 1)
  <2>8. Matches(Observed(a), Makes(TRUE, 1))
    <3>1. p.revision + 1 = 1
      BY <2>6
    <3>2. Matches(Observed(Mutation(TRUE, 1)), Makes(TRUE, 1))
      BY Acknowledged
    <3>3. QED
      BY <3>1, <3>2, Zenon
  <2> HIDE DEF a
  <2>9. QED
    BY <2>2, <2>5, <2>7, <2>8, RightIfChanged, Zenon DEF a, p
<1>7. Right(FreshScope[5], PolicyAt(1), PolicyAt(1))
  <2>1. FreshScope[5] = Test(Bootstrap("owner"), Makes(FALSE, 1))
    BY DEF FreshScope
  <2>2. QED
    <3>1. 1 \in 1..19
      OBVIOUS
    <3>2. Matches(Observed(Mutation(FALSE, 1)), Makes(FALSE, 1))
      BY Acknowledged, Zenon
    <3>3. QED
      BY <2>1, <3>1, <3>2, BootstrapsAgain, Zenon
<1>8. Right(FreshScope[6], PolicyAt(1), PolicyAt(1))
  <2>1. FreshScope[6] = Test(Bootstrap("other"), Fails("ScopeAlreadyBootstrapped"))
    BY DEF FreshScope
  <2>2. QED
    <3>1. 1 \in 1..19 /\ "other" \in Subjects /\ "other" # "owner"
      BY Cast
    <3>2. QED
      BY <2>1, <3>1, BootstrapRefused, Zenon
<1> HIDE DEF FreshScope
<1>9. QED
  BY <1>0, <1>2, <1>4, <1>5, <1>6, <1>7, <1>8

\* What the table says where the vectors look.
LEMMA GrantsOf ==
  ASSUME NEW n \in 1..19, NEW q \in DocumentPermissions
  PROVE  /\ <<Viewer, q>> \in GrantsAt(n) <=> (n = 7 \/ (n \in 3..6 /\ q \in ReadAndExport))
         /\ <<UpperA, q>> \in GrantsAt(n) <=> (q = "read" /\ n >= 15)
         /\ <<UpperZ, q>> \in GrantsAt(n) <=> (q = "write" /\ n >= 17)
<1>1. /\ <<Viewer, q>> \in VectorRoles \X DocumentPermissions
      /\ <<UpperA, q>> \in VectorRoles \X DocumentPermissions
      /\ <<UpperZ, q>> \in VectorRoles \X DocumentPermissions
  BY DEF VectorRoles
<1>2. Viewer # UpperA /\ Viewer # UpperZ /\ UpperA # UpperZ
  BY DEF Viewer, UpperA, UpperZ
<1>3. <<Viewer, q>> \in GrantsAt(n) <=> (n = 7 \/ (n \in 3..6 /\ q \in ReadAndExport))
  BY <1>1, <1>2 DEF GrantsAt
<1>4. <<UpperA, q>> \in GrantsAt(n) <=> (q = "read" /\ n >= 15)
  BY <1>1, <1>2 DEF GrantsAt
<1>5. <<UpperZ, q>> \in GrantsAt(n) <=> (q = "write" /\ n >= 17)
  BY <1>1, <1>2 DEF GrantsAt
<1>6. QED
  BY <1>3, <1>4, <1>5

\* The permissions of a role at the revisions the vectors look at them.
LEMMA RowsInTable ==
  /\ {q \in DocumentPermissions : <<Viewer, q>> \in GrantsAt(2)} = {}
  /\ \A n \in {3, 4, 6} : {q \in DocumentPermissions : <<Viewer, q>> \in GrantsAt(n)} = ReadAndExport
  /\ {q \in DocumentPermissions : <<Viewer, q>> \in GrantsAt(7)} = DocumentPermissions
  /\ {q \in DocumentPermissions : <<UpperA, q>> \in GrantsAt(14)} = {}
  /\ {q \in DocumentPermissions : <<UpperZ, q>> \in GrantsAt(16)} = {}
<1>1. ReadAndExport \subseteq DocumentPermissions
  BY DEF ReadAndExport, DocumentPermissions
<1>2. /\ 2 \in 1..19 /\ {3, 4, 6} \subseteq 1..19 /\ 7 \in 1..19 /\ 14 \in 1..19 /\ 16 \in 1..19
  OBVIOUS
<1>3. {q \in DocumentPermissions : <<Viewer, q>> \in GrantsAt(2)} = {}
  <2>1. ~ (2 = 7 \/ 2 \in 3..6)
    OBVIOUS
  <2>2. \A q \in DocumentPermissions : <<Viewer, q>> \notin GrantsAt(2)
    BY <1>2, <2>1, GrantsOf, Zenon
  <2>3. QED
    BY <2>2
<1>4. ASSUME NEW n \in {3, 4, 6}
      PROVE  {q \in DocumentPermissions : <<Viewer, q>> \in GrantsAt(n)} = ReadAndExport
  <2>1. ASSUME NEW q \in DocumentPermissions PROVE <<Viewer, q>> \in GrantsAt(n) <=> q \in ReadAndExport
    <3>1. n \in 1..19 /\ n \in 3..6 /\ n # 7
      OBVIOUS
    <3>2. <<Viewer, q>> \in GrantsAt(n) <=> (n = 7 \/ (n \in 3..6 /\ q \in ReadAndExport))
      BY <3>1, GrantsOf, Zenon
    <3>3. QED
      BY <3>1, <3>2
  <2>2. QED
    BY <1>1, <2>1
<1>5. {q \in DocumentPermissions : <<Viewer, q>> \in GrantsAt(7)} = DocumentPermissions
  BY <1>2, GrantsOf
<1>6. {q \in DocumentPermissions : <<UpperA, q>> \in GrantsAt(14)} = {}
  <2>1. ~ (14 >= 15)
    OBVIOUS
  <2>2. \A q \in DocumentPermissions : <<UpperA, q>> \notin GrantsAt(14)
    BY <1>2, <2>1, GrantsOf, Zenon
  <2>3. QED
    BY <2>2
<1>7. {q \in DocumentPermissions : <<UpperZ, q>> \in GrantsAt(16)} = {}
  <2>1. ~ (16 >= 17)
    OBVIOUS
  <2>2. \A q \in DocumentPermissions : <<UpperZ, q>> \notin GrantsAt(16)
    BY <1>2, <2>1, GrantsOf, Zenon
  <2>3. QED
    BY <2>2
<1>8. QED
  BY <1>3, <1>4, <1>5, <1>6, <1>7

\* The roles at the revisions the vectors list them.
LEMMA RolesListed ==
  /\ \A n \in 2..8 : RolesAt(n) = {Viewer}
  /\ RolesAt(9) = {}
  /\ \A n \in 14..19 : RolesAt(n) = {UpperA, UpperZ, Dash, Under, LowerZ}
<1>1. \A n \in 2..8 : RolesAt(n) = {Viewer}
  BY DEF RolesAt, VectorRoles, Viewer, UpperZ, Under, Dash, UpperA, LowerZ
<1>2. RolesAt(9) = {}
  BY DEF RolesAt
<1>3. \A n \in 14..19 : RolesAt(n) = {UpperA, UpperZ, Dash, Under, LowerZ}
  BY DEF RolesAt, VectorRoles, Viewer, UpperZ, Under, Dash, UpperA, LowerZ
<1>4. QED
  BY <1>1, <1>2, <1>3

\* What the member is bound to, and when.
LEMMA MembersBound ==
  ASSUME NEW n \in 1..19
  PROVE  /\ \A r : <<"member", r>> \in BindingsAt(n) <=>
              \/ r = Viewer /\ n \in 4..8
              \/ r = UpperA /\ n \in 16..18
              \/ r = UpperZ /\ n >= 18
         /\ \A r : <<"nobody", r>> \notin BindingsAt(n)
<1>1. \A r \in {Viewer, UpperA, UpperZ} : <<"member", r>> \in VectorSubjects \X VectorRoles
  BY DEF VectorSubjects, VectorRoles
<1>2. QED
  BY <1>1 DEF BindingsAt

\* What a subject is allowed, by the table.
LEMMA AllowedIs ==
  ASSUME NEW n \in 1..19, NEW s \in Subjects
  PROVE  /\ \A q \in {RolesManage, BindingsManage} :
              Allowed(PolicyAt(n), s, q) <=> Administers(s, BindingsAt(n))
         /\ \A q \in DocumentPermissions : Allowed(PolicyAt(n), s, q) <=>
              \E r \in RolesAt(n) : <<s, r>> \in BindingsAt(n) /\ <<r, q>> \in GrantsAt(n)
<1> DEFINE p == PolicyAt(n)
           R == RolesAt(n)
           G == GrantsAt(n)
           B == BindingsAt(n)
<1>1. p = Kept(n, R, G, B) /\ Fits(n, R, G, B)
  BY TableIs
<1> HIDE DEF p, R, G, B
<1>2. /\ \A q \in {RolesManage, BindingsManage} : Allowed(p, s, q) <=> <<s, BootstrapRole>> \in B
      /\ \A q \in DocumentPermissions : Allowed(p, s, q) <=>
              \E r \in R : <<s, r>> \in B /\ <<r, q>> \in G
  BY <1>1, KeptAllows
<1>3. QED
  BY <1>2 DEF p, R, G, B, Administers

\* The decisions the vectors ask for.
LEMMA AllowedInTable ==
  /\ Allowed(PolicyAt(4), "member", "read") /\ ~ Allowed(PolicyAt(4), "member", RolesManage)
  /\ ~ Allowed(PolicyAt(8), "member", "read")
  /\ Allowed(PolicyAt(9), "other", BindingsManage)
  /\ Allowed(PolicyAt(18), "member", "read") /\ Allowed(PolicyAt(18), "member", "write")
  /\ ~ Allowed(PolicyAt(19), "member", "read") /\ Allowed(PolicyAt(19), "member", "write")
<1>1. /\ "member" \in Subjects /\ "other" \in Subjects
      /\ "read" \in DocumentPermissions /\ "write" \in DocumentPermissions /\ "read" \in ReadAndExport
  BY Cast DEF DocumentPermissions, ReadAndExport
<1>2. 4 \in 1..19 /\ 8 \in 1..19 /\ 9 \in 1..19 /\ 18 \in 1..19 /\ 19 \in 1..19
  OBVIOUS
<1>3. \A n \in 1..19, q \in DocumentPermissions : Allowed(PolicyAt(n), "member", q) <=>
         \E r \in RolesAt(n) : <<"member", r>> \in BindingsAt(n) /\ <<r, q>> \in GrantsAt(n)
  BY <1>1, AllowedIs, Zenon
<1>4. /\ Viewer \in RolesAt(4) /\ UpperA \in RolesAt(18) /\ UpperZ \in RolesAt(18) /\ UpperZ \in RolesAt(19)
      /\ RolesAt(8) = {Viewer}
  BY RolesListed
<1>5. /\ <<"member", Viewer>> \in BindingsAt(4) /\ <<"member", UpperA>> \in BindingsAt(18)
      /\ <<"member", UpperZ>> \in BindingsAt(18)
      /\ <<"member", UpperZ>> \in BindingsAt(19) /\ \A r : <<"member", r>> \in BindingsAt(19) => r = UpperZ
  BY MembersBound
<1>6. <<Viewer, "read">> \in GrantsAt(4) /\ <<Viewer, "read">> \notin GrantsAt(8)
  <2>1. 4 \in 3..6 /\ ~ (8 = 7 \/ 8 \in 3..6)
    OBVIOUS
  <2>2. QED
    BY <1>1, <1>2, <2>1, GrantsOf, Zenon
<1>7. <<UpperA, "read">> \in GrantsAt(18) /\ <<UpperZ, "write">> \in GrantsAt(18)
  <2>1. 18 >= 15 /\ 18 >= 17
    OBVIOUS
  <2>2. QED
    BY <1>1, <1>2, <2>1, GrantsOf, Zenon
<1>8. <<UpperZ, "read">> \notin GrantsAt(19) /\ <<UpperZ, "write">> \in GrantsAt(19)
  <2>1. 19 >= 17 /\ "read" # "write"
    OBVIOUS
  <2>2. QED
    BY <1>1, <1>2, <2>1, GrantsOf, Zenon
<1>9. ~ Administers("member", BindingsAt(4)) /\ Administers("other", BindingsAt(9))
  BY TableAdministrators
<1>10. Allowed(PolicyAt(4), "member", "read")
  BY <1>1, <1>2, <1>3, <1>4, <1>5, <1>6
<1>11. ~ Allowed(PolicyAt(4), "member", RolesManage)
  BY <1>1, <1>2, <1>9, AllowedIs, Zenon
<1>12. ~ Allowed(PolicyAt(8), "member", "read")
  BY <1>1, <1>2, <1>3, <1>4, <1>6
<1>13. Allowed(PolicyAt(9), "other", BindingsManage)
  BY <1>1, <1>2, <1>9, AllowedIs, Zenon
<1>14. Allowed(PolicyAt(18), "member", "read")
  BY <1>1, <1>2, <1>3, <1>4, <1>5, <1>7, Zenon
<1>15. Allowed(PolicyAt(18), "member", "write")
  BY <1>1, <1>2, <1>3, <1>4, <1>5, <1>7, Zenon
<1>16. ~ Allowed(PolicyAt(19), "member", "read")
  BY <1>1, <1>2, <1>3, <1>5, <1>8, Zenon
<1>17. Allowed(PolicyAt(19), "member", "write")
  BY <1>1, <1>2, <1>3, <1>4, <1>5, <1>8, Zenon
<1>18. QED
  BY <1>10, <1>11, <1>12, <1>13, <1>14, <1>15, <1>16, <1>17

\* A role is created, given permissions and bound.
LEMMA OrdinaryVectors ==
  \A i \in 1..14 : Right(OrdinaryRole[i], PolicyAt(RevisionAfter(i + 5)), PolicyAt(RevisionAfter(i + 6)))
<1>1. Right(OrdinaryRole[1], PolicyAt(1), PolicyAt(1))
  <2> DEFINE c == Create("stranger", Viewer)
  <2>1. OrdinaryRole[1] = Test(c, Fails("Forbidden"))
    BY DEF OrdinaryRole
  <2>2. c \in StoreCalls /\ c.op = "create" /\ c.actor = "stranger" /\ c.role = Viewer
    BY CallsOfVectors, Cast, VectorAssumption DEF Create, Viewer
  <2>3. /\ 1 \in 1..19 /\ c.op \in AdminOps
        /\ ~ Administers(c.actor, BindingsAt(1))
    BY <2>2, TableAdministrators, VectorAssumption DEF AdminOps, RoleOps, Viewer
  <2> HIDE DEF c
  <2>4. QED
    BY <2>1, <2>2, <2>3, Refuses
<1>2. Right(OrdinaryRole[2], PolicyAt(1), PolicyAt(2))
  <2>1. OrdinaryRole[2] = Test(Create("owner", Viewer), Makes(TRUE, 2))
    BY DEF OrdinaryRole
  <2>2. /\ 1 \in 1..18 /\ 2 = 1 + 1
        /\ "owner" \in Subjects /\ Administers("owner", BindingsAt(1)) /\ Viewer \in RoleIds
             /\ Viewer # BootstrapRole
        /\ Viewer \notin RolesAt(1) /\ RolesAt(2) = RolesAt(1) \cup {Viewer}
        /\ GrantsAt(2) = GrantsAt(1) /\ BindingsAt(2) = BindingsAt(1)
    BY Cast, VectorAssumption, TableAdministrators, RolesInTable, GrantsInTable, BindingsInTable DEF Viewer
  <2>3. Matches(Observed(Mutation(TRUE, 2)), Makes(TRUE, 2))
    BY Acknowledged, Zenon
  <2>4. QED
    BY <2>1, <2>2, <2>3, Creates, Zenon
<1>3. Right(OrdinaryRole[3], PolicyAt(2), PolicyAt(2))
  <2> DEFINE c == Create("owner", Viewer)
  <2>1. OrdinaryRole[3] = Test(c, Fails("RoleAlreadyExists"))
    BY DEF OrdinaryRole
  <2>2. c \in StoreCalls /\ c.op = "create" /\ c.actor = "owner" /\ c.role = Viewer
    BY CallsOfVectors, Cast, VectorAssumption DEF Create, Viewer
  <2>3. /\ 2 \in 1..19 /\ c.op \in AdminOps
        /\ Administers(c.actor, BindingsAt(2))
        /\ c.role \in RolesAt(2)
    BY <2>2, TableAdministrators, RolesListed, VectorAssumption DEF AdminOps, RoleOps, Viewer
  <2> HIDE DEF c
  <2>4. QED
    BY <2>1, <2>2, <2>3, Refuses
<1>4. Right(OrdinaryRole[4], PolicyAt(2), PolicyAt(3))
  <2>1. OrdinaryRole[4] = Test(SetTo("owner", Viewer, ReadAndExport), Makes(TRUE, 3))
    BY DEF OrdinaryRole
  <2>2. /\ 2 \in 1..18 /\ 3 = 2 + 1
        /\ "owner" \in Subjects /\ Administers("owner", BindingsAt(2)) /\ Viewer \in RolesAt(2)
        /\ ReadAndExport \in SUBSET Permissions
        /\ RolesAt(3) = RolesAt(2) /\ GrantsAt(3) = Regrants(2, Viewer, ReadAndExport)
             /\ BindingsAt(3) = BindingsAt(2)
    BY Cast, TableAdministrators, RolesInTable, GrantsInTable, BindingsInTable,
       RolesListed DEF ReadAndExport
  <2>3. Matches(Observed(Mutation(TRUE, 3)), Makes(TRUE, 3))
    BY Acknowledged, Zenon
  <2>4. {q \in DocumentPermissions : <<Viewer, q>> \in GrantsAt(2)} # ReadAndExport
    BY RowsInTable DEF ReadAndExport
  <2>5. QED
    BY <2>1, <2>2, <2>3, <2>4, Sets, Zenon
<1>5. Right(OrdinaryRole[5], PolicyAt(3), PolicyAt(3))
  <2>1. OrdinaryRole[5] = Test(SetTo("owner", Viewer, ReadAndExport), Makes(FALSE, 3))
    BY DEF OrdinaryRole
  <2>2. /\ 3 \in 1..19
        /\ "owner" \in Subjects /\ Administers("owner", BindingsAt(3)) /\ Viewer \in RolesAt(3)
        /\ ReadAndExport \in SUBSET Permissions
             /\ {q \in DocumentPermissions : <<Viewer, q>> \in GrantsAt(3)} = ReadAndExport
    BY Cast, TableAdministrators, RolesListed, RowsInTable DEF ReadAndExport
  <2>3. Matches(Observed(Mutation(FALSE, 3)), Makes(FALSE, 3))
    BY Acknowledged, Zenon
  <2>4. QED
    BY <2>1, <2>2, <2>3, SetsAgain, Zenon
<1>6. Right(OrdinaryRole[6], PolicyAt(3), PolicyAt(4))
  <2>1. OrdinaryRole[6] = Test(Assign("owner", "member", Viewer), Makes(TRUE, 4))
    BY DEF OrdinaryRole
  <2>2. /\ 3 \in 1..18 /\ 4 = 3 + 1
        /\ "owner" \in Subjects /\ Administers("owner", BindingsAt(3)) /\ "member" \in Subjects
             /\ Viewer \in RolesAt(3) \cup {BootstrapRole}
        /\ <<"member", Viewer>> \notin BindingsAt(3) /\ RolesAt(4) = RolesAt(3)
        /\ GrantsAt(4) = GrantsAt(3) /\ BindingsAt(4) = BindingsAt(3) \cup {<<"member", Viewer>>}
    BY Cast, TableAdministrators, RolesListed, RolesInTable, GrantsInTable, BindingsInTable
  <2>3. Matches(Observed(Mutation(TRUE, 4)), Makes(TRUE, 4))
    BY Acknowledged, Zenon
  <2>4. QED
    BY <2>1, <2>2, <2>3, Assigns, Zenon
<1>7. Right(OrdinaryRole[7], PolicyAt(4), PolicyAt(4))
  <2>1. OrdinaryRole[7] = Test(Assign("owner", "member", Viewer), Makes(FALSE, 4))
    BY DEF OrdinaryRole
  <2>2. /\ 4 \in 1..19
        /\ "owner" \in Subjects /\ Administers("owner", BindingsAt(4)) /\ "member" \in Subjects
             /\ Viewer \in RolesAt(4)
        /\ <<"member", Viewer>> \in BindingsAt(4)
    BY Cast, TableAdministrators, RolesListed, MembersBound
  <2>3. Matches(Observed(Mutation(FALSE, 4)), Makes(FALSE, 4))
    BY Acknowledged, Zenon
  <2>4. QED
    BY <2>1, <2>2, <2>3, BindsNothing, Zenon
<1>8. Right(OrdinaryRole[8], PolicyAt(4), PolicyAt(4))
  <2>1. OrdinaryRole[8] = Test(Check("member", "read"), SaysAt(TRUE, 4))
    BY DEF OrdinaryRole
  <2>2. /\ 4 \in 1..19
        /\ "member" \in Subjects /\ "read" \in Permissions /\ TRUE \in BOOLEAN
        /\ Allowed(PolicyAt(4), "member", "read") <=> TRUE
    BY Cast, AllowedInTable
  <2>3. QED
    BY <2>1, <2>2, Checks, Zenon
<1>9. Right(OrdinaryRole[9], PolicyAt(4), PolicyAt(4))
  <2>1. OrdinaryRole[9] = Test(Check("member", RolesManage), Says(FALSE))
    BY DEF OrdinaryRole
  <2>2. /\ 4 \in 1..19
        /\ "member" \in Subjects /\ RolesManage \in Permissions /\ FALSE \in BOOLEAN
        /\ Allowed(PolicyAt(4), "member", RolesManage) <=> FALSE
    BY Cast, AllowedInTable
  <2>3. QED
    BY <2>1, <2>2, Checks, Zenon
<1>10. Right(OrdinaryRole[10], PolicyAt(4), PolicyAt(4))
  <2>1. OrdinaryRole[10] = Test(Get(Viewer), [kind |-> "role", revision |-> 4, row |-> [role |-> Viewer,
          protected |-> FALSE, permissions |-> ReadAndExport]])
    BY DEF OrdinaryRole
  <2>2. /\ 4 \in 1..19 /\ Viewer \in RolesAt(4)
        /\ ReadAndExport = {q \in DocumentPermissions : <<Viewer, q>> \in GrantsAt(4)}
    BY RolesListed, RowsInTable
  <2>3. QED
    BY <2>1, <2>2, Gets, Zenon
<1>11. Right(OrdinaryRole[11], PolicyAt(4), PolicyAt(4))
  <2> DEFINE c == ListAfter(NoCursor, 1)
             L == Ranged(c, 4)
  <2>1. OrdinaryRole[11] = Test(c, ListsAt({BootstrapRole}, TRUE, 4))
    BY DEF OrdinaryRole
  <2>2. c \in StoreCalls /\ c.op = "list" /\ c.after = NoCursor /\ c.subject = NoSubject /\ c.limit = 1
    BY CallsOfVectors, Cast DEF ListAfter
  <2>3. L = {BootstrapRole, Viewer}
    BY <2>2, Cast, PolicyAssumption, VectorAssumption, RolesListed DEF Ranged, NoCursor, Viewer
  <2> HIDE DEF c, L
  <2>4. Lowest(c.limit, L) = {BootstrapRole}
    BY <2>2, <2>3, LowestOnAPage, VectorAssumption DEF Viewer
  <2> DEFINE P == {BootstrapRole}
             b == TRUE
  <2>5. 4 \in 1..19 /\ c \in StoreCalls /\ c.op = "list" /\ P = Lowest(c.limit, L) /\ b \in BOOLEAN
          /\ (b <=> P # L)
    BY <2>2, <2>3, <2>4, VectorAssumption DEF Viewer
  <2> HIDE DEF P, b
  <2>6. Right(Test(c, ListsAt(P, b, 4)), PolicyAt(4), PolicyAt(4))
    BY <2>5, Pages DEF L
  <2>7. QED
    BY <2>1, <2>6 DEF P, b
<1>12. Right(OrdinaryRole[12], PolicyAt(4), PolicyAt(4))
  <2> DEFINE c == ListAfter(BootstrapRole, 1)
             L == Ranged(c, 4)
  <2>1. OrdinaryRole[12] = Test(c, ListsAt({Viewer}, FALSE, 4))
    BY DEF OrdinaryRole
  <2>2. c \in StoreCalls /\ c.op = "list" /\ c.after = BootstrapRole /\ c.subject = NoSubject /\ c.limit = 1
    BY CallsOfVectors, Cast DEF ListAfter
  <2>3. L = {Viewer}
    BY <2>2, Cast, PolicyAssumption, VectorAssumption, RolesListed DEF Ranged, NoCursor, Viewer
  <2> HIDE DEF c, L
  <2>4. Lowest(c.limit, L) = {Viewer}
    BY <2>2, <2>3, LowestOnAPage, VectorAssumption DEF Viewer
  <2> DEFINE P == {Viewer}
             b == FALSE
  <2>5. 4 \in 1..19 /\ c \in StoreCalls /\ c.op = "list" /\ P = Lowest(c.limit, L) /\ b \in BOOLEAN
          /\ (b <=> P # L)
    BY <2>2, <2>3, <2>4, VectorAssumption DEF Viewer
  <2> HIDE DEF P, b
  <2>6. Right(Test(c, ListsAt(P, b, 4)), PolicyAt(4), PolicyAt(4))
    BY <2>5, Pages DEF L
  <2>7. QED
    BY <2>1, <2>6 DEF P, b
<1>13. Right(OrdinaryRole[13], PolicyAt(4), PolicyAt(4))
  <2> DEFINE c == ListOf("member", 10)
             L == Ranged(c, 4)
  <2>1. OrdinaryRole[13] = Test(c, Lists({Viewer}))
    BY DEF OrdinaryRole
  <2>2. c \in StoreCalls /\ c.op = "list" /\ c.after = NoCursor /\ c.subject = "member" /\ c.limit = 10
    BY CallsOfVectors, Cast DEF ListOf
  <2>3. L = {Viewer}
    BY <2>2, Cast, PolicyAssumption, VectorAssumption, RolesListed, MembersBound DEF Ranged, NoCursor,
       Viewer
  <2> HIDE DEF c, L
  <2>4. Lowest(c.limit, L) = {Viewer}
    BY <2>2, <2>3, AllOnAPage, VectorAssumption DEF Viewer
  <2> DEFINE P == {Viewer}
  <2>5. 4 \in 1..19 /\ c \in StoreCalls /\ c.op = "list" /\ P = Lowest(c.limit, L)
    BY <2>2, <2>3, <2>4
  <2> HIDE DEF P
  <2>6. Right(Test(c, Lists(P)), PolicyAt(4), PolicyAt(4))
    BY <2>5, Pages DEF L
  <2>7. QED
    BY <2>1, <2>6 DEF P
<1>14. Right(OrdinaryRole[14], PolicyAt(4), PolicyAt(4))
  <2>1. OrdinaryRole[14] = Test(Revoke("owner", "nobody", Viewer), Makes(FALSE, 4))
    BY DEF OrdinaryRole
  <2>2. /\ 4 \in 1..19
        /\ "owner" \in Subjects /\ Administers("owner", BindingsAt(4)) /\ "nobody" \in Subjects
             /\ Viewer \in RolesAt(4)
        /\ <<"nobody", Viewer>> \notin BindingsAt(4)
    BY Cast, TableAdministrators, RolesListed, MembersBound
  <2>3. Matches(Observed(Mutation(FALSE, 4)), Makes(FALSE, 4))
    BY Acknowledged, Zenon
  <2>4. QED
    BY <2>1, <2>2, <2>3, BindsNothing, Zenon
<1>15. /\ \A i \in 6..7 : RevisionAfter(i) = 1
       /\ \A i \in 8..9 : RevisionAfter(i) = 2
       /\ \A i \in 10..11 : RevisionAfter(i) = 3
       /\ \A i \in 12..20 : RevisionAfter(i) = 4
  BY DEF RevisionAfter
<1> HIDE DEF OrdinaryRole
<1>16. QED
  BY <1>1, <1>2, <1>3, <1>4, <1>5, <1>6, <1>7, <1>8, <1>9, <1>10, <1>11, <1>12, <1>13, <1>14, <1>15

\* What is protected, and roles that are not there.
LEMMA RefusalVectors ==
  \A i \in 1..7 : Right(Refusals[i], PolicyAt(RevisionAfter(i + 19)), PolicyAt(RevisionAfter(i + 20)))
<1>1. Right(Refusals[1], PolicyAt(4), PolicyAt(4))
  <2> DEFINE c == Delete("owner", BootstrapRole)
  <2>1. Refusals[1] = Test(c, Fails("ProtectedRole"))
    BY DEF Refusals
  <2>2. c \in StoreCalls /\ c.op = "delete" /\ c.actor = "owner" /\ c.role = BootstrapRole
    BY CallsOfVectors, Cast, VectorAssumption DEF Delete
  <2>3. /\ 4 \in 1..19 /\ c.op \in AdminOps
        /\ Administers(c.actor, BindingsAt(4))
    BY <2>2, Cast, TableAdministrators, RolesListed, VectorAssumption DEF AdminOps, RoleOps
  <2> HIDE DEF c
  <2>4. QED
    BY <2>1, <2>2, <2>3, Refuses
<1>2. Right(Refusals[2], PolicyAt(4), PolicyAt(4))
  <2> DEFINE c == SetTo("owner", BootstrapRole, ReadAndExport)
  <2>1. Refusals[2] = Test(c, Fails("ProtectedRole"))
    BY DEF Refusals
  <2>2. c \in StoreCalls /\ c.op = "set" /\ c.actor = "owner" /\ c.role = BootstrapRole
    BY CallsOfVectors, Cast, VectorAssumption DEF SetTo, ReadAndExport
  <2>3. /\ 4 \in 1..19 /\ c.op \in AdminOps
        /\ Administers(c.actor, BindingsAt(4))
    BY <2>2, Cast, TableAdministrators, RolesListed, VectorAssumption DEF AdminOps, RoleOps
  <2> HIDE DEF c
  <2>4. QED
    BY <2>1, <2>2, <2>3, Refuses
<1>3. Right(Refusals[3], PolicyAt(4), PolicyAt(4))
  <2> DEFINE c == Revoke("owner", "owner", BootstrapRole)
  <2>1. Refusals[3] = Test(c, Fails("ProtectedBinding"))
    BY DEF Refusals
  <2>2. c \in StoreCalls /\ c.op = "revoke" /\ c.actor = "owner" /\ c.subject = "owner"
          /\ c.role = BootstrapRole
    BY CallsOfVectors, Cast, VectorAssumption DEF Revoke
  <2>3. /\ 4 \in 1..19 /\ c.op \in AdminOps
        /\ Administers(c.actor, BindingsAt(4))
        /\ Administrators(BindingsAt(4)) = {c.subject}
    BY <2>2, Cast, TableAdministrators, RolesListed, VectorAssumption DEF AdminOps, RoleOps
  <2> HIDE DEF c
  <2>4. QED
    BY <2>1, <2>2, <2>3, Refuses
<1>4. Right(Refusals[4], PolicyAt(4), PolicyAt(4))
  <2> DEFINE c == Assign("owner", "member", Absent)
  <2>1. Refusals[4] = Test(c, Fails("RoleNotFound"))
    BY DEF Refusals
  <2>2. c \in StoreCalls /\ c.op = "assign" /\ c.actor = "owner" /\ c.role = Absent
    BY CallsOfVectors, Cast, VectorAssumption DEF Assign, Absent
  <2>3. /\ 4 \in 1..19 /\ c.op \in AdminOps
        /\ Administers(c.actor, BindingsAt(4))
        /\ c.op \in RoleOps /\ c.role \notin RolesAt(4) \cup {BootstrapRole}
    BY <2>2, Cast, TableAdministrators, RolesListed, VectorAssumption DEF AdminOps, RoleOps, Absent, Viewer
  <2> HIDE DEF c
  <2>4. QED
    BY <2>1, <2>2, <2>3, Refuses
<1>5. Right(Refusals[5], PolicyAt(4), PolicyAt(4))
  <2> DEFINE c == Revoke("owner", "member", Absent)
  <2>1. Refusals[5] = Test(c, Fails("RoleNotFound"))
    BY DEF Refusals
  <2>2. c \in StoreCalls /\ c.op = "revoke" /\ c.actor = "owner" /\ c.role = Absent
    BY CallsOfVectors, Cast, VectorAssumption DEF Revoke, Absent
  <2>3. /\ 4 \in 1..19 /\ c.op \in AdminOps
        /\ Administers(c.actor, BindingsAt(4))
        /\ c.op \in RoleOps /\ c.role \notin RolesAt(4) \cup {BootstrapRole}
    BY <2>2, Cast, TableAdministrators, RolesListed, VectorAssumption DEF AdminOps, RoleOps, Absent, Viewer
  <2> HIDE DEF c
  <2>4. QED
    BY <2>1, <2>2, <2>3, Refuses
<1>6. Right(Refusals[6], PolicyAt(4), PolicyAt(4))
  <2> DEFINE c == Delete("owner", Absent)
  <2>1. Refusals[6] = Test(c, Fails("RoleNotFound"))
    BY DEF Refusals
  <2>2. c \in StoreCalls /\ c.op = "delete" /\ c.actor = "owner" /\ c.role = Absent
    BY CallsOfVectors, Cast, VectorAssumption DEF Delete, Absent
  <2>3. /\ 4 \in 1..19 /\ c.op \in AdminOps
        /\ Administers(c.actor, BindingsAt(4))
        /\ c.op \in RoleOps /\ c.role \notin RolesAt(4) \cup {BootstrapRole}
    BY <2>2, Cast, TableAdministrators, RolesListed, VectorAssumption DEF AdminOps, RoleOps, Absent, Viewer
  <2> HIDE DEF c
  <2>4. QED
    BY <2>1, <2>2, <2>3, Refuses
<1>7. Right(Refusals[7], PolicyAt(4), PolicyAt(4))
  <2> DEFINE c == SetTo("owner", Absent, ReadAndExport)
  <2>1. Refusals[7] = Test(c, Fails("RoleNotFound"))
    BY DEF Refusals
  <2>2. c \in StoreCalls /\ c.op = "set" /\ c.actor = "owner" /\ c.role = Absent
    BY CallsOfVectors, Cast, VectorAssumption DEF SetTo, Absent, ReadAndExport
  <2>3. /\ 4 \in 1..19 /\ c.op \in AdminOps
        /\ Administers(c.actor, BindingsAt(4))
        /\ c.op \in RoleOps /\ c.role \notin RolesAt(4) \cup {BootstrapRole}
    BY <2>2, Cast, TableAdministrators, RolesListed, VectorAssumption DEF AdminOps, RoleOps, Absent, Viewer
  <2> HIDE DEF c
  <2>4. QED
    BY <2>1, <2>2, <2>3, Refuses
<1>8. \A i \in 20..27 : RevisionAfter(i) = 4
  BY DEF RevisionAfter
<1> HIDE DEF Refusals
<1>9. QED
  BY <1>1, <1>2, <1>3, <1>4, <1>5, <1>6, <1>7, <1>8

\* The owner hands the scope over and is an administrator no more.
LEMMA HandoverVectors ==
  \A i \in 1..11 : Right(Handover[i], PolicyAt(RevisionAfter(i + 26)), PolicyAt(RevisionAfter(i + 27)))
<1>1. Right(Handover[1], PolicyAt(4), PolicyAt(5))
  <2>1. Handover[1] = Test(Assign("owner", "other", BootstrapRole), Reaches(5))
    BY DEF Handover
  <2>2. /\ 4 \in 1..18 /\ 5 = 4 + 1
        /\ "owner" \in Subjects /\ Administers("owner", BindingsAt(4)) /\ "other" \in Subjects
             /\ BootstrapRole \in RolesAt(4) \cup {BootstrapRole}
        /\ <<"other", BootstrapRole>> \notin BindingsAt(4) /\ RolesAt(5) = RolesAt(4)
        /\ GrantsAt(5) = GrantsAt(4) /\ BindingsAt(5) = BindingsAt(4) \cup {<<"other", BootstrapRole>>}
    BY Cast, TableAdministrators, RolesListed, RolesInTable, GrantsInTable, BindingsInTable
  <2>3. Matches(Observed(Mutation(TRUE, 5)), Reaches(5))
    BY Acknowledged, Zenon
  <2>4. QED
    BY <2>1, <2>2, <2>3, Assigns, Zenon
<1>2. Right(Handover[2], PolicyAt(5), PolicyAt(6))
  <2>1. Handover[2] = Test(Revoke("other", "owner", BootstrapRole), Reaches(6))
    BY DEF Handover
  <2>2. /\ 5 \in 1..18 /\ 6 = 5 + 1
        /\ "other" \in Subjects /\ Administers("other", BindingsAt(5)) /\ "owner" \in Subjects
             /\ BootstrapRole \in RolesAt(5) \cup {BootstrapRole}
        /\ <<"owner", BootstrapRole>> \in BindingsAt(5) /\ Administrators(BindingsAt(5)) # {"owner"}
        /\ RolesAt(6) = RolesAt(5) /\ GrantsAt(6) = GrantsAt(5)
        /\ BindingsAt(6) = BindingsAt(5) \ {<<"owner", BootstrapRole>>}
    BY Cast, TableAdministrators, RolesListed, RolesInTable, GrantsInTable,
       BindingsInTable DEF Administrators
  <2>3. Matches(Observed(Mutation(TRUE, 6)), Reaches(6))
    BY Acknowledged, Zenon
  <2>4. Right(Test(Revoke("other", "owner", BootstrapRole), Reaches(6)), PolicyAt(5), PolicyAt(6))
    BY <2>2, <2>3, Revokes, Zenon
  <2>5. QED
    BY <2>1, <2>4, Zenon
<1>3. Right(Handover[3], PolicyAt(6), PolicyAt(6))
  <2> DEFINE c == Create("owner", Denied)
  <2>1. Handover[3] = Test(c, Fails("Forbidden"))
    BY DEF Handover
  <2>2. c \in StoreCalls /\ c.op = "create" /\ c.actor = "owner" /\ c.role = Denied
    BY CallsOfVectors, Cast, VectorAssumption DEF Create, Denied
  <2>3. /\ 6 \in 1..19 /\ c.op \in AdminOps
        /\ ~ Administers(c.actor, BindingsAt(6))
    BY <2>2, Cast, TableAdministrators, RolesListed, VectorAssumption DEF AdminOps, RoleOps, Denied
  <2> HIDE DEF c
  <2>4. QED
    BY <2>1, <2>2, <2>3, Refuses
<1>4. Right(Handover[4], PolicyAt(6), PolicyAt(6))
  <2> DEFINE c == Revoke("other", "other", BootstrapRole)
  <2>1. Handover[4] = Test(c, Fails("ProtectedBinding"))
    BY DEF Handover
  <2>2. c \in StoreCalls /\ c.op = "revoke" /\ c.actor = "other" /\ c.subject = "other"
          /\ c.role = BootstrapRole
    BY CallsOfVectors, Cast, VectorAssumption DEF Revoke
  <2>3. /\ 6 \in 1..19 /\ c.op \in AdminOps
        /\ Administers(c.actor, BindingsAt(6))
        /\ Administrators(BindingsAt(6)) = {c.subject}
    BY <2>2, Cast, TableAdministrators, RolesListed, VectorAssumption DEF AdminOps, RoleOps
  <2> HIDE DEF c
  <2>4. QED
    BY <2>1, <2>2, <2>3, Refuses
<1>5. Right(Handover[5], PolicyAt(6), PolicyAt(7))
  <2>1. Handover[5] = Test(SetTo("other", Viewer, DocumentPermissions), Reaches(7))
    BY DEF Handover
  <2>2. /\ 6 \in 1..18 /\ 7 = 6 + 1
        /\ "other" \in Subjects /\ Administers("other", BindingsAt(6)) /\ Viewer \in RolesAt(6)
        /\ DocumentPermissions \in SUBSET Permissions
        /\ RolesAt(7) = RolesAt(6) /\ GrantsAt(7) = Regrants(6, Viewer, DocumentPermissions)
             /\ BindingsAt(7) = BindingsAt(6)
    BY Cast, TableAdministrators, RolesListed, RolesInTable, GrantsInTable,
       BindingsInTable DEF DocumentPermissions, Regrants
  <2>3. Matches(Observed(Mutation(TRUE, 7)), Reaches(7))
    BY Acknowledged, Zenon
  <2>4. {q \in DocumentPermissions : <<Viewer, q>> \in GrantsAt(6)} # DocumentPermissions
    <3>1. "write" \in DocumentPermissions /\ "write" \notin ReadAndExport
      BY DEF ReadAndExport, DocumentPermissions
    <3>2. QED
      BY <3>1, RowsInTable
  <2>5. QED
    BY <2>1, <2>2, <2>3, <2>4, Sets, Zenon
<1>6. Right(Handover[6], PolicyAt(7), PolicyAt(7))
  <2>1. Handover[6] = Test(Get(Viewer), [kind |-> "role", grants |-> Cardinality(DocumentPermissions)])
    BY DEF Handover
  <2>2. /\ 7 \in 1..19 /\ Viewer \in RolesAt(7)
        /\ DocumentPermissions = {q \in DocumentPermissions : <<Viewer, q>> \in GrantsAt(7)}
    BY RolesListed, RowsInTable
  <2>3. QED
    BY <2>1, <2>2, Gets, Zenon
<1>7. Right(Handover[7], PolicyAt(7), PolicyAt(8))
  <2>1. Handover[7] = Test(SetTo("other", Viewer, {}), Reaches(8))
    BY DEF Handover
  <2>2. /\ 7 \in 1..18 /\ 8 = 7 + 1
        /\ "other" \in Subjects /\ Administers("other", BindingsAt(7)) /\ Viewer \in RolesAt(7)
        /\ {} \in SUBSET Permissions
        /\ RolesAt(8) = RolesAt(7) /\ GrantsAt(8) = Regrants(7, Viewer, {}) /\ BindingsAt(8) = BindingsAt(7)
    BY Cast, TableAdministrators, RolesListed, RolesInTable, GrantsInTable,
       BindingsInTable DEF DocumentPermissions, Regrants
  <2>3. Matches(Observed(Mutation(TRUE, 8)), Reaches(8))
    BY Acknowledged, Zenon
  <2>4. {q \in DocumentPermissions : <<Viewer, q>> \in GrantsAt(7)} # {}
    <3>1. "write" \in DocumentPermissions
      BY DEF DocumentPermissions
    <3>2. QED
      BY <3>1, RowsInTable
  <2>5. QED
    BY <2>1, <2>2, <2>3, <2>4, Sets, Zenon
<1>8. Right(Handover[8], PolicyAt(8), PolicyAt(8))
  <2>1. Handover[8] = Test(Check("member", "read"), Says(FALSE))
    BY DEF Handover
  <2>2. /\ 8 \in 1..19
        /\ "member" \in Subjects /\ "read" \in Permissions /\ FALSE \in BOOLEAN
        /\ Allowed(PolicyAt(8), "member", "read") <=> FALSE
    BY Cast, AllowedInTable
  <2>3. QED
    BY <2>1, <2>2, Checks, Zenon
<1>9. Right(Handover[9], PolicyAt(8), PolicyAt(9))
  <2>1. Handover[9] = Test(Delete("other", Viewer), Reaches(9))
    BY DEF Handover
  <2>2. /\ 8 \in 1..18 /\ 9 = 8 + 1
        /\ "other" \in Subjects /\ Administers("other", BindingsAt(8)) /\ Viewer \in RolesAt(8)
        /\ RolesAt(9) = RolesAt(8) \ {Viewer} /\ GrantsAt(9) = {g \in GrantsAt(8) : g[1] # Viewer}
        /\ BindingsAt(9) = {b \in BindingsAt(8) : b[2] # Viewer}
    BY Cast, TableAdministrators, RolesListed, RolesInTable, GrantsInTable, BindingsInTable
  <2>3. Matches(Observed(Mutation(TRUE, 9)), Reaches(9))
    BY Acknowledged, Zenon
  <2>4. QED
    BY <2>1, <2>2, <2>3, Deletes, Zenon
<1>10. Right(Handover[10], PolicyAt(9), PolicyAt(9))
  <2> DEFINE c == ListOf("member", 10)
             L == Ranged(c, 9)
  <2>1. Handover[10] = Test(c, Lists({}))
    BY DEF Handover
  <2>2. c \in StoreCalls /\ c.op = "list" /\ c.after = NoCursor /\ c.subject = "member" /\ c.limit = 10
    BY CallsOfVectors, Cast DEF ListOf
  <2>3. L = {}
    BY <2>2, Cast, PolicyAssumption, VectorAssumption, RolesListed, MembersBound DEF Ranged, NoCursor
  <2> HIDE DEF c, L
  <2>4. Lowest(c.limit, L) = {}
    BY <2>2, <2>3, AllOnAPage, VectorAssumption
  <2> DEFINE P == {}
  <2>5. 9 \in 1..19 /\ c \in StoreCalls /\ c.op = "list" /\ P = Lowest(c.limit, L)
    BY <2>2, <2>3, <2>4
  <2> HIDE DEF P
  <2>6. Right(Test(c, Lists(P)), PolicyAt(9), PolicyAt(9))
    BY <2>5, Pages DEF L
  <2>7. QED
    BY <2>1, <2>6 DEF P
<1>11. Right(Handover[11], PolicyAt(9), PolicyAt(9))
  <2>1. Handover[11] = Test(Check("other", BindingsManage), Says(TRUE))
    BY DEF Handover
  <2>2. /\ 9 \in 1..19
        /\ "other" \in Subjects /\ BindingsManage \in Permissions /\ TRUE \in BOOLEAN
        /\ Allowed(PolicyAt(9), "other", BindingsManage) <=> TRUE
    BY Cast, AllowedInTable
  <2>3. QED
    BY <2>1, <2>2, Checks, Zenon
<1>12. /\ RevisionAfter(27) = 4 /\ RevisionAfter(28) = 5
       /\ \A i \in 29..31 : RevisionAfter(i) = 6
       /\ \A i \in 32..33 : RevisionAfter(i) = 7
       /\ \A i \in 34..35 : RevisionAfter(i) = 8
       /\ \A i \in 36..38 : RevisionAfter(i) = 9
  BY DEF RevisionAfter
<1> HIDE DEF Handover
<1>13. QED
  BY <1>1, <1>2, <1>3, <1>4, <1>5, <1>6, <1>7, <1>8, <1>9, <1>10, <1>11, <1>12

\* The vectors of PageOrder, one by one.
LEMMA PageOrderIs ==
  /\ PageOrder[1] = Test(Create("other", UpperZ), Succeeds)
  /\ PageOrder[2] = Test(Create("other", Under), Succeeds)
  /\ PageOrder[3] = Test(Create("other", Dash), Succeeds)
  /\ PageOrder[4] = Test(Create("other", UpperA), Succeeds)
  /\ PageOrder[5] = Test(Create("other", LowerZ), Succeeds)
  /\ PageOrder[6] = Test(ListAfter(NoCursor, 10), Lists({UpperA, UpperZ, Dash, Under, BootstrapRole,
       LowerZ}))
  /\ PageOrder[7] = Test(ListAfter(NoCursor, 1), Lists({UpperA}))
  /\ PageOrder[8] = Test(ListAfter(UpperA, 1), Lists({UpperZ}))
  /\ PageOrder[9] = Test(ListAfter(UpperZ, 1), Lists({Dash}))
  /\ PageOrder[10] = Test(ListAfter(Dash, 1), Lists({Under}))
  /\ PageOrder[11] = Test(ListAfter(Under, 1), Lists({BootstrapRole}))
  /\ PageOrder[12] = Test(ListAfter(BootstrapRole, 1), Lists({LowerZ}))
<1> DEFINE X == [i \in 1..5 |-> Test(Create("other", <<UpperZ, Under, Dash, UpperA, LowerZ>>[i]), Succeeds)]
           Y == <<Test(ListAfter(NoCursor, 10), Lists({Listing[i] : i \in DOMAIN Listing}))>>
           Z == [i \in DOMAIN Listing |->
                   Test(ListAfter(IF i = 1 THEN NoCursor ELSE Listing[i - 1], 1), Lists({Listing[i]}))]
           E == {X[i] : i \in 1..5} \cup {Y[1]} \cup {Z[i] : i \in 1..6}
<1>1. X \in Seq(E) /\ Len(X) = 5
  OBVIOUS
<1>2. Y \in Seq(E) /\ Len(Y) = 1
  OBVIOUS
<1>3. Z \in Seq(E) /\ Len(Z) = 6
  BY DEF Listing
<1>4. PageOrder = X \o Y \o Z
  BY DEF PageOrder
<1>5. X[1] = Test(Create("other", UpperZ), Succeeds) /\ X[2] = Test(Create("other", Under), Succeeds)
        /\ X[3] = Test(Create("other", Dash), Succeeds) /\ X[4] = Test(Create("other", UpperA), Succeeds)
        /\ X[5] = Test(Create("other", LowerZ), Succeeds)
  OBVIOUS
<1>6. Y[1] = Test(ListAfter(NoCursor, 10), Lists({UpperA, UpperZ, Dash, Under, BootstrapRole, LowerZ}))
  <2>1. {Listing[i] : i \in DOMAIN Listing} = {UpperA, UpperZ, Dash, Under, BootstrapRole, LowerZ}
    <3>1. DOMAIN Listing = 1..6
      BY DEF Listing
    <3>2. Listing[1] = UpperA /\ Listing[2] = UpperZ /\ Listing[3] = Dash /\ Listing[4] = Under
            /\ Listing[5] = BootstrapRole /\ Listing[6] = LowerZ
      BY DEF Listing
    <3>3. \A i \in 1..6 : i = 1 \/ i = 2 \/ i = 3 \/ i = 4 \/ i = 5 \/ i = 6
      OBVIOUS
    <3>4. QED
      BY <3>1, <3>2, <3>3
  <2>2. QED
    BY <2>1, Zenon
<1>7. /\ Z[1] = Test(ListAfter(NoCursor, 1), Lists({UpperA}))
      /\ Z[2] = Test(ListAfter(UpperA, 1), Lists({UpperZ}))
          /\ Z[3] = Test(ListAfter(UpperZ, 1), Lists({Dash}))
          /\ Z[4] = Test(ListAfter(Dash, 1), Lists({Under}))
          /\ Z[5] = Test(ListAfter(Under, 1), Lists({BootstrapRole}))
          /\ Z[6] = Test(ListAfter(BootstrapRole, 1), Lists({LowerZ}))
  <2>1. Listing[1] = UpperA /\ Listing[2] = UpperZ /\ Listing[3] = Dash /\ Listing[4] = Under
          /\ Listing[5] = BootstrapRole /\ Listing[6] = LowerZ
    BY DEF Listing
  <2>2. DOMAIN Listing = 1..6
    BY DEF Listing
  <2>3. \A i \in 1..6 : Z[i] = Test(ListAfter(IF i = 1 THEN NoCursor ELSE Listing[i - 1], 1),
          Lists({Listing[i]}))
    BY <2>2
  <2>4. 1 \in 1..6 /\ \A i \in 2..6 : i \in 1..6 /\ i # 1
    OBVIOUS
  <2>5. Z[1] = Test(ListAfter(NoCursor, 1), Lists({Listing[1]}))
    BY <2>3, <2>4
  <2>6. ASSUME NEW i \in 2..6 PROVE Z[i] = Test(ListAfter(Listing[i - 1], 1), Lists({Listing[i]}))
    <3>1. (IF i = 1 THEN NoCursor ELSE Listing[i - 1]) = Listing[i - 1]
      OBVIOUS
    <3>2. QED
      BY <2>3, <2>4, <3>1, Zenon
  <2> HIDE DEF Z
  <2>7. Z[2] = Test(ListAfter(Listing[1], 1), Lists({Listing[2]}))
          /\ Z[3] = Test(ListAfter(Listing[2], 1), Lists({Listing[3]}))
          /\ Z[4] = Test(ListAfter(Listing[3], 1), Lists({Listing[4]}))
          /\ Z[5] = Test(ListAfter(Listing[4], 1), Lists({Listing[5]}))
          /\ Z[6] = Test(ListAfter(Listing[5], 1), Lists({Listing[6]}))
    BY <2>6
  <2>8. QED
    BY <2>1, <2>5, <2>7, Zenon
<1> HIDE DEF X, Y, Z, E
<1>0. \A s \in Seq(E), t \in Seq(E) :
        /\ s \o t \in Seq(E) /\ Len(s \o t) = Len(s) + Len(t)
        /\ \A i \in 1..Len(s) : (s \o t)[i] = s[i]
        /\ \A i \in 1..Len(t) : (s \o t)[Len(s) + i] = t[i]
  BY Joined
<1>8. /\ X \o Y \in Seq(E) /\ Len(X \o Y) = 6
      /\ \A i \in 1..5 : (X \o Y)[i] = X[i]
      /\ (X \o Y)[6] = Y[1]
  <2>1. /\ X \o Y \in Seq(E) /\ Len(X \o Y) = Len(X) + Len(Y)
        /\ \A i \in 1..Len(X) : (X \o Y)[i] = X[i]
        /\ \A i \in 1..Len(Y) : (X \o Y)[Len(X) + i] = Y[i]
    BY <1>1, <1>2, <1>0, Zenon
  <2>2. /\ \A i \in 1..5 : (X \o Y)[i] = X[i]
        /\ \A i \in 1..1 : (X \o Y)[5 + i] = Y[i]
    BY <1>1, <1>2, <2>1, Zenon
  <2>3. 1 \in 1..1 /\ 5 + 1 = 6 /\ Len(X \o Y) = 6
    BY <1>1, <1>2, <2>1
  <2>4. (X \o Y)[6] = Y[1]
    BY <2>2, <2>3
  <2>5. QED
    BY <2>1, <2>2, <2>3, <2>4
<1>9. /\ \A i \in 1..6 : PageOrder[i] = (X \o Y)[i]
      /\ \A i \in 1..6 : PageOrder[6 + i] = Z[i]
  <2>1. /\ \A i \in 1..Len(X \o Y) : ((X \o Y) \o Z)[i] = (X \o Y)[i]
        /\ \A i \in 1..Len(Z) : ((X \o Y) \o Z)[Len(X \o Y) + i] = Z[i]
    BY <1>3, <1>8, <1>0, Zenon
  <2>2. QED
    BY <1>3, <1>4, <1>8, <2>1, Zenon
<1> HIDE DEF PageOrder
<1>10. /\ PageOrder[1] = X[1] /\ PageOrder[2] = X[2] /\ PageOrder[3] = X[3] /\ PageOrder[4] = X[4]
       /\ PageOrder[5] = X[5] /\ PageOrder[6] = Y[1]
  BY <1>8, <1>9
<1>11. /\ PageOrder[7] = Z[1] /\ PageOrder[8] = Z[2] /\ PageOrder[9] = Z[3] /\ PageOrder[10] = Z[4]
       /\ PageOrder[11] = Z[5] /\ PageOrder[12] = Z[6]
  BY <1>9
<1>12. QED
  BY <1>5, <1>6, <1>7, <1>10, <1>11, Zenon

\* Roles are listed in bytewise order.
LEMMA PageVectors ==
  \A i \in 1..12 : Right(PageOrder[i], PolicyAt(RevisionAfter(i + 37)), PolicyAt(RevisionAfter(i + 38)))
<1>1. Right(PageOrder[1], PolicyAt(9), PolicyAt(10))
  <2>1. PageOrder[1] = Test(Create("other", UpperZ), Succeeds)
    BY PageOrderIs
  <2>2. /\ 9 \in 1..18 /\ 10 = 9 + 1
        /\ "other" \in Subjects /\ Administers("other", BindingsAt(9)) /\ UpperZ \in RoleIds
             /\ UpperZ # BootstrapRole
        /\ UpperZ \notin RolesAt(9) /\ RolesAt(10) = RolesAt(9) \cup {UpperZ}
        /\ GrantsAt(10) = GrantsAt(9) /\ BindingsAt(10) = BindingsAt(9)
    BY Cast, VectorAssumption, TableAdministrators, RolesInTable, GrantsInTable, BindingsInTable DEF UpperZ
  <2>3. Matches(Observed(Mutation(TRUE, 10)), Succeeds)
    BY Acknowledged, Zenon
  <2>4. QED
    BY <2>1, <2>2, <2>3, Creates, Zenon
<1>2. Right(PageOrder[2], PolicyAt(10), PolicyAt(11))
  <2>1. PageOrder[2] = Test(Create("other", Under), Succeeds)
    BY PageOrderIs
  <2>2. /\ 10 \in 1..18 /\ 11 = 10 + 1
        /\ "other" \in Subjects /\ Administers("other", BindingsAt(10)) /\ Under \in RoleIds
             /\ Under # BootstrapRole
        /\ Under \notin RolesAt(10) /\ RolesAt(11) = RolesAt(10) \cup {Under}
        /\ GrantsAt(11) = GrantsAt(10) /\ BindingsAt(11) = BindingsAt(10)
    BY Cast, VectorAssumption, TableAdministrators, RolesInTable, GrantsInTable, BindingsInTable DEF Under
  <2>3. Matches(Observed(Mutation(TRUE, 11)), Succeeds)
    BY Acknowledged, Zenon
  <2>4. QED
    BY <2>1, <2>2, <2>3, Creates, Zenon
<1>3. Right(PageOrder[3], PolicyAt(11), PolicyAt(12))
  <2>1. PageOrder[3] = Test(Create("other", Dash), Succeeds)
    BY PageOrderIs
  <2>2. /\ 11 \in 1..18 /\ 12 = 11 + 1
        /\ "other" \in Subjects /\ Administers("other", BindingsAt(11)) /\ Dash \in RoleIds
             /\ Dash # BootstrapRole
        /\ Dash \notin RolesAt(11) /\ RolesAt(12) = RolesAt(11) \cup {Dash}
        /\ GrantsAt(12) = GrantsAt(11) /\ BindingsAt(12) = BindingsAt(11)
    BY Cast, VectorAssumption, TableAdministrators, RolesInTable, GrantsInTable, BindingsInTable DEF Dash
  <2>3. Matches(Observed(Mutation(TRUE, 12)), Succeeds)
    BY Acknowledged, Zenon
  <2>4. QED
    BY <2>1, <2>2, <2>3, Creates, Zenon
<1>4. Right(PageOrder[4], PolicyAt(12), PolicyAt(13))
  <2>1. PageOrder[4] = Test(Create("other", UpperA), Succeeds)
    BY PageOrderIs
  <2>2. /\ 12 \in 1..18 /\ 13 = 12 + 1
        /\ "other" \in Subjects /\ Administers("other", BindingsAt(12)) /\ UpperA \in RoleIds
             /\ UpperA # BootstrapRole
        /\ UpperA \notin RolesAt(12) /\ RolesAt(13) = RolesAt(12) \cup {UpperA}
        /\ GrantsAt(13) = GrantsAt(12) /\ BindingsAt(13) = BindingsAt(12)
    BY Cast, VectorAssumption, TableAdministrators, RolesInTable, GrantsInTable, BindingsInTable DEF UpperA
  <2>3. Matches(Observed(Mutation(TRUE, 13)), Succeeds)
    BY Acknowledged, Zenon
  <2>4. QED
    BY <2>1, <2>2, <2>3, Creates, Zenon
<1>5. Right(PageOrder[5], PolicyAt(13), PolicyAt(14))
  <2>1. PageOrder[5] = Test(Create("other", LowerZ), Succeeds)
    BY PageOrderIs
  <2>2. /\ 13 \in 1..18 /\ 14 = 13 + 1
        /\ "other" \in Subjects /\ Administers("other", BindingsAt(13)) /\ LowerZ \in RoleIds
             /\ LowerZ # BootstrapRole
        /\ LowerZ \notin RolesAt(13) /\ RolesAt(14) = RolesAt(13) \cup {LowerZ}
        /\ GrantsAt(14) = GrantsAt(13) /\ BindingsAt(14) = BindingsAt(13)
    BY Cast, VectorAssumption, TableAdministrators, RolesInTable, GrantsInTable, BindingsInTable DEF LowerZ
  <2>3. Matches(Observed(Mutation(TRUE, 14)), Succeeds)
    BY Acknowledged, Zenon
  <2>4. QED
    BY <2>1, <2>2, <2>3, Creates, Zenon
<1>6. Right(PageOrder[6], PolicyAt(14), PolicyAt(14))
  <2> DEFINE c == ListAfter(NoCursor, 10)
             L == Ranged(c, 14)
  <2>1. PageOrder[6] = Test(c, Lists({UpperA, UpperZ, Dash, Under, BootstrapRole, LowerZ}))
    BY PageOrderIs
  <2>2. c \in StoreCalls /\ c.op = "list" /\ c.after = NoCursor /\ c.subject = NoSubject /\ c.limit = 10
    BY CallsOfVectors, Cast DEF ListAfter
  <2>3. L = {UpperA, UpperZ, Dash, Under, BootstrapRole, LowerZ}
    BY <2>2, Cast, PolicyAssumption, VectorAssumption, RolesListed DEF Ranged, NoCursor, UpperA, UpperZ,
       Dash, Under, LowerZ
  <2> HIDE DEF c, L
  <2>4. Lowest(c.limit, L) = {UpperA, UpperZ, Dash, Under, BootstrapRole, LowerZ}
    BY <2>2, <2>3, AllOnAPage, VectorAssumption DEF UpperA, UpperZ, Dash, Under, LowerZ
  <2> DEFINE P == {UpperA, UpperZ, Dash, Under, BootstrapRole, LowerZ}
  <2>5. 14 \in 1..19 /\ c \in StoreCalls /\ c.op = "list" /\ P = Lowest(c.limit, L)
    BY <2>2, <2>3, <2>4
  <2> HIDE DEF P
  <2>6. Right(Test(c, Lists(P)), PolicyAt(14), PolicyAt(14))
    BY <2>5, Pages DEF L
  <2>7. QED
    BY <2>1, <2>6 DEF P
<1>7. Right(PageOrder[7], PolicyAt(14), PolicyAt(14))
  <2> DEFINE c == ListAfter(NoCursor, 1)
             L == Ranged(c, 14)
  <2>1. PageOrder[7] = Test(c, Lists({UpperA}))
    BY PageOrderIs
  <2>2. c \in StoreCalls /\ c.op = "list" /\ c.after = NoCursor /\ c.subject = NoSubject /\ c.limit = 1
    BY CallsOfVectors, Cast DEF ListAfter
  <2>3. L = {UpperA, UpperZ, Dash, Under, BootstrapRole, LowerZ}
    BY <2>2, Cast, PolicyAssumption, VectorAssumption, RolesListed DEF Ranged, NoCursor, UpperA, UpperZ,
       Dash, Under, LowerZ
  <2> HIDE DEF c, L
  <2>4. Lowest(c.limit, L) = {UpperA}
    BY <2>2, <2>3, LowestOnAPage, VectorAssumption DEF UpperA, UpperZ, Dash, Under, LowerZ
  <2> DEFINE P == {UpperA}
  <2>5. 14 \in 1..19 /\ c \in StoreCalls /\ c.op = "list" /\ P = Lowest(c.limit, L)
    BY <2>2, <2>3, <2>4
  <2> HIDE DEF P
  <2>6. Right(Test(c, Lists(P)), PolicyAt(14), PolicyAt(14))
    BY <2>5, Pages DEF L
  <2>7. QED
    BY <2>1, <2>6 DEF P
<1>8. Right(PageOrder[8], PolicyAt(14), PolicyAt(14))
  <2> DEFINE c == ListAfter(UpperA, 1)
             L == Ranged(c, 14)
  <2>1. PageOrder[8] = Test(c, Lists({UpperZ}))
    BY PageOrderIs
  <2>2. c \in StoreCalls /\ c.op = "list" /\ c.after = UpperA /\ c.subject = NoSubject /\ c.limit = 1
    BY CallsOfVectors, Cast DEF ListAfter
  <2>3. L = {UpperZ, Dash, Under, BootstrapRole, LowerZ}
    BY <2>2, Cast, PolicyAssumption, VectorAssumption, RolesListed DEF Ranged, NoCursor, UpperA, UpperZ,
       Dash, Under, LowerZ
  <2> HIDE DEF c, L
  <2>4. Lowest(c.limit, L) = {UpperZ}
    BY <2>2, <2>3, LowestOnAPage, VectorAssumption DEF UpperZ, Dash, Under, LowerZ
  <2> DEFINE P == {UpperZ}
  <2>5. 14 \in 1..19 /\ c \in StoreCalls /\ c.op = "list" /\ P = Lowest(c.limit, L)
    BY <2>2, <2>3, <2>4
  <2> HIDE DEF P
  <2>6. Right(Test(c, Lists(P)), PolicyAt(14), PolicyAt(14))
    BY <2>5, Pages DEF L
  <2>7. QED
    BY <2>1, <2>6 DEF P
<1>9. Right(PageOrder[9], PolicyAt(14), PolicyAt(14))
  <2> DEFINE c == ListAfter(UpperZ, 1)
             L == Ranged(c, 14)
  <2>1. PageOrder[9] = Test(c, Lists({Dash}))
    BY PageOrderIs
  <2>2. c \in StoreCalls /\ c.op = "list" /\ c.after = UpperZ /\ c.subject = NoSubject /\ c.limit = 1
    BY CallsOfVectors, Cast DEF ListAfter
  <2>3. L = {Dash, Under, BootstrapRole, LowerZ}
    BY <2>2, Cast, PolicyAssumption, VectorAssumption, RolesListed DEF Ranged, NoCursor, UpperA, UpperZ,
       Dash, Under, LowerZ
  <2> HIDE DEF c, L
  <2>4. Lowest(c.limit, L) = {Dash}
    BY <2>2, <2>3, LowestOnAPage, VectorAssumption DEF Dash, Under, LowerZ
  <2> DEFINE P == {Dash}
  <2>5. 14 \in 1..19 /\ c \in StoreCalls /\ c.op = "list" /\ P = Lowest(c.limit, L)
    BY <2>2, <2>3, <2>4
  <2> HIDE DEF P
  <2>6. Right(Test(c, Lists(P)), PolicyAt(14), PolicyAt(14))
    BY <2>5, Pages DEF L
  <2>7. QED
    BY <2>1, <2>6 DEF P
<1>10. Right(PageOrder[10], PolicyAt(14), PolicyAt(14))
  <2> DEFINE c == ListAfter(Dash, 1)
             L == Ranged(c, 14)
  <2>1. PageOrder[10] = Test(c, Lists({Under}))
    BY PageOrderIs
  <2>2. c \in StoreCalls /\ c.op = "list" /\ c.after = Dash /\ c.subject = NoSubject /\ c.limit = 1
    BY CallsOfVectors, Cast DEF ListAfter
  <2>3. L = {Under, BootstrapRole, LowerZ}
    BY <2>2, Cast, PolicyAssumption, VectorAssumption, RolesListed DEF Ranged, NoCursor, UpperA, UpperZ,
       Dash, Under, LowerZ
  <2> HIDE DEF c, L
  <2>4. Lowest(c.limit, L) = {Under}
    BY <2>2, <2>3, LowestOnAPage, VectorAssumption DEF Under, LowerZ
  <2> DEFINE P == {Under}
  <2>5. 14 \in 1..19 /\ c \in StoreCalls /\ c.op = "list" /\ P = Lowest(c.limit, L)
    BY <2>2, <2>3, <2>4
  <2> HIDE DEF P
  <2>6. Right(Test(c, Lists(P)), PolicyAt(14), PolicyAt(14))
    BY <2>5, Pages DEF L
  <2>7. QED
    BY <2>1, <2>6 DEF P
<1>11. Right(PageOrder[11], PolicyAt(14), PolicyAt(14))
  <2> DEFINE c == ListAfter(Under, 1)
             L == Ranged(c, 14)
  <2>1. PageOrder[11] = Test(c, Lists({BootstrapRole}))
    BY PageOrderIs
  <2>2. c \in StoreCalls /\ c.op = "list" /\ c.after = Under /\ c.subject = NoSubject /\ c.limit = 1
    BY CallsOfVectors, Cast DEF ListAfter
  <2>3. L = {BootstrapRole, LowerZ}
    BY <2>2, Cast, PolicyAssumption, VectorAssumption, RolesListed DEF Ranged, NoCursor, UpperA, UpperZ,
       Dash, Under, LowerZ
  <2> HIDE DEF c, L
  <2>4. Lowest(c.limit, L) = {BootstrapRole}
    BY <2>2, <2>3, LowestOnAPage, VectorAssumption DEF LowerZ
  <2> DEFINE P == {BootstrapRole}
  <2>5. 14 \in 1..19 /\ c \in StoreCalls /\ c.op = "list" /\ P = Lowest(c.limit, L)
    BY <2>2, <2>3, <2>4
  <2> HIDE DEF P
  <2>6. Right(Test(c, Lists(P)), PolicyAt(14), PolicyAt(14))
    BY <2>5, Pages DEF L
  <2>7. QED
    BY <2>1, <2>6 DEF P
<1>12. Right(PageOrder[12], PolicyAt(14), PolicyAt(14))
  <2> DEFINE c == ListAfter(BootstrapRole, 1)
             L == Ranged(c, 14)
  <2>1. PageOrder[12] = Test(c, Lists({LowerZ}))
    BY PageOrderIs
  <2>2. c \in StoreCalls /\ c.op = "list" /\ c.after = BootstrapRole /\ c.subject = NoSubject /\ c.limit = 1
    BY CallsOfVectors, Cast DEF ListAfter
  <2>3. L = {LowerZ}
    BY <2>2, Cast, PolicyAssumption, VectorAssumption, RolesListed DEF Ranged, NoCursor, UpperA, UpperZ,
       Dash, Under, LowerZ
  <2> HIDE DEF c, L
  <2>4. Lowest(c.limit, L) = {LowerZ}
    BY <2>2, <2>3, LowestOnAPage, VectorAssumption DEF LowerZ
  <2> DEFINE P == {LowerZ}
  <2>5. 14 \in 1..19 /\ c \in StoreCalls /\ c.op = "list" /\ P = Lowest(c.limit, L)
    BY <2>2, <2>3, <2>4
  <2> HIDE DEF P
  <2>6. Right(Test(c, Lists(P)), PolicyAt(14), PolicyAt(14))
    BY <2>5, Pages DEF L
  <2>7. QED
    BY <2>1, <2>6 DEF P
<1>13. \A i \in 38..43 : RevisionAfter(i) = i - 29
  BY DEF RevisionAfter
<1>14. \A i \in 43..50 : RevisionAfter(i) = 14
  BY DEF RevisionAfter
<1>15. \A i \in 1..12 : i = 1 \/ i = 2 \/ i = 3 \/ i = 4 \/ i = 5 \/ i \in 6..12
  OBVIOUS
<1>16. \A i \in 6..12 : i + 37 \in 43..50 /\ i + 38 \in 43..50
  OBVIOUS
<1>17. ASSUME NEW i \in 6..12 PROVE Right(PageOrder[i], PolicyAt(14), PolicyAt(14))
  BY <1>6, <1>7, <1>8, <1>9, <1>10, <1>11, <1>12
<1>18. QED
  BY <1>1, <1>2, <1>3, <1>4, <1>5, <1>13, <1>14, <1>15, <1>16, <1>17

\* What two roles grant adds up.
LEMMA UnionVectors ==
  \A i \in 1..10 : Right(Union[i], PolicyAt(RevisionAfter(i + 49)), PolicyAt(RevisionAfter(i + 50)))
<1>1. Right(Union[1], PolicyAt(14), PolicyAt(15))
  <2>1. Union[1] = Test(SetTo("other", UpperA, {"read"}), Succeeds)
    BY DEF Union
  <2>2. /\ 14 \in 1..18 /\ 15 = 14 + 1
        /\ "other" \in Subjects /\ Administers("other", BindingsAt(14)) /\ UpperA \in RolesAt(14)
        /\ {"read"} \in SUBSET Permissions
        /\ RolesAt(15) = RolesAt(14) /\ GrantsAt(15) = Regrants(14, UpperA, {"read"})
             /\ BindingsAt(15) = BindingsAt(14)
    BY Cast, TableAdministrators, RolesListed, RolesInTable, GrantsInTable, BindingsInTable
  <2>3. Matches(Observed(Mutation(TRUE, 15)), Succeeds)
    BY Acknowledged, Zenon
  <2>4. {q \in DocumentPermissions : <<UpperA, q>> \in GrantsAt(14)} # {"read"}
    BY RowsInTable
  <2>5. QED
    BY <2>1, <2>2, <2>3, <2>4, Sets, Zenon
<1>2. Right(Union[2], PolicyAt(15), PolicyAt(16))
  <2>1. Union[2] = Test(Assign("other", "member", UpperA), Succeeds)
    BY DEF Union
  <2>2. /\ 15 \in 1..18 /\ 16 = 15 + 1
        /\ "other" \in Subjects /\ Administers("other", BindingsAt(15)) /\ "member" \in Subjects
             /\ UpperA \in RolesAt(15) \cup {BootstrapRole}
        /\ <<"member", UpperA>> \notin BindingsAt(15) /\ RolesAt(16) = RolesAt(15)
        /\ GrantsAt(16) = GrantsAt(15) /\ BindingsAt(16) = BindingsAt(15) \cup {<<"member", UpperA>>}
    BY Cast, TableAdministrators, RolesListed, RolesInTable, GrantsInTable, BindingsInTable
  <2>3. Matches(Observed(Mutation(TRUE, 16)), Succeeds)
    BY Acknowledged, Zenon
  <2>4. QED
    BY <2>1, <2>2, <2>3, Assigns, Zenon
<1>3. Right(Union[3], PolicyAt(16), PolicyAt(17))
  <2>1. Union[3] = Test(SetTo("other", UpperZ, {"write"}), Succeeds)
    BY DEF Union
  <2>2. /\ 16 \in 1..18 /\ 17 = 16 + 1
        /\ "other" \in Subjects /\ Administers("other", BindingsAt(16)) /\ UpperZ \in RolesAt(16)
        /\ {"write"} \in SUBSET Permissions
        /\ RolesAt(17) = RolesAt(16) /\ GrantsAt(17) = Regrants(16, UpperZ, {"write"})
             /\ BindingsAt(17) = BindingsAt(16)
    BY Cast, TableAdministrators, RolesListed, RolesInTable, GrantsInTable, BindingsInTable
  <2>3. Matches(Observed(Mutation(TRUE, 17)), Succeeds)
    BY Acknowledged, Zenon
  <2>4. {q \in DocumentPermissions : <<UpperZ, q>> \in GrantsAt(16)} # {"write"}
    BY RowsInTable
  <2>5. QED
    BY <2>1, <2>2, <2>3, <2>4, Sets, Zenon
<1>4. Right(Union[4], PolicyAt(17), PolicyAt(18))
  <2>1. Union[4] = Test(Assign("other", "member", UpperZ), Succeeds)
    BY DEF Union
  <2>2. /\ 17 \in 1..18 /\ 18 = 17 + 1
        /\ "other" \in Subjects /\ Administers("other", BindingsAt(17)) /\ "member" \in Subjects
             /\ UpperZ \in RolesAt(17) \cup {BootstrapRole}
        /\ <<"member", UpperZ>> \notin BindingsAt(17) /\ RolesAt(18) = RolesAt(17)
        /\ GrantsAt(18) = GrantsAt(17) /\ BindingsAt(18) = BindingsAt(17) \cup {<<"member", UpperZ>>}
    BY Cast, TableAdministrators, RolesListed, RolesInTable, GrantsInTable, BindingsInTable
  <2>3. Matches(Observed(Mutation(TRUE, 18)), Succeeds)
    BY Acknowledged, Zenon
  <2>4. QED
    BY <2>1, <2>2, <2>3, Assigns, Zenon
<1>5. Right(Union[5], PolicyAt(18), PolicyAt(18))
  <2>1. Union[5] = Test(Check("member", "read"), Says(TRUE))
    BY DEF Union
  <2>2. /\ 18 \in 1..19
        /\ "member" \in Subjects /\ "read" \in Permissions /\ TRUE \in BOOLEAN
        /\ Allowed(PolicyAt(18), "member", "read") <=> TRUE
    BY Cast, AllowedInTable
  <2>3. QED
    BY <2>1, <2>2, Checks, Zenon
<1>6. Right(Union[6], PolicyAt(18), PolicyAt(18))
  <2>1. Union[6] = Test(Check("member", "write"), Says(TRUE))
    BY DEF Union
  <2>2. /\ 18 \in 1..19
        /\ "member" \in Subjects /\ "write" \in Permissions /\ TRUE \in BOOLEAN
        /\ Allowed(PolicyAt(18), "member", "write") <=> TRUE
    BY Cast, AllowedInTable
  <2>3. QED
    BY <2>1, <2>2, Checks, Zenon
<1>7. Right(Union[7], PolicyAt(18), PolicyAt(19))
  <2>1. Union[7] = Test(Revoke("other", "member", UpperA), Succeeds)
    BY DEF Union
  <2>2. /\ 18 \in 1..18 /\ 19 = 18 + 1
        /\ "other" \in Subjects /\ Administers("other", BindingsAt(18)) /\ "member" \in Subjects
             /\ UpperA \in RolesAt(18) \cup {BootstrapRole}
        /\ <<"member", UpperA>> \in BindingsAt(18) /\ Administrators(BindingsAt(18)) # {"member"}
        /\ RolesAt(19) = RolesAt(18) /\ GrantsAt(19) = GrantsAt(18)
        /\ BindingsAt(19) = BindingsAt(18) \ {<<"member", UpperA>>}
    BY Cast, TableAdministrators, RolesListed, RolesInTable, GrantsInTable, BindingsInTable
  <2>3. Matches(Observed(Mutation(TRUE, 19)), Succeeds)
    BY Acknowledged, Zenon
  <2>4. Right(Test(Revoke("other", "member", UpperA), Succeeds), PolicyAt(18), PolicyAt(19))
    BY <2>2, <2>3, Revokes, Zenon
  <2>5. QED
    BY <2>1, <2>4, Zenon
<1>8. Right(Union[8], PolicyAt(19), PolicyAt(19))
  <2>1. Union[8] = Test(Check("member", "read"), Says(FALSE))
    BY DEF Union
  <2>2. /\ 19 \in 1..19
        /\ "member" \in Subjects /\ "read" \in Permissions /\ FALSE \in BOOLEAN
        /\ Allowed(PolicyAt(19), "member", "read") <=> FALSE
    BY Cast, AllowedInTable
  <2>3. QED
    BY <2>1, <2>2, Checks, Zenon
<1>9. Right(Union[9], PolicyAt(19), PolicyAt(19))
  <2>1. Union[9] = Test(Check("member", "write"), Says(TRUE))
    BY DEF Union
  <2>2. /\ 19 \in 1..19
        /\ "member" \in Subjects /\ "write" \in Permissions /\ TRUE \in BOOLEAN
        /\ Allowed(PolicyAt(19), "member", "write") <=> TRUE
    BY Cast, AllowedInTable
  <2>3. QED
    BY <2>1, <2>2, Checks, Zenon
<1>10. Right(Union[10], PolicyAt(19), PolicyAt(19))
  <2>1. Union[10] = Test(Bootstrap("owner"), [kind |-> "mutation", changed |-> FALSE])
    BY DEF Union
  <2>2. 19 \in 1..19
    OBVIOUS
  <2>3. Matches(Observed(Mutation(FALSE, 19)), [kind |-> "mutation", changed |-> FALSE])
    BY Acknowledged, Zenon
  <2>4. QED
    BY <2>1, <2>2, <2>3, BootstrapsAgain, Zenon
<1>11. /\ RevisionAfter(50) = 14 /\ RevisionAfter(51) = 15 /\ RevisionAfter(52) = 16
       /\ RevisionAfter(53) = 17
       /\ \A i \in 54..56 : RevisionAfter(i) = 18
       /\ \A i \in 57..60 : RevisionAfter(i) = 19
  BY DEF RevisionAfter
<1> HIDE DEF Union
<1>12. QED
  BY <1>1, <1>2, <1>3, <1>4, <1>5, <1>6, <1>7, <1>8, <1>9, <1>10, <1>11

\* Every vector passes on the policy the ones before it leave, and leaves the next.
LEMMA EachVector ==
  \A i \in 1..60 : Right(Vectors[i], PolicyAt(RevisionAfter(i - 1)), PolicyAt(RevisionAfter(i)))
<1> DEFINE OK(i) == Right(Vectors[i], PolicyAt(RevisionAfter(i - 1)), PolicyAt(RevisionAfter(i)))
<1>1. \A i \in 1..6 : OK(i)
  BY FreshVectors, VectorsInTurn
<1>2. \A i \in 7..20 : OK(i)
  <2> SUFFICES ASSUME NEW i \in 7..20 PROVE OK(i)
    OBVIOUS
  <2>1. PICK j \in 1..14 : i = 6 + j /\ i - 1 = j + 5 /\ i = j + 6
    <3>1. i - 6 \in 1..14 /\ i = 6 + (i - 6) /\ i - 1 = (i - 6) + 5 /\ i = (i - 6) + 6
      OBVIOUS
    <3>2. QED
      BY <3>1
  <2>2. Vectors[6 + j] = OrdinaryRole[j]
    BY VectorsInTurn
  <2>3. Right(OrdinaryRole[j], PolicyAt(RevisionAfter(j + 5)), PolicyAt(RevisionAfter(j + 6)))
    BY OrdinaryVectors
  <2>4. QED
    BY <2>1, <2>2, <2>3
<1>3. \A i \in 21..27 : OK(i)
  <2> SUFFICES ASSUME NEW i \in 21..27 PROVE OK(i)
    OBVIOUS
  <2>1. PICK j \in 1..7 : i = 20 + j /\ i - 1 = j + 19 /\ i = j + 20
    <3>1. i - 20 \in 1..7 /\ i = 20 + (i - 20) /\ i - 1 = (i - 20) + 19 /\ i = (i - 20) + 20
      OBVIOUS
    <3>2. QED
      BY <3>1
  <2>2. Vectors[20 + j] = Refusals[j]
    BY VectorsInTurn
  <2>3. Right(Refusals[j], PolicyAt(RevisionAfter(j + 19)), PolicyAt(RevisionAfter(j + 20)))
    BY RefusalVectors
  <2>4. QED
    BY <2>1, <2>2, <2>3
<1>4. \A i \in 28..38 : OK(i)
  <2> SUFFICES ASSUME NEW i \in 28..38 PROVE OK(i)
    OBVIOUS
  <2>1. PICK j \in 1..11 : i = 27 + j /\ i - 1 = j + 26 /\ i = j + 27
    <3>1. i - 27 \in 1..11 /\ i = 27 + (i - 27) /\ i - 1 = (i - 27) + 26 /\ i = (i - 27) + 27
      OBVIOUS
    <3>2. QED
      BY <3>1
  <2>2. Vectors[27 + j] = Handover[j]
    BY VectorsInTurn
  <2>3. Right(Handover[j], PolicyAt(RevisionAfter(j + 26)), PolicyAt(RevisionAfter(j + 27)))
    BY HandoverVectors
  <2>4. QED
    BY <2>1, <2>2, <2>3
<1>5. \A i \in 39..50 : OK(i)
  <2> SUFFICES ASSUME NEW i \in 39..50 PROVE OK(i)
    OBVIOUS
  <2>1. PICK j \in 1..12 : i = 38 + j /\ i - 1 = j + 37 /\ i = j + 38
    <3>1. i - 38 \in 1..12 /\ i = 38 + (i - 38) /\ i - 1 = (i - 38) + 37 /\ i = (i - 38) + 38
      OBVIOUS
    <3>2. QED
      BY <3>1
  <2>2. Vectors[38 + j] = PageOrder[j]
    BY VectorsInTurn
  <2>3. Right(PageOrder[j], PolicyAt(RevisionAfter(j + 37)), PolicyAt(RevisionAfter(j + 38)))
    BY PageVectors
  <2>4. QED
    BY <2>1, <2>2, <2>3
<1>6. \A i \in 51..60 : OK(i)
  <2> SUFFICES ASSUME NEW i \in 51..60 PROVE OK(i)
    OBVIOUS
  <2>1. PICK j \in 1..10 : i = 50 + j /\ i - 1 = j + 49 /\ i = j + 50
    <3>1. i - 50 \in 1..10 /\ i = 50 + (i - 50) /\ i - 1 = (i - 50) + 49 /\ i = (i - 50) + 50
      OBVIOUS
    <3>2. QED
      BY <3>1
  <2>2. Vectors[50 + j] = Union[j]
    BY VectorsInTurn
  <2>3. Right(Union[j], PolicyAt(RevisionAfter(j + 49)), PolicyAt(RevisionAfter(j + 50)))
    BY UnionVectors
  <2>4. QED
    BY <2>1, <2>2, <2>3
<1> HIDE DEF OK
<1>7. \A i \in 1..60 : OK(i)
  BY <1>1, <1>2, <1>3, <1>4, <1>5, <1>6
<1>8. QED
  BY <1>7 DEF OK

-----------------------------------------------------------------------------
(* The store, one statement at a time.                                     *)

\* A call that runs, with revisions left, is not answered with an error.
LEMMA WorkAnswers ==
  ASSUME IInv, NEW t \in Slots, Work(t), Stored(t).revision < MaxRevision, result[t] # Unavailable
  PROVE  /\ pc[t] \notin {"idle", "doubt"} /\ pc'[t] \notin {"idle", "doubt"}
         /\ result'[t] # Unavailable
<1>0. /\ \A f : Failure(f) # Unavailable
      /\ \A n : Mutation(TRUE, n) # Unavailable /\ Mutation(FALSE, n) # Unavailable
      /\ \A b, n : Decision(b, n) # Unavailable
      /\ \A row, n : DirectoryRole(row, n) # Unavailable
      /\ \A rows, n, b : DirectoryRolePage(rows, n, b) # Unavailable
  BY DEF Failure, Unavailable, Mutation, Decision, DirectoryRole, DirectoryRolePage
<1> HIDE DEF Unavailable
<1>1. pc \in [Slots -> Running \cup {"idle", "done", "doubt"}] /\ DOMAIN result = Slots
        /\ result = [u \in Slots |-> result[u]]
  BY DEF IInv, TypeOK
<1>2. CASE Read(t)
  <2>1. CASE CheckPermission(t)
    BY <1>0, <1>1, <2>1 DEF CheckPermission, Reply, GoTo, SetResult, At
  <2>2. CASE GetRole(t)
    BY <1>0, <1>1, <2>2 DEF GetRole, Reply, GoTo, SetResult, At
  <2>3. CASE ReadPageRevision(t)
    BY <1>0, <1>1, <2>3 DEF ReadPageRevision, RefuseWith, Reply, GoTo, SetResult, At
  <2>4. CASE ReadPageRows(t)
    BY <1>0, <1>1, <2>4 DEF ReadPageRows, GoTo, SetResult, At
  <2>5. QED
    BY <1>2, <2>1, <2>2, <2>3, <2>4 DEF Read
<1>3. CASE BootstrapScope(t)
  <2>1. CASE InsertScope(t) \/ ReadExistingBootstrap(t) \/ SeedBootstrap(t)
    BY <1>0, <1>1, <2>1 DEF InsertScope, ReadExistingBootstrap, SeedBootstrap, Proceed, RefuseWith,
                            Reply, GoTo, SetResult, At
  <2>2. CASE VerifyBootstrapPolicy(t)
    <3>1. pc[t] = "verify"
      BY <2>2 DEF VerifyBootstrapPolicy, At
    <3>2. BootstrapComplete(Stored(t))
      <4>1. RowsBelong(Stored(t)) /\ Administrable(Stored(t)) /\ Bootstrapped(Stored(t))
        BY <3>1, InFlight DEF DecisionStands
      <4>2. QED
        BY <4>1 DEF RowsBelong, Administrable, BootstrapComplete
    <3>3. GoTo(t, "commit") /\ SetResult(t, Mutation(FALSE, rev[t]))
      BY <2>2, <3>2 DEF VerifyBootstrapPolicy
    <3>4. pc'[t] = "commit" /\ result'[t] = Mutation(FALSE, rev[t])
      BY <1>1, <3>3, Zenon DEF GoTo, SetResult
    <3>5. QED
      BY <1>0, <3>1, <3>4
  <2>3. QED
    BY <1>3, <2>1, <2>2 DEF BootstrapScope
<1>4. CASE Administer(t)
  <2>1. CASE LockScope(t) \/ Authorize(t)
    BY <1>0, <1>1, <2>1 DEF LockScope, Authorize, Proceed, RefuseWith, Reply, GoTo, SetResult, At
  <2>2. CASE CreateRole(t) \/ ReadProtection(t)
    BY <1>0, <1>1, <2>2 DEF CreateRole, ReadProtection, AfterProtection, Proceed, RefuseWith, Reply, GoTo,
                            SetResult, At, RoleOps
  <2>3. CASE Unchanged(t) /\ pc[t] \in AdminSteps
    <3>1. pc'[t] = "commit" /\ result'[t] = Mutation(FALSE, rev[t])
      BY <1>1, <2>3, Zenon DEF Unchanged, GoTo, SetResult
    <3>2. QED
      BY <1>0, <2>3, <3>1 DEF AdminSteps
  <2>4. CASE /\ SetRolePermissions(t) \/ AssignRole(t) \/ ProbeBinding(t) \/ CountBindings(t)
             /\ ~ Unchanged(t)
    BY <1>0, <1>1, <2>4 DEF SetRolePermissions, AssignRole, ProbeBinding, CountBindings, Proceed,
                            RefuseWith, Reply, GoTo, SetResult, At
  <2>5. SetRolePermissions(t) \/ AssignRole(t) \/ ProbeBinding(t) \/ CountBindings(t)
          => pc[t] \in AdminSteps
    BY DEF SetRolePermissions, AssignRole, ProbeBinding, CountBindings, At, AdminSteps
  <2>6. QED
    BY <1>4, <2>1, <2>2, <2>3, <2>4, <2>5 DEF Administer
<1>5. CASE BumpRevision(t)
  BY <1>0, <1>1, <1>5 DEF BumpRevision, GoTo
<1>6. CASE CommitChange(t) \/ CommitUnchanged(t) \/ Acknowledge(t)
  BY <1>0, <1>1, <1>6 DEF CommitChange, CommitUnchanged, Acknowledge, Proceed, GoTo, SetResult
<1>7. QED
  BY <1>2, <1>3, <1>4, <1>5, <1>6 DEF Work

\* It is decided on the policy as it is at that instant.
LEMMA WorkDecides ==
  ASSUME AInv, NEW t \in Slots, Work(t), Stored(t).revision < MaxRevision, result[t] # Unavailable
  PROVE  \/ /\ AbstractPhase(t)' = AbstractPhase(t) /\ AbstractResult(t)' = AbstractResult(t)
            /\ db' = db /\ call' = call
         \/ /\ AbstractPhase(t) = "called" /\ AbstractPhase(t)' = "decided" /\ call' = call
            /\ Outcome(call[t], Stored(t), AbstractResult(t)', db'[Scope(t)])
<1> DEFINE c == call[t]
           p == Stored(t)
           Phase == [u \in Slots |-> AbstractPhase(u)]
           Result == [u \in Slots |-> AbstractResult(u)]
<1>1. IInv /\ Step(t)
  BY DEF AInv, Step
<1>2. Promise!Step(t) \/ UNCHANGED Promise!vars
  BY <1>1, StepPromised DEF Promised
<1>3. /\ AbstractPhase(t) \notin {"idle", "doubt"} /\ AbstractPhase(t)' \notin {"idle", "doubt"}
      /\ AbstractResult(t)' # Unavailable
  <2>1. /\ pc[t] \notin {"idle", "doubt"} /\ pc'[t] \notin {"idle", "doubt"}
        /\ result'[t] # Unavailable
    BY <1>1, WorkAnswers
  <2>2. pc'[t] = "rows" => ReadAnswer(call'[t], snap'[t]) # Unavailable
    <3> SUFFICES ASSUME pc'[t] = "rows" PROVE ReadAnswer(call'[t], snap'[t]) # Unavailable
      OBVIOUS
    <3> DEFINE d == call'[t]
               q == snap'[t]
               rows == {RoleRow(q, r) : r \in Lowest(d.limit, Listed(d, q))}
               more == Lowest(d.limit, Listed(d, q)) # Listed(d, q)
    <3>1. d.op = "list"
      BY <1>1, NextAInv DEF AInv, AnswerStands, Next
    <3>2. ReadAnswer(d, q) = DirectoryRolePage(rows, q.revision, more)
      BY <3>1 DEF ReadAnswer
    <3> HIDE DEF rows, more, d, q
    <3>3. QED
      BY <3>2 DEF d, q, DirectoryRolePage, Unavailable
  <2>3. QED
    BY <2>1, <2>2 DEF AbstractPhase, AbstractResult
<1>4. CASE UNCHANGED Promise!vars
  <2>1. Phase' = Phase /\ Result' = Result /\ call' = call /\ db' = db
    BY <1>4 DEF Promise!vars
  <2>2. AbstractPhase(t)' = AbstractPhase(t) /\ AbstractResult(t)' = AbstractResult(t)
    BY <2>1
  <2>3. QED
    BY <2>1, <2>2
<1>5. ASSUME NEW from, NEW r, Promise!Decide(t, from, r)
      PROVE  /\ AbstractPhase(t) = from /\ AbstractPhase(t)' = "decided"
             /\ AbstractResult(t)' = r /\ call' = call
  <2>1. /\ Phase[t] = from /\ Phase' = [Phase EXCEPT ![t] = "decided"]
        /\ Result' = [Result EXCEPT ![t] = r] /\ call' = call
    BY <1>5 DEF Promise!Decide
  <2>2. QED
    BY <2>1
<1>6. CASE \E d \in Calls : Promise!Start(t, d)
  <2>1. Phase[t] = "idle"
    BY <1>6 DEF Promise!Start
  <2>2. QED
    BY <1>3, <2>1
<1>7. CASE Promise!Refuse(t)
  <2>1. PICK f \in DomainFailures : Refused(c, p, f) /\ Promise!Decide(t, "called", Failure(f)) /\ db' = db
    BY <1>7, SameRefusals, SameAnswers DEF Promise!Refuse, Stored, Scope
  <2>2. /\ AbstractPhase(t) = "called" /\ AbstractPhase(t)' = "decided"
        /\ AbstractResult(t)' = Failure(f) /\ call' = call
    BY <1>5, <2>1
  <2>3. db'[Scope(t)] = p
    BY <2>1 DEF Stored
  <2>4. QED
    BY <2>1, <2>2, <2>3, Zenon DEF Outcome
<1>8. CASE Promise!Answer(t)
  <2>1. /\ c.op \in ReadOps /\ Accepted(c, p) /\ db' = db
        /\ Promise!Decide(t, "called", ReadAnswer(c, p))
    BY <1>8, SameRefusals, SameAnswers DEF Promise!Answer, Stored, Scope
  <2>2. /\ AbstractPhase(t) = "called" /\ AbstractPhase(t)' = "decided"
        /\ AbstractResult(t)' = ReadAnswer(c, p) /\ call' = call
    BY <1>5, <2>1
  <2>3. db'[Scope(t)] = p
    BY <2>1 DEF Stored
  <2>4. QED
    BY <2>1, <2>2, <2>3, Zenon DEF Outcome
<1>9. CASE Promise!Keep(t)
  <2>1. /\ c.op \notin ReadOps /\ Accepted(c, p) /\ db' = db /\ Effect(c, p) = p
        /\ Promise!Decide(t, "called", Mutation(FALSE, p.revision))
    BY <1>9, SameRefusals, SameAnswers, SameEffects DEF Promise!Keep, Stored, Scope
  <2>2. /\ AbstractPhase(t) = "called" /\ AbstractPhase(t)' = "decided"
        /\ AbstractResult(t)' = Mutation(FALSE, p.revision) /\ call' = call
    BY <1>5, <2>1
  <2>3. db'[Scope(t)] = p
    BY <2>1 DEF Stored
  <2>4. QED
    BY <2>1, <2>2, <2>3, Zenon DEF Outcome
<1>10. CASE Promise!Change(t)
  <2>1. /\ Changes(c, p) /\ db' = [db EXCEPT ![Scope(t)] = Advance(c, p)]
        /\ Promise!Decide(t, "called", Mutation(TRUE, p.revision + 1))
    BY <1>10, SameAnswers, SameEffects DEF Promise!Change, Stored, Scope
  <2>2. /\ AbstractPhase(t) = "called" /\ AbstractPhase(t)' = "decided"
        /\ AbstractResult(t)' = Mutation(TRUE, p.revision + 1) /\ call' = call
    BY <1>5, <2>1
  <2>3. db'[Scope(t)] = Advance(c, p)
    BY <1>1, <2>1, <2>2, DecidedInFlight DEF IInv, TypeOK
  <2>4. QED
    BY <2>1, <2>2, <2>3 DEF Outcome
<1>11. CASE Promise!Lose(t) \/ Promise!LateChange(t)
  <2>1. PICK from \in {"called", "decided", "doubt"} : Promise!Decide(t, from, Unavailable)
    BY <1>11, SameAnswers DEF Promise!Lose, Promise!LateChange
  <2>2. QED
    BY <1>3, <1>5, <2>1
<1>12. CASE Promise!Doubt(t) \/ Promise!Return(t)
  <2>1. Phase' = [Phase EXCEPT ![t] = "doubt"] \/ Phase' = [Phase EXCEPT ![t] = "idle"]
    BY <1>12 DEF Promise!Doubt, Promise!Return
  <2>2. QED
    BY <1>3, <2>1
<1>13. QED
  BY <1>2, <1>4, <1>6, <1>7, <1>8, <1>9, <1>10, <1>11, <1>12 DEF Promise!Step

\* Every vector is about the scope of the vectors, and may be called.
LEMMA VectorCalls ==
  \A i \in 1..60 : Vectors[i].call \in Calls /\ Vectors[i].call.scope = Fresh
<1>1. /\ \A s, q, e : Test(Check(s, q), e).call.scope = Fresh
      /\ \A r, e : Test(Get(r), e).call.scope = Fresh
      /\ \A s, n, e : Test(ListOf(s, n), e).call.scope = Fresh
      /\ \A s, n, e : Test(ListAfter(s, n), e).call.scope = Fresh
      /\ \A s, e : Test(Bootstrap(s), e).call.scope = Fresh
  BY DEF Test, Check, Get, ListOf, ListAfter, Bootstrap
<1>2. /\ \A a, r, e : Test(Create(a, r), e).call.scope = Fresh
      /\ \A a, r, e : Test(Delete(a, r), e).call.scope = Fresh
      /\ \A a, r, qs, e : Test(SetTo(a, r, qs), e).call.scope = Fresh
      /\ \A a, s, r, e : Test(Assign(a, s, r), e).call.scope = Fresh
      /\ \A a, s, r, e : Test(Revoke(a, s, r), e).call.scope = Fresh
  BY DEF Test, Create, Delete, SetTo, Assign, Revoke
<1>3. \A i \in 1..6 : FreshScope[i].call.scope = Fresh
  <2>1. \A i \in 1..6 : i = 1 \/ i = 2 \/ i = 3 \/ i = 4 \/ i = 5 \/ i = 6
    OBVIOUS
  <2>2. FreshScope[1].call.scope = Fresh
    <3>1. FreshScope[1] = Test(Check("owner", "read"), SaysAt(FALSE, 0))
      BY DEF FreshScope
    <3>2. QED
      BY <1>1, <3>1, Zenon
  <2>3. FreshScope[2].call.scope = Fresh
    <3>1. FreshScope[2] = Test(Create("owner", Viewer), Fails("ScopeNotBootstrapped"))
      BY DEF FreshScope
    <3>2. QED
      BY <1>2, <3>1, Zenon
  <2>4. FreshScope[3].call.scope = Fresh
    <3>1. FreshScope[3] = Test(ListAfter(NoCursor, 10), Fails("ScopeNotBootstrapped"))
      BY DEF FreshScope
    <3>2. QED
      BY <1>1, <3>1
  <2>5. FreshScope[4].call.scope = Fresh
    <3>1. FreshScope[4] = Test(Bootstrap("owner"), Makes(TRUE, 1))
      BY DEF FreshScope
    <3>2. QED
      BY <1>1, <3>1, Zenon
  <2>6. FreshScope[5].call.scope = Fresh
    <3>1. FreshScope[5] = Test(Bootstrap("owner"), Makes(FALSE, 1))
      BY DEF FreshScope
    <3>2. QED
      BY <1>1, <3>1, Zenon
  <2>7. FreshScope[6].call.scope = Fresh
    <3>1. FreshScope[6] = Test(Bootstrap("other"), Fails("ScopeAlreadyBootstrapped"))
      BY DEF FreshScope
    <3>2. QED
      BY <1>1, <3>1, Zenon
  <2>8. QED
    BY <2>1, <2>2, <2>3, <2>4, <2>5, <2>6, <2>7, Zenon
<1>4. \A i \in 1..14 : OrdinaryRole[i].call.scope = Fresh
  <2>1. \A i \in 1..14 : i = 1 \/ i = 2 \/ i = 3 \/ i = 4 \/ i = 5 \/ i = 6 \/ i = 7 \/ i = 8 \/ i = 9
          \/ i = 10 \/ i = 11 \/ i = 12 \/ i = 13 \/ i = 14
    OBVIOUS
  <2>2. OrdinaryRole[1].call.scope = Fresh
    <3>1. OrdinaryRole[1] = Test(Create("stranger", Viewer), Fails("Forbidden"))
      BY DEF OrdinaryRole
    <3>2. QED
      BY <1>2, <3>1, Zenon
  <2>3. OrdinaryRole[2].call.scope = Fresh
    <3>1. OrdinaryRole[2] = Test(Create("owner", Viewer), Makes(TRUE, 2))
      BY DEF OrdinaryRole
    <3>2. QED
      BY <1>2, <3>1, Zenon
  <2>4. OrdinaryRole[3].call.scope = Fresh
    <3>1. OrdinaryRole[3] = Test(Create("owner", Viewer), Fails("RoleAlreadyExists"))
      BY DEF OrdinaryRole
    <3>2. QED
      BY <1>2, <3>1, Zenon
  <2>5. OrdinaryRole[4].call.scope = Fresh
    <3>1. OrdinaryRole[4] = Test(SetTo("owner", Viewer, ReadAndExport), Makes(TRUE, 3))
      BY DEF OrdinaryRole
    <3>2. QED
      BY <1>2, <3>1, Zenon
  <2>6. OrdinaryRole[5].call.scope = Fresh
    <3>1. OrdinaryRole[5] = Test(SetTo("owner", Viewer, ReadAndExport), Makes(FALSE, 3))
      BY DEF OrdinaryRole
    <3>2. QED
      BY <1>2, <3>1, Zenon
  <2>7. OrdinaryRole[6].call.scope = Fresh
    <3>1. OrdinaryRole[6] = Test(Assign("owner", "member", Viewer), Makes(TRUE, 4))
      BY DEF OrdinaryRole
    <3>2. QED
      BY <1>2, <3>1, Zenon
  <2>8. OrdinaryRole[7].call.scope = Fresh
    <3>1. OrdinaryRole[7] = Test(Assign("owner", "member", Viewer), Makes(FALSE, 4))
      BY DEF OrdinaryRole
    <3>2. QED
      BY <1>2, <3>1, Zenon
  <2>9. OrdinaryRole[8].call.scope = Fresh
    <3>1. OrdinaryRole[8] = Test(Check("member", "read"), SaysAt(TRUE, 4))
      BY DEF OrdinaryRole
    <3>2. QED
      BY <1>1, <3>1, Zenon
  <2>10. OrdinaryRole[9].call.scope = Fresh
    <3>1. OrdinaryRole[9] = Test(Check("member", RolesManage), Says(FALSE))
      BY DEF OrdinaryRole
    <3>2. QED
      BY <1>1, <3>1, Zenon
  <2>11. OrdinaryRole[10].call.scope = Fresh
    <3>1. OrdinaryRole[10] = Test(Get(Viewer), [kind |-> "role", revision |-> 4, row |-> [role |-> Viewer,
            protected |-> FALSE, permissions |-> ReadAndExport]])
      BY DEF OrdinaryRole
    <3>2. QED
      BY <1>1, <3>1, Zenon
  <2>12. OrdinaryRole[11].call.scope = Fresh
    <3>1. OrdinaryRole[11] = Test(ListAfter(NoCursor, 1), ListsAt({BootstrapRole}, TRUE, 4))
      BY DEF OrdinaryRole
    <3>2. \A x : Test(ListAfter(NoCursor, 1), x).call.scope = Fresh
      BY <1>1
    <3>3. QED
      BY <3>1, <3>2, Zenon
  <2>13. OrdinaryRole[12].call.scope = Fresh
    <3>1. OrdinaryRole[12] = Test(ListAfter(BootstrapRole, 1), ListsAt({Viewer}, FALSE, 4))
      BY DEF OrdinaryRole
    <3>2. \A x : Test(ListAfter(BootstrapRole, 1), x).call.scope = Fresh
      BY <1>1
    <3>3. QED
      BY <3>1, <3>2, Zenon
  <2>14. OrdinaryRole[13].call.scope = Fresh
    <3>1. OrdinaryRole[13] = Test(ListOf("member", 10), Lists({Viewer}))
      BY DEF OrdinaryRole
    <3>2. QED
      BY <1>1, <3>1
  <2>15. OrdinaryRole[14].call.scope = Fresh
    <3>1. OrdinaryRole[14] = Test(Revoke("owner", "nobody", Viewer), Makes(FALSE, 4))
      BY DEF OrdinaryRole
    <3>2. QED
      BY <1>2, <3>1, Zenon
  <2>16. QED
    BY <2>1, <2>2, <2>3, <2>4, <2>5, <2>6, <2>7, <2>8, <2>9, <2>10, <2>11, <2>12, <2>13, <2>14, <2>15, Zenon
<1>5. \A i \in 1..7 : Refusals[i].call.scope = Fresh
  BY <1>1, <1>2 DEF Refusals
<1>6. \A i \in 1..11 : Handover[i].call.scope = Fresh
  <2>1. \A i \in 1..11 : i = 1 \/ i = 2 \/ i = 3 \/ i = 4 \/ i = 5 \/ i = 6 \/ i = 7 \/ i = 8 \/ i = 9
          \/ i = 10 \/ i = 11
    OBVIOUS
  <2>2. Handover[1].call.scope = Fresh
    <3>1. Handover[1] = Test(Assign("owner", "other", BootstrapRole), Reaches(5))
      BY DEF Handover
    <3>2. QED
      BY <1>2, <3>1, Zenon
  <2>3. Handover[2].call.scope = Fresh
    <3>1. Handover[2] = Test(Revoke("other", "owner", BootstrapRole), Reaches(6))
      BY DEF Handover
    <3>2. QED
      BY <1>2, <3>1, Zenon
  <2>4. Handover[3].call.scope = Fresh
    <3>1. Handover[3] = Test(Create("owner", Denied), Fails("Forbidden"))
      BY DEF Handover
    <3>2. QED
      BY <1>2, <3>1, Zenon
  <2>5. Handover[4].call.scope = Fresh
    <3>1. Handover[4] = Test(Revoke("other", "other", BootstrapRole), Fails("ProtectedBinding"))
      BY DEF Handover
    <3>2. QED
      BY <1>2, <3>1, Zenon
  <2>6. Handover[5].call.scope = Fresh
    <3>1. Handover[5] = Test(SetTo("other", Viewer, DocumentPermissions), Reaches(7))
      BY DEF Handover
    <3>2. QED
      BY <1>2, <3>1, Zenon
  <2>7. Handover[6].call.scope = Fresh
    <3>1. Handover[6] = Test(Get(Viewer), [kind |-> "role", grants |-> Cardinality(DocumentPermissions)])
      BY DEF Handover
    <3>2. QED
      BY <1>1, <3>1, Zenon
  <2>8. Handover[7].call.scope = Fresh
    <3>1. Handover[7] = Test(SetTo("other", Viewer, {}), Reaches(8))
      BY DEF Handover
    <3>2. QED
      BY <1>2, <3>1, Zenon
  <2>9. Handover[8].call.scope = Fresh
    <3>1. Handover[8] = Test(Check("member", "read"), Says(FALSE))
      BY DEF Handover
    <3>2. QED
      BY <1>1, <3>1, Zenon
  <2>10. Handover[9].call.scope = Fresh
    <3>1. Handover[9] = Test(Delete("other", Viewer), Reaches(9))
      BY DEF Handover
    <3>2. QED
      BY <1>2, <3>1, Zenon
  <2>11. Handover[10].call.scope = Fresh
    <3>1. Handover[10] = Test(ListOf("member", 10), Lists({}))
      BY DEF Handover
    <3>2. QED
      BY <1>1, <3>1
  <2>12. Handover[11].call.scope = Fresh
    <3>1. Handover[11] = Test(Check("other", BindingsManage), Says(TRUE))
      BY DEF Handover
    <3>2. QED
      BY <1>1, <3>1, Zenon
  <2>13. QED
    BY <2>1, <2>2, <2>3, <2>4, <2>5, <2>6, <2>7, <2>8, <2>9, <2>10, <2>11, <2>12, Zenon
<1>7. \A i \in 1..12 : PageOrder[i].call.scope = Fresh
  <2>1. \A i \in 1..12 : i = 1 \/ i = 2 \/ i = 3 \/ i = 4 \/ i = 5 \/ i = 6 \/ i = 7 \/ i = 8 \/ i = 9
                         \/ i = 10 \/ i = 11 \/ i = 12
    OBVIOUS
  <2>2. QED
    BY <1>1, <1>2, <2>1, PageOrderIs
<1>8. \A i \in 1..10 : Union[i].call.scope = Fresh
  <2>1. \A i \in 1..10 : i = 1 \/ i = 2 \/ i = 3 \/ i = 4 \/ i = 5 \/ i = 6 \/ i = 7 \/ i = 8 \/ i = 9
          \/ i = 10
    OBVIOUS
  <2>2. Union[1].call.scope = Fresh
    <3>1. Union[1] = Test(SetTo("other", UpperA, {"read"}), Succeeds)
      BY DEF Union
    <3>2. QED
      BY <1>2, <3>1, Zenon
  <2>3. Union[2].call.scope = Fresh
    <3>1. Union[2] = Test(Assign("other", "member", UpperA), Succeeds)
      BY DEF Union
    <3>2. QED
      BY <1>2, <3>1, Zenon
  <2>4. Union[3].call.scope = Fresh
    <3>1. Union[3] = Test(SetTo("other", UpperZ, {"write"}), Succeeds)
      BY DEF Union
    <3>2. QED
      BY <1>2, <3>1, Zenon
  <2>5. Union[4].call.scope = Fresh
    <3>1. Union[4] = Test(Assign("other", "member", UpperZ), Succeeds)
      BY DEF Union
    <3>2. QED
      BY <1>2, <3>1, Zenon
  <2>6. Union[5].call.scope = Fresh
    <3>1. Union[5] = Test(Check("member", "read"), Says(TRUE))
      BY DEF Union
    <3>2. QED
      BY <1>1, <3>1, Zenon
  <2>7. Union[6].call.scope = Fresh
    <3>1. Union[6] = Test(Check("member", "write"), Says(TRUE))
      BY DEF Union
    <3>2. QED
      BY <1>1, <3>1, Zenon
  <2>8. Union[7].call.scope = Fresh
    <3>1. Union[7] = Test(Revoke("other", "member", UpperA), Succeeds)
      BY DEF Union
    <3>2. QED
      BY <1>2, <3>1, Zenon
  <2>9. Union[8].call.scope = Fresh
    <3>1. Union[8] = Test(Check("member", "read"), Says(FALSE))
      BY DEF Union
    <3>2. QED
      BY <1>1, <3>1, Zenon
  <2>10. Union[9].call.scope = Fresh
    <3>1. Union[9] = Test(Check("member", "write"), Says(TRUE))
      BY DEF Union
    <3>2. QED
      BY <1>1, <3>1, Zenon
  <2>11. Union[10].call.scope = Fresh
    <3>1. Union[10] = Test(Bootstrap("owner"), [kind |-> "mutation", changed |-> FALSE])
      BY DEF Union
    <3>2. QED
      BY <1>1, <3>1, Zenon
  <2>12. QED
    BY <2>1, <2>2, <2>3, <2>4, <2>5, <2>6, <2>7, <2>8, <2>9, <2>10, <2>11, Zenon
<1>9. ASSUME NEW i \in 1..60
      PROVE  \/ i \in 1..6 \/ i - 6 \in 1..14 \/ i - 20 \in 1..7 \/ i - 27 \in 1..11 \/ i - 38 \in 1..12
             \/ i - 50 \in 1..10
  OBVIOUS
<1>10. ASSUME NEW i \in 1..60 PROVE Vectors[i].call.scope = Fresh
  <2>1. /\ i - 6 \in 1..14 => Vectors[i] = OrdinaryRole[i - 6]
        /\ i - 20 \in 1..7 => Vectors[i] = Refusals[i - 20]
        /\ i - 27 \in 1..11 => Vectors[i] = Handover[i - 27]
        /\ i - 38 \in 1..12 => Vectors[i] = PageOrder[i - 38]
        /\ i - 50 \in 1..10 => Vectors[i] = Union[i - 50]
        /\ i \in 1..6 => Vectors[i] = FreshScope[i]
    <3>1. 6 + (i - 6) = i /\ 20 + (i - 20) = i /\ 27 + (i - 27) = i /\ 38 + (i - 38) = i
            /\ 50 + (i - 50) = i
      OBVIOUS
    <3>2. i - 6 \in 1..14 => Vectors[i] = OrdinaryRole[i - 6]
      <4>1. i - 6 \in 1..14 => Vectors[6 + (i - 6)] = OrdinaryRole[i - 6]
        BY VectorsInTurn, Zenon
      <4>2. QED
        BY <3>1, <4>1
    <3>3. i - 20 \in 1..7 => Vectors[i] = Refusals[i - 20]
      <4>1. i - 20 \in 1..7 => Vectors[20 + (i - 20)] = Refusals[i - 20]
        BY VectorsInTurn, Zenon
      <4>2. QED
        BY <3>1, <4>1
    <3>4. i - 27 \in 1..11 => Vectors[i] = Handover[i - 27]
      <4>1. i - 27 \in 1..11 => Vectors[27 + (i - 27)] = Handover[i - 27]
        BY VectorsInTurn, Zenon
      <4>2. QED
        BY <3>1, <4>1
    <3>5. i - 38 \in 1..12 => Vectors[i] = PageOrder[i - 38]
      <4>1. i - 38 \in 1..12 => Vectors[38 + (i - 38)] = PageOrder[i - 38]
        BY VectorsInTurn, Zenon
      <4>2. QED
        BY <3>1, <4>1
    <3>6. i - 50 \in 1..10 => Vectors[i] = Union[i - 50]
      <4>1. i - 50 \in 1..10 => Vectors[50 + (i - 50)] = Union[i - 50]
        BY VectorsInTurn, Zenon
      <4>2. QED
        BY <3>1, <4>1
    <3>7. i \in 1..6 => Vectors[i] = FreshScope[i]
      BY VectorsInTurn, Zenon
    <3>8. QED
      BY <3>2, <3>3, <3>4, <3>5, <3>6, <3>7, Zenon
  <2>2. QED
    BY <1>3, <1>4, <1>5, <1>6, <1>7, <1>8, <1>9, <2>1
<1>11. ASSUME NEW i \in 1..60 PROVE Vectors[i].call \in Calls
  <2>1. DOMAIN Vectors = 1..60
    BY VectorsInTurn, LenProperties
  <2>2. Vectors[i].call \in {Vectors[j].call : j \in DOMAIN Vectors}
    BY <2>1
  <2>3. QED
    BY <2>2, TesterAssumption
<1>12. QED
  BY <1>10, <1>11

\* The vectors do not run out of revisions.
LEMMA RevisionsSuffice ==
  ASSUME NEW i \in 0..60
  PROVE  PolicyAt(RevisionAfter(i)).revision < MaxRevision
<1>1. RevisionAfter(i) \in 0..19
  BY DEF RevisionAfter
<1>2. \A n \in 0..19 : PolicyAt(n).revision = n
  BY DEF PolicyAt, Kept, NoPolicy
<1>3. MaxRevision \in Nat /\ MaxRevision >= 20
  BY PolicyAssumption, VectorAssumption
<1>4. QED
  BY <1>1, <1>2, <1>3

-----------------------------------------------------------------------------
\* Nobody but the tester has a call in the scope of the vectors.
Apart == \A t \in Slots \ {Tester} : pc[t] # "idle" => Scope(t) # Fresh

\* The scope of the vectors holds what the vectors that are decided leave, and an answer
\* that is decided is the one expected.
VectorsStand ==
  /\ made \in 0..60 /\ result[Tester] # Unavailable
  /\ AbstractPhase(Tester) \in {"idle", "called", "decided"}
  /\ AbstractPhase(Tester) # "idle" => made \in 1..60 /\ call[Tester] = Vectors[made].call
  /\ AbstractPhase(Tester) = "idle" => db[Fresh] = PolicyAt(RevisionAfter(made))
  /\ AbstractPhase(Tester) = "called" => db[Fresh] = PolicyAt(RevisionAfter(made - 1))
  /\ AbstractPhase(Tester) = "decided" =>
       /\ db[Fresh] = PolicyAt(RevisionAfter(made))
       /\ Matches(Observed(AbstractResult(Tester)), Vectors[made].expected)

\* The inductive invariant: that of the store, nobody else in the scope of the vectors,
\* and the table.
VInv == AInv /\ Apart /\ VectorsStand

\* It holds when nothing has been called.
LEMMA InitVInv == TestInit => VInv
<1> SUFFICES ASSUME TestInit PROVE VInv
  OBVIOUS
<1>1. Init /\ made = 0 /\ Tester \in Slots /\ Fresh \in Scopes
  BY TesterAssumption, VectorAssumption DEF TestInit
<1>2. AInv
  BY <1>1, InitIInv DEF AInv, Init, AnswerStands
<1>3. PolicyAt(RevisionAfter(0)) = NoPolicy
  BY DEF PolicyAt, RevisionAfter
<1>4. Apart
  BY <1>1 DEF Apart, Init
<1>5. VectorsStand
  <2>1. AbstractPhase(Tester) = "idle"
    BY <1>1, Phases DEF Init
  <2>2. result[Tester] # Unavailable
    BY <1>1 DEF Init, NoResult, Unavailable
  <2>3. QED
    BY <1>1, <1>3, <2>1, <2>2 DEF VectorsStand, Init
<1>6. QED
  BY <1>2, <1>4, <1>5 DEF VInv

\* A step of the tester is one of its own call.
LEMMA OthersStayApart ==
  ASSUME IInv, Apart, Step(Tester)
  PROVE  Apart'
BY OthersUntouched, TesterAssumption DEF Apart, Scope

\* The next vector is called on the policy the ones before have left.
LEMMA NextCallKeepsVInv ==
  ASSUME VInv, NextCall
  PROVE  VInv'
<1>1. /\ made < 60 /\ made' = made + 1 /\ made' \in 1..60 /\ made' - 1 = made
      /\ Begin(Tester, Vectors[made'].call)
  <2>1. Len(Vectors) = 60
    BY VectorsInTurn
  <2>2. made \in 0..60
    BY DEF VInv, VectorsStand
  <2>3. QED
    BY <2>1, <2>2 DEF NextCall
<1>2. Tester \in Slots /\ Vectors[made'].call \in Calls
  BY <1>1, VectorCalls, TesterAssumption
<1>3. IInv /\ Step(Tester)
  BY <1>1, <1>2 DEF VInv, AInv, Step
<1>4. AInv'
  BY <1>2, <1>3, NextAInv DEF VInv, Next
<1>5. Apart'
  BY <1>3, OthersStayApart DEF VInv
<1>6. VectorsStand'
  <2>1. /\ pc[Tester] = "idle" /\ pc'[Tester] = "start" /\ call'[Tester] = Vectors[made'].call
        /\ db' = db /\ result' = result
    BY <1>1, <1>2, <1>3 DEF Begin, GoTo, IInv, TypeOK
  <2>2. AbstractPhase(Tester) = "idle" /\ AbstractPhase(Tester)' = "called"
    BY <1>2, <2>1, Phases, PhasesNext DEF Undecided
  <2>3. db'[Fresh] = PolicyAt(RevisionAfter(made))
    BY <2>1, <2>2 DEF VInv, VectorsStand
  <2>4. QED
    BY <1>1, <2>1, <2>2, <2>3 DEF VInv, VectorsStand
<1>7. QED
  BY <1>4, <1>5, <1>6 DEF VInv

\* It is decided on that policy, so that EachVector applies.
LEMMA WorkKeepsVInv ==
  ASSUME VInv, Work(Tester), UNCHANGED made
  PROVE  VInv'
<1>1. Tester \in Slots /\ Fresh \in Scopes
  BY TesterAssumption, VectorAssumption
<1>2. AInv /\ IInv /\ Step(Tester) /\ result[Tester] # Unavailable
  BY DEF VInv, AInv, VectorsStand, Step
<1>3. AInv'
  BY <1>1, <1>2, NextAInv DEF Next
<1>4. Apart'
  BY <1>2, OthersStayApart DEF VInv
<1>5. AbstractPhase(Tester) \in {"called", "decided"} /\ made \in 1..60 /\ call[Tester] = Vectors[made].call
  <2>1. pc[Tester] # "idle"
    BY DEF Work, Read, CheckPermission, GetRole, ReadPageRevision, ReadPageRows, BootstrapScope, InsertScope,
           ReadExistingBootstrap, VerifyBootstrapPolicy, SeedBootstrap, Administer, LockScope, Authorize,
           CreateRole, ReadProtection, SetRolePermissions, AssignRole, ProbeBinding, CountBindings,
           BumpRevision, CommitChange, CommitUnchanged, Acknowledge, At
  <2>2. AbstractPhase(Tester) # "idle"
    BY <2>1 DEF AbstractPhase
  <2>3. QED
    BY <2>2 DEF VInv, VectorsStand
<1>6. Scope(Tester) = Fresh /\ Stored(Tester) = db[Fresh]
  BY <1>5, VectorCalls DEF Scope, Stored
<1>7. Stored(Tester).revision < MaxRevision
  <2>1. made \in 0..60 /\ made - 1 \in 0..60
    BY <1>5
  <2>2. db[Fresh] = PolicyAt(RevisionAfter(made)) \/ db[Fresh] = PolicyAt(RevisionAfter(made - 1))
    BY <1>5 DEF VInv, VectorsStand
  <2>3. QED
    BY <1>6, <2>1, <2>2, RevisionsSuffice
<1>8. result'[Tester] # Unavailable
  BY <1>1, <1>2, <1>7, WorkAnswers
<1>9. VectorsStand'
  <2>1. CASE /\ AbstractPhase(Tester)' = AbstractPhase(Tester)
             /\ AbstractResult(Tester)' = AbstractResult(Tester)
             /\ db' = db /\ call' = call
    BY <1>8, <2>1 DEF VInv, VectorsStand
  <2>2. CASE /\ AbstractPhase(Tester) = "called" /\ AbstractPhase(Tester)' = "decided" /\ call' = call
             /\ Outcome(call[Tester], Stored(Tester), AbstractResult(Tester)', db'[Scope(Tester)])
    <3>1. Stored(Tester) = PolicyAt(RevisionAfter(made - 1))
      BY <1>6, <2>2 DEF VInv, VectorsStand
    <3>2. Right(Vectors[made], PolicyAt(RevisionAfter(made - 1)), PolicyAt(RevisionAfter(made)))
      BY <1>5, EachVector
    <3>3. /\ db'[Fresh] = PolicyAt(RevisionAfter(made))
          /\ Matches(Observed(AbstractResult(Tester)'), Vectors[made].expected)
      BY <1>5, <1>6, <2>2, <3>1, <3>2, Zenon DEF Right
    <3>4. QED
      BY <1>5, <1>8, <2>2, <3>3 DEF VectorsStand
  <2>3. QED
    BY <1>1, <1>2, <1>7, <2>1, <2>2, WorkDecides
<1>10. QED
  BY <1>3, <1>4, <1>9 DEF VInv

\* Its slot is free again.
LEMMA ReleaseKeepsVInv ==
  ASSUME VInv, Release(Tester), UNCHANGED made
  PROVE  VInv'
<1>1. Tester \in Slots /\ AInv /\ IInv /\ Step(Tester)
  BY TesterAssumption DEF VInv, AInv, Step
<1>2. AInv'
  BY <1>1, NextAInv DEF Next
<1>3. Apart'
  BY <1>1, OthersStayApart DEF VInv
<1>4. /\ pc[Tester] \in {"done", "doubt"} /\ pc'[Tester] = "idle" /\ result'[Tester] = NoResult
      /\ db' = db
  BY <1>1 DEF Release, GoTo, SetResult, IInv, TypeOK
<1>5. AbstractPhase(Tester) = "decided" /\ AbstractPhase(Tester)' = "idle"
  BY <1>1, <1>4, Phases, PhasesNext DEF VInv, VectorsStand
<1>6. VectorsStand'
  <2>1. NoResult # Unavailable
    BY DEF NoResult, Unavailable
  <2>2. QED
    BY <1>4, <1>5, <2>1 DEF VInv, VectorsStand
<1>7. QED
  BY <1>2, <1>3, <1>6 DEF VInv

\* Whatever others do in their scopes, the vectors do not see it.
LEMMA OthersKeepVInv ==
  ASSUME VInv, NEW t \in Slots \ {Tester}, Others(t)
  PROVE  VInv'
<1>0. Tester \in Slots /\ \A c \in Elsewhere : c \in Calls /\ c.scope # Fresh
  BY TesterAssumption
<1>1. Tester \in Slots /\ AInv /\ IInv /\ Step(t) /\ made' = made
  BY <1>0 DEF VInv, AInv, Step, Others
<1>2. AInv'
  BY <1>1, NextAInv DEF Next
<1>3. \A u \in Slots \ {t} : pc'[u] = pc[u] /\ call'[u] = call[u] /\ result'[u] = result[u]
  BY <1>1, OthersUntouched
<1>4. Apart'
  <2>1. ASSUME pc'[t] # "idle" PROVE call'[t].scope # Fresh
    <3>1. CASE \E c \in Elsewhere : Begin(t, c)
      BY <1>0, <1>1, <3>1 DEF Begin, IInv, TypeOK
    <3>2. CASE Work(t) \/ Fail(t) \/ CommitLate(t)
      <4>1. call' = call
        BY <3>2 DEF Work, Read, BootstrapScope, Administer, BumpRevision, CommitChange, CommitUnchanged,
                    Acknowledge, Fail, CommitLate
      <4>2. pc[t] # "idle"
        BY <3>2 DEF Work, Read, CheckPermission, GetRole, ReadPageRevision, ReadPageRows, BootstrapScope,
             InsertScope, ReadExistingBootstrap, VerifyBootstrapPolicy, SeedBootstrap, Administer,
             LockScope, Authorize, CreateRole, ReadProtection, SetRolePermissions, AssignRole, ProbeBinding,
             CountBindings, BumpRevision, CommitChange, CommitUnchanged, Acknowledge, At, Fail, CommitLate,
             Running, AdminSteps, BootstrapSteps
      <4>3. QED
        BY <4>1, <4>2 DEF VInv, Apart, Scope
    <3>3. CASE Release(t)
      BY <1>1, <2>1, <3>3 DEF Release, GoTo, IInv, TypeOK
    <3>4. QED
      BY <3>1, <3>2, <3>3 DEF Others
  <2>2. QED
    BY <1>3, <2>1 DEF VInv, Apart, Scope
<1>5. db'[Fresh] = db[Fresh]
  <2> SUFFICES ASSUME db' # db PROVE db'[Fresh] = db[Fresh]
    OBVIOUS
  <2>1. pc[t] # "idle" /\ Scope(t) # Fresh
    <3>1. pc[t] \in {"publish", "doubt"}
      BY <1>1, OnlyCommitsWrite
    <3>2. QED
      BY <3>1 DEF VInv, Apart
  <2>2. db' = [db EXCEPT ![Scope(t)] = Advance(call[t], Stored(t))]
    BY <1>1, StepWrites
  <2>3. Fresh \in Scopes /\ DOMAIN db = Scopes
    BY <1>1, VectorAssumption DEF IInv, TypeOK
  <2>4. QED
    BY <2>1, <2>2, <2>3
<1>6. VectorsStand'
  <2>1. /\ AbstractPhase(Tester)' = AbstractPhase(Tester)
        /\ AbstractResult(Tester)' = AbstractResult(Tester)
    BY <1>1, OthersSeen
  <2>2. call'[Tester] = call[Tester] /\ result'[Tester] = result[Tester]
    BY <1>1, <1>3
  <2>3. QED
    BY <1>1, <1>5, <2>1, <2>2 DEF VInv, VectorsStand
<1>7. QED
  BY <1>2, <1>4, <1>6 DEF VInv

\* Every step keeps it.
LEMMA NextVInv == VInv /\ [TestNext]_testVars => VInv'
<1> SUFFICES ASSUME VInv, [TestNext]_testVars PROVE VInv'
  OBVIOUS
<1>1. CASE UNCHANGED testVars
  <2>1. UNCHANGED vars /\ made' = made
    BY <1>1 DEF testVars
  <2>2. AInv'
    BY <2>1, NextAInv DEF VInv
  <2>3. QED
    BY <2>1, <2>2 DEF VInv, Apart, VectorsStand, AbstractPhase, AbstractResult, Scope, vars
<1>2. QED
  BY <1>1, NextCallKeepsVInv, WorkKeepsVInv, ReleaseKeepsVInv, OthersKeepVInv DEF TestNext, Testing

\* The conformance suite of the Store trait (core/src/conformance.rs) passes on the
\* PostgreSQL store, every assertion of it, in a scope of its own on a busy database: whatever
\* calls others make in other scopes, and whichever of them fail, are cancelled or commit late.
THEOREM PostgresConforms == TestSpec => []ExpectationsMet
<1>1. VInv => ExpectationsMet
  <2> SUFFICES ASSUME VInv, pc[Tester] = "done"
               PROVE  Matches(Observed(result[Tester]), Vectors[made].expected)
    BY DEF ExpectationsMet
  <2>1. AbstractPhase(Tester) = "decided" /\ AbstractResult(Tester) = result[Tester]
    BY Phases, TesterAssumption
  <2>2. QED
    BY <2>1 DEF VInv, VectorsStand
<1>2. QED
  BY <1>1, InitVInv, NextVInv, PTL DEF TestSpec
=============================================================================
