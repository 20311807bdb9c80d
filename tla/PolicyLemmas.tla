---------------------------- MODULE PolicyLemmas ----------------------------
(***************************************************************************)
(* Lemmas about the operators of Policy: the types of what calls leave and *)
(* answer, and what an accepted mutation preserves.                        *)
(***************************************************************************)
EXTENDS Policy, FiniteSetTheorems, TLAPS

\* The fields a call has, by its operation.
LEMMA CallShape ==
  ASSUME NEW c \in StoreCalls
  PROVE  /\ c.scope \in Scopes
         /\ c.op \in ReadOps \cup {"bootstrap"} \cup AdminOps
         /\ c.op = "check" => c.subject \in Subjects /\ c.permission \in Permissions
         /\ c.op = "get" => c.role \in RoleIds
         /\ c.op = "list" => c.subject \in Subjects \cup {NoSubject}
                             /\ c.after \in RoleIds \cup {NoCursor} /\ c.limit \in PageLimits
         /\ c.op = "bootstrap" => c.subject \in Subjects
         /\ c.op \in AdminOps => c.actor \in Subjects /\ c.role \in RoleIds
         /\ c.op = "create" => c.role # BootstrapRole
         /\ c.op = "set" => c.permissions \subseteq Permissions
         /\ c.op \in {"assign", "revoke"} => c.subject \in Subjects
<1>1. CASE c \in CheckCalls
  BY <1>1 DEF CheckCalls, ReadOps, AdminOps, RoleOps
<1>2. CASE c \in GetCalls
  BY <1>2 DEF GetCalls, ReadOps, AdminOps, RoleOps
<1>3. CASE c \in ListCalls
  BY <1>3 DEF ListCalls, ReadOps, AdminOps, RoleOps
<1>4. CASE c \in BootstrapCalls
  BY <1>4 DEF BootstrapCalls, ReadOps, AdminOps, RoleOps
<1>5. CASE c \in CreateCalls
  BY <1>5 DEF CreateCalls, ReadOps, AdminOps, RoleOps
<1>6. CASE c \in SetCalls
  BY <1>6 DEF SetCalls, ReadOps, AdminOps, RoleOps
<1>7. CASE c \in DeleteCalls
  BY <1>7 DEF DeleteCalls, ReadOps, AdminOps, RoleOps
<1>8. CASE c \in BindingCalls
  BY <1>8 DEF BindingCalls, ReadOps, AdminOps, RoleOps
<1>9. QED
  BY <1>1, <1>2, <1>3, <1>4, <1>5, <1>6, <1>7, <1>8 DEF StoreCalls

\* The operations that change policies.
LEMMA MutationOps ==
  ASSUME NEW c \in StoreCalls, c.op \notin ReadOps
  PROVE  c.op \in {"bootstrap", "create", "set", "delete", "assign", "revoke"}
BY CallShape DEF AdminOps, RoleOps

\* The empty policy and a seeded one are policies.
LEMMA InitialPolicies ==
  /\ NoPolicy \in Policies /\ ~ Bootstrapped(NoPolicy)
  /\ \A s \in Subjects : SeedPolicy(s) \in Policies
BY PolicyAssumption DEF NoPolicy, Policies, SeedPolicy, Bootstrapped

\* A mutation leaves a policy.
LEMMA EffectType ==
  ASSUME NEW c \in StoreCalls, c.op \notin ReadOps, NEW p \in Policies
  PROVE  Effect(c, p) \in Policies
<1>1. CASE c.op = "bootstrap"
  BY <1>1, CallShape, InitialPolicies DEF Effect
<1>2. CASE c.op = "create"
  BY <1>2, CallShape DEF Effect, Policies, AdminOps
<1>3. CASE c.op = "set"
  BY <1>3, CallShape DEF Effect, Policies, AdminOps, RoleOps, WithGrants
<1>4. CASE c.op = "delete"
  BY <1>4, CallShape DEF Effect, Policies, AdminOps, RoleOps, WithoutRole
<1>5. CASE c.op = "assign"
  BY <1>5, CallShape DEF Effect, Policies, AdminOps, RoleOps
<1>6. CASE c.op = "revoke"
  BY <1>6, CallShape DEF Effect, Policies, AdminOps, RoleOps
<1>7. QED
  BY <1>1, <1>2, <1>3, <1>4, <1>5, <1>6, MutationOps

\* An effect does not touch the revision, and keeps the owner of a bootstrapped scope.
LEMMA EffectKeeps ==
  ASSUME NEW c \in StoreCalls, c.op \notin ReadOps, NEW p \in Policies,
         ~ Bootstrapped(p) => p = NoPolicy
  PROVE  /\ Effect(c, p).revision = p.revision
         /\ Bootstrapped(p) => Effect(c, p).owner = p.owner
<1>1. CASE c.op = "bootstrap"
  BY <1>1 DEF Effect, SeedPolicy, NoPolicy
<1>2. CASE c.op \in {"create", "assign", "revoke"}
  BY <1>2 DEF Effect, Policies
<1>3. CASE c.op \in {"set", "delete"}
  BY <1>3 DEF Effect, Policies, WithGrants, WithoutRole
<1>4. QED
  BY <1>1, <1>2, <1>3, MutationOps

\* So does the policy an accepted change advances to.
LEMMA AdvanceType ==
  ASSUME NEW c \in StoreCalls, NEW p \in Policies, Changes(c, p)
  PROVE  Advance(c, p) \in Policies /\ Advance(c, p).revision = p.revision + 1
<1>1. Effect(c, p) \in Policies
  BY EffectType DEF Changes
<1>2. p.revision + 1 \in 0..MaxRevision
  BY PolicyAssumption DEF Changes, Policies
<1>3. QED
  BY <1>1, <1>2 DEF Advance, Policies

\* The rows of a role and the answer of a read are well formed.
LEMMA ReadAnswerType ==
  ASSUME NEW c \in StoreCalls, c.op \in ReadOps, NEW p \in Policies
  PROVE  ReadAnswer(c, p) \in Versioned /\ ReadAnswer(c, p).revision = p.revision
<1>1. \A r \in RoleIds : RoleRow(p, r) \in RoleRows
  BY DEF RoleRow, RoleRows, Grants
<1>2. p.revision \in 0..MaxRevision /\ p.roles \subseteq RoleIds
  BY DEF Policies
<1>3. CASE c.op = "check"
  BY <1>2, <1>3 DEF ReadAnswer, Decision, Versioned, Allowed
<1>4. CASE c.op = "get"
  <2>1. RoleRow(p, c.role) \in RoleRows
    BY <1>1, <1>4, CallShape
  <2>2. ReadAnswer(c, p) = DirectoryRole(RoleRow(p, c.role), p.revision)
    BY <1>4 DEF ReadAnswer
  <2>3. QED
    BY <1>2, <2>1, <2>2 DEF DirectoryRole, Versioned
<1>5. CASE c.op = "list"
  <2> DEFINE page == Lowest(c.limit, Listed(c, p))
             rows == {RoleRow(p, r) : r \in page}
  <2>1. page \subseteq RoleIds
    BY <1>2 DEF Lowest, Listed
  <2>2. rows \in SUBSET RoleRows
    BY <1>1, <2>1
  <2>3. ReadAnswer(c, p) = DirectoryRolePage(rows, p.revision, page # Listed(c, p))
    BY <1>5 DEF ReadAnswer
  <2> HIDE DEF page, rows
  <2>4. QED
    BY <1>2, <2>2, <2>3 DEF DirectoryRolePage, Versioned
<1>6. QED
  BY <1>3, <1>4, <1>5 DEF ReadOps

\* The answers that are no read or acknowledged change carry no revision.
LEMMA ResultTypes ==
  /\ \A f \in DomainFailures : Failure(f) \in Results /\ Failure(f) \notin Versioned
  /\ Unavailable \in Results /\ Unavailable \notin Versioned
  /\ NoResult \in Results
  /\ Versioned \subseteq Results
  /\ \A b \in BOOLEAN, n \in 0..MaxRevision :
       Mutation(b, n) \in Versioned /\ Mutation(b, n).revision = n
<1>1. \A f \in DomainFailures : Failure(f) \in Results /\ Failure(f) \notin Versioned
  BY DEF Failure, Results, Versioned
<1>2. Unavailable \in Results /\ Unavailable \notin Versioned
  BY DEF Unavailable, Results, Versioned
<1>3. NoResult \in Results /\ Versioned \subseteq Results
  BY DEF Results
<1>4. \A b \in BOOLEAN, n \in 0..MaxRevision :
        Mutation(b, n) \in Versioned /\ Mutation(b, n).revision = n
  BY DEF Mutation, Versioned
<1>5. QED
  BY <1>1, <1>2, <1>3, <1>4

-----------------------------------------------------------------------------
(* An authorized call that has found something to change would be accepted. *)

LEMMA Eligible ==
  ASSUME NEW c \in StoreCalls, NEW p \in Policies, c.op \in AdminOps,
         Bootstrapped(p), Allowed(p, c.actor, Needed(c)),
         c.op = "create" => c.role \notin p.roles,
         c.op \in RoleOps => c.role \in p.roles,
         c.op \in {"set", "delete"} => c.role \notin p.protected,
         c.op = "set" => Grants(p, c.role) # c.permissions,
         c.op = "assign" => c.subject \notin Binders(p, c.role),
         c.op = "revoke" => c.subject \in Binders(p, c.role),
         c.op = "revoke" /\ c.role \in p.protected => Binders(p, c.role) # {c.subject}
  PROVE  c.op \notin ReadOps /\ Accepted(c, p) /\ Effect(c, p) # p
<1>1. c.op \notin ReadOps \cup {"bootstrap"}
  BY DEF AdminOps, RoleOps, ReadOps
<1>2. Authorized(c, p)
  BY DEF Authorized
<1>3. Accepted(c, p)
  BY <1>1, <1>2 DEF Accepted, Refused, ReadOps, AdminOps, RoleOps
<1>4. Effect(c, p) # p
  <2>1. CASE c.op = "create"
    <3>1. Effect(c, p).roles = p.roles \cup {c.role}
      BY <2>1 DEF Effect, Policies
    <3>2. QED
      BY <2>1, <3>1
  <2>2. CASE c.op = "set"
    <3>1. Effect(c, p).grants = {g \in p.grants : g[1] # c.role} \cup ({c.role} \X c.permissions)
      BY <2>2 DEF Effect, WithGrants, Policies
    <3>2. Grants(Effect(c, p), c.role) = c.permissions
      <4>1. c.permissions \subseteq Permissions
        BY <2>2, CallShape
      <4>2. QED
        BY <3>1, <4>1 DEF Grants
    <3>3. QED
      BY <2>2, <3>2
  <2>3. CASE c.op = "delete"
    <3>1. Effect(c, p).roles = p.roles \ {c.role}
      BY <2>3 DEF Effect, WithoutRole, Policies
    <3>2. c.role \in p.roles
      BY <2>3 DEF RoleOps
    <3>3. QED
      BY <3>1, <3>2
  <2>4. CASE c.op = "assign"
    <3>1. Effect(c, p).bindings = p.bindings \cup {<<c.subject, c.role>>}
      BY <2>4 DEF Effect, Policies
    <3>2. c.subject \in Subjects /\ <<c.subject, c.role>> \notin p.bindings
      BY <2>4, CallShape DEF Binders
    <3>3. QED
      BY <3>1, <3>2
  <2>5. CASE c.op = "revoke"
    <3>1. Effect(c, p).bindings = p.bindings \ {<<c.subject, c.role>>}
      BY <2>5 DEF Effect, Policies
    <3>2. <<c.subject, c.role>> \in p.bindings
      BY <2>5 DEF Binders
    <3>3. QED
      BY <3>1, <3>2
  <2>6. QED
    BY <2>1, <2>2, <2>3, <2>4, <2>5 DEF AdminOps, RoleOps
<1>5. QED
  BY <1>1, <1>3, <1>4

\* A bootstrap of a scope without a row would be accepted.
LEMMA EligibleBootstrap ==
  ASSUME NEW c \in StoreCalls, NEW p \in Policies, c.op = "bootstrap", ~ Bootstrapped(p)
  PROVE  c.op \notin ReadOps /\ Accepted(c, p) /\ Effect(c, p) # p
<1>1. c.op \notin ReadOps /\ c.op \notin AdminOps
  BY DEF ReadOps, AdminOps, RoleOps
<1>2. Accepted(c, p)
  BY <1>1 DEF Accepted, Refused, ReadOps, RoleOps, AdminOps, Bootstrapped
<1>3. Effect(c, p).owner = c.subject /\ c.subject # NoSubject
  BY CallShape, PolicyAssumption DEF Effect, SeedPolicy
<1>4. QED
  BY <1>1, <1>2, <1>3 DEF Bootstrapped

\* More than one subject is bound, so the subject is not the only one.
LEMMA SeveralBinders ==
  ASSUME NEW p \in Policies, NEW r, NEW s, Cardinality(Binders(p, r)) > 1
  PROVE  Binders(p, r) # {s}
BY FS_Singleton

\* A call that finds nothing to change has no effect.
LEMMA Needless ==
  ASSUME NEW c \in StoreCalls, NEW p \in Policies,
         \/ c.op = "bootstrap" /\ Bootstrapped(p)
         \/ c.op = "set" /\ Grants(p, c.role) = c.permissions
         \/ c.op = "assign" /\ c.subject \in Binders(p, c.role)
         \/ c.op = "revoke" /\ c.subject \notin Binders(p, c.role)
  PROVE  Effect(c, p) = p
<1>1. CASE c.op = "bootstrap"
  BY <1>1 DEF Effect
<1>2. CASE c.op = "set" /\ Grants(p, c.role) = c.permissions
  <2>1. {g \in p.grants : g[1] # c.role} \cup ({c.role} \X c.permissions) = p.grants
    <3>1. p.grants \subseteq RoleIds \X Permissions /\ c.permissions \subseteq Permissions
      BY <1>2, CallShape DEF Policies
    <3>2. \A x \in Permissions : x \in c.permissions <=> <<c.role, x>> \in p.grants
      BY <1>2 DEF Grants
    <3>3. QED
      BY <3>1, <3>2
  <2>2. QED
    BY <1>2, <2>1 DEF Effect, WithGrants, Policies
<1>3. CASE c.op = "assign" /\ c.subject \in Binders(p, c.role)
  <2>1. p.bindings \cup {<<c.subject, c.role>>} = p.bindings
    BY <1>3 DEF Binders
  <2>2. QED
    BY <1>3, <2>1 DEF Effect, Policies
<1>4. CASE c.op = "revoke" /\ c.subject \notin Binders(p, c.role)
  <2>1. p.bindings \ {<<c.subject, c.role>>} = p.bindings
    BY <1>4, CallShape DEF Binders
  <2>2. QED
    BY <1>4, <2>1 DEF Effect, Policies
<1>5. QED
  BY <1>1, <1>2, <1>3, <1>4

-----------------------------------------------------------------------------
(* Pages of roles.                                                         *)

\* A finite set of numbers has a smallest and a largest element.
LEMMA Extremes ==
  ASSUME NEW S \in SUBSET Nat, IsFiniteSet(S), S # {}
  PROVE  /\ \E m \in S : \A q \in S : m <= q
         /\ \E m \in S : \A q \in S : q <= m
<1> DEFINE below(r) == {q \in S : q < r}
           above(r) == {q \in S : q > r}
           lows  == {below(r) : r \in S}
           highs == {above(r) : r \in S}
<1>0. \A r \in S : r \in Nat
  OBVIOUS
<1>1. IsWellFoundedOn(StrictSubsetOrdering(S), FiniteSubsetsOf(S))
  BY FS_StrictSubsetOrderingWellFounded
<1>2. lows \subseteq FiniteSubsetsOf(S) /\ highs \subseteq FiniteSubsetsOf(S)
  BY FS_Subset DEF FiniteSubsetsOf
<1>3. lows # {} /\ highs # {}
  OBVIOUS
<1>4. \E m \in S : \A q \in S : m <= q
  <2>1. PICK x \in lows : \A y \in lows : ~ (<<y, x>> \in StrictSubsetOrdering(S))
    BY <1>1, <1>2, <1>3, WFMin
  <2>2. PICK m \in S : x = below(m)
    OBVIOUS
  <2>3. \A q \in S : ~ (q < m)
    <3> SUFFICES ASSUME NEW q \in S, q < m PROVE FALSE
      OBVIOUS
    <3>1. ~ (q < q) /\ \A y \in S : y < q => y < m
      BY <1>0
    <3>2. below(q) \subseteq below(m)
      BY <3>1
    <3>3. q \in below(m) /\ q \notin below(q)
      BY <3>1
    <3>4. <<below(q), below(m)>> \in StrictSubsetOrdering(S)
      BY <3>2, <3>3 DEF StrictSubsetOrdering
    <3>5. QED
      BY <2>1, <2>2, <3>4
  <2>4. \A q \in S : m <= q
    BY <1>0, <2>3
  <2>5. QED
    BY <2>4
<1>5. \E m \in S : \A q \in S : q <= m
  <2>1. PICK x \in highs : \A y \in highs : ~ (<<y, x>> \in StrictSubsetOrdering(S))
    BY <1>1, <1>2, <1>3, WFMin
  <2>2. PICK m \in S : x = above(m)
    OBVIOUS
  <2>3. \A q \in S : ~ (q > m)
    <3> SUFFICES ASSUME NEW q \in S, q > m PROVE FALSE
      OBVIOUS
    <3>1. ~ (q > q) /\ \A y \in S : y > q => y > m
      BY <1>0
    <3>2. above(q) \subseteq above(m)
      BY <3>1
    <3>3. q \in above(m) /\ q \notin above(q)
      BY <3>1
    <3>4. <<above(q), above(m)>> \in StrictSubsetOrdering(S)
      BY <3>2, <3>3 DEF StrictSubsetOrdering
    <3>5. QED
      BY <2>1, <2>2, <3>4
  <2>4. \A q \in S : q <= m
    BY <1>0, <2>3
  <2>5. QED
    BY <2>4
<1>6. QED
  BY <1>4, <1>5

\* A set with a largest element has one element more than there are below it.
LEMMA BelowLargest ==
  ASSUME NEW S \in SUBSET Nat, IsFiniteSet(S), NEW m \in S, \A q \in S : q <= m
  PROVE  Cardinality(S) = Cardinality({q \in S : q < m}) + 1
<1>1. S \ {m} = {q \in S : q < m}
  <2>1. \A q \in S : q # m <=> q < m
    OBVIOUS
  <2>2. QED
    BY <2>1
<1>2. Cardinality(S \ {m}) = Cardinality(S) - 1 /\ Cardinality(S) \in Nat
  BY FS_RemoveElement, FS_CardinalityType
<1>3. QED
  BY <1>1, <1>2

\* One row read beyond a page tells whether the page is all there is, and the page can be
\* taken from the rows that were read.
LEMMA LookingAhead ==
  ASSUME NEW R \in SUBSET Nat, IsFiniteSet(R), NEW n \in Nat \ {0}
  PROVE  /\ Lowest(n, Lowest(n + 1, R)) = Lowest(n, R)
         /\ Cardinality(Lowest(n + 1, R)) > n <=> Lowest(n, R) # R
<1> DEFINE below(r) == {q \in R : q < r}
           rank(r) == Cardinality(below(r))
           page == Lowest(n, R)
           rows == Lowest(n + 1, R)
<1>1. \A r \in R : below(r) \in SUBSET R /\ IsFiniteSet(below(r)) /\ rank(r) \in Nat
  BY FS_Subset, FS_CardinalityType
<1>2. \A r \in R, q \in R : q \in below(r) <=> q < r
  OBVIOUS
<1>3. /\ page = {r \in R : rank(r) < n}
      /\ rows = {r \in R : rank(r) < n + 1}
  BY DEF Lowest
<1>4. \A r \in R : {q \in rows : q < r} = {q \in below(r) : q \in rows}
  BY <1>3
<1>5. Lowest(n, rows) = {r \in rows : Cardinality({q \in rows : q < r}) < n}
  BY DEF Lowest
<1>6. \A r \in R : rank(r) = Cardinality(below(r))
  OBVIOUS
<1>7. \A r \in R : r \in Nat
  OBVIOUS
<1> HIDE DEF below, rank, page, rows
<1>8. \A r \in R, q \in R : q <= r => rank(q) <= rank(r)
  <2>1. SUFFICES ASSUME NEW r \in R, NEW q \in R, q <= r PROVE rank(q) <= rank(r)
    OBVIOUS
  <2>2. \A x \in R : x < q => x < r
    BY <1>7, <2>1
  <2>3. below(q) \in SUBSET below(r)
    BY <1>1, <1>2, <2>2
  <2>4. QED
    BY <1>1, <1>6, <2>3, FS_Subset
<1>9. page \subseteq rows
  <2>1. \A r \in R : rank(r) < n => rank(r) < n + 1
    BY <1>1
  <2>2. QED
    BY <1>3, <2>1
<1>10. IsFiniteSet(rows) /\ Cardinality(rows) \in Nat
  BY <1>3, FS_Subset, FS_CardinalityType
<1>11. Lowest(n, rows) = page
  <2>1. \A r \in rows : \A q \in below(r) : q \in rows
    <3>1. SUFFICES ASSUME NEW r \in rows, NEW q \in below(r) PROVE q \in rows
      OBVIOUS
    <3>0. r \in R /\ rank(r) < n + 1
      BY <1>3
    <3>5. q \in R
      BY <1>1, <3>0
    <3>2. r \in R /\ q \in R /\ q <= r /\ rank(r) < n + 1
      BY <1>2, <1>7, <3>0, <3>5
    <3>3. rank(q) < n + 1
      BY <1>1, <1>8, <3>2
    <3>4. QED
      BY <1>3, <3>2, <3>3
  <2>2. \A r \in rows : {q \in below(r) : q \in rows} = below(r)
    BY <2>1
  <2>3. \A r \in rows : Cardinality({q \in rows : q < r}) = rank(r)
    BY <1>3, <1>4, <1>6, <2>2
  <2>4. Lowest(n, rows) = {r \in rows : rank(r) < n}
    BY <1>5, <2>3
  <2>5. \A r \in R : r \in page <=> rank(r) < n
    BY <1>3
  <2>6. page \subseteq R /\ rows \subseteq R
    BY <1>3
  <2>7. QED
    BY <1>9, <2>4, <2>5, <2>6
<1>12. ASSUME page = R PROVE ~ (Cardinality(rows) > n)
  <2>1. rows = R
    BY <1>3, <1>9, <1>12
  <2>2. CASE R = {}
    BY <2>1, <2>2, FS_EmptySet
  <2>3. CASE R # {}
    <3>1. PICK m \in R : \A q \in R : q <= m
      BY <2>3, Extremes
    <3>2. Cardinality(R) = rank(m) + 1
      BY <1>6, <3>1, BelowLargest DEF below
    <3>3. rank(m) < n /\ rank(m) \in Nat
      BY <1>1, <1>3, <1>12
    <3>4. QED
      BY <2>1, <3>2, <3>3
  <2>4. QED
    BY <2>2, <2>3
<1>13. ASSUME page # R PROVE Cardinality(rows) > n
  <2> DEFINE rest == R \ page
  <2>1. IsFiniteSet(rest) /\ rest # {} /\ rest \in SUBSET Nat
    BY <1>3, <1>13, FS_Subset
  <2>2. PICK r \in rest : \A q \in rest : r <= q
    BY <2>1, Extremes
  <2>3. r \in R /\ r \notin page /\ rank(r) \in Nat /\ rank(r) >= n
    BY <1>1, <1>3, <2>2
  <2>4. below(r) \subseteq page
    <3>1. SUFFICES ASSUME NEW q \in below(r), q \notin page PROVE FALSE
      OBVIOUS
    <3>2. q \in R /\ q < r /\ q \in rest
      BY <1>1, <1>2, <2>3, <3>1
    <3>3. QED
      BY <1>7, <2>2, <2>3, <3>2
  <2>5. below(r) # {} /\ below(r) \in SUBSET Nat /\ IsFiniteSet(below(r))
    <3>1. Cardinality(below(r)) # 0
      BY <1>6, <2>3
    <3>2. QED
      BY <1>1, <1>7, <2>3, <3>1, FS_EmptySet
  <2>6. PICK m \in below(r) : \A q \in below(r) : q <= m
    BY <2>5, Extremes
  <2>7. {q \in below(r) : q < m} = below(m)
    <3>1. m \in R /\ m < r
      BY <1>1, <1>2, <2>3, <2>6
    <3>2. \A q \in R : q < m => q < r
      BY <1>7, <2>3, <3>1
    <3>3. \A q \in R : q \in below(m) <=> q \in below(r) /\ q < m
      BY <1>2, <2>3, <3>1, <3>2
    <3>4. QED
      BY <1>1, <2>3, <3>1, <3>3
  <2>8. rank(r) = rank(m) + 1
    BY <1>1, <1>6, <2>3, <2>5, <2>6, <2>7, BelowLargest
  <2>9. rank(m) < n /\ rank(m) \in Nat
    BY <1>1, <1>3, <2>3, <2>4, <2>6
  <2>10. rank(r) = n
    BY <2>3, <2>8, <2>9
  <2>11. r \in rows
    BY <1>3, <2>3, <2>10
  <2>12. below(r) \cup {r} \subseteq rows /\ r \notin below(r)
    BY <1>2, <1>7, <1>9, <2>3, <2>4, <2>11
  <2>13. Cardinality(below(r) \cup {r}) = n + 1
    <3>1. Cardinality(below(r)) = n
      BY <1>6, <2>3, <2>10
    <3>2. QED
      BY <2>5, <2>12, <3>1, FS_AddElement
  <2>14. Cardinality(below(r) \cup {r}) <= Cardinality(rows)
    BY <1>10, <2>12, FS_Subset
  <2>15. QED
    BY <1>10, <2>13, <2>14
<1>14. Lowest(n, rows) = page /\ (Cardinality(rows) > n <=> page # R)
  BY <1>11, <1>12, <1>13
<1>15. QED
  BY <1>14 DEF page, rows

\* A page is the beginning of what it is taken from: what is not on it comes after all that
\* is, and it is empty only if there is nothing.
LEMMA PagesAreFirst ==
  ASSUME NEW R \in SUBSET Nat, IsFiniteSet(R), NEW n \in Nat \ {0}
  PROVE  /\ Lowest(n, R) \subseteq R
         /\ \A r \in R \ Lowest(n, R), q \in Lowest(n, R) : q < r
         /\ Lowest(n, R) # R => Lowest(n, R) # {}
<1> DEFINE below(r) == {q \in R : q < r}
           page == Lowest(n, R)
<1>1. \A r \in R : IsFiniteSet(below(r)) /\ Cardinality(below(r)) \in Nat
  BY FS_Subset, FS_CardinalityType
<1>2. page \subseteq R /\ \A r \in R : r \in page <=> Cardinality(below(r)) < n
  BY DEF Lowest
<1>3. \A r \in R : r \in Nat
  OBVIOUS
<1>4. \A r \in R, q \in R : q \in below(r) <=> q < r
  OBVIOUS
<1>5. \A r \in R : below(r) \subseteq R
  OBVIOUS
<1> HIDE DEF below, page
<1>6. \A r \in R \ page, q \in page : q < r
  <2>1. SUFFICES ASSUME NEW r \in R, r \notin page, NEW q \in page, ~ (q < r) PROVE FALSE
    BY <1>2
  <2>2. q \in R /\ r \in Nat /\ q \in Nat /\ r <= q
    BY <1>2, <1>3, <2>1
  <2>3. \A x \in R : x < r => x < q
    BY <1>3, <2>2
  <2>4. below(r) \in SUBSET below(q)
    BY <1>4, <1>5, <2>2, <2>3
  <2>5. Cardinality(below(r)) <= Cardinality(below(q))
    BY <1>1, <2>2, <2>4, FS_Subset
  <2>6. QED
    BY <1>1, <1>2, <2>1, <2>2, <2>5
<1>7. ASSUME page # R PROVE page # {}
  <2>1. R # {}
    BY <1>2, <1>7
  <2>2. PICK m \in R : \A q \in R : m <= q
    BY <2>1, Extremes
  <2>3. below(m) = {}
    <3>1. \A q \in R : ~ (q < m)
      BY <1>3, <2>2
    <3>2. \A q \in below(m) : q \in R
      BY <1>5, <2>2
    <3>3. QED
      BY <1>4, <2>2, <3>1, <3>2
  <2>4. Cardinality(below(m)) = 0
    BY <2>3, FS_EmptySet
  <2>5. QED
    BY <1>2, <2>4
<1>8. QED
  BY <1>2, <1>6, <1>7 DEF page

\* The last role of a page that is not empty is its largest.
LEMMA LastRoleIsLast ==
  ASSUME NEW page, PageRoles(page) \in SUBSET Nat, IsFiniteSet(PageRoles(page)), PageRoles(page) # {}
  PROVE  LastRole(page) \in PageRoles(page) /\ \A q \in PageRoles(page) : q <= LastRole(page)
BY Extremes DEF LastRole

\* The answer of a listing is the page that begins what it ranges over.
LEMMA ListAnswer ==
  ASSUME NEW c \in StoreCalls, c.op = "list", NEW p \in Policies
  PROVE  LET page == ReadAnswer(c, p)
         IN  /\ page.kind = "page" /\ page.revision = p.revision
             /\ PageRoles(page) = Lowest(c.limit, Listed(c, p))
             /\ page.more \in BOOLEAN
             /\ page.more <=> PageRoles(page) # Listed(c, p)
             /\ Listed(c, p) \in SUBSET Nat /\ IsFiniteSet(Listed(c, p))
<1> DEFINE roles == Lowest(c.limit, Listed(c, p))
           rows  == {RoleRow(p, r) : r \in roles}
           page  == ReadAnswer(c, p)
<1>1. page = DirectoryRolePage(rows, p.revision, roles # Listed(c, p))
  BY DEF ReadAnswer
<1>2. {row.role : row \in rows} = roles
  <2>1. \A r \in roles : RoleRow(p, r).role = r
    BY DEF RoleRow
  <2>2. QED
    BY <2>1
<1>3. /\ page.kind = "page" /\ page.revision = p.revision /\ page.rows = rows
      /\ page.more = (roles # Listed(c, p))
  BY <1>1 DEF DirectoryRolePage
<1>4. PageRoles(page) = roles
  BY <1>2, <1>3 DEF PageRoles
<1>5. Listed(c, p) \in SUBSET Nat /\ IsFiniteSet(Listed(c, p))
  BY PolicyAssumption, FS_Subset DEF Listed, Policies
<1>6. QED
  BY <1>3, <1>4, <1>5

-----------------------------------------------------------------------------
(* What an accepted mutation preserves.                                    *)

\* Who may administer an accepted administration call, and on which role.
LEMMA AcceptedAdmin ==
  ASSUME NEW c \in StoreCalls, NEW p \in Policies, Accepted(c, p), c.op \in AdminOps
  PROVE  /\ Bootstrapped(p)
         /\ c.op = "create" => c.role \notin p.roles
         /\ c.op # "create" => c.role \in p.roles
         /\ c.op \in {"set", "delete"} => c.role \notin p.protected
         /\ c.op = "revoke" /\ c.role \in p.protected => Binders(p, c.role) # {c.subject}
<1>1. Bootstrapped(p)
  BY DEF Accepted, Refused, DomainFailures
<1>2. Authorized(c, p)
  BY <1>1 DEF Accepted, Refused, DomainFailures
<1>3. QED
  BY <1>1, <1>2 DEF Accepted, Refused, DomainFailures, AdminOps, RoleOps

\* Whoever is bound to the bootstrap role of a well-formed policy may manage it.
LEMMA BindersAdminister ==
  ASSUME NEW p \in Policies, RowsBelong(p), Binders(p, BootstrapRole) # {}
  PROVE  Administrable(p)
<1>1. SUFFICES ASSUME Bootstrapped(p) PROVE Administrable(p)
  BY DEF Administrable
<1>2. PICK u \in Subjects : <<u, BootstrapRole>> \in p.bindings
  BY DEF Binders
<1>3. /\ <<BootstrapRole, RolesManage>> \in p.grants
      /\ <<BootstrapRole, BindingsManage>> \in p.grants
  BY <1>1 DEF RowsBelong, Grants
<1>4. Allowed(p, u, RolesManage) /\ Allowed(p, u, BindingsManage)
  BY <1>2, <1>3, PolicyAssumption DEF Allowed
<1>5. QED
  BY <1>4 DEF Administrable

\* The policy after an accepted change keeps its rows together.
LEMMA AdvanceRowsBelong ==
  ASSUME NEW c \in StoreCalls, NEW p \in Policies, RowsBelong(p), Changes(c, p)
  PROVE  RowsBelong(Advance(c, p))
<1> DEFINE q == Advance(c, p)
<1>1. Accepted(c, p) /\ c.op \notin ReadOps /\ p.revision \in Nat
  BY DEF Changes, Policies
<1>2. CASE c.op = "bootstrap"
  <2>1. ~ Bootstrapped(p)
    BY <1>2 DEF Changes, Effect
  <2>2. q = [SeedPolicy(c.subject) EXCEPT !.revision = p.revision + 1]
    BY <1>2, <2>1 DEF Advance, Effect
  <2>3. /\ q.revision = p.revision + 1 /\ q.protected = {BootstrapRole} /\ q.roles = {BootstrapRole}
        /\ q.grants = {BootstrapRole} \X {RolesManage, BindingsManage}
        /\ q.bindings = {<<c.subject, BootstrapRole>>} /\ q.owner = c.subject
    BY <2>2 DEF SeedPolicy
  <2>4. Bootstrapped(q)
    BY <1>2, <2>3, CallShape, PolicyAssumption DEF Bootstrapped
  <2>5. Grants(q, BootstrapRole) = {RolesManage, BindingsManage}
    BY <2>3, PolicyAssumption DEF Grants
  <2> HIDE DEF q
  <2>6. RowsBelong(q)
    BY <1>1, <2>3, <2>4, <2>5 DEF RowsBelong
  <2>7. QED
    BY <2>6 DEF q
<1>3. CASE c.op \in AdminOps
  <2>1. Bootstrapped(p) /\ c.role \in RoleIds
    BY <1>1, <1>3, AcceptedAdmin, CallShape
  <2>2. /\ q.revision = p.revision + 1 /\ q.owner = p.owner
        /\ q.protected = {BootstrapRole} /\ BootstrapRole \in q.roles
        /\ \A g \in q.grants : g[1] \in q.roles
        /\ \A b \in q.bindings : b[2] \in q.roles
        /\ \A x \in Permissions :
             <<BootstrapRole, x>> \in q.grants <=> <<BootstrapRole, x>> \in p.grants
    <3>1. CASE c.op = "create"
      BY <1>1, <2>1, <3>1 DEF RowsBelong, Advance, Effect, Policies
    <3>2. CASE c.op = "set"
      <4>1. c.role \in p.roles /\ c.role # BootstrapRole
        BY <1>1, <1>3, <2>1, <3>2, AcceptedAdmin DEF RowsBelong
      <4>2. QED
        BY <2>1, <3>2, <4>1 DEF RowsBelong, Advance, Effect, WithGrants, Policies
    <3>3. CASE c.op = "delete"
      <4>1. c.role # BootstrapRole
        BY <1>1, <1>3, <2>1, <3>3, AcceptedAdmin DEF RowsBelong
      <4>2. QED
        BY <2>1, <3>3, <4>1 DEF RowsBelong, Advance, Effect, WithoutRole, Policies
    <3>4. CASE c.op = "assign"
      <4>1. c.role \in p.roles
        BY <1>1, <1>3, <3>4, AcceptedAdmin
      <4>2. QED
        BY <2>1, <3>4, <4>1 DEF RowsBelong, Advance, Effect, Policies
    <3>5. CASE c.op = "revoke"
      BY <2>1, <3>5 DEF RowsBelong, Advance, Effect, Policies
    <3>6. QED
      BY <1>3, <3>1, <3>2, <3>3, <3>4, <3>5 DEF AdminOps, RoleOps
  <2>3. Bootstrapped(q)
    BY <2>1, <2>2 DEF Bootstrapped
  <2>4. Grants(q, BootstrapRole) = {RolesManage, BindingsManage}
    BY <2>1, <2>2 DEF RowsBelong, Grants
  <2> HIDE DEF q
  <2>5. RowsBelong(q)
    BY <1>1, <2>2, <2>3, <2>4 DEF RowsBelong
  <2>6. QED
    BY <2>5 DEF q
<1>4. QED
  BY <1>1, <1>2, <1>3, CallShape

\* The policy after an accepted change still has an administrator.
LEMMA AdvanceAdministrable ==
  ASSUME NEW c \in StoreCalls, NEW p \in Policies,
         RowsBelong(p), Administrable(p), Changes(c, p)
  PROVE  Administrable(Advance(c, p))
<1> DEFINE q == Advance(c, p)
<1>1. Accepted(c, p) /\ c.op \notin ReadOps
  BY DEF Changes
<1>2. Binders(q, BootstrapRole) # {}
  <2>1. CASE c.op = "bootstrap"
    <3>1. q.bindings = {<<c.subject, BootstrapRole>>}
      BY <2>1 DEF Changes, Advance, Effect, SeedPolicy
    <3>2. QED
      BY <2>1, <3>1, CallShape DEF Binders
  <2>2. CASE c.op \in AdminOps
    <3>1. Bootstrapped(p)
      BY <1>1, <2>2, AcceptedAdmin
    <3>2. PICK u \in Subjects : <<u, BootstrapRole>> \in p.bindings
      BY <3>1 DEF Administrable, Binders
    <3>3. CASE c.op \in {"create", "assign"}
      BY <3>2, <3>3 DEF Advance, Effect, Binders, Policies
    <3>4. CASE c.op = "set"
      BY <3>2, <3>4 DEF Advance, Effect, WithGrants, Binders, Policies
    <3>5. CASE c.op = "delete"
      <4>1. c.role # BootstrapRole
        BY <1>1, <2>2, <3>1, <3>5, AcceptedAdmin DEF RowsBelong
      <4>2. QED
        BY <3>2, <3>5, <4>1 DEF Advance, Effect, WithoutRole, Binders, Policies
    <3>6. CASE c.op = "revoke"
      <4>1. q.bindings = p.bindings \ {<<c.subject, c.role>>}
        BY <3>6 DEF Advance, Effect, Policies
      <4>2. CASE c.role # BootstrapRole
        BY <3>2, <4>1, <4>2 DEF Binders
      <4>3. CASE c.role = BootstrapRole
        <5>1. Binders(p, BootstrapRole) # {c.subject}
          BY <1>1, <2>2, <3>1, <3>6, <4>3, AcceptedAdmin DEF RowsBelong
        <5>2. PICK v \in Binders(p, BootstrapRole) : v # c.subject
          BY <3>2, <5>1 DEF Binders
        <5>3. v \in Binders(q, BootstrapRole)
          BY <4>1, <5>2 DEF Binders
        <5>4. QED
          BY <5>3
      <4>4. QED
        BY <4>2, <4>3
    <3>7. QED
      BY <2>2, <3>3, <3>4, <3>5, <3>6 DEF AdminOps, RoleOps
  <2>3. QED
    BY <1>1, <2>1, <2>2, CallShape
<1>3. q \in Policies
  BY AdvanceType
<1>4. RowsBelong(q)
  BY AdvanceRowsBelong
<1>5. QED
  BY <1>2, <1>3, <1>4, BindersAdminister

\* A change is in force afterwards: repeating it would change nothing.
LEMMA AdvanceInForce ==
  ASSUME NEW c \in StoreCalls, NEW p \in Policies, RowsBelong(p), Changes(c, p)
  PROVE  Effect(c, Advance(c, p)) = Advance(c, p)
<1> DEFINE q == Advance(c, p)
<1>1. q \in Policies
  BY AdvanceType
<1>2. CASE c.op = "bootstrap"
  <2>1. q.owner = c.subject
    BY <1>2 DEF Changes, Advance, Effect, SeedPolicy
  <2>2. Bootstrapped(q)
    BY <1>2, <2>1, CallShape, PolicyAssumption DEF Bootstrapped
  <2>3. QED
    BY <1>2, <2>2 DEF Effect
<1>3. CASE c.op = "create"
  <2>1. q.roles \cup {c.role} = q.roles
    BY <1>3 DEF Advance, Effect, Policies
  <2> HIDE DEF q
  <2>2. QED
    BY <1>1, <1>3, <2>1 DEF Effect, Policies, q
<1>4. CASE c.op = "set"
  <2>1. {g \in q.grants : g[1] # c.role} \cup ({c.role} \X c.permissions) = q.grants
    BY <1>4 DEF Advance, Effect, WithGrants, Policies
  <2>2. QED
    BY <1>1, <1>4, <2>1 DEF Effect, WithGrants, Policies
<1>5. CASE c.op = "delete"
  <2>1. /\ q.roles \ {c.role} = q.roles /\ q.protected \ {c.role} = q.protected
        /\ {g \in q.grants : g[1] # c.role} = q.grants
        /\ {b \in q.bindings : b[2] # c.role} = q.bindings
    BY <1>5 DEF Advance, Effect, WithoutRole, Policies
  <2>2. QED
    BY <1>1, <1>5, <2>1 DEF Effect, WithoutRole, Policies
<1>6. CASE c.op = "assign"
  <2>1. q.bindings \cup {<<c.subject, c.role>>} = q.bindings
    BY <1>6 DEF Advance, Effect, Policies
  <2>2. QED
    BY <1>1, <1>6, <2>1 DEF Effect, Policies
<1>7. CASE c.op = "revoke"
  <2>1. q.bindings \ {<<c.subject, c.role>>} = q.bindings
    BY <1>7 DEF Advance, Effect, Policies
  <2>2. QED
    BY <1>1, <1>7, <2>1 DEF Effect, Policies
<1>8. QED
  BY <1>2, <1>3, <1>4, <1>5, <1>6, <1>7, MutationOps DEF Changes

-----------------------------------------------------------------------------
(* What an answer says of the policies that follow it.                     *)

\* As an answer to c, r may stand while the policy is p: it names no later revision, and
\* if it names that of p, a read would be answered the same and a mutation is in force.
TrueOf(c, r, p) ==
  r \in Versioned =>
    /\ r.revision <= p.revision
    /\ r.revision = p.revision =>
         IF c.op \in ReadOps THEN r = ReadAnswer(c, p) ELSE Effect(c, p) = p

\* An answer is true of the policy it is given on; one without a revision, of every policy.
LEMMA AnswersAreTrue ==
  ASSUME NEW c \in StoreCalls, NEW p \in Policies, RowsBelong(p)
  PROVE  /\ \A f \in DomainFailures, q \in Policies : TrueOf(c, Failure(f), q)
         /\ \A q \in Policies : TrueOf(c, Unavailable, q)
         /\ c.op \in ReadOps => TrueOf(c, ReadAnswer(c, p), p)
         /\ c.op \notin ReadOps /\ Effect(c, p) = p => TrueOf(c, Mutation(FALSE, p.revision), p)
         /\ Changes(c, p) => TrueOf(c, Mutation(TRUE, p.revision + 1), Advance(c, p))
<1>1. p.revision \in 0..MaxRevision /\ p.revision \in Int
  BY PolicyAssumption DEF Policies
<1>2. \A f \in DomainFailures, q \in Policies : TrueOf(c, Failure(f), q)
  BY ResultTypes DEF TrueOf
<1>3. \A q \in Policies : TrueOf(c, Unavailable, q)
  BY ResultTypes DEF TrueOf
<1>4. c.op \in ReadOps => TrueOf(c, ReadAnswer(c, p), p)
  BY <1>1, ReadAnswerType DEF TrueOf
<1>5. c.op \notin ReadOps /\ Effect(c, p) = p => TrueOf(c, Mutation(FALSE, p.revision), p)
  <2> DEFINE r == Mutation(FALSE, p.revision)
  <2>1. r.revision = p.revision
    BY <1>1, ResultTypes
  <2> HIDE DEF r
  <2>2. c.op \notin ReadOps /\ Effect(c, p) = p => TrueOf(c, r, p)
    BY <1>1, <2>1 DEF TrueOf
  <2>3. QED
    BY <2>2 DEF r
<1>6. Changes(c, p) => TrueOf(c, Mutation(TRUE, p.revision + 1), Advance(c, p))
  <2> SUFFICES ASSUME Changes(c, p)
               PROVE  TrueOf(c, Mutation(TRUE, p.revision + 1), Advance(c, p))
    OBVIOUS
  <2>1. Advance(c, p) \in Policies /\ Advance(c, p).revision = p.revision + 1
    BY AdvanceType
  <2>2. p.revision + 1 \in 0..MaxRevision
    BY <1>1, PolicyAssumption DEF Changes
  <2>3. Mutation(TRUE, p.revision + 1).revision = p.revision + 1
    BY <2>2, ResultTypes
  <2>4. Effect(c, Advance(c, p)) = Advance(c, p) /\ c.op \notin ReadOps
    BY AdvanceInForce DEF Changes
  <2>5. Advance(c, p).revision <= Advance(c, p).revision
    BY <1>1, <2>1
  <2>6. QED
    BY <2>1, <2>3, <2>4, <2>5 DEF TrueOf
<1>7. QED
  BY <1>2, <1>3, <1>4, <1>5, <1>6

\* No change makes an answer untrue: it only makes it old.
LEMMA StaysTrue ==
  ASSUME NEW c \in StoreCalls, NEW r, NEW d \in StoreCalls, NEW p \in Policies,
         Changes(d, p), TrueOf(c, r, p)
  PROVE  TrueOf(c, r, Advance(d, p))
<1>1. p.revision \in Int /\ Advance(d, p).revision = p.revision + 1
  BY AdvanceType DEF Policies
<1>2. r \in Versioned => r.revision \in Int
  BY DEF Versioned
<1>3. QED
  BY <1>1, <1>2 DEF TrueOf

\* An accepted change advances the revision by one, changes something else, and leaves
\* the owner of a bootstrapped scope.
LEMMA AdvanceCounts ==
  ASSUME NEW c \in StoreCalls, NEW p \in Policies, RowsBelong(p), Changes(c, p)
  PROVE  LET q == Advance(c, p)
         IN  /\ q.revision = p.revision + 1
             /\ [q EXCEPT !.revision = p.revision] # p
             /\ p.owner \in {NoSubject, q.owner}
<1> DEFINE q == Advance(c, p)
<1>1. q \in Policies /\ q.revision = p.revision + 1
  BY AdvanceType
<1>2. /\ Effect(c, p).revision = p.revision
      /\ Bootstrapped(p) => Effect(c, p).owner = p.owner
  BY EffectKeeps DEF RowsBelong, Changes
<1>3. Effect(c, p) \in Policies
  BY EffectType DEF Changes
<1>4. [q EXCEPT !.revision = p.revision] = Effect(c, p)
  BY <1>2, <1>3 DEF Advance, Policies
<1>5. p.owner \in {NoSubject, q.owner}
  BY <1>2, <1>3 DEF Advance, Policies, Bootstrapped
<1>6. QED
  BY <1>1, <1>4, <1>5 DEF Changes
=============================================================================
