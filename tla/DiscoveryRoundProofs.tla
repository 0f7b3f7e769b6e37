------------------------- MODULE DiscoveryRoundProofs -------------------------
(***************************************************************************)
(* Proofs about DiscoveryRound, its scripts and its invocations.           *)
(*                                                                         *)
(* The scripts sort by keys, slice and take the last line of a log: that   *)
(* the operators for these do what they must, for sets of any size, comes  *)
(* first.  The invariant relates plans to the scratch directory, logs to   *)
(* what Lean spoke, queues of workers to plans, and what an invocation     *)
(* knows at each stage to the files its round has then.                    *)
(***************************************************************************)
EXTENDS DiscoveryRound, FiniteSetTheorems, TLAPS

\* A least natural number, from well-foundedness.
LEMMA Least ==
  ASSUME NEW T \in SUBSET Nat, T # {}
  PROVE  \E n \in T : \A m \in T : n <= m
<1> DEFINE R == OpToRel(<, Nat)
<1>1. \A a, b \in Nat : a < b => <<a, b>> \in R
  BY DEF OpToRel
<1>2. IsWellFoundedOn(R, Nat)
  BY NatLessThanWellFounded
<1> HIDE DEF R
<1>3. \E x \in T : \A y \in T : ~(<<y, x>> \in R)
  BY <1>2, WFMin
<1>4. PICK n \in T : \A y \in T : ~(<<y, n>> \in R)
  BY <1>3
<1>5. \A m \in T : n <= m
  <2> SUFFICES ASSUME NEW m \in T
               PROVE  n <= m
    OBVIOUS
  <2>1. m \in Nat /\ n \in Nat
    OBVIOUS
  <2>2. ~(m < n)
    BY <1>1, <1>4, <2>1
  <2> QED
    BY <2>1, <2>2
<1> QED
  BY <1>5

-----------------------------------------------------------------------------
(* Orders *)

Below(S, R, s) == {r \in S : <<r, s>> \in R}

LinearOn(S, R) ==
  /\ \A s \in S : <<s, s>> \notin R
  /\ \A r, s, t \in S : <<r, s>> \in R /\ <<s, t>> \in R => <<r, t>> \in R
  /\ \A r, s \in S : r # s => <<r, s>> \in R \/ <<s, r>> \in R

\* In a linear order of a finite set each place is taken, by one element.
LEMMA PlacesTaken ==
  ASSUME NEW S, IsFiniteSet(S), NEW R, LinearOn(S, R)
  PROVE  /\ Cardinality(S) \in Nat
         /\ \A s \in S : Cardinality(Below(S, R, s)) + 1 \in 1..Cardinality(S)
         /\ \A i \in 1..Cardinality(S) : \E s \in S : Cardinality(Below(S, R, s)) = i - 1
         /\ \A s, t \in S :
              Cardinality(Below(S, R, s)) = Cardinality(Below(S, R, t)) => s = t
<1> DEFINE n == Cardinality(S)
           place == [s \in S |-> Cardinality(Below(S, R, s)) + 1]
<1>1. n \in Nat
  BY FS_CardinalityType
<1>2. ASSUME NEW s \in S
      PROVE  /\ IsFiniteSet(Below(S, R, s)) /\ Cardinality(Below(S, R, s)) \in Nat
             /\ Cardinality(Below(S, R, s)) <= n - 1
  <2>1. Below(S, R, s) \in SUBSET S /\ Below(S, R, s) # S
    BY DEF Below, LinearOn
  <2>2. /\ IsFiniteSet(Below(S, R, s)) /\ Cardinality(Below(S, R, s)) <= n
        /\ n # Cardinality(Below(S, R, s))
    BY <2>1, FS_Subset
  <2>3. Cardinality(Below(S, R, s)) \in Nat
    BY <2>2, FS_CardinalityType
  <2> QED
    BY <1>1, <2>2, <2>3
<1>3. ASSUME NEW s \in S, NEW t \in S, s # t
      PROVE  Cardinality(Below(S, R, s)) # Cardinality(Below(S, R, t))
  <2>1. ASSUME NEW a \in S, NEW b \in S, <<a, b>> \in R
        PROVE  Cardinality(Below(S, R, a)) # Cardinality(Below(S, R, b))
    <3>1. Below(S, R, a) \in SUBSET Below(S, R, b) /\ Below(S, R, a) # Below(S, R, b)
      BY <2>1 DEF Below, LinearOn
    <3> QED
      BY <1>2, <3>1, FS_Subset
  <2> QED
    BY <1>3, <2>1 DEF LinearOn
<1>4. place \in [S -> 1..n]
  BY <1>1, <1>2
<1>5. place \in Injection(S, 1..n)
  <2>1. \A s, t \in S : place[s] = place[t] => s = t
    BY <1>2, <1>3
  <2> QED
    BY <1>4, <2>1 DEF Injection, IsInjective
<1>6. IsFiniteSet(1..n) /\ Cardinality(1..n) = n
  BY <1>1, FS_Interval
<1>7. place \in Surjection(S, 1..n)
  BY <1>5, <1>6, FS_Injection
<1>8. \A i \in 1..n : \E s \in S : place[s] = i
  BY <1>7 DEF Surjection
<1>9. \A i \in 1..n : \E s \in S : Cardinality(Below(S, R, s)) = i - 1
  BY <1>1, <1>2, <1>8
<1> QED
  BY <1>1, <1>2, <1>3, <1>9

\* A bounded, nonempty set of natural numbers has a greatest element, the
\* one that Max names.
LEMMA MaxBounded ==
  ASSUME NEW S \in SUBSET Nat, S # {}, NEW n \in Nat, \A s \in S : s <= n
  PROVE  Max(S) \in S /\ \A s \in S : s <= Max(S)
<1> DEFINE T == {m \in Nat : \A s \in S : s <= m}
<1>1. T \in SUBSET Nat /\ T # {}
  OBVIOUS
<1>2. PICK m \in T : \A k \in T : m <= k
  BY <1>1, Least
<1>3. m \in S
  <2> SUFFICES ASSUME m \notin S
               PROVE  FALSE
    OBVIOUS
  <2>1. \A s \in S : s \in Nat /\ s < m
    OBVIOUS
  <2>2. m # 0 /\ m - 1 \in Nat
    <3>1. PICK s \in S : TRUE
      OBVIOUS
    <3>2. s \in Nat /\ s < m /\ m \in Nat
      BY <2>1, <3>1
    <3> QED
      BY <3>2
  <2>3. m - 1 \in T
    BY <2>1, <2>2
  <2> QED
    BY <1>2, <2>2, <2>3
<1>4. \E x \in S : \A y \in S : x >= y
  BY <1>3
<1>5. Max(S) \in S /\ \A y \in S : Max(S) >= y
  BY <1>4 DEF Max
<1> QED
  BY <1>5

LEMMA MinOfTwo ==
  ASSUME NEW a \in Int, NEW b \in Int
  PROVE  /\ Min({a, b}) \in {a, b}
         /\ Min({a, b}) <= a /\ Min({a, b}) <= b
<1>1. \E x \in {a, b} : \A y \in {a, b} : x <= y
  OBVIOUS
<1>2. Min({a, b}) \in {a, b} /\ \A y \in {a, b} : Min({a, b}) <= y
  BY <1>1 DEF Min
<1> QED
  BY <1>2

LEMMA Division ==
  ASSUME NEW m \in Nat, NEW d \in Nat \ {0}
  PROVE  /\ m \div d \in Nat
         /\ (m \div d) * d <= m /\ m < (m \div d) * d + d
  OBVIOUS

LEMMA Multiples ==
  ASSUME NEW a \in Int, NEW b \in Int, NEW d \in Nat, a <= b
  PROVE  a * d \in Int /\ b * d \in Int /\ a * d <= b * d
  OBVIOUS

\* A sequence that has each element of S once.
Listing(f, S) ==
  /\ f \in Seq(S) /\ Len(f) = Cardinality(S) /\ Len(f) \in Nat
  /\ DOMAIN f = 1..Len(f)
  /\ ToSet(f) = S
  /\ \A i, j \in DOMAIN f : f[i] = f[j] => i = j

LEMMA PlacesList ==
  ASSUME NEW S, IsFiniteSet(S), NEW R, LinearOn(S, R),
         NEW f, f = [i \in 1..Cardinality(S) |-> f[i]],
         \A i \in 1..Cardinality(S) : f[i] \in S /\ Cardinality(Below(S, R, f[i])) = i - 1
  PROVE  Listing(f, S)
<1> DEFINE n == Cardinality(S)
<1>1. n \in Nat
  BY PlacesTaken
<1>2. f \in [1..n -> S] /\ DOMAIN f = 1..n
  OBVIOUS
<1>3. f \in Seq(S) /\ Len(f) = n
  BY <1>1, <1>2
<1>4. ASSUME NEW s \in S
      PROVE  \E i \in 1..n : f[i] = s
  <2>1. PICK i \in 1..n : i = Cardinality(Below(S, R, s)) + 1
    BY PlacesTaken
  <2>2. f[i] \in S /\ Cardinality(Below(S, R, f[i])) = i - 1
    OBVIOUS
  <2>3. Cardinality(Below(S, R, s)) \in Nat
    <3>1. Below(S, R, s) \in SUBSET S
      BY DEF Below
    <3> QED
      BY <3>1, FS_Subset, FS_CardinalityType
  <2>4. Cardinality(Below(S, R, s)) = i - 1
    BY <1>1, <2>1, <2>3
  <2>5. f[i] = s
    BY <2>2, <2>4, PlacesTaken
  <2> QED
    BY <2>5
<1>5. ToSet(f) = S
  BY <1>2, <1>4 DEF ToSet
<1>6. \A i, j \in 1..n : f[i] = f[j] => i = j
  <2> SUFFICES ASSUME NEW i \in 1..n, NEW j \in 1..n, f[i] = f[j]
               PROVE  i = j
    OBVIOUS
  <2>1. i - 1 = j - 1 /\ i \in Int /\ j \in Int
    BY <1>1
  <2> QED
    BY <2>1
<1> QED
  BY <1>1, <1>2, <1>3, <1>5, <1>6 DEF Listing

\* Distinct keys of one length put the elements of S in a linear order.
LEMMA KeysOrder ==
  ASSUME NEW S, NEW n \in Nat, NEW K, \A s \in S : K[s] \in Seq(Int) /\ Len(K[s]) = n,
         \A r, s \in S : K[r] = K[s] => r = s,
         NEW R, \A r, s \in S : <<r, s>> \in R <=> Precedes(K[r], K[s])
  PROVE  LinearOn(S, R)
<1>1. \A s \in S : /\ DOMAIN K[s] = 1..n
                   /\ K[s] = [i \in 1..n |-> K[s][i]]
                   /\ \A i \in 1..n : K[s][i] \in Int
  OBVIOUS
<1>2. ASSUME NEW s \in S
      PROVE  <<s, s>> \notin R
  BY <1>1 DEF Precedes
<1>3. ASSUME NEW r \in S, NEW s \in S, NEW t \in S, <<r, s>> \in R, <<s, t>> \in R
      PROVE  <<r, t>> \in R
  <2>1. PICK i \in 1..n : K[r][i] < K[s][i] /\ \A j \in 1..(i - 1) : K[r][j] = K[s][j]
    BY <1>1, <1>3 DEF Precedes
  <2>2. PICK k \in 1..n : K[s][k] < K[t][k] /\ \A j \in 1..(k - 1) : K[s][j] = K[t][j]
    BY <1>1, <1>3 DEF Precedes
  <2>3. CASE i <= k
    <3>1. i = k \/ i \in 1..(k - 1)
      BY <2>3
    <3>2. K[r][i] \in Int /\ K[s][i] \in Int /\ K[t][i] \in Int /\ K[r][i] < K[s][i]
      BY <1>1, <2>1
    <3>3. K[s][i] = K[t][i] \/ K[s][i] < K[t][i]
      BY <2>2, <3>1
    <3>4. K[r][i] < K[t][i]
      BY <3>2, <3>3
    <3>5. \A j \in 1..(i - 1) : K[r][j] = K[t][j]
      BY <2>1, <2>2, <2>3
    <3> QED
      BY <1>1, <3>4, <3>5 DEF Precedes
  <2>4. CASE k < i
    <3>1. K[r][k] < K[t][k]
      BY <1>1, <2>1, <2>2, <2>4
    <3>2. \A j \in 1..(k - 1) : K[r][j] = K[t][j]
      BY <2>1, <2>2, <2>4
    <3> QED
      BY <1>1, <3>1, <3>2 DEF Precedes
  <2> QED
    BY <2>3, <2>4
<1>4. ASSUME NEW r \in S, NEW s \in S, r # s
      PROVE  <<r, s>> \in R \/ <<s, r>> \in R
  <2> DEFINE D == {i \in 1..n : K[r][i] # K[s][i]}
  <2>1. D # {}
    <3> SUFFICES ASSUME \A i \in 1..n : K[r][i] = K[s][i]
                 PROVE  K[r] = K[s]
      BY <1>4
    <3>1. [i \in 1..n |-> K[r][i]] = [i \in 1..n |-> K[s][i]]
      OBVIOUS
    <3> QED
      BY <1>1, <3>1
  <2>2. D \in SUBSET Nat
    OBVIOUS
  <2>3. PICK i \in D : \A j \in D : i <= j
    BY <2>1, <2>2, Least
  <2>4. ASSUME NEW j \in 1..(i - 1)
        PROVE  K[r][j] = K[s][j]
    <3>1. j \in 1..n /\ ~(i <= j)
      BY <2>3
    <3> QED
      BY <2>3, <3>1
  <2>5. K[r][i] < K[s][i] \/ K[s][i] < K[r][i]
    BY <1>1, <2>3
  <2> QED
    BY <1>1, <2>4, <2>5 DEF Precedes
<1> QED
  BY <1>2, <1>3, <1>4 DEF LinearOn

-----------------------------------------------------------------------------
(* Lines of a log, and probes of a plan *)

Triples == [decl : Int, declared : Int, target : Int]

LEMMA TripleEquality ==
  ASSUME NEW r \in Triples, NEW s \in Triples,
         r.decl = s.decl, r.declared = s.declared, r.target = s.target
  PROVE  r = s
  BY DEF Triples

\* LogOrder sorts.
LEMMA LinesListed ==
  ASSUME NEW P \in SUBSET Triples, IsFiniteSet(P)
  PROVE  Listing(LogOrder(P), P)
<1> DEFINE key(p) == <<p.decl, p.declared, p.target>>
           order == LogOrder(P)
           pick(i) == CHOOSE s \in P : Cardinality({r \in P : Precedes(key(r), key(s))}) = i - 1
<1>1. order = [i \in 1..Cardinality(P) |-> pick(i)]
  BY DEF LogOrder, SortedBy
<1>2. PICK K : K = [p \in P |-> key(p)]
  OBVIOUS
<1>3. PICK R : R = {q \in P \X P : Precedes(key(q[1]), key(q[2]))}
  OBVIOUS
<1>4. LinearOn(P, R)
  <2>1. \A p \in P : K[p] = key(p) /\ K[p] \in Seq(Int) /\ Len(K[p]) = 3
    BY <1>2 DEF Triples
  <2>2. \A r, s \in P : K[r] = K[s] => r = s
    BY <2>1, TripleEquality
  <2>3. \A r, s \in P : <<r, s>> \in R <=> Precedes(K[r], K[s])
    BY <1>3, <2>1
  <2> QED
    BY <2>1, <2>2, <2>3, KeysOrder
<1>5. \A s \in P : {r \in P : Precedes(key(r), key(s))} = Below(P, R, s)
  BY <1>3 DEF Below
<1>6. ASSUME NEW i \in 1..Cardinality(P)
      PROVE  \E s \in P : Cardinality({r \in P : Precedes(key(r), key(s))}) = i - 1
  <2>1. PICK s \in P : Cardinality(Below(P, R, s)) = i - 1
    BY <1>4, PlacesTaken
  <2> QED
    BY <1>5, <2>1
<1>7. \A i \in 1..Cardinality(P) :
        pick(i) \in P /\ Cardinality({r \in P : Precedes(key(r), key(pick(i)))}) = i - 1
  BY <1>6
<1> HIDE DEF order, pick
<1>8. \A i \in 1..Cardinality(P) :
        order[i] \in P /\ Cardinality(Below(P, R, order[i])) = i - 1
  BY <1>1, <1>5, <1>7
<1>9. order = [i \in 1..Cardinality(P) |-> order[i]]
  BY <1>1
<1> QED
  BY <1>4, <1>8, <1>9, PlacesList DEF order

\* AttemptOrder sorts.
LEMMA PopulationListed ==
  ASSUME NEW P \in SUBSET Triples, IsFiniteSet(P)
  PROVE  Listing(AttemptOrder(P), P)
<1> DEFINE size(f) == Cardinality({t \in P : Family(t) = f})
           key(p) == <<0 - size(Family(p)), p.declared, p.target, p.decl>>
           order == AttemptOrder(P)
           pick(i) == CHOOSE s \in P : Cardinality({r \in P : Precedes(key(r), key(s))}) = i - 1
<1>1. order = [i \in 1..Cardinality(P) |-> pick(i)]
  BY DEF AttemptOrder, SortedBy
<1>2. PICK K : K = [p \in P |-> key(p)]
  OBVIOUS
<1>3. PICK R : R = {q \in P \X P : Precedes(key(q[1]), key(q[2]))}
  OBVIOUS
<1>4. LinearOn(P, R)
  <2>1. \A p \in P : K[p] = key(p) /\ K[p] \in Seq(Int) /\ Len(K[p]) = 4
    <3> SUFFICES ASSUME NEW p \in P
                 PROVE  key(p) \in Seq(Int)
      BY <1>2
    <3>1. PICK n : n = size(Family(p))
      OBVIOUS
    <3>2. {t \in P : Family(t) = Family(p)} \in SUBSET P
      OBVIOUS
    <3>3. n \in Nat
      BY <3>1, <3>2, FS_Subset, FS_CardinalityType
    <3>4. key(p) = <<0 - n, p.declared, p.target, p.decl>>
      BY <3>1
    <3>5. 0 - n \in Int /\ p.declared \in Int /\ p.target \in Int /\ p.decl \in Int
      BY <3>3 DEF Triples
    <3> HIDE DEF key
    <3> QED
      BY <3>4, <3>5
  <2>2. ASSUME NEW r \in P, NEW s \in P, K[r] = K[s]
        PROVE  r = s
    <3>1. ASSUME NEW p \in P
          PROVE  K[p][2] = p.declared /\ K[p][3] = p.target /\ K[p][4] = p.decl
      <4>1. PICK n : n = 0 - size(Family(p))
        OBVIOUS
      <4>2. K[p] = <<n, p.declared, p.target, p.decl>>
        BY <2>1, <4>1
      <4> QED
        BY <4>2
    <3> QED
      BY <2>2, <3>1, TripleEquality
  <2>3. \A r, s \in P : <<r, s>> \in R <=> Precedes(K[r], K[s])
    BY <1>3, <2>1
  <2> QED
    BY <2>1, <2>2, <2>3, KeysOrder
<1>5. \A s \in P : {r \in P : Precedes(key(r), key(s))} = Below(P, R, s)
  BY <1>3 DEF Below
<1>6. ASSUME NEW i \in 1..Cardinality(P)
      PROVE  \E s \in P : Cardinality({r \in P : Precedes(key(r), key(s))}) = i - 1
  <2>1. PICK s \in P : Cardinality(Below(P, R, s)) = i - 1
    BY <1>4, PlacesTaken
  <2> QED
    BY <1>5, <2>1
<1>7. \A i \in 1..Cardinality(P) :
        pick(i) \in P /\ Cardinality({r \in P : Precedes(key(r), key(pick(i)))}) = i - 1
  BY <1>6
<1> HIDE DEF order, pick
<1>8. \A i \in 1..Cardinality(P) :
        order[i] \in P /\ Cardinality(Below(P, R, order[i])) = i - 1
  BY <1>1, <1>5, <1>7
<1>9. order = [i \in 1..Cardinality(P) |-> order[i]]
  BY <1>1
<1> QED
  BY <1>4, <1>8, <1>9, PlacesList DEF order

-----------------------------------------------------------------------------
(* Ancestors *)

\* The tables that Reach is read off.
IsSteps(E, c, n, f) ==
  f = [k \in 0..n |->
         {e[2] : e \in {g \in E : g[1] \in {c} \cup (IF k = 0 THEN {} ELSE f[k-1])}}]

LEMMA StepsExist ==
  ASSUME NEW E, NEW c, NEW n \in Nat
  PROVE  \E f : IsSteps(E, c, n, f)
<1> DEFINE T == {m \in Nat : ~ \E f : IsSteps(E, c, m, f)}
<1> SUFFICES ASSUME T # {}
             PROVE  FALSE
  OBVIOUS
<1>1. PICK m \in T : \A k \in T : m <= k
  BY Least
<1>2. m # 0
  <2> DEFINE f == [k \in 0..0 |-> {e[2] : e \in {g \in E : g[1] \in {c}}}]
  <2>1. IsSteps(E, c, 0, f)
    BY DEF IsSteps
  <2> HIDE DEF f
  <2> QED
    BY <1>1, <2>1
<1>3. m - 1 \in Nat /\ m - 1 \notin T
  BY <1>1, <1>2
<1>4. PICK g : IsSteps(E, c, m - 1, g)
  BY <1>3
<1> DEFINE f == [k \in 0..m |->
                   {e[2] : e \in {h \in E : h[1] \in {c} \cup (IF k = 0 THEN {} ELSE g[k-1])}}]
<1>5. \A k \in 0..(m - 1) : f[k] = g[k]
  <2> SUFFICES ASSUME NEW k \in 0..(m - 1)
               PROVE  f[k] = g[k]
    OBVIOUS
  <2>1. k \in 0..m
    BY <1>1
  <2> QED
    BY <1>4, <2>1 DEF IsSteps
<1>6. ASSUME NEW k \in 0..m, k # 0
      PROVE  f[k-1] = g[k-1]
  <2>1. k - 1 \in 0..(m - 1)
    BY <1>1, <1>6
  <2> HIDE DEF f
  <2> QED
    BY <1>5, <2>1
<1>7. IsSteps(E, c, m, f)
  <2> SUFFICES \A k \in 0..m :
         {e[2] : e \in {h \in E : h[1] \in {c} \cup (IF k = 0 THEN {} ELSE g[k-1])}}
         = {e[2] : e \in {h \in E : h[1] \in {c} \cup (IF k = 0 THEN {} ELSE f[k-1])}}
    BY DEF IsSteps
  <2> HIDE DEF f
  <2> QED
    BY <1>6
<1> HIDE DEF f
<1> QED
  BY <1>1, <1>7

LEMMA ReachIsSteps ==
  ASSUME NEW E, NEW c, NEW n \in Nat
  PROVE  \E f : IsSteps(E, c, n, f) /\ Reach(E, c, n) = f[n]
<1> DEFINE step == CHOOSE f : f = [k \in 0..n |->
         {e[2] : e \in {g \in E : g[1] \in {c} \cup (IF k = 0 THEN {} ELSE f[k-1])}}]
<1>1. IsSteps(E, c, n, step)
  <2>1. \E f : f = [k \in 0..n |->
         {e[2] : e \in {g \in E : g[1] \in {c} \cup (IF k = 0 THEN {} ELSE f[k-1])}}]
    <3>1. PICK f : IsSteps(E, c, n, f)
      BY StepsExist
    <3> QED
      BY <3>1, Zenon DEF IsSteps
  <2> QED
    BY <2>1, Zenon DEF IsSteps
<1>2. Reach(E, c, n) = step[n]
  BY DEF Reach
<1> HIDE DEF step
<1> QED
  BY <1>1, <1>2

\* More edges, and more steps, reach no less.
LEMMA ReachGrows ==
  ASSUME NEW E, NEW F, E \subseteq F, NEW c, NEW m \in Nat, NEW n \in Nat, m <= n
  PROVE  Reach(E, c, m) \subseteq Reach(F, c, n)
<1>1. PICK f : IsSteps(E, c, m, f) /\ Reach(E, c, m) = f[m]
  BY ReachIsSteps
<1>2. PICK g : IsSteps(F, c, n, g) /\ Reach(F, c, n) = g[n]
  BY ReachIsSteps
<1>3. \A k \in 0..m :
        f[k] = {e[2] : e \in {h \in E : h[1] \in {c} \cup (IF k = 0 THEN {} ELSE f[k-1])}}
  BY <1>1 DEF IsSteps
<1>4. \A k \in 0..n :
        g[k] = {e[2] : e \in {h \in F : h[1] \in {c} \cup (IF k = 0 THEN {} ELSE g[k-1])}}
  BY <1>2 DEF IsSteps
<1>5. \A k \in 0..m : f[k] \subseteq g[k]
  <2> DEFINE T == {k \in 0..m : ~(f[k] \subseteq g[k])}
  <2> SUFFICES ASSUME T # {}
               PROVE  FALSE
    OBVIOUS
  <2>1. T \in SUBSET Nat
    OBVIOUS
  <2>2. PICK k \in T : \A l \in T : k <= l
    BY <2>1, Least
  <2>3. k \in 0..m /\ k \in 0..n
    OBVIOUS
  <2>4. k = 0 \/ (k - 1 \in 0..m /\ ~(k <= k - 1))
    BY <2>3
  <2>5. k = 0 \/ f[k-1] \subseteq g[k-1]
    BY <2>2, <2>4
  <2>6. f[k] \subseteq g[k]
    BY <1>3, <1>4, <2>3, <2>5
  <2> QED
    BY <2>6
<1>6. \A k \in 1..n : g[k-1] \subseteq g[k]
  <2> DEFINE T == {k \in 1..n : ~(g[k-1] \subseteq g[k])}
  <2> SUFFICES ASSUME T # {}
               PROVE  FALSE
    OBVIOUS
  <2>1. T \in SUBSET Nat
    OBVIOUS
  <2>2. PICK k \in T : \A l \in T : k <= l
    BY <2>1, Least
  <2>3. k \in 0..n /\ k - 1 \in 0..n /\ k # 0
    OBVIOUS
  <2>4. k - 1 = 0 \/ (k - 1 \in 1..n /\ ~(k <= k - 1))
    BY <2>3
  <2>5. k - 1 = 0 \/ g[(k-1)-1] \subseteq g[k-1]
    BY <2>2, <2>4
  <2>6. g[k-1] \subseteq g[k]
    BY <1>4, <2>3, <2>5
  <2> QED
    BY <2>6
<1>7. \A k \in m..n : g[m] \subseteq g[k]
  <2> DEFINE T == {k \in m..n : ~(g[m] \subseteq g[k])}
  <2> SUFFICES ASSUME T # {}
               PROVE  FALSE
    OBVIOUS
  <2>1. T \in SUBSET Nat
    OBVIOUS
  <2>2. PICK k \in T : \A l \in T : k <= l
    BY <2>1, Least
  <2>3. k # m /\ k - 1 \in m..n /\ ~(k <= k - 1) /\ k \in 1..n
    OBVIOUS
  <2>4. g[m] \subseteq g[k-1]
    BY <2>2, <2>3
  <2> QED
    BY <1>6, <2>3, <2>4
<1>8. m \in 0..m /\ n \in m..n
  OBVIOUS
<1> QED
  BY <1>1, <1>2, <1>5, <1>7, <1>8

LEMMA HeadsFinite ==
  ASSUME NEW E, IsFiniteSet(E), NEW T \in SUBSET {e[2] : e \in E}
  PROVE  IsFiniteSet(T) /\ Cardinality(T) \in Nat
<1> DEFINE H == {e[2] : e \in E}
           h == [e \in E |-> e[2]]
<1>1. h \in Surjection(E, H)
  BY DEF Surjection
<1>2. IsFiniteSet(H)
  BY <1>1, FS_Surjection
<1> QED
  BY <1>2, FS_Subset, FS_CardinalityType

LEMMA AncestorsFinite ==
  ASSUME NEW E, IsFiniteSet(E), NEW c
  PROVE  /\ Ancestors(E, c) \subseteq {e[2] : e \in E}
         /\ IsFiniteSet(Ancestors(E, c)) /\ Cardinality(Ancestors(E, c)) \in Nat
<1>1. Cardinality(E) \in Nat
  BY FS_CardinalityType
<1>2. PICK f : IsSteps(E, c, Cardinality(E), f) /\ Reach(E, c, Cardinality(E)) = f[Cardinality(E)]
  BY <1>1, ReachIsSteps
<1>3. f[Cardinality(E)] \subseteq {e[2] : e \in E}
  BY <1>1, <1>2 DEF IsSteps
<1>4. Ancestors(E, c) \subseteq {e[2] : e \in E}
  BY <1>2, <1>3 DEF Ancestors
<1> QED
  BY <1>4, HeadsFinite

LEMMA AncestorsGrow ==
  ASSUME NEW E, NEW F, IsFiniteSet(F), E \subseteq F, NEW c
  PROVE  Ancestors(E, c) \subseteq Ancestors(F, c)
<1>1. /\ Cardinality(E) \in Nat /\ Cardinality(F) \in Nat
      /\ Cardinality(E) <= Cardinality(F)
  BY FS_Subset, FS_CardinalityType
<1>2. Reach(E, c, Cardinality(E)) \subseteq Reach(F, c, Cardinality(F))
  BY <1>1, ReachGrows
<1> QED
  BY <1>2 DEF Ancestors

-----------------------------------------------------------------------------
(* What is asked again *)

LEMMA ImageFinite ==
  ASSUME NEW S, IsFiniteSet(S), NEW f
  PROVE  IsFiniteSet({f[x] : x \in S})
<1> DEFINE g == [x \in S |-> f[x]]
<1>1. g \in Surjection(S, {f[x] : x \in S})
  BY DEF Surjection
<1> QED
  BY <1>1, FS_Surjection

\* BetweenOrder sorts.
LEMMA BetweenListed ==
  ASSUME NEW E, IsFiniteSet(E), \A e \in E : e[2] \in Int, NEW t
  PROVE  Listing(BetweenOrder(E, t), Between(E, t)) /\ IsFiniteSet(Between(E, t))
<1>1. /\ Between(E, t) \in SUBSET Int
      /\ IsFiniteSet(Between(E, t)) /\ Cardinality(Between(E, t)) \in Nat
  <2>1. Ancestors(E, t.declared) \subseteq {e[2] : e \in E}
    BY AncestorsFinite
  <2>2. Between(E, t) \in SUBSET {e[2] : e \in E}
    BY <2>1 DEF Between
  <2> QED
    BY <2>2, HeadsFinite
<1>2. PICK P : P = Between(E, t)
  OBVIOUS
<1> DEFINE key(c) == <<0 - Cardinality(Ancestors(E, c)), c>>
           order == BetweenOrder(E, t)
           pick(i) == CHOOSE s \in P : Cardinality({r \in P : Precedes(key(r), key(s))}) = i - 1
<1>3. order = [i \in 1..Cardinality(P) |-> pick(i)]
  BY <1>2 DEF BetweenOrder, SortedBy
<1>4. PICK K : K = [p \in P |-> key(p)]
  OBVIOUS
<1>5. PICK R : R = {q \in P \X P : Precedes(key(q[1]), key(q[2]))}
  OBVIOUS
<1>6. LinearOn(P, R)
  <2>1. \A p \in P : K[p] = key(p) /\ K[p] \in Seq(Int) /\ Len(K[p]) = 2
    <3> SUFFICES ASSUME NEW p \in P
                 PROVE  key(p) \in Seq(Int) /\ Len(key(p)) = 2
      BY <1>4
    <3>1. Cardinality(Ancestors(E, p)) \in Nat /\ p \in Int
      BY <1>1, <1>2, AncestorsFinite
    <3> QED
      BY <3>1
  <2>2. ASSUME NEW r \in P, NEW s \in P, K[r] = K[s]
        PROVE  r = s
    <3>1. \A p \in P : K[p][2] = p
      BY <2>1
    <3> QED
      BY <2>2, <3>1
  <2>3. \A r, s \in P : <<r, s>> \in R <=> Precedes(K[r], K[s])
    BY <1>5, <2>1
  <2>4. \A s \in P : K[s] \in Seq(Int) /\ Len(K[s]) = 2
    BY <2>1
  <2> HIDE DEF key
  <2> QED
    BY <2>2, <2>3, <2>4, KeysOrder
<1> HIDE DEF key
<1>7. \A s \in P : {r \in P : Precedes(key(r), key(s))} = Below(P, R, s)
  BY <1>5 DEF Below
<1>8. ASSUME NEW i \in 1..Cardinality(P)
      PROVE  \E s \in P : Cardinality({r \in P : Precedes(key(r), key(s))}) = i - 1
  <2>1. PICK s \in P : Cardinality(Below(P, R, s)) = i - 1
    BY <1>1, <1>2, <1>6, PlacesTaken
  <2> QED
    BY <1>7, <2>1
<1>9. \A i \in 1..Cardinality(P) :
        pick(i) \in P /\ Cardinality({r \in P : Precedes(key(r), key(pick(i)))}) = i - 1
  BY <1>8
<1> HIDE DEF order, pick
<1>10. \A i \in 1..Cardinality(P) :
        order[i] \in P /\ Cardinality(Below(P, R, order[i])) = i - 1
  BY <1>3, <1>7, <1>9
<1>11. order = [i \in 1..Cardinality(P) |-> order[i]]
  BY <1>3
<1>12. Listing(order, P)
  BY <1>1, <1>2, <1>6, <1>10, <1>11, PlacesList
<1> QED
  BY <1>1, <1>2, <1>12 DEF order

LEMMA BracketBetween ==
  ASSUME NEW E, IsFiniteSet(E), \A e \in E : e[2] \in Int, NEW t
  PROVE  Bracket(E, t) \subseteq Between(E, t) /\ IsFiniteSet(Bracket(E, t))
<1>1. Listing(BetweenOrder(E, t), Between(E, t)) /\ IsFiniteSet(Between(E, t))
  BY BetweenListed
<1>2. Bracket(E, t) \subseteq ToSet(BetweenOrder(E, t))
  BY DEF Bracket, ToSet
<1>3. Bracket(E, t) \subseteq Between(E, t)
  BY <1>1, <1>2 DEF Listing
<1> QED
  BY <1>1, <1>3, FS_Subset

LEMMA LatticeFinite ==
  /\ IsFiniteSet(StrictLattice(Corpus.projections))
  /\ \A e \in StrictLattice(Corpus.projections) : e[2] \in Int
<1> DEFINE P == {q \in Corpus.projections :
        q.concl \notin {0, q.owner} /\ ~q.explicit /\ q.instances = <<q.owner>>}
           f == [p \in P |-> <<p.owner, p.concl>>]
<1>1. IsFiniteSet(P)
  BY FS_Subset, CorpusAssumption
<1>2. IsFiniteSet({f[p] : p \in P})
  BY <1>1, ImageFinite
<1>3. {f[p] : p \in P} = StrictLattice(Corpus.projections)
  BY DEF StrictLattice
<1>4. \A e \in StrictLattice(Corpus.projections) : e[2] \in Int
  BY CorpusAssumption DEF StrictLattice
<1> QED
  BY <1>2, <1>3, <1>4

LEMMA RecoveryTyped ==
  ASSUME NEW refusals \in SUBSET Triples, IsFiniteSet(refusals)
  PROVE  /\ RecoveryTriples(Corpus.projections, refusals) \in SUBSET Triples
         /\ IsFiniteSet(RecoveryTriples(Corpus.projections, refusals))
<1>1. PICK E : E = StrictLattice(Corpus.projections)
  OBVIOUS
<1>2. IsFiniteSet(E) /\ \A e \in E : e[2] \in Int
  BY <1>1, LatticeFinite
<1> DEFINE f == [t \in refusals |-> {[t EXCEPT !.target = c] : c \in Bracket(E, t)}]
<1>3. RecoveryTriples(Corpus.projections, refusals) = UNION {f[t] : t \in refusals}
  BY <1>1 DEF RecoveryTriples
<1>4. ASSUME NEW t \in refusals
      PROVE  f[t] \in SUBSET Triples /\ IsFiniteSet(f[t])
  <2>0. PICK g : g = [c \in Bracket(E, t) |-> [t EXCEPT !.target = c]]
    OBVIOUS
  <2>1. Bracket(E, t) \subseteq Between(E, t) /\ IsFiniteSet(Bracket(E, t))
    BY <1>2, BracketBetween
  <2>2. Between(E, t) \subseteq Int
    <3>1. Between(E, t) \subseteq {e[2] : e \in E}
      BY <1>2, AncestorsFinite DEF Between
    <3> QED
      BY <1>2, <3>1
  <2>3. IsFiniteSet({g[c] : c \in Bracket(E, t)})
    BY <2>1, ImageFinite
  <2>4. f[t] = {g[c] : c \in Bracket(E, t)}
    BY <2>0
  <2>5. \A c \in Int : [t EXCEPT !.target = c] \in Triples
    BY DEF Triples
  <2>6. f[t] = {[t EXCEPT !.target = c] : c \in Bracket(E, t)}
    OBVIOUS
  <2> HIDE DEF f
  <2> QED
    BY <2>1, <2>2, <2>3, <2>4, <2>5, <2>6
<1> HIDE DEF f
<1>5. IsFiniteSet({f[t] : t \in refusals})
  BY ImageFinite
<1>6. IsFiniteSet(UNION {f[t] : t \in refusals})
  BY <1>4, <1>5, FS_UNION
<1> QED
  BY <1>3, <1>4, <1>6

\* What is asked again lies between, by parents that forget.
LEMMA RecoveryBetween ==
  ASSUME NEW refusal \in Triples,
         NEW t \in RecoveryTriples(Corpus.projections, {refusal}),
         NEW F, F = {<<p.owner, p.concl>> : p \in {q \in Corpus.projections : q.forgets}}
  PROVE  /\ t.target \in Ancestors(F, t.declared)
         /\ refusal.target \in Ancestors(F, t.target)
<1>1. PICK E : E = StrictLattice(Corpus.projections)
  OBVIOUS
<1>2. IsFiniteSet(E) /\ \A e \in E : e[2] \in Int
  BY <1>1, LatticeFinite
<1>3. PICK c \in Bracket(E, refusal) : t = [refusal EXCEPT !.target = c]
  BY <1>1 DEF RecoveryTriples
<1>4. c \in Between(E, refusal)
  BY <1>2, BracketBetween
<1>5. c \in Ancestors(E, refusal.declared) /\ refusal.target \in Ancestors(E, c)
  BY <1>4 DEF Between
<1>6. t.declared = refusal.declared /\ t.target = c
  BY <1>3 DEF Triples
<1>7. IsFiniteSet(F) /\ E \subseteq F
  <2> DEFINE P == {q \in Corpus.projections : q.forgets}
             f == [p \in P |-> <<p.owner, p.concl>>]
  <2>1. IsFiniteSet(P)
    BY FS_Subset, CorpusAssumption
  <2>2. IsFiniteSet({f[p] : p \in P})
    BY <2>1, ImageFinite
  <2>3. {f[p] : p \in P} = F
    OBVIOUS
  <2>4. E \subseteq F
    BY <1>1, CorpusAssumption DEF StrictLattice
  <2> QED
    BY <2>2, <2>3, <2>4
<1> QED
  BY <1>5, <1>6, <1>7, AncestorsGrow

-----------------------------------------------------------------------------
(* Plans *)

\* Shards are finite, not empty, and share no probe.
Plans == {s \in Seq(SUBSET Triples) :
            /\ \A k \in DOMAIN s : s[k] # {} /\ IsFiniteSet(s[k])
            /\ \A k, l \in DOMAIN s : k # l => s[k] \cap s[l] = {}}

LEMMA SubSeqOf ==
  ASSUME NEW S, NEW s \in Seq(S), NEW a \in Nat \ {0}, NEW b \in Int, b <= Len(s)
  PROVE  /\ SubSeq(s, a, b) \in Seq(S)
         /\ \A i \in DOMAIN SubSeq(s, a, b) :
              /\ a + i - 1 \in DOMAIN s /\ a + i - 1 <= b /\ i \in Nat \ {0}
              /\ SubSeq(s, a, b)[i] = s[a + i - 1]
         /\ a <= b => SubSeq(s, a, b)[1] = s[a] /\ 1 \in DOMAIN SubSeq(s, a, b)
<1>1. Len(s) \in Nat /\ DOMAIN s = 1..Len(s)
  OBVIOUS
<1>2. SubSeq(s, a, b) = [i \in 1..(IF a <= b THEN b - a + 1 ELSE 0) |-> s[a + i - 1]]
  BY <1>1
<1>3. \A i \in 1..(IF a <= b THEN b - a + 1 ELSE 0) :
        a + i - 1 \in 1..Len(s) /\ a + i - 1 <= b /\ i \in Nat \ {0} /\ s[a + i - 1] \in S
  BY <1>1
<1>4. DOMAIN SubSeq(s, a, b) = 1..(IF a <= b THEN b - a + 1 ELSE 0)
  BY <1>2
<1>5. \A i \in DOMAIN SubSeq(s, a, b) : SubSeq(s, a, b)[i] = s[a + i - 1]
  BY <1>2, <1>4
<1>6. SubSeq(s, a, b) \in Seq(S)
  <2> DEFINE n == IF a <= b THEN b - a + 1 ELSE 0
  <2>1. n \in Nat
    OBVIOUS
  <2>2. \A i \in 1..n : s[a + i - 1] \in S
    BY <1>3
  <2> HIDE DEF n
  <2>3. [i \in 1..n |-> s[a + i - 1]] \in Seq(S)
    BY <2>1, <2>2
  <2> QED
    BY <1>2, <2>3 DEF n
<1>7. ASSUME a <= b
      PROVE  SubSeq(s, a, b)[1] = s[a] /\ 1 \in DOMAIN SubSeq(s, a, b)
  <2>1. 1 \in 1..(IF a <= b THEN b - a + 1 ELSE 0)
    BY <1>7
  <2>2. a + 1 - 1 = a
    OBVIOUS
  <2> QED
    BY <1>4, <1>5, <2>1, <2>2
<1>8. \A i \in DOMAIN SubSeq(s, a, b) :
        /\ a + i - 1 \in DOMAIN s /\ a + i - 1 <= b /\ i \in Nat \ {0}
        /\ SubSeq(s, a, b)[i] = s[a + i - 1]
  BY <1>1, <1>3, <1>4, <1>5
<1> QED
  BY <1>6, <1>7, <1>8

LEMMA ChosenDistinct ==
  ASSUME NEW P \in SUBSET Triples, IsFiniteSet(P), NEW b \in Nat
  PROVE  /\ Chosen(P, b) \in Seq(Triples)
         /\ \A i, j \in DOMAIN Chosen(P, b) : Chosen(P, b)[i] = Chosen(P, b)[j] => i = j
<1>1. PICK order : order = AttemptOrder(P)
  OBVIOUS
<1>2. Listing(order, P)
  BY <1>1, PopulationListed
<1>3. order \in Seq(Triples) /\ Len(order) \in Nat
  BY <1>2 DEF Listing
<1>4. CASE b = 0
  BY <1>1, <1>2, <1>3, <1>4 DEF Chosen, Listing
<1>5. CASE b # 0
  <2>1. PICK c : c = SubSeq(order, 1, Min({b, Len(order)}))
    OBVIOUS
  <2>2. PICK e : e = Min({b, Len(order)})
    OBVIOUS
  <2>3. Len(order) \in Int /\ b \in Int
    BY <1>3
  <2>4. e \in {b, Len(order)} /\ e <= Len(order)
    BY <2>2, <2>3, MinOfTwo
  <2>5. e \in Int
    BY <2>3, <2>4
  <2>10. PICK one : one = 1
    OBVIOUS
  <2>11. one \in Nat \ {0} /\ c = SubSeq(order, one, e)
    BY <2>1, <2>2, <2>10
  <2>12. /\ SubSeq(order, one, e) \in Seq(Triples)
         /\ \A i \in DOMAIN SubSeq(order, one, e) :
              /\ one + i - 1 \in DOMAIN order /\ one + i - 1 <= e /\ i \in Nat \ {0}
              /\ SubSeq(order, one, e)[i] = order[one + i - 1]
    BY <1>3, <2>4, <2>5, <2>11, SubSeqOf
  <2>6. /\ c \in Seq(Triples)
        /\ \A i \in DOMAIN c : /\ 1 + i - 1 \in DOMAIN order /\ i \in Nat \ {0}
                               /\ c[i] = order[1 + i - 1]
    BY <2>10, <2>11, <2>12
  <2>7. \A i \in Nat : 1 + i - 1 = i
    OBVIOUS
  <2>8. \A i \in DOMAIN c : i \in DOMAIN order /\ c[i] = order[i]
    BY <2>6, <2>7
  <2>9. Chosen(P, b) = c
    BY <1>1, <1>5, <2>1 DEF Chosen
  <2> QED
    BY <1>2, <2>6, <2>8, <2>9 DEF Listing
<1> QED
  BY <1>4, <1>5

LEMMA ElementsFinite ==
  ASSUME NEW S, NEW s \in Seq(S)
  PROVE  /\ ToSet(s) \in SUBSET S /\ IsFiniteSet(ToSet(s))
         /\ 1 \in DOMAIN s => ToSet(s) # {}
<1>1. DOMAIN s = 1..Len(s) /\ Len(s) \in Nat
  OBVIOUS
<1>2. IsFiniteSet(1..Len(s))
  BY <1>1, FS_Interval
<1>3. IsFiniteSet({s[i] : i \in 1..Len(s)})
  BY <1>2, ImageFinite
<1>4. ToSet(s) = {s[i] : i \in 1..Len(s)}
  BY <1>1 DEF ToSet
<1>5. \A i \in 1..Len(s) : s[i] \in S
  BY <1>1
<1>6. ToSet(s) \in SUBSET S
  BY <1>4, <1>5
<1>7. 1 \in DOMAIN s => ToSet(s) # {}
  BY <1>1, <1>4
<1> QED
  BY <1>3, <1>4, <1>6, <1>7

LEMMA ShardsPlan ==
  ASSUME NEW c \in Seq(Triples), \A i, j \in DOMAIN c : c[i] = c[j] => i = j,
         NEW size \in Nat \ {0}
  PROVE  Shards(c, size) \in Plans
<1> DEFINE n == (Len(c) + size - 1) \div size
           piece(k) == SubSeq(c, (k - 1) * size + 1, Min({k * size, Len(c)}))
<1>1. Len(c) \in Nat /\ DOMAIN c = 1..Len(c) /\ Len(c) + size - 1 \in Nat
  OBVIOUS
<1>2. n \in Nat /\ n * size <= Len(c) + size - 1
  BY <1>1, Division
<1>3. Shards(c, size) = [k \in 1..n |-> ToSet(piece(k))]
  BY DEF Shards
<1> HIDE DEF n
<1>4. ASSUME NEW k \in 1..n
      PROVE  /\ (k - 1) * size \in Nat /\ k * size = (k - 1) * size + size
             /\ (k - 1) * size < Len(c)
  <2>1. k - 1 \in Int /\ 0 <= k - 1 /\ k <= n /\ k \in Int /\ n \in Int /\ size \in Nat
    BY <1>2
  <2>2. 0 * size <= (k - 1) * size /\ (k - 1) * size \in Int
    BY <2>1, Multiples
  <2>3. k * size <= n * size /\ k * size \in Int /\ n * size \in Int
    BY <2>1, Multiples
  <2>4. k * size = (k - 1) * size + size
    BY <2>1
  <2> QED
    BY <1>1, <1>2, <2>2, <2>3, <2>4
<1>5. ASSUME NEW k \in 1..n
      PROVE  /\ piece(k) \in Seq(Triples)
             /\ \A i \in DOMAIN piece(k) :
                  /\ i \in Nat \ {0} /\ (k - 1) * size + i \in DOMAIN c
                  /\ (k - 1) * size + i <= k * size
                  /\ piece(k)[i] = c[(k - 1) * size + i]
             /\ 1 \in DOMAIN piece(k)
  <2>1. PICK a : a = (k - 1) * size
    OBVIOUS
  <2>2. PICK b : b = Min({k * size, Len(c)})
    OBVIOUS
  <2>3. a \in Nat /\ k * size = a + size /\ a < Len(c)
    BY <1>4, <2>1
  <2>0. PICK e : e = a + size
    OBVIOUS
  <2>12. e \in Int /\ Len(c) \in Int /\ e = k * size
    BY <1>1, <2>0, <2>3
  <2>13. {k * size, Len(c)} = {e, Len(c)}
    BY <2>12
  <2>4. e \in Int /\ Len(c) \in Int /\ b = Min({e, Len(c)})
    BY <2>2, <2>12, <2>13
  <2>9. b \in {e, Len(c)} /\ b <= e /\ b <= Len(c)
    BY <2>4, MinOfTwo
  <2>5. b \in Int /\ a + 1 <= b /\ a + 1 \in Nat \ {0} /\ b <= k * size
    BY <2>0, <2>3, <2>4, <2>9
  <2>6. piece(k) = SubSeq(c, a + 1, b)
    BY <2>1, <2>2
  <2>7. /\ SubSeq(c, a + 1, b) \in Seq(Triples)
        /\ \A i \in DOMAIN SubSeq(c, a + 1, b) :
              /\ (a + 1) + i - 1 \in DOMAIN c /\ (a + 1) + i - 1 <= b /\ i \in Nat \ {0}
              /\ SubSeq(c, a + 1, b)[i] = c[(a + 1) + i - 1]
        /\ 1 \in DOMAIN SubSeq(c, a + 1, b)
    BY <2>5, <2>9, SubSeqOf
  <2>8. \A i \in Nat : (a + 1) + i - 1 = a + i
    BY <2>3
  <2> HIDE DEF piece
  <2>10. piece(k) \in Seq(Triples) /\ 1 \in DOMAIN piece(k)
    BY <2>6, <2>7
  <2>11. ASSUME NEW i \in DOMAIN piece(k)
         PROVE  /\ i \in Nat \ {0} /\ a + i \in DOMAIN c
                /\ a + i <= k * size /\ piece(k)[i] = c[a + i]
    <3>1. /\ (a + 1) + i - 1 \in DOMAIN c /\ (a + 1) + i - 1 <= b /\ i \in Nat \ {0}
          /\ piece(k)[i] = c[(a + 1) + i - 1]
      BY <2>6, <2>7
    <3>2. (a + 1) + i - 1 = a + i
      BY <2>8, <3>1
    <3> QED
      BY <2>3, <2>5, <3>1, <3>2
  <2> QED
    BY <2>1, <2>10, <2>11
<1> HIDE DEF piece
<1>6. ASSUME NEW k \in 1..n
      PROVE  /\ ToSet(piece(k)) \in SUBSET Triples
             /\ ToSet(piece(k)) # {} /\ IsFiniteSet(ToSet(piece(k)))
  <2>1. piece(k) \in Seq(Triples) /\ 1 \in DOMAIN piece(k)
    BY <1>5
  <2> QED
    BY <2>1, ElementsFinite
<1>7. ASSUME NEW k \in 1..n, NEW l \in 1..n, k < l
      PROVE  ToSet(piece(k)) \cap ToSet(piece(l)) = {}
  <2> SUFFICES ASSUME NEW i \in DOMAIN piece(k), NEW j \in DOMAIN piece(l),
                      piece(k)[i] = piece(l)[j]
               PROVE  FALSE
    BY DEF ToSet
  <2>1. (k - 1) * size + i = (l - 1) * size + j
    BY <1>5
  <2>2. (k - 1) * size + i <= k * size /\ i \in Nat /\ j \in Nat \ {0}
    BY <1>5
  <2>3. k * size <= (l - 1) * size
    BY <1>2, <1>7, Multiples
  <2>4. k * size \in Int /\ (l - 1) * size \in Int /\ (k - 1) * size \in Int
    BY <1>4
  <2> QED
    BY <2>1, <2>2, <2>3, <2>4
<1>8. ASSUME NEW k \in 1..n, NEW l \in 1..n, k # l
      PROVE  ToSet(piece(k)) \cap ToSet(piece(l)) = {}
  <2>1. k < l \/ l < k
    BY <1>2, <1>8
  <2> QED
    BY <1>7, <2>1
<1>9. Shards(c, size) \in Seq(SUBSET Triples) /\ DOMAIN Shards(c, size) = 1..n
  BY <1>2, <1>3, <1>6
<1>10. \A k \in 1..n : Shards(c, size)[k] = ToSet(piece(k))
  BY <1>3
<1> QED
  BY <1>6, <1>8, <1>9, <1>10 DEF Plans

\* Every shard is in the queue of some worker.
LEMMA QueuesCover ==
  ASSUME NEW n \in Nat, NEW k \in 1..n
  PROVE  \E w \in 1..Workers : \E i \in DOMAIN QueueOf(n, w) : QueueOf(n, w)[i] = k
<1>1. Workers \in Nat \ {0}
  BY RoundAssumption
<1>2. PICK q : q = (k - 1) \div Workers
  OBVIOUS
<1>3. k - 1 \in Nat
  OBVIOUS
<1>4. q \in Nat /\ q * Workers <= k - 1 /\ k - 1 < q * Workers + Workers
  BY <1>1, <1>2, <1>3, Division
<1>5. q * Workers \in Int
  BY <1>1, <1>4
<1>6. PICK w : w = k - q * Workers
  OBVIOUS
<1>7. w \in 1..Workers /\ w + q * Workers = k
  BY <1>1, <1>4, <1>5, <1>6
<1>8. PICK m : m = (n - w + Workers) \div Workers
  OBVIOUS
<1>9. n - w + Workers \in Nat
  BY <1>1, <1>7
<1>10. m \in Nat /\ n - w + Workers < m * Workers + Workers
  BY <1>1, <1>8, <1>9, Division
<1>11. q < m
  <2> SUFFICES ASSUME m <= q
               PROVE  FALSE
    BY <1>4, <1>10
  <2>1. m * Workers <= q * Workers /\ m * Workers \in Int
    BY <1>1, <1>4, <1>10, Multiples
  <2> QED
    BY <1>1, <1>5, <1>7, <1>10, <2>1
<1>12. q + 1 \in 1..m
  BY <1>4, <1>10, <1>11
<1>13. QueueOf(n, w) = [i \in 1..m |-> w + (i - 1) * Workers]
  BY <1>8 DEF QueueOf
<1>14. QueueOf(n, w)[q + 1] = w + ((q + 1) - 1) * Workers /\ q + 1 \in DOMAIN QueueOf(n, w)
  BY <1>12, <1>13
<1>15. (q + 1) - 1 = q
  BY <1>4
<1> QED
  BY <1>7, <1>14, <1>15

\* And queues hold numbers of shards.
LEMMA QueuesOfShards ==
  ASSUME NEW n \in Nat, NEW w \in 1..Workers
  PROVE  QueueOf(n, w) \in Seq(1..n)
<1>1. Workers \in Nat \ {0} /\ w \in Nat \ {0} /\ w <= Workers
  BY RoundAssumption
<1>2. PICK m : m = (n - w + Workers) \div Workers
  OBVIOUS
<1>3. n - w + Workers \in Nat
  BY <1>1
<1>4. m \in Nat /\ m * Workers <= n - w + Workers /\ m * Workers \in Int
  BY <1>1, <1>2, <1>3, Division
<1>5. QueueOf(n, w) = [i \in 1..m |-> w + (i - 1) * Workers]
  BY <1>2 DEF QueueOf
<1>6. ASSUME NEW i \in 1..m
      PROVE  w + (i - 1) * Workers \in 1..n
  <2>1. i - 1 \in Int /\ 0 <= i - 1 /\ i - 1 <= m - 1 /\ m - 1 \in Int
    BY <1>4
  <2>2. 0 * Workers <= (i - 1) * Workers /\ (i - 1) * Workers \in Int
    BY <1>1, <2>1, Multiples
  <2>3. (i - 1) * Workers <= (m - 1) * Workers /\ (m - 1) * Workers \in Int
    BY <1>1, <2>1, Multiples
  <2>4. (m - 1) * Workers = m * Workers - Workers
    BY <1>1, <1>4
  <2> QED
    BY <1>1, <1>4, <2>2, <2>3, <2>4
<1> QED
  BY <1>4, <1>5, <1>6

-----------------------------------------------------------------------------
(* Scores *)

Line == [probe : Triples, verdict : Verdicts \cup {"unrecognised"}]

Answers == Verdicts \cup {"unrecognised", "missing"}

\* What is asked for a shard was in a log.
LEMMA VerdictOfLine ==
  ASSUME NEW log, log.lines \in Seq(Line), NEW p
  PROVE  /\ AttemptVerdict(log, p) \in Answers
         /\ AttemptVerdict(log, p) # "missing" =>
              [probe |-> p, verdict |-> AttemptVerdict(log, p)] \in ToSet(log.lines)
<1>1. PICK s : s = log.lines
  OBVIOUS
<1>2. s \in Seq(Line) /\ Len(s) \in Nat /\ DOMAIN s = 1..Len(s)
  BY <1>1
<1>3. PICK T : T = {i \in DOMAIN s : s[i].probe = p}
  OBVIOUS
<1>4. AttemptVerdict(log, p) = IF T = {} THEN "missing" ELSE s[Max(T)].verdict
  BY <1>1, <1>3 DEF AttemptVerdict
<1>5. CASE T = {}
  BY <1>4, <1>5 DEF Answers
<1>6. CASE T # {}
  <2>1. T \in SUBSET Nat /\ \A i \in T : i <= Len(s)
    BY <1>2, <1>3
  <2>2. Max(T) \in T
    BY <1>2, <1>6, <2>1, MaxBounded
  <2>3. PICK i : i = Max(T)
    OBVIOUS
  <2>4. i \in DOMAIN s /\ s[i].probe = p
    BY <1>3, <2>2, <2>3
  <2>5. s[i] \in Line
    BY <1>2, <2>4
  <2>6. s[i].verdict \in Answers /\ s[i] = [probe |-> p, verdict |-> s[i].verdict]
    BY <2>4, <2>5 DEF Line, Answers
  <2>7. s[i] \in ToSet(s)
    BY <2>4 DEF ToSet
  <2>8. AttemptVerdict(log, p) = s[i].verdict
    BY <1>4, <1>6, <2>3
  <2> QED
    BY <1>1, <2>6, <2>7, <2>8
<1> QED
  BY <1>5, <1>6

\* Logs of shards: plants are judged when the exit status is there.
LogsOf(logs_) ==
  \A k \in DOMAIN logs_ :
    /\ logs_[k].lines \in Seq(Line)
    /\ logs_[k].exit # "none" => logs_[k].plants \in {"right", "wrong"}

LEMMA PlanFinite ==
  ASSUME NEW s \in Plans
  PROVE  /\ s \in Seq(SUBSET Triples) /\ ToSet(s) = {s[k] : k \in DOMAIN s}
         /\ UNION ToSet(s) \in SUBSET Triples /\ IsFiniteSet(UNION ToSet(s))
         /\ \A p : p \in UNION ToSet(s) <=> \E k \in DOMAIN s : p \in s[k]
<1>1. /\ s \in Seq(SUBSET Triples)
      /\ \A k \in DOMAIN s : IsFiniteSet(s[k])
  BY DEF Plans
<1>2. IsFiniteSet(ToSet(s)) /\ ToSet(s) \in SUBSET SUBSET Triples
  BY <1>1, ElementsFinite
<1>3. ToSet(s) = {s[k] : k \in DOMAIN s}
  BY DEF ToSet
<1>4. \A T \in ToSet(s) : IsFiniteSet(T)
  BY <1>1, <1>3
<1>5. IsFiniteSet(UNION ToSet(s))
  BY <1>2, <1>4, FS_UNION
<1>6. UNION ToSet(s) \in SUBSET Triples
  BY <1>2
<1>7. ASSUME NEW p
      PROVE  p \in UNION ToSet(s) <=> \E k \in DOMAIN s : p \in s[k]
  BY <1>3
<1> QED
  BY <1>1, <1>3, <1>5, <1>6, <1>7

LEMMA RowsOf ==
  ASSUME NEW s, NEW l, NEW v, NEW p
  PROVE  p \in Rows(s, l, v) <=>
           \E k \in DOMAIN s : /\ k \notin Pending(s, l) /\ k \notin Invalid(s, l)
                               /\ p \in s[k] /\ AttemptVerdict(l[k], p) = v
  BY DEF Rows

LEMMA JudgedRight ==
  ASSUME NEW s, NEW l, NEW k \in DOMAIN s, k \notin Pending(s, l), k \notin Invalid(s, l)
  PROVE  k \in DOMAIN l /\ l[k].plants = "right" /\ l[k].exit # "none"
  BY DEF Pending, Invalid, PlantsHold, Finished

\* A verdict is in the log of its shard, and the plants there were right.
LEMMA RowsSpoken ==
  ASSUME NEW s \in Plans, NEW l, LogsOf(l), NEW v \in Verdicts
  PROVE  /\ Rows(s, l, v) \in SUBSET Triples /\ IsFiniteSet(Rows(s, l, v))
         /\ \A p \in Rows(s, l, v) :
              \E k \in DOMAIN l : /\ l[k].plants = "right"
                                  /\ [probe |-> p, verdict |-> v] \in ToSet(l[k].lines)
<1>0. \A p : p \in UNION ToSet(s) <=> \E k \in DOMAIN s : p \in s[k]
  BY PlanFinite
<1>1. ASSUME NEW p \in Rows(s, l, v)
      PROVE  p \in UNION ToSet(s)
  <2>1. \E k \in DOMAIN s : p \in s[k]
    BY RowsOf
  <2> QED
    BY <1>0, <2>1
<1>2. Rows(s, l, v) \in SUBSET Triples /\ IsFiniteSet(Rows(s, l, v))
  BY <1>1, PlanFinite, FS_Subset
<1>3. ASSUME NEW p \in Rows(s, l, v)
      PROVE  \E k \in DOMAIN l : /\ l[k].plants = "right"
                                 /\ [probe |-> p, verdict |-> v] \in ToSet(l[k].lines)
  <2>1. PICK k \in DOMAIN s : /\ k \notin Pending(s, l) /\ k \notin Invalid(s, l)
                              /\ AttemptVerdict(l[k], p) = v
    BY <1>3, RowsOf
  <2>2. k \in DOMAIN l /\ l[k].plants = "right"
    BY <2>1, JudgedRight
  <2>3. l[k].lines \in Seq(Line)
    BY <2>2 DEF LogsOf
  <2>4. v # "missing"
    BY DEF Verdicts
  <2>5. [probe |-> p, verdict |-> AttemptVerdict(l[k], p)] \in ToSet(l[k].lines)
    BY <2>1, <2>3, <2>4, VerdictOfLine
  <2> QED
    BY <2>1, <2>2, <2>5
<1> QED
  BY <1>2, <1>3

LEMMA OnlyWrongInvalid ==
  ASSUME NEW s, NEW l, LogsOf(l), NEW k \in Invalid(s, l)
  PROVE  k \in DOMAIN s /\ l[k].plants = "wrong"
  BY DEF Invalid, Pending, PlantsHold, Finished, LogsOf

\* Every probe of a plan is in one part of what is scored.
Parts(s, result) ==
  <<result.proved, result.not_proved, result.no_statement, result.unrecognised,
    result.missing, UNION {s[k] : k \in result.invalid}>>

LEMMA FieldsOf ==
  ASSUME NEW s, NEW l
  PROVE  LET result == ScoredAttempts(s, l)
         IN /\ result.proved = Rows(s, l, "proved")
            /\ result.not_proved = Rows(s, l, "not_proved")
            /\ result.no_statement = Rows(s, l, "no_statement")
            /\ result.unrecognised = Rows(s, l, "unrecognised")
            /\ result.missing = Missing(s, l)
            /\ result.invalid = Invalid(s, l)
            /\ \A v \in Verdicts : result[v] = Rows(s, l, v)
  BY DEF ScoredAttempts, Verdicts

\* The part a probe of shard k is in.
LEMMA PartOfProbe ==
  ASSUME NEW s \in Plans, NEW l, LogsOf(l), NEW k \in DOMAIN s, NEW p \in s[k]
  PROVE  /\ \A v : p \in Rows(s, l, v) <=>
                     /\ k \notin Pending(s, l) /\ k \notin Invalid(s, l)
                     /\ AttemptVerdict(l[k], p) = v
         /\ p \in Missing(s, l) <=>
              \/ k \in Pending(s, l)
              \/ k \notin Invalid(s, l) /\ AttemptVerdict(l[k], p) = "missing"
         /\ p \in UNION {s[m] : m \in Invalid(s, l)} <=> k \in Invalid(s, l)
         /\ ~ (k \in Pending(s, l) /\ k \in Invalid(s, l))
         /\ k \notin Pending(s, l) /\ k \notin Invalid(s, l) =>
              AttemptVerdict(l[k], p) \in Answers
<1>1. \A m \in DOMAIN s : p \in s[m] => m = k
  BY DEF Plans
<1>2. \A v : p \in Rows(s, l, v) <=>
               /\ k \notin Pending(s, l) /\ k \notin Invalid(s, l)
               /\ AttemptVerdict(l[k], p) = v
  BY <1>1, RowsOf
<1>3. /\ Pending(s, l) \subseteq DOMAIN s /\ Invalid(s, l) \subseteq DOMAIN s
      /\ ~ (k \in Pending(s, l) /\ k \in Invalid(s, l))
  BY DEF Pending, Invalid
<1>4. /\ p \in UNION {s[m] : m \in Invalid(s, l)} <=> k \in Invalid(s, l)
      /\ p \in UNION {s[m] : m \in Pending(s, l)} <=> k \in Pending(s, l)
  BY <1>1, <1>3
<1>5. p \in Missing(s, l) <=>
        p \in Rows(s, l, "missing") \/ p \in UNION {s[m] : m \in Pending(s, l)}
  BY DEF Missing
<1>6. ASSUME k \notin Pending(s, l), k \notin Invalid(s, l)
      PROVE  AttemptVerdict(l[k], p) \in Answers
  <2>1. k \in DOMAIN l
    BY <1>6, JudgedRight
  <2>2. l[k].lines \in Seq(Line)
    BY <2>1 DEF LogsOf
  <2> QED
    BY <2>2, VerdictOfLine
<1> QED
  BY <1>2, <1>3, <1>4, <1>5, <1>6

LEMMA PartsExact ==
  ASSUME NEW s \in Plans, NEW l, LogsOf(l),
         NEW parts, parts = Parts(s, ScoredAttempts(s, l))
  PROVE  /\ UNION ToSet(parts) = UNION ToSet(s)
         /\ \A i, j \in DOMAIN parts : i # j => parts[i] \cap parts[j] = {}
<1> DEFINE discarded == UNION {s[m] : m \in Invalid(s, l)}
<1>1. PICK r : r = ScoredAttempts(s, l)
  OBVIOUS
<1>2. /\ r.proved = Rows(s, l, "proved") /\ r.not_proved = Rows(s, l, "not_proved")
      /\ r.no_statement = Rows(s, l, "no_statement")
      /\ r.unrecognised = Rows(s, l, "unrecognised")
      /\ r.missing = Missing(s, l) /\ r.invalid = Invalid(s, l)
  BY <1>1, FieldsOf
<1>3. parts = <<Rows(s, l, "proved"), Rows(s, l, "not_proved"), Rows(s, l, "no_statement"),
                Rows(s, l, "unrecognised"), Missing(s, l), discarded>>
  BY <1>1, <1>2 DEF Parts
<1> HIDE DEF discarded
<1>4. /\ DOMAIN parts = 1..6
      /\ parts[1] = Rows(s, l, "proved") /\ parts[2] = Rows(s, l, "not_proved")
      /\ parts[3] = Rows(s, l, "no_statement") /\ parts[4] = Rows(s, l, "unrecognised")
      /\ parts[5] = Missing(s, l) /\ parts[6] = discarded
  BY <1>3
<1>5. ToSet(parts) = {Rows(s, l, "proved"), Rows(s, l, "not_proved"),
                      Rows(s, l, "no_statement"), Rows(s, l, "unrecognised"),
                      Missing(s, l), discarded}
  <2>1. ToSet(parts) = {parts[i] : i \in 1..6}
    BY <1>4 DEF ToSet
  <2>2. \A i \in 1..6 : i = 1 \/ i = 2 \/ i = 3 \/ i = 4 \/ i = 5 \/ i = 6
    OBVIOUS
  <2>3. 1 \in 1..6 /\ 2 \in 1..6 /\ 3 \in 1..6 /\ 4 \in 1..6 /\ 5 \in 1..6 /\ 6 \in 1..6
    OBVIOUS
  <2>4. {parts[i] : i \in 1..6} =
          {parts[1], parts[2], parts[3], parts[4], parts[5], parts[6]}
    BY <2>2, <2>3
  <2> QED
    BY <1>4, <2>1, <2>4
<1>6. ASSUME NEW p
      PROVE  p \in UNION ToSet(s) <=> \E k \in DOMAIN s : p \in s[k]
  BY PlanFinite
<1>7. ASSUME NEW i \in 1..6, NEW p \in parts[i]
      PROVE  \E k \in DOMAIN s : p \in s[k]
  <2>1. \A v : p \in Rows(s, l, v) => \E k \in DOMAIN s : p \in s[k]
    BY RowsOf
  <2>2. p \in Missing(s, l) => \E k \in DOMAIN s : p \in s[k]
    BY <2>1 DEF Missing, Pending
  <2>3. p \in discarded => \E k \in DOMAIN s : p \in s[k]
    BY DEF discarded, Invalid
  <2> QED
    BY <1>4, <1>7, <2>1, <2>2, <2>3
<1>8. ASSUME NEW k \in DOMAIN s, NEW p \in s[k]
      PROVE  /\ \E i \in 1..6 : p \in parts[i]
             /\ \A i, j \in 1..6 : p \in parts[i] /\ p \in parts[j] => i = j
  <2>0. PICK a : a = AttemptVerdict(l[k], p)
    OBVIOUS
  <2>1. /\ \A v : p \in Rows(s, l, v) <=>
                     /\ k \notin Pending(s, l) /\ k \notin Invalid(s, l) /\ a = v
        /\ p \in Missing(s, l) <=>
              \/ k \in Pending(s, l)
              \/ k \notin Invalid(s, l) /\ a = "missing"
        /\ p \in discarded <=> k \in Invalid(s, l)
        /\ ~ (k \in Pending(s, l) /\ k \in Invalid(s, l))
        /\ k \notin Pending(s, l) /\ k \notin Invalid(s, l) => a \in Answers
    BY <2>0, PartOfProbe DEF discarded
  <2>2. PICK P : P = (k \in Pending(s, l))
    OBVIOUS
  <2>3. PICK I : I = (k \in Invalid(s, l))
    OBVIOUS
  <2>4. ~P /\ ~I => a \in {"proved", "not_proved", "no_statement", "unrecognised", "missing"}
    BY <2>1, <2>2, <2>3 DEF Answers, Verdicts
  <2>5. /\ p \in parts[1] <=> ~P /\ ~I /\ a = "proved"
        /\ p \in parts[2] <=> ~P /\ ~I /\ a = "not_proved"
        /\ p \in parts[3] <=> ~P /\ ~I /\ a = "no_statement"
        /\ p \in parts[4] <=> ~P /\ ~I /\ a = "unrecognised"
        /\ p \in parts[5] <=> P \/ (~I /\ a = "missing")
        /\ p \in parts[6] <=> I
        /\ ~ (P /\ I)
    BY <1>4, <2>1, <2>2, <2>3
  <2>6. \A i \in 1..6 : i = 1 \/ i = 2 \/ i = 3 \/ i = 4 \/ i = 5 \/ i = 6
    OBVIOUS
  <2>7. 1 \in 1..6 /\ 2 \in 1..6 /\ 3 \in 1..6 /\ 4 \in 1..6 /\ 5 \in 1..6 /\ 6 \in 1..6
    OBVIOUS
  <2>8. \E i \in 1..6 : p \in parts[i]
    BY <2>4, <2>5, <2>7
  <2>9. \A i, j \in 1..6 : p \in parts[i] /\ p \in parts[j] => i = j
    BY <2>5, <2>6
  <2> QED
    BY <2>8, <2>9
<1>9. UNION ToSet(parts) = UNION ToSet(s)
  <2>1. \A p : p \in UNION ToSet(parts) <=> \E i \in 1..6 : p \in parts[i]
    BY <1>4 DEF ToSet
  <2> QED
    BY <1>6, <1>7, <1>8, <2>1
<1>10. \A i, j \in 1..6 : i # j => parts[i] \cap parts[j] = {}
  BY <1>7, <1>8
<1> QED
  BY <1>4, <1>9, <1>10

\* With no shard discarded, the verdicts and the rest are the whole plan.
LEMMA WholePlan ==
  ASSUME NEW s \in Plans, NEW l, LogsOf(l), NEW r, r = ScoredAttempts(s, l), ~RedGate(r)
  PROVE  /\ r.invalid = {}
         /\ UNION {r[v] : v \in Verdicts \cup {"unrecognised", "missing"}} = UNION ToSet(s)
<1>1. r.invalid = {}
  BY DEF RedGate
<1>2. PICK parts : parts = Parts(s, r)
  OBVIOUS
<1>3. UNION ToSet(parts) = UNION ToSet(s)
  BY <1>2, PartsExact
<1>4. parts = <<r.proved, r.not_proved, r.no_statement, r.unrecognised, r.missing, {}>>
  BY <1>1, <1>2 DEF Parts
<1>5. ToSet(parts) = {r.proved, r.not_proved, r.no_statement, r.unrecognised, r.missing, {}}
  <2>1. /\ DOMAIN parts = 1..6
        /\ parts[1] = r.proved /\ parts[2] = r.not_proved /\ parts[3] = r.no_statement
        /\ parts[4] = r.unrecognised /\ parts[5] = r.missing /\ parts[6] = {}
    BY <1>4
  <2>2. \A i \in 1..6 : i = 1 \/ i = 2 \/ i = 3 \/ i = 4 \/ i = 5 \/ i = 6
    OBVIOUS
  <2>3. 1 \in 1..6 /\ 2 \in 1..6 /\ 3 \in 1..6 /\ 4 \in 1..6 /\ 5 \in 1..6 /\ 6 \in 1..6
    OBVIOUS
  <2>4. ToSet(parts) = {parts[1], parts[2], parts[3], parts[4], parts[5], parts[6]}
    BY <2>1, <2>2, <2>3 DEF ToSet
  <2> QED
    BY <2>1, <2>4
<1>6. {r[v] : v \in Verdicts \cup {"unrecognised", "missing"}} =
        {r.proved, r.not_proved, r.no_statement, r.unrecognised, r.missing}
  BY DEF Verdicts
<1> QED
  BY <1>1, <1>3, <1>5, <1>6

-----------------------------------------------------------------------------
(* The invariant *)

Probes == {p \in SUBSET Triples : p # {} /\ IsFiniteSet(p)}

ByRound(f) == f = [r \in Rounds |-> f[r]]

Shaped ==
  /\ ByRound(planned) /\ ByRound(logs) /\ ByRound(scored)
  /\ ByRound(triples) /\ ByRound(novelty) /\ ByRound(job)

Scratched == \A x \in DOMAIN scratch : scratch[x] \in Probes

\* A plan has its shards on disk.
PlansWritten ==
  \A r \in Rounds : planned[r] # Nothing =>
    planned[r] \in Plans /\ \A k \in DOMAIN planned[r] : <<Prefix[r], k>> \in DOMAIN scratch

\* A log with plants that are right says what Lean spoke.
LogsEarned ==
  \A r \in Rounds :
    /\ LogsOf(logs[r])
    /\ \A k \in DOMAIN logs[r] :
         logs[r][k].plants = "right" => ToSet(logs[r][k].lines) \subseteq spoken

IsWorker(w) ==
  /\ w \in [round : Rounds, orphan : BOOLEAN, id : Int, reading : Probes \cup {Nothing},
            failed : BOOLEAN, queue : Seq(Int)]
  /\ \A i \in DOMAIN w.queue : <<Prefix[w.round], w.queue[i]>> \in DOMAIN scratch
  /\ w.reading # Nothing => w.queue # <<>>

WorkersRead == \A w \in workers : IsWorker(w)

ScoresTyped ==
  \A r \in Rounds : scored[r] # Nothing =>
    \A v \in Verdicts : scored[r][v] \in SUBSET Triples /\ IsFiniteSet(scored[r][v])

IsJob(j) ==
  /\ j = [at |-> j.at, from |-> j.from, until |-> j.until, joining |-> j.joining,
          failed |-> j.failed]
  /\ j.at \in ToSet(STAGES) /\ j.from \in ToSet(STAGES) /\ j.until \in ToSet(STAGES)
  /\ StageNumber(j.at) <= StageNumber(j.until)
  /\ j.joining \in BOOLEAN /\ (j.joining => j.at = "run")

\* A shard that workers were started for is in a log, or will be, or the
\* invocation stops.
Awaited(r, k) ==
  \/ k \in DOMAIN logs[r]
  \/ \E w \in Own(r) : w.failed \/ \E i \in DOMAIN w.queue : w.queue[i] = k

\* What an invocation knows of its round at each stage.
JobKnows(r, j) ==
  /\ IsJob(j)
  /\ j.joining => planned[r] # Nothing /\ \A k \in DOMAIN planned[r] : Awaited(r, k)
  /\ j.at \in {"score", "screen"} /\ j.from \in {"plan", "run"} =>
       planned[r] # Nothing /\ DOMAIN planned[r] \subseteq DOMAIN logs[r]
  /\ j.at = "screen" /\ j.from # "screen" =>
       /\ scored[r].invalid = {}
       /\ UNION {scored[r][v] : v \in Verdicts \cup {"unrecognised", "missing"}}
            = UNION ToSet(planned[r])

JobsKnow == \A r \in Rounds : job[r] # Nothing => JobKnows(r, job[r])

Inductive ==
  /\ Shaped /\ Scratched /\ PlansWritten /\ LogsEarned /\ WorkersRead
  /\ ScoresTyped /\ VerdictsEarned /\ JobsKnow

LEMMA Updated ==
  ASSUME NEW f, ByRound(f), NEW r \in Rounds, NEW x, NEW g, g = [f EXCEPT ![r] = x]
  PROVE  ByRound(g) /\ g[r] = x /\ \A q \in Rounds \ {r} : g[q] = f[q]
  BY DEF ByRound

LEMMA StageRanks ==
  /\ ToSet(STAGES) = {"plan", "run", "score", "screen"}
  /\ StageNumber("plan") = 1 /\ StageNumber("run") = 2
  /\ StageNumber("score") = 3 /\ StageNumber("screen") = 4
  /\ STAGES[2] = "run" /\ STAGES[3] = "score" /\ STAGES[4] = "screen"
<1>1. /\ DOMAIN STAGES = 1..4 /\ STAGES[1] = "plan" /\ STAGES[2] = "run"
      /\ STAGES[3] = "score" /\ STAGES[4] = "screen"
  BY DEF STAGES
<1>2. \A i \in 1..4 : i = 1 \/ i = 2 \/ i = 3 \/ i = 4
  OBVIOUS
<1>3. 1 \in 1..4 /\ 2 \in 1..4 /\ 3 \in 1..4 /\ 4 \in 1..4
  OBVIOUS
<1>4. ToSet(STAGES) = {STAGES[1], STAGES[2], STAGES[3], STAGES[4]}
  BY <1>1, <1>2, <1>3 DEF ToSet
<1>5. \A i, j \in 1..4 : STAGES[i] = STAGES[j] => i = j
  BY <1>1, <1>2
<1>6. \A i \in 1..4 : StageNumber(STAGES[i]) = i
  <2> TAKE i \in 1..4
  <2>1. StageNumber(STAGES[i]) \in 1..4 /\ STAGES[StageNumber(STAGES[i])] = STAGES[i]
    BY <1>1 DEF StageNumber
  <2> QED
    BY <1>5, <2>1
<1> QED
  BY <1>1, <1>3, <1>4, <1>6

\* The stage that follows.
LEMMA NextStage ==
  ASSUME NEW j, IsJob(j), j.at # j.until
  PROVE  /\ j.at \in {"plan", "run", "score"}
         /\ STAGES[StageNumber(j.at) + 1] =
              IF j.at = "plan" THEN "run" ELSE IF j.at = "run" THEN "score" ELSE "screen"
         /\ STAGES[StageNumber(j.at) + 1] \in ToSet(STAGES)
         /\ StageNumber(STAGES[StageNumber(j.at) + 1]) <= StageNumber(j.until)
<1>1. /\ j.at \in {"plan", "run", "score", "screen"}
      /\ j.until \in {"plan", "run", "score", "screen"}
      /\ StageNumber(j.at) <= StageNumber(j.until)
  BY StageRanks DEF IsJob
<1>2. 1 + 1 = 2 /\ 2 + 1 = 3 /\ 3 + 1 = 4
  OBVIOUS
<1>3. CASE j.at = "plan"
  BY <1>1, <1>2, <1>3, StageRanks
<1>4. CASE j.at = "run"
  BY <1>1, <1>2, <1>4, StageRanks
<1>5. CASE j.at = "score"
  BY <1>1, <1>2, <1>5, StageRanks
<1>6. CASE j.at = "screen"
  BY <1>1, <1>6, StageRanks
<1> QED
  BY <1>1, <1>3, <1>4, <1>5, <1>6

LEMMA Advanced ==
  ASSUME ByRound(job), NEW r \in Rounds, job[r] # Nothing, IsJob(job[r]), ~job[r].joining,
         Advance(r)
  PROVE  /\ ByRound(job)'
         /\ \A q \in Rounds \ {r} : job'[q] = job[q]
         /\ \/ job'[r] = Nothing
            \/ /\ IsJob(job[r])' /\ job'[r].from = job[r].from /\ ~job'[r].joining
               /\ job[r].at \in {"plan", "run", "score"}
               /\ job'[r].at = IF job[r].at = "plan" THEN "run"
                               ELSE IF job[r].at = "run" THEN "score" ELSE "screen"
<1>1. CASE job[r].at = job[r].until
  <2>1. job' = [job EXCEPT ![r] = Nothing]
    BY <1>1 DEF Advance, Leave
  <2> QED
    BY <2>1 DEF ByRound
<1>2. CASE job[r].at # job[r].until
  <2>1. PICK j : j = job[r]
    OBVIOUS
  <2>2. PICK s : s = STAGES[StageNumber(j.at) + 1]
    OBVIOUS
  <2>3. IsJob(j) /\ j.at # j.until /\ ~j.joining
    BY <1>2, <2>1
  <2>4. /\ j.at \in {"plan", "run", "score"}
        /\ s = IF j.at = "plan" THEN "run" ELSE IF j.at = "run" THEN "score" ELSE "screen"
        /\ s \in ToSet(STAGES) /\ StageNumber(s) <= StageNumber(j.until)
    BY <2>2, <2>3, NextStage
  <2>5. job' = [job EXCEPT ![r] = [j EXCEPT !.at = s]]
    BY <1>2, <2>1, <2>2 DEF Advance
  <2>6. PICK k : k = [j EXCEPT !.at = s]
    OBVIOUS
  <2>7. k = [at |-> s, from |-> j.from, until |-> j.until, joining |-> j.joining,
             failed |-> j.failed]
    BY <2>3, <2>6 DEF IsJob
  <2>8. IsJob(k) /\ k.from = j.from /\ ~k.joining /\ k.at = s
    BY <2>3, <2>4, <2>7 DEF IsJob
  <2>9. job' = [job EXCEPT ![r] = k]
    BY <2>5, <2>6
  <2>10. ByRound(job)' /\ job'[r] = k /\ \A q \in Rounds \ {r} : job'[q] = job[q]
    BY <2>9 DEF ByRound
  <2>11. IsJob(job[r])' <=> IsJob(k)
    BY <2>10 DEF IsJob
  <2> QED
    BY <2>1, <2>4, <2>8, <2>10, <2>11 DEF ByRound
<1> QED
  BY <1>1, <1>2

LEMMA Left ==
  ASSUME ByRound(job), NEW r \in Rounds, NEW failed, Leave(r, failed)
  PROVE  ByRound(job)' /\ job'[r] = Nothing /\ \A q \in Rounds \ {r} : job'[q] = job[q]
  BY DEF Leave, ByRound

-----------------------------------------------------------------------------
(* What a step leaves alone *)

LEMMA PlansKept ==
  ASSUME PlansWritten, planned' = planned, DOMAIN scratch \subseteq DOMAIN scratch'
  PROVE  PlansWritten'
  BY DEF PlansWritten

LEMMA LogsKept ==
  ASSUME LogsEarned, logs' = logs, spoken \subseteq spoken'
  PROVE  LogsEarned'
<1>1. \A r \in Rounds :
        /\ LogsOf(logs[r])
        /\ \A k \in DOMAIN logs[r] :
             logs[r][k].plants = "right" => ToSet(logs[r][k].lines) \subseteq spoken
  BY DEF LogsEarned
<1>2. \A r \in Rounds : LogsOf(logs[r])' <=> LogsOf(logs[r])
  BY DEF LogsOf
<1> QED
  BY <1>1, <1>2 DEF LogsEarned

LEMMA WorkerKept ==
  ASSUME NEW w, IsWorker(w), DOMAIN scratch \subseteq DOMAIN scratch'
  PROVE  IsWorker(w)'
  BY DEF IsWorker

LEMMA WorkersKept ==
  ASSUME WorkersRead, workers' \subseteq workers, DOMAIN scratch \subseteq DOMAIN scratch'
  PROVE  WorkersRead'
<1>1. \A w \in workers' : IsWorker(w)'
  BY WorkerKept DEF WorkersRead
<1> QED
  BY <1>1 DEF WorkersRead

LEMMA EarnedKept ==
  ASSUME VerdictsEarned, scored' = scored, novelty' = novelty, spoken \subseteq spoken'
  PROVE  VerdictsEarned'
  BY DEF VerdictsEarned

LEMMA AwaitedKept ==
  ASSUME NEW q, Own(q) \subseteq Own(q)', DOMAIN logs[q] \subseteq DOMAIN logs'[q],
         NEW k, Awaited(q, k)
  PROVE  Awaited(q, k)'
<1>1. CASE k \in DOMAIN logs[q]
  BY <1>1 DEF Awaited
<1>2. CASE \E w \in Own(q) : w.failed \/ \E i \in DOMAIN w.queue : w.queue[i] = k
  <2>1. PICK w \in Own(q) : w.failed \/ \E i \in DOMAIN w.queue : w.queue[i] = k
    BY <1>2
  <2>2. w \in Own(q)'
    BY <2>1
  <2> QED
    BY <2>1, <2>2 DEF Awaited
<1> QED
  BY <1>1, <1>2 DEF Awaited

\* Nothing an invocation knows is lost while its plan and scores stay, its
\* logs only grow, and its workers go on.
LEMMA KnowsKept ==
  ASSUME NEW q, NEW j, JobKnows(q, j), planned'[q] = planned[q], scored'[q] = scored[q],
         DOMAIN logs[q] \subseteq DOMAIN logs'[q],
         j.joining => \A k \in DOMAIN planned[q] : Awaited(q, k) => Awaited(q, k)'
  PROVE  JobKnows(q, j)'
<1>1. IsJob(j)'
  BY DEF JobKnows, IsJob
<1> QED
  BY <1>1 DEF JobKnows

LEMMA JobsKept ==
  ASSUME JobsKnow, NEW r \in Rounds,
         \A q \in Rounds \ {r} :
           /\ job'[q] = job[q] /\ planned'[q] = planned[q] /\ scored'[q] = scored[q]
           /\ DOMAIN logs[q] \subseteq DOMAIN logs'[q] /\ Own(q) \subseteq Own(q)',
         (job[r] = Nothing \/ JobKnows(r, job[r]))'
  PROVE  JobsKnow'
<1> SUFFICES ASSUME NEW q \in Rounds, job'[q] # Nothing
             PROVE  JobKnows(q, job[q])'
  BY DEF JobsKnow
<1>1. CASE q = r
  BY <1>1
<1>2. CASE q # r
  <2>1. PICK j : j = job[q]
    OBVIOUS
  <2>2. job'[q] = j /\ JobKnows(q, j)
    BY <1>2, <2>1 DEF JobsKnow
  <2>3. \A k : Awaited(q, k) => Awaited(q, k)'
    BY <1>2, AwaitedKept
  <2>4. JobKnows(q, j)'
    BY <1>2, <2>2, <2>3, KnowsKept
  <2>5. JobKnows(q, job[q])' <=> JobKnows(q, j)'
    BY <2>2
  <2> QED
    BY <2>4, <2>5
<1> QED
  BY <1>1, <1>2

\* An invocation that ends.
LEMMA JobsLeave ==
  ASSUME JobsKnow, NEW r \in Rounds,
         \A q \in Rounds \ {r} : job'[q] = job[q] /\ Own(q) \subseteq Own(q)',
         planned' = planned, scored' = scored, logs' = logs, job'[r] = Nothing
  PROVE  JobsKnow'
  BY JobsKept

-----------------------------------------------------------------------------
(* Invocations *)

LEMMA Begins == RoundInit => Inductive
<1> SUFFICES ASSUME RoundInit
             PROVE  Inductive
  OBVIOUS
<1>1. Shaped
  BY DEF RoundInit, Shaped, ByRound
<1>2. Scratched /\ WorkersRead
  BY DEF RoundInit, Scratched, WorkersRead
<1>3. PlansWritten /\ ScoresTyped /\ VerdictsEarned /\ JobsKnow
  BY DEF RoundInit, PlansWritten, ScoresTyped, VerdictsEarned, JobsKnow
<1>4. LogsEarned
  BY DEF RoundInit, LogsEarned, LogsOf
<1> QED
  BY <1>1, <1>2, <1>3, <1>4 DEF Inductive

LEMMA StartKeeps ==
  ASSUME Inductive, NEW r \in Rounds, Start(r)
  PROVE  Inductive'
<1>1. /\ UNCHANGED files /\ workers' = workers /\ spoken' = spoken
  BY DEF Start
<1>2. PICK from \in ToSet(STAGES), until \in ToSet(STAGES) :
        /\ StageNumber(from) <= StageNumber(until)
        /\ job' = [job EXCEPT ![r] = [at |-> from, from |-> from, until |-> until,
                                      joining |-> FALSE, failed |-> manifest[r]]]
  BY DEF Start
<1>3. PICK j : j = [at |-> from, from |-> from, until |-> until,
                    joining |-> FALSE, failed |-> manifest[r]]
  OBVIOUS
<1>4. job' = [job EXCEPT ![r] = j]
  BY <1>2, <1>3
<1>5. ByRound(job)' /\ job'[r] = j /\ \A q \in Rounds \ {r} : job'[q] = job[q]
  BY <1>4 DEF Inductive, Shaped, ByRound
<1>6. IsJob(j) /\ ~j.joining /\ j.at = j.from
  BY <1>2, <1>3 DEF IsJob
<1>7. JobKnows(r, j)'
  BY <1>6 DEF JobKnows, IsJob
<1>8. JobKnows(r, job[r])'
  BY <1>5, <1>7
<1>9. \A q \in Rounds : Own(q) \subseteq Own(q)'
  BY <1>1 DEF Own
<1>10. JobsKnow'
  BY <1>1, <1>5, <1>8, <1>9, JobsKept DEF Inductive, files
<1>11. Shaped'
  BY <1>1, <1>5 DEF Inductive, Shaped, ByRound, files
<1>12. Scratched' /\ PlansWritten' /\ WorkersRead'
  BY <1>1, PlansKept, WorkersKept DEF Inductive, Scratched, files
<1>13. LogsEarned' /\ VerdictsEarned'
  BY <1>1, LogsKept, EarnedKept DEF Inductive, files
<1>14. ScoresTyped'
  BY <1>1 DEF Inductive, ScoresTyped, files
<1> QED
  BY <1>10, <1>11, <1>12, <1>13, <1>14 DEF Inductive

\* Whatever is planned is a plan.
LEMMA Planned ==
  ASSUME Shaped, ScoresTyped, NEW population \in Populations, NEW asked
  PROVE  Shards(Chosen(population \ asked, RoundBudget), ShardSize) \in Plans
<1>1. population \in SUBSET Triples /\ IsFiniteSet(population)
  <2>1. CASE population = Refuted
    <3>1. IsFiniteSet(Refuted)
      BY RoundAssumption
    <3>2. ASSUME NEW t \in Refuted
          PROVE  t \in Triples
      <4>1. t = Triple(t.decl, t.declared, t.target)
            /\ t.decl \in Int /\ t.declared \in Int /\ t.target \in Int
        BY RoundAssumption
      <4>2. Triple(t.decl, t.declared, t.target) \in Triples
        BY <4>1 DEF Triple, Triples
      <4> QED
        BY <4>1, <4>2
    <3> QED
      BY <2>1, <3>1, <3>2
  <2>2. ASSUME NEW q \in Rounds, scored[q] # Nothing
        PROVE  /\ scored[q].not_proved \in SUBSET Triples /\ IsFiniteSet(scored[q].not_proved)
               /\ scored[q].no_statement \in SUBSET Triples
               /\ IsFiniteSet(scored[q].no_statement)
    <3>1. "not_proved" \in Verdicts /\ "no_statement" \in Verdicts
      BY DEF Verdicts
    <3>2. /\ scored[q]["not_proved"] \in SUBSET Triples /\ IsFiniteSet(scored[q]["not_proved"])
          /\ scored[q]["no_statement"] \in SUBSET Triples
          /\ IsFiniteSet(scored[q]["no_statement"])
      BY <2>2, <3>1 DEF ScoresTyped
    <3> QED
      BY <3>2
  <2>3. ASSUME NEW q \in Rounds, scored[q] # Nothing
        PROVE  /\ RecoveryTriples(Corpus.projections, scored[q].no_statement) \in SUBSET Triples
               /\ IsFiniteSet(RecoveryTriples(Corpus.projections, scored[q].no_statement))
    <3>1. PICK n : n = scored[q].no_statement
      OBVIOUS
    <3>2. n \in SUBSET Triples /\ IsFiniteSet(n)
      BY <2>2, <2>3, <3>1
    <3> QED
      BY <3>1, <3>2, RecoveryTyped
  <2> QED
    BY <2>1, <2>2, <2>3 DEF Populations
<1>2. PICK P : P = population \ asked
  OBVIOUS
<1>3. P \in SUBSET Triples /\ IsFiniteSet(P)
  BY <1>1, <1>2, FS_Subset
<1>4. RoundBudget \in Nat /\ ShardSize \in Nat \ {0}
  BY RoundAssumption
<1>5. PICK c : c = Chosen(P, RoundBudget)
  OBVIOUS
<1>6. c \in Seq(Triples) /\ \A i, j \in DOMAIN c : c[i] = c[j] => i = j
  BY <1>3, <1>4, <1>5, ChosenDistinct
<1> QED
  BY <1>2, <1>4, <1>5, <1>6, ShardsPlan

LEMMA PlanStageKeeps ==
  ASSUME Inductive, NEW r \in Rounds, PlanStage(r)
  PROVE  Inductive'
<1>1. /\ job[r] # Nothing /\ job[r].at = "plan"
      /\ logs' = logs /\ scored' = scored /\ triples' = triples /\ novelty' = novelty
      /\ workers' = workers /\ spoken' = spoken
  BY DEF PlanStage, At
<1>2. PICK population \in Populations, excluded \in SUBSET {q \in Rounds : scored[q] # Nothing} :
        LET asked == UNION {Asked(scored[q]) : q \in excluded}
            shards == Shards(Chosen(population \ asked, RoundBudget), ShardSize)
            written == [f \in {<<Prefix[r], k>> : k \in DOMAIN shards} |-> shards[f[2]]]
        IN \/ /\ scratch' = Over(written, scratch)
              /\ planned' = [planned EXCEPT ![r] = shards]
              /\ Advance(r)
           \/ /\ scratch' \in {scratch, Over(written, scratch)}
              /\ Stop(r, "plan")
              /\ UNCHANGED planned
  BY DEF PlanStage
<1>3. PICK shards :
        shards = Shards(Chosen(population \ UNION {Asked(scored[q]) : q \in excluded}, RoundBudget),
                        ShardSize)
  OBVIOUS
<1>4. shards \in Plans
  BY <1>3, Planned DEF Inductive
<1>5. PICK written :
        written = [f \in {<<Prefix[r], k>> : k \in DOMAIN shards} |-> shards[f[2]]]
  OBVIOUS
<1>6. \/ /\ scratch' = Over(written, scratch)
         /\ planned' = [planned EXCEPT ![r] = shards]
         /\ Advance(r)
      \/ /\ scratch' \in {scratch, Over(written, scratch)}
         /\ Stop(r, "plan")
         /\ planned' = planned
  BY <1>2, <1>3, <1>5
<1>7. /\ \A k \in DOMAIN shards : shards[k] \in Probes /\ <<Prefix[r], k>> \in DOMAIN written
      /\ \A x \in DOMAIN written : written[x] \in Probes
  <2>1. \A k \in DOMAIN shards : shards[k] \in SUBSET Triples /\ shards[k] # {} /\ IsFiniteSet(shards[k])
    BY <1>4 DEF Plans
  <2>2. \A k \in DOMAIN shards : shards[k] \in Probes
    BY <2>1 DEF Probes
  <2>3. DOMAIN written = {<<Prefix[r], k>> : k \in DOMAIN shards}
    BY <1>5
  <2>4. \A x \in DOMAIN written : written[x] = shards[x[2]] /\ x[2] \in DOMAIN shards
    BY <1>5
  <2> QED
    BY <2>2, <2>3, <2>4
<1>8. PICK new : new = Over(written, scratch)
  OBVIOUS
<1>9. /\ DOMAIN new = DOMAIN written \cup DOMAIN scratch
      /\ \A x \in DOMAIN new : new[x] = IF x \in DOMAIN written THEN written[x] ELSE scratch[x]
  BY <1>8 DEF Over
<1>10. \A x \in DOMAIN new : new[x] \in Probes
  BY <1>7, <1>9 DEF Inductive, Scratched
<1>11. scratch' = new \/ scratch' = scratch
  BY <1>6, <1>8
<1>12. Scratched' /\ DOMAIN scratch \subseteq DOMAIN scratch'
  BY <1>9, <1>10, <1>11 DEF Inductive, Scratched
<1>13. WorkersRead'
  BY <1>1, <1>12, WorkersKept DEF Inductive
<1>14. LogsEarned' /\ VerdictsEarned'
  BY <1>1, LogsKept, EarnedKept DEF Inductive
<1>15. ScoresTyped'
  BY <1>1 DEF Inductive, ScoresTyped
<1>16. \A q \in Rounds : Own(q) \subseteq Own(q)'
  BY <1>1 DEF Own
<1>17. JobKnows(r, job[r])
  BY <1>1 DEF Inductive, JobsKnow
<1>18. IsJob(job[r]) /\ ~job[r].joining
  BY <1>1, <1>17 DEF JobKnows, IsJob
<1>19. CASE scratch' = new /\ planned' = [planned EXCEPT ![r] = shards] /\ Advance(r)
  <2>1. ByRound(planned)' /\ planned'[r] = shards /\ \A q \in Rounds \ {r} : planned'[q] = planned[q]
    BY <1>19 DEF Inductive, Shaped, ByRound
  <2>2. /\ ByRound(job)'
        /\ \A q \in Rounds \ {r} : job'[q] = job[q]
        /\ \/ job'[r] = Nothing
           \/ IsJob(job[r])' /\ ~job'[r].joining /\ job'[r].at = "run"
    BY <1>1, <1>18, <1>19, Advanced DEF Inductive, Shaped
  <2>3. PlansWritten'
    <3> SUFFICES ASSUME NEW q \in Rounds, planned'[q] # Nothing
                 PROVE  /\ planned'[q] \in Plans
                        /\ \A k \in DOMAIN planned'[q] : <<Prefix[q], k>> \in DOMAIN scratch'
      BY DEF PlansWritten
    <3>1. CASE q = r
      BY <1>4, <1>7, <1>9, <1>19, <2>1, <3>1
    <3>2. CASE q # r
      BY <1>12, <2>1, <3>2 DEF Inductive, PlansWritten
    <3> QED
      BY <3>1, <3>2
  <2>4. (job[r] = Nothing \/ JobKnows(r, job[r]))'
    BY <2>2 DEF JobKnows
  <2>5. JobsKnow'
    BY <1>1, <1>16, <2>1, <2>2, <2>4, JobsKept DEF Inductive
  <2>6. Shaped'
    BY <1>1, <2>1, <2>2 DEF Inductive, Shaped, ByRound
  <2> QED
    BY <1>12, <1>13, <1>14, <1>15, <2>3, <2>5, <2>6 DEF Inductive
<1>20. CASE Stop(r, "plan") /\ planned' = planned
  <2>1. ByRound(job)' /\ job'[r] = Nothing /\ \A q \in Rounds \ {r} : job'[q] = job[q]
    BY <1>20, Left DEF Inductive, Shaped, Stop
  <2>2. JobsKnow'
    BY <1>1, <1>16, <1>20, <2>1, JobsLeave DEF Inductive
  <2>3. Shaped' /\ PlansWritten'
    BY <1>1, <1>12, <1>20, <2>1, PlansKept DEF Inductive, Shaped, ByRound
  <2> QED
    BY <1>12, <1>13, <1>14, <1>15, <2>2, <2>3 DEF Inductive
<1> QED
  BY <1>6, <1>8, <1>19, <1>20

\* Workers that start have all shards of the plan in their queues.
LEMMA RunStageKeeps ==
  ASSUME Inductive, NEW r \in Rounds, RunStage(r)
  PROVE  Inductive'
<1>1. /\ job[r] # Nothing /\ job[r].at = "run" /\ ~job[r].joining
      /\ scratch' = scratch /\ planned' = planned /\ logs' = logs /\ scored' = scored
      /\ triples' = triples /\ novelty' = novelty /\ spoken' = spoken
  BY DEF RunStage, At
<1>2. LogsEarned' /\ VerdictsEarned'
  BY <1>1, LogsKept, EarnedKept DEF Inductive
<1>3. Scratched' /\ PlansWritten' /\ ScoresTyped'
  BY <1>1, PlansKept DEF Inductive, Scratched, ScoresTyped
<1>4. CASE (\E failed : Leave(r, failed)) /\ workers' = workers
  <2>1. ByRound(job)' /\ job'[r] = Nothing /\ \A q \in Rounds \ {r} : job'[q] = job[q]
    BY <1>4, Left DEF Inductive, Shaped
  <2>2. \A q \in Rounds : Own(q) \subseteq Own(q)'
    BY <1>4 DEF Own
  <2>3. JobsKnow'
    BY <1>1, <2>1, <2>2, JobsLeave DEF Inductive
  <2>4. Shaped'
    BY <1>1, <2>1 DEF Inductive, Shaped, ByRound
  <2>5. WorkersRead'
    BY <1>1, <1>4, WorkersKept DEF Inductive
  <2> QED
    BY <1>2, <1>3, <2>3, <2>4, <2>5 DEF Inductive
<1>5. CASE /\ planned[r] # Nothing
           /\ workers' = workers \cup
                {[round |-> r, orphan |-> FALSE, id |-> w, reading |-> Nothing, failed |-> FALSE,
                  queue |-> QueueOf(Len(planned[r]), w)] :
                   w \in {v \in 1..Workers : QueueOf(Len(planned[r]), v) # <<>>}}
           /\ job' = [job EXCEPT ![r].joining = TRUE]
  <2>1. PICK n : n = Len(planned[r])
    OBVIOUS
  <2>2. /\ n \in Nat /\ DOMAIN planned[r] = 1..n
        /\ \A k \in 1..n : <<Prefix[r], k>> \in DOMAIN scratch
    <3>1. planned[r] \in Plans /\ \A k \in DOMAIN planned[r] : <<Prefix[r], k>> \in DOMAIN scratch
      BY <1>5 DEF Inductive, PlansWritten
    <3>2. PICK s : s = planned[r]
      OBVIOUS
    <3>3. s \in Seq(SUBSET Triples)
      BY <3>1, <3>2 DEF Plans
    <3>4. Len(s) \in Nat /\ DOMAIN s = 1..Len(s)
      BY <3>3
    <3> QED
      BY <2>1, <3>1, <3>2, <3>4
  <2>3. PICK new : new = [w \in 1..Workers |->
               [round |-> r, orphan |-> FALSE, id |-> w, reading |-> Nothing, failed |-> FALSE,
                queue |-> QueueOf(n, w)]]
    OBVIOUS
  <2>4. workers' = workers \cup {new[w] : w \in {v \in 1..Workers : QueueOf(n, v) # <<>>}}
    BY <1>5, <2>1, <2>3
  <2>5. ASSUME NEW w \in 1..Workers
        PROVE  /\ IsWorker(new[w]) /\ new[w].round = r /\ ~new[w].orphan
               /\ new[w].queue = QueueOf(n, w)
    <3>1. PICK s : s = QueueOf(n, w)
      OBVIOUS
    <3>2. s \in Seq(1..n)
      BY <2>2, <3>1, QueuesOfShards
    <3>3. s \in Seq(Int) /\ \A i \in DOMAIN s : s[i] \in 1..n
      BY <2>2, <3>2
    <3>4. new[w] = [round |-> r, orphan |-> FALSE, id |-> w, reading |-> Nothing,
                    failed |-> FALSE, queue |-> s]
      BY <2>3, <3>1
    <3>5. w \in Int
      BY RoundAssumption
    <3> QED
      BY <2>2, <3>1, <3>3, <3>4, <3>5 DEF IsWorker
  <2>6. WorkersRead'
    <3>1. \A w \in workers' : IsWorker(w)
      BY <2>4, <2>5 DEF Inductive, WorkersRead
    <3>2. \A w \in workers' : IsWorker(w)'
      BY <1>1, <3>1, WorkerKept
    <3> QED
      BY <3>2 DEF WorkersRead
  <2>7. \A q \in Rounds : Own(q) \subseteq Own(q)'
    BY <2>4 DEF Own
  <2>8. PICK j : j = [job[r] EXCEPT !.joining = TRUE]
    OBVIOUS
  <2>9. job' = [job EXCEPT ![r] = j]
    BY <1>5, <2>8
  <2>10. ByRound(job)' /\ job'[r] = j /\ \A q \in Rounds \ {r} : job'[q] = job[q]
    BY <2>9 DEF Inductive, Shaped, ByRound
  <2>11. IsJob(job[r])
    BY <1>1 DEF Inductive, JobsKnow, JobKnows
  <2>12. IsJob(j) /\ j.at = "run" /\ j.from = job[r].from
    BY <1>1, <2>8, <2>11 DEF IsJob
  <2>13. ASSUME NEW k \in 1..n
         PROVE  Awaited(r, k)'
    <3>1. PICK w \in 1..Workers : \E i \in DOMAIN QueueOf(n, w) : QueueOf(n, w)[i] = k
      BY <2>2, QueuesCover
    <3>2. QueueOf(n, w) # <<>>
      BY <3>1
    <3>3. new[w] \in workers' /\ new[w] \in Own(r)'
      BY <2>4, <2>5, <3>2 DEF Own
    <3>4. PICK v : v = new[w]
      OBVIOUS
    <3>5. \E i \in DOMAIN v.queue : v.queue[i] = k
      BY <2>5, <3>1, <3>4
    <3>6. v \in Own(r)'
      BY <3>3, <3>4
    <3> QED
      BY <3>5, <3>6 DEF Awaited
  <2>14. IsJob(j)'
    BY <2>12 DEF IsJob
  <2>15. JobKnows(r, j)'
    BY <1>1, <1>5, <2>2, <2>12, <2>13, <2>14 DEF JobKnows
  <2>16. JobKnows(r, job[r])'
    BY <2>10, <2>15
  <2>17. JobsKnow'
    BY <1>1, <2>7, <2>10, <2>16, JobsKept DEF Inductive
  <2>18. Shaped'
    BY <1>1, <2>10 DEF Inductive, Shaped, ByRound
  <2> QED
    BY <1>2, <1>3, <2>6, <2>17, <2>18 DEF Inductive
<1> QED
  BY <1>4, <1>5 DEF RunStage, Stop, Raise

-----------------------------------------------------------------------------
(* Workers *)

LEMMA LogWritten ==
  ASSUME Shaped, NEW r \in Rounds, NEW k, NEW log, WriteLog(r, k, log)
  PROVE  /\ ByRound(logs)'
         /\ \A q \in Rounds \ {r} : logs'[q] = logs[q]
         /\ DOMAIN logs'[r] = DOMAIN logs[r] \cup {k}
         /\ logs'[r][k] = log
         /\ \A m \in DOMAIN logs[r] \ {k} : logs'[r][m] = logs[r][m]
<1>1. PICK new : new = Over([f \in {k} |-> log], logs[r])
  OBVIOUS
<1>2. logs' = [logs EXCEPT ![r] = new]
  BY <1>1 DEF WriteLog
<1>3. ByRound(logs)' /\ logs'[r] = new /\ \A q \in Rounds \ {r} : logs'[q] = logs[q]
  BY <1>2 DEF Shaped, ByRound
<1>4. /\ DOMAIN new = DOMAIN logs[r] \cup {k} /\ new[k] = log
      /\ \A m \in DOMAIN logs[r] \ {k} : new[m] = logs[r][m]
  BY <1>1 DEF Over
<1> QED
  BY <1>3, <1>4

\* A log that is written and earned leaves all logs earned.
LEMMA LogsWritten ==
  ASSUME Shaped, LogsEarned, NEW r \in Rounds, NEW k, NEW log, WriteLog(r, k, log),
         log.lines \in Seq(Line), log.exit # "none" => log.plants \in {"right", "wrong"},
         log.plants = "right" => ToSet(log.lines) \subseteq spoken',
         spoken \subseteq spoken'
  PROVE  LogsEarned'
<1> SUFFICES ASSUME NEW q \in Rounds
             PROVE  /\ LogsOf(logs'[q])
                    /\ \A m \in DOMAIN logs'[q] :
                         logs'[q][m].plants = "right" => ToSet(logs'[q][m].lines) \subseteq spoken'
  BY DEF LogsEarned
<1>1. /\ LogsOf(logs[q])
      /\ \A m \in DOMAIN logs[q] :
           logs[q][m].plants = "right" => ToSet(logs[q][m].lines) \subseteq spoken
  BY DEF LogsEarned
<1>2. CASE q # r
  <2>1. logs'[q] = logs[q]
    BY <1>2, LogWritten
  <2> QED
    BY <1>1, <2>1
<1>3. CASE q = r
  <2>1. PICK l : l = logs'[r]
    OBVIOUS
  <2>2. DOMAIN l = DOMAIN logs[r] \cup {k} /\ l[k] = log
        /\ \A m \in DOMAIN logs[r] \ {k} : l[m] = logs[r][m]
    BY <2>1, LogWritten
  <2>3. LogsOf(l)
    BY <1>1, <1>3, <2>2 DEF LogsOf
  <2>4. \A m \in DOMAIN l : l[m].plants = "right" => ToSet(l[m].lines) \subseteq spoken'
    BY <1>1, <1>3, <2>2
  <2> QED
    BY <1>3, <2>1, <2>3, <2>4
<1> QED
  BY <1>2, <1>3

\* A worker that is replaced by one of the same round.
LEMMA WorkersReplaced ==
  ASSUME WorkersRead, NEW w \in workers, NEW v, Replace(w, v), IsWorker(v), v.round = w.round,
         v.orphan = w.orphan, scratch' = scratch
  PROVE  /\ WorkersRead'
         /\ \A q \in Rounds \ {w.round} : Own(q) \subseteq Own(q)'
         /\ \A q \in Rounds : Own(q) \ {w} \subseteq Own(q)'
         /\ \A q \in Rounds : w \in Own(q) => v \in Own(q)'
<1>1. workers' = (workers \ {w}) \cup {v}
  BY DEF Replace
<1>2. \A u \in workers' : IsWorker(u)
  BY <1>1 DEF WorkersRead
<1>3. \A u \in workers' : IsWorker(u)'
  BY <1>2, WorkerKept
<1> QED
  BY <1>1, <1>3 DEF WorkersRead, Own

\* While the worker that is replaced covers as much with its log, so does
\* the round.
LEMMA ReplacedKnows ==
  ASSUME Inductive, NEW w \in workers, NEW v, Replace(w, v), IsWorker(v), v.round = w.round,
         v.orphan = w.orphan, scratch' = scratch,
         planned' = planned, scored' = scored, job' = job,
         \A q \in Rounds : DOMAIN logs[q] \subseteq DOMAIN logs'[q],
         \/ v.failed
         \/ /\ ~w.failed
            /\ \A i \in DOMAIN w.queue :
                 \/ w.queue[i] \in DOMAIN logs'[w.round]
                 \/ \E m \in DOMAIN v.queue : v.queue[m] = w.queue[i]
  PROVE  JobsKnow'
<1>1. /\ \A q \in Rounds \ {w.round} : Own(q) \subseteq Own(q)'
      /\ \A q \in Rounds : Own(q) \ {w} \subseteq Own(q)'
      /\ \A q \in Rounds : w \in Own(q) => v \in Own(q)'
      /\ w.round \in Rounds
  BY WorkersReplaced DEF Inductive, WorkersRead, IsWorker
<1>2. PICK r : r = w.round
  OBVIOUS
<1>3. CASE job[r] = Nothing
  <2>1. (job[r] = Nothing \/ JobKnows(r, job[r]))'
    BY <1>3
  <2> QED
    BY <1>1, <1>2, <2>1, JobsKept DEF Inductive
<1>4. CASE job[r] # Nothing
  <2>1. PICK j : j = job[r]
    OBVIOUS
  <2>2. JobKnows(r, j)
    BY <1>1, <1>2, <1>4, <2>1 DEF Inductive, JobsKnow
  <2>3. ASSUME NEW k, Awaited(r, k)
        PROVE  Awaited(r, k)'
    <3>1. CASE k \in DOMAIN logs[r]
      BY <1>1, <1>2, <3>1 DEF Awaited
    <3>2. CASE k \notin DOMAIN logs[r]
      <4>1. PICK u \in Own(r) : u.failed \/ \E i \in DOMAIN u.queue : u.queue[i] = k
        BY <2>3, <3>2 DEF Awaited
      <4>2. CASE u # w
        <5>1. u \in Own(r)'
          BY <1>1, <1>2, <4>1, <4>2
        <5> QED
          BY <4>1, <5>1 DEF Awaited
      <4>3. CASE u = w
        <5>1. v \in Own(r)'
          BY <1>1, <1>2, <4>1, <4>3
        <5>2. \/ v.failed
              \/ k \in DOMAIN logs'[r]
              \/ \E m \in DOMAIN v.queue : v.queue[m] = k
          BY <1>2, <4>1, <4>3
        <5> QED
          BY <5>1, <5>2 DEF Awaited
      <4> QED
        BY <4>2, <4>3
    <3> QED
      BY <3>1, <3>2
  <2>4. JobKnows(r, j)'
    BY <1>1, <1>2, <2>2, <2>3, KnowsKept
  <2>5. job'[r] = j
    BY <2>1
  <2>6. JobKnows(r, job[r])'
    BY <2>4, <2>5
  <2> QED
    BY <1>1, <1>2, <2>6, JobsKept DEF Inductive
<1> QED
  BY <1>3, <1>4

LEMMA OpenShardKeeps ==
  ASSUME Inductive, NEW w \in workers, OpenShard(w)
  PROVE  Inductive'
<1>1. PICK k : k = Head(w.queue)
  OBVIOUS
<1>2. PICK log : log = [lines |-> <<>>, plants |-> "absent", exit |-> "none"]
  OBVIOUS
<1>3. PICK v : v = [w EXCEPT !.reading = scratch[<<Prefix[w.round], k>>]]
  OBVIOUS
<1>4. /\ w.queue # <<>> /\ w.reading = Nothing
      /\ Replace(w, v) /\ WriteLog(w.round, k, log)
      /\ scratch' = scratch /\ planned' = planned /\ scored' = scored /\ triples' = triples
      /\ novelty' = novelty /\ job' = job /\ spoken' = spoken
  BY <1>1, <1>2, <1>3 DEF OpenShard
<1>5. IsWorker(w)
  BY DEF Inductive, WorkersRead
<1>6. PICK s : s = w.queue
  OBVIOUS
<1>7. s \in Seq(Int) /\ s # <<>> /\ 1 \in DOMAIN s /\ k = s[1]
  <2>1. s \in Seq(Int) /\ s # <<>>
    BY <1>4, <1>5, <1>6 DEF IsWorker
  <2>2. 1 \in DOMAIN s /\ Head(s) = s[1]
    BY <2>1
  <2> QED
    BY <1>1, <1>6, <2>1, <2>2
<1>8. <<Prefix[w.round], k>> \in DOMAIN scratch /\ scratch[<<Prefix[w.round], k>>] \in Probes
  BY <1>5, <1>6, <1>7 DEF IsWorker, Inductive, Scratched
<1>9. /\ IsWorker(v) /\ v.round = w.round /\ v.orphan = w.orphan /\ v.failed = w.failed
      /\ v.queue = w.queue /\ w.round \in Rounds
  <2>1. PICK p : p = scratch[<<Prefix[w.round], k>>]
    OBVIOUS
  <2>2. v = [w EXCEPT !.reading = p] /\ p \in Probes
    BY <1>3, <1>8, <2>1
  <2>3. /\ v.round = w.round /\ v.orphan = w.orphan /\ v.failed = w.failed
        /\ v.queue = w.queue /\ w.round \in Rounds
        /\ v \in [round : Rounds, orphan : BOOLEAN, id : Int, reading : Probes \cup {Nothing},
                  failed : BOOLEAN, queue : Seq(Int)]
    BY <1>5, <2>2 DEF IsWorker
  <2> QED
    BY <1>4, <1>5, <2>3 DEF IsWorker
<1>10. WorkersRead'
  BY <1>4, <1>9, WorkersReplaced DEF Inductive
<1>11. log.lines \in Seq(Line) /\ log.exit = "none" /\ log.plants # "right"
  BY <1>2
<1>12. LogsEarned'
  BY <1>4, <1>9, <1>11, LogsWritten DEF Inductive
<1>13. /\ ByRound(logs)' /\ k \in DOMAIN logs'[w.round]
       /\ \A q \in Rounds : DOMAIN logs[q] \subseteq DOMAIN logs'[q]
  BY <1>4, <1>9, LogWritten DEF Inductive
<1>14. \/ v.failed
       \/ /\ ~w.failed
          /\ \A i \in DOMAIN w.queue :
               \/ w.queue[i] \in DOMAIN logs'[w.round]
               \/ \E m \in DOMAIN v.queue : v.queue[m] = w.queue[i]
  BY <1>9
<1>15. JobsKnow'
  BY <1>4, <1>9, <1>13, <1>14, ReplacedKnows
<1>16. Shaped'
  BY <1>4, <1>13 DEF Inductive, Shaped, ByRound
<1>17. Scratched' /\ PlansWritten' /\ ScoresTyped'
  BY <1>4, PlansKept DEF Inductive, Scratched, ScoresTyped
<1>18. VerdictsEarned'
  BY <1>4, EarnedKept DEF Inductive
<1> QED
  BY <1>10, <1>12, <1>15, <1>16, <1>17, <1>18 DEF Inductive

\* What a worker writes when Lean has answered for the shard it holds.
LEMMA LogOfShard ==
  ASSUME NEW held \in Probes, NEW outcome \in [held -> LeanMay],
         NEW order, order = LogOrder({p \in held : outcome[p].verdict # "missing"}),
         NEW some, some = outcome[CHOOSE p \in held : TRUE],
         NEW log, log = [lines |-> [i \in DOMAIN order |->
                                      [probe |-> order[i], verdict |-> outcome[order[i]].verdict]],
                         plants |-> some.plants, exit |-> some.exit]
  PROVE  log.lines \in Seq(Line) /\ log.plants \in {"right", "wrong"}
<1>1. PICK P : P = {p \in held : outcome[p].verdict # "missing"}
  OBVIOUS
<1>2. held \in SUBSET Triples /\ held # {} /\ IsFiniteSet(held)
  BY DEF Probes
<1>3. P \in SUBSET Triples /\ IsFiniteSet(P)
  BY <1>1, <1>2, FS_Subset
<1>4. Listing(order, P)
  BY <1>1, <1>3, LinesListed
<1>5. order \in Seq(P) /\ Len(order) \in Nat /\ DOMAIN order = 1..Len(order)
  BY <1>4 DEF Listing
<1>6. LeanMay \subseteq [verdict : Verdicts \cup {"unrecognised", "missing"},
                         plants : {"right", "wrong"}, exit : {"zero", "nonzero"}]
  BY RoundAssumption
<1>7. \A p \in held : /\ outcome[p].verdict \in Verdicts \cup {"unrecognised", "missing"}
                      /\ outcome[p].plants \in {"right", "wrong"}
  BY <1>6
<1>8. some.plants \in {"right", "wrong"}
  BY <1>2, <1>7
<1>9. \A p \in P : [probe |-> p, verdict |-> outcome[p].verdict] \in Line
  BY <1>1, <1>3, <1>7 DEF Line
<1>10. \A i \in 1..Len(order) : order[i] \in P
  BY <1>5
<1>11. log.lines = [i \in 1..Len(order) |->
                      [probe |-> order[i], verdict |-> outcome[order[i]].verdict]]
  BY <1>5
<1>12. \A i \in 1..Len(order) :
         [probe |-> order[i], verdict |-> outcome[order[i]].verdict] \in Line
  BY <1>9, <1>10
<1>13. PICK lines : lines = log.lines
  OBVIOUS
<1>14. PICK n : n = Len(order)
  OBVIOUS
<1>15. /\ n \in Nat /\ lines = [i \in 1..n |-> lines[i]]
       /\ \A i \in 1..n : lines[i] \in Line
  BY <1>5, <1>11, <1>12, <1>13, <1>14
<1>16. lines \in Seq(Line)
  BY <1>15
<1> QED
  BY <1>8, <1>13, <1>16

LEMMA CloseShardKeeps ==
  ASSUME Inductive, NEW w \in workers, CloseShard(w)
  PROVE  Inductive'
<1>1. PICK k : k = Head(w.queue)
  OBVIOUS
<1>2. PICK v : v = [w EXCEPT !.reading = Nothing, !.queue = Tail(w.queue)]
  OBVIOUS
<1>3. PICK held : held = w.reading
  OBVIOUS
<1>4. /\ held # Nothing /\ Replace(w, v)
      /\ scratch' = scratch /\ planned' = planned /\ scored' = scored /\ triples' = triples
      /\ novelty' = novelty /\ job' = job
  BY <1>2, <1>3 DEF CloseShard
<1>5. PICK outcome \in [held -> LeanMay] :
        LET order == LogOrder({p \in held : outcome[p].verdict # "missing"})
            some == outcome[CHOOSE p \in held : TRUE]
            log == [lines |-> [i \in DOMAIN order |->
                                 [probe |-> order[i], verdict |-> outcome[order[i]].verdict]],
                    plants |-> some.plants, exit |-> some.exit]
        IN /\ WriteLog(w.round, k, log)
           /\ spoken' = IF log.plants = "right" THEN spoken \cup ToSet(log.lines) ELSE spoken
  BY <1>1, <1>3 DEF CloseShard
<1>6. PICK order : order = LogOrder({p \in held : outcome[p].verdict # "missing"})
  OBVIOUS
<1>7. PICK some : some = outcome[CHOOSE p \in held : TRUE]
  OBVIOUS
<1>8. PICK log : log = [lines |-> [i \in DOMAIN order |->
                                     [probe |-> order[i], verdict |-> outcome[order[i]].verdict]],
                        plants |-> some.plants, exit |-> some.exit]
  OBVIOUS
<1>9. /\ WriteLog(w.round, k, log)
      /\ spoken' = IF log.plants = "right" THEN spoken \cup ToSet(log.lines) ELSE spoken
  BY <1>5, <1>6, <1>7, <1>8
<1>10. IsWorker(w)
  BY DEF Inductive, WorkersRead
<1>11. held \in Probes
  BY <1>3, <1>4, <1>10 DEF IsWorker
<1>12. log.lines \in Seq(Line) /\ log.plants \in {"right", "wrong"}
  BY <1>6, <1>7, <1>8, <1>11, LogOfShard
<1>13. spoken \subseteq spoken' /\ (log.plants = "right" => ToSet(log.lines) \subseteq spoken')
  BY <1>9
<1>14. PICK s : s = w.queue
  OBVIOUS
<1>15. /\ s \in Seq(Int) /\ s # <<>> /\ k = s[1]
       /\ Tail(s) \in Seq(Int) /\ DOMAIN Tail(s) = 1..(Len(s) - 1)
       /\ \A i \in DOMAIN Tail(s) : Tail(s)[i] = s[i + 1]
       /\ Len(s) \in Nat \ {0} /\ DOMAIN s = 1..Len(s)
  <2>1. s \in Seq(Int) /\ s # <<>>
    BY <1>3, <1>4, <1>10, <1>14 DEF IsWorker
  <2>2. Head(s) = s[1] /\ Len(s) \in Nat \ {0} /\ DOMAIN s = 1..Len(s)
    BY <2>1
  <2>3. /\ Tail(s) \in Seq(Int) /\ DOMAIN Tail(s) = 1..(Len(s) - 1)
        /\ \A i \in DOMAIN Tail(s) : Tail(s)[i] = s[i + 1]
    BY <2>1
  <2> QED
    BY <1>1, <1>14, <2>1, <2>2, <2>3
<1>16. PICK t : t = Tail(s)
  OBVIOUS
<1>17. /\ v.round = w.round /\ v.orphan = w.orphan /\ v.failed = w.failed
       /\ v.queue = t /\ v.reading = Nothing /\ w.round \in Rounds
       /\ v \in [round : Rounds, orphan : BOOLEAN, id : Int, reading : Probes \cup {Nothing},
                 failed : BOOLEAN, queue : Seq(Int)]
  BY <1>2, <1>10, <1>14, <1>15, <1>16 DEF IsWorker
<1>18. \A i \in DOMAIN t : \E m \in DOMAIN s : t[i] = s[m]
  <2> TAKE i \in DOMAIN t
  <2>1. i + 1 \in 1..Len(s)
    BY <1>15, <1>16
  <2> QED
    BY <1>15, <1>16, <2>1
<1>19. IsWorker(v)
  BY <1>10, <1>14, <1>17, <1>18 DEF IsWorker
<1>20. WorkersRead'
  BY <1>4, <1>17, <1>19, WorkersReplaced DEF Inductive
<1>21. LogsEarned'
  BY <1>9, <1>12, <1>13, <1>17, LogsWritten DEF Inductive
<1>22. /\ ByRound(logs)' /\ k \in DOMAIN logs'[w.round]
       /\ \A q \in Rounds : DOMAIN logs[q] \subseteq DOMAIN logs'[q]
  BY <1>9, <1>17, LogWritten DEF Inductive
<1>23. \A i \in DOMAIN s : s[i] = k \/ \E m \in DOMAIN t : t[m] = s[i]
  <2> TAKE i \in DOMAIN s
  <2>1. CASE i = 1
    BY <1>15, <2>1
  <2>2. CASE i # 1
    <3>1. i - 1 \in 1..(Len(s) - 1) /\ (i - 1) + 1 = i
      BY <1>15, <2>2
    <3>2. i - 1 \in DOMAIN t /\ t[i - 1] = s[i]
      BY <1>15, <1>16, <3>1
    <3> QED
      BY <3>2
  <2> QED
    BY <2>1, <2>2
<1>24. \/ v.failed
       \/ /\ ~w.failed
          /\ \A i \in DOMAIN w.queue :
               \/ w.queue[i] \in DOMAIN logs'[w.round]
               \/ \E m \in DOMAIN v.queue : v.queue[m] = w.queue[i]
  BY <1>14, <1>17, <1>22, <1>23
<1>25. JobsKnow'
  BY <1>4, <1>17, <1>19, <1>22, <1>24, ReplacedKnows
<1>26. Shaped'
  BY <1>4, <1>22 DEF Inductive, Shaped, ByRound
<1>27. Scratched' /\ PlansWritten' /\ ScoresTyped'
  BY <1>4, PlansKept DEF Inductive, Scratched, ScoresTyped
<1>28. VerdictsEarned'
  BY <1>4, <1>13, EarnedKept DEF Inductive
<1> QED
  BY <1>20, <1>21, <1>25, <1>26, <1>27, <1>28 DEF Inductive

LEMMA WorkerFailsKeeps ==
  ASSUME Inductive, NEW w \in workers, WorkerFails(w)
  PROVE  Inductive'
<1>1. /\ scratch' = scratch /\ planned' = planned /\ logs' = logs /\ scored' = scored
      /\ triples' = triples /\ novelty' = novelty /\ job' = job /\ spoken' = spoken
  BY DEF WorkerFails, files
<1>2. Shaped' /\ Scratched' /\ PlansWritten' /\ ScoresTyped'
  BY <1>1, PlansKept DEF Inductive, Shaped, ByRound, Scratched, ScoresTyped
<1>3. LogsEarned' /\ VerdictsEarned'
  BY <1>1, LogsKept, EarnedKept DEF Inductive
<1>4. IsWorker(w) /\ w.round \in Rounds
  BY DEF Inductive, WorkersRead, IsWorker
<1>5. CASE w.orphan
  <2>1. workers' = workers \ {w}
    BY <1>5 DEF WorkerFails
  <2>2. \A q \in Rounds : Own(q) \subseteq Own(q)'
    BY <1>5, <2>1 DEF Own
  <2>3. WorkersRead'
    BY <1>1, <2>1, WorkersKept DEF Inductive
  <2>4. \A q \in Rounds : job[q] # Nothing => JobKnows(q, job[q])
    BY DEF Inductive, JobsKnow
  <2>5. ASSUME NEW q \in Rounds, job'[q] # Nothing
        PROVE  JobKnows(q, job[q])'
    <3>1. PICK j : j = job[q]
      OBVIOUS
    <3>2. JobKnows(q, j) /\ job'[q] = j
      BY <1>1, <2>4, <2>5, <3>1
    <3>3. \A k : Awaited(q, k) => Awaited(q, k)'
      BY <1>1, <2>2, AwaitedKept
    <3>4. JobKnows(q, j)'
      BY <1>1, <3>2, <3>3, KnowsKept
    <3> QED
      BY <3>2, <3>4
  <2>6. JobsKnow'
    BY <2>5 DEF JobsKnow
  <2> QED
    BY <1>2, <1>3, <2>3, <2>6 DEF Inductive
<1>6. CASE ~w.orphan
  <2>1. PICK v : v = [w EXCEPT !.queue = <<>>, !.reading = Nothing, !.failed = TRUE]
    OBVIOUS
  <2>2. Replace(w, v)
    BY <1>6, <2>1 DEF WorkerFails
  <2>6. /\ v = [round |-> w.round, orphan |-> w.orphan, id |-> w.id, reading |-> Nothing,
                failed |-> TRUE, queue |-> <<>>]
        /\ w.round \in Rounds /\ w.orphan \in BOOLEAN /\ w.id \in Int
    BY <1>4, <2>1 DEF IsWorker
  <2>7. PICK nothing : nothing = <<>>
    OBVIOUS
  <2>8. nothing \in Seq(Int) /\ DOMAIN nothing = {}
    BY <2>7
  <2>9. v = [round |-> w.round, orphan |-> w.orphan, id |-> w.id, reading |-> Nothing,
             failed |-> TRUE, queue |-> nothing]
    BY <2>6, <2>7
  <2>3. IsWorker(v) /\ v.round = w.round /\ v.orphan = w.orphan /\ v.failed
    BY <2>6, <2>8, <2>9 DEF IsWorker
  <2>4. WorkersRead'
    BY <1>1, <2>2, <2>3, WorkersReplaced DEF Inductive
  <2>5. JobsKnow'
    BY <1>1, <2>2, <2>3, ReplacedKnows
  <2> QED
    BY <1>2, <1>3, <2>4, <2>5 DEF Inductive
<1> QED
  BY <1>5, <1>6

LEMMA OrphanEndsKeeps ==
  ASSUME Inductive, NEW w \in workers, OrphanEnds(w)
  PROVE  Inductive'
<1>1. /\ scratch' = scratch /\ planned' = planned /\ logs' = logs /\ scored' = scored
      /\ triples' = triples /\ novelty' = novelty /\ job' = job /\ spoken' = spoken
      /\ workers' = workers \ {w} /\ w.orphan
  BY DEF OrphanEnds, files
<1>2. Shaped' /\ Scratched' /\ PlansWritten' /\ ScoresTyped'
  BY <1>1, PlansKept DEF Inductive, Shaped, ByRound, Scratched, ScoresTyped
<1>3. LogsEarned' /\ VerdictsEarned'
  BY <1>1, LogsKept, EarnedKept DEF Inductive
<1>4. WorkersRead'
  BY <1>1, WorkersKept DEF Inductive
<1>5. \A q \in Rounds : Own(q) \subseteq Own(q)'
  BY <1>1 DEF Own
<1>6. ASSUME NEW q \in Rounds, job'[q] # Nothing
      PROVE  JobKnows(q, job[q])'
  <2>1. PICK j : j = job[q]
    OBVIOUS
  <2>2. JobKnows(q, j) /\ job'[q] = j
    BY <1>1, <1>6, <2>1 DEF Inductive, JobsKnow
  <2>3. \A k : Awaited(q, k) => Awaited(q, k)'
    BY <1>1, <1>5, AwaitedKept
  <2>4. JobKnows(q, j)'
    BY <1>1, <2>2, <2>3, KnowsKept
  <2> QED
    BY <2>2, <2>4
<1>7. JobsKnow'
  BY <1>6 DEF JobsKnow
<1> QED
  BY <1>2, <1>3, <1>4, <1>7 DEF Inductive

-----------------------------------------------------------------------------
(* Stages after the workers, and ends *)

\* An invocation that ends, and whose workers are gone.
LEMMA LeavingKeeps ==
  ASSUME Inductive, NEW r \in Rounds, NEW failed, Leave(r, failed),
         workers' = workers \/ workers' = workers \ Own(r),
         UNCHANGED <<scratch, planned, logs, scored, novelty, spoken>>,
         ByRound(triples)'
  PROVE  Inductive'
<1>1. /\ scratch' = scratch /\ planned' = planned /\ logs' = logs /\ scored' = scored
      /\ novelty' = novelty /\ spoken' = spoken
  OBVIOUS
<1>2. ByRound(job)' /\ job'[r] = Nothing /\ \A q \in Rounds \ {r} : job'[q] = job[q]
  BY Left DEF Inductive, Shaped
<1>3. \A q \in Rounds \ {r} : Own(q) \subseteq Own(q)'
  BY DEF Own
<1>4. JobsKnow'
  BY <1>1, <1>2, <1>3, JobsLeave DEF Inductive
<1>5. Shaped'
  BY <1>1, <1>2 DEF Inductive, Shaped, ByRound
<1>6. Scratched' /\ PlansWritten' /\ ScoresTyped'
  BY <1>1, PlansKept DEF Inductive, Scratched, ScoresTyped
<1>7. LogsEarned' /\ VerdictsEarned'
  BY <1>1, LogsKept, EarnedKept DEF Inductive
<1>8. WorkersRead'
  BY <1>1, WorkersKept DEF Inductive
<1> QED
  BY <1>4, <1>5, <1>6, <1>7, <1>8 DEF Inductive

LEMMA InterruptKeeps ==
  ASSUME Inductive, NEW r \in Rounds, Interrupt(r)
  PROVE  Inductive'
<1>1. /\ Leave(r, "no") /\ workers' = workers \ Own(r)
      /\ UNCHANGED <<scratch, planned, logs, scored, novelty, spoken>> /\ triples' = triples
  BY DEF Interrupt
<1>2. ByRound(triples)'
  BY <1>1 DEF Inductive, Shaped, ByRound
<1> QED
  BY <1>1, <1>2, LeavingKeeps

LEMMA KillKeeps ==
  ASSUME Inductive, NEW r \in Rounds, Kill(r)
  PROVE  Inductive'
<1>1. /\ job' = [job EXCEPT ![r] = Nothing]
      /\ workers' = (workers \ Own(r)) \cup {[w EXCEPT !.orphan = TRUE] : w \in Own(r)}
      /\ scratch' = scratch /\ planned' = planned /\ logs' = logs /\ scored' = scored
      /\ triples' = triples /\ novelty' = novelty /\ spoken' = spoken
  BY DEF Kill, files
<1>2. ByRound(job)' /\ job'[r] = Nothing /\ \A q \in Rounds \ {r} : job'[q] = job[q]
  BY <1>1 DEF Inductive, Shaped, ByRound
<1>3. \A q \in Rounds \ {r} : Own(q) \subseteq Own(q)'
  BY <1>1 DEF Own
<1>4. JobsKnow'
  BY <1>1, <1>2, <1>3, JobsLeave DEF Inductive
<1>5. Shaped'
  BY <1>1, <1>2 DEF Inductive, Shaped, ByRound
<1>6. Scratched' /\ PlansWritten' /\ ScoresTyped'
  BY <1>1, PlansKept DEF Inductive, Scratched, ScoresTyped
<1>7. LogsEarned' /\ VerdictsEarned'
  BY <1>1, LogsKept, EarnedKept DEF Inductive
<1>8. ASSUME NEW w \in workers
      PROVE  IsWorker([w EXCEPT !.orphan = TRUE])
  <2>1. IsWorker(w)
    BY DEF Inductive, WorkersRead
  <2>2. PICK v : v = [w EXCEPT !.orphan = TRUE]
    OBVIOUS
  <2>3. /\ v.round = w.round /\ v.queue = w.queue /\ v.reading = w.reading
        /\ v \in [round : Rounds, orphan : BOOLEAN, id : Int, reading : Probes \cup {Nothing},
                  failed : BOOLEAN, queue : Seq(Int)]
    BY <2>1, <2>2 DEF IsWorker
  <2>4. IsWorker(v)
    BY <2>1, <2>3 DEF IsWorker
  <2> QED
    BY <2>2, <2>4
<1>9. \A w \in workers' : IsWorker(w)
  BY <1>1, <1>8 DEF Own, Inductive, WorkersRead
<1>10. \A w \in workers' : IsWorker(w)'
  BY <1>1, <1>9, WorkerKept
<1>11. WorkersRead'
  BY <1>10 DEF WorkersRead
<1> QED
  BY <1>4, <1>5, <1>6, <1>7, <1>11 DEF Inductive

\* Where all workers ended and none failed, every shard has a log.
LEMMA JoinKeeps ==
  ASSUME Inductive, NEW r \in Rounds, Join(r)
  PROVE  Inductive'
<1>1. /\ job[r] # Nothing /\ job[r].at = "run" /\ job[r].joining
      /\ \A w \in Own(r) : w.queue = <<>>
      /\ workers' = workers \ Own(r)
      /\ scratch' = scratch /\ planned' = planned /\ logs' = logs /\ scored' = scored
      /\ triples' = triples /\ novelty' = novelty /\ spoken' = spoken
  BY DEF Join, At
<1>2. ByRound(triples)'
  BY <1>1 DEF Inductive, Shaped, ByRound
<1>3. CASE \E failed : Leave(r, failed)
  BY <1>1, <1>2, <1>3, LeavingKeeps
<1>4. CASE /\ ~ \E w \in Own(r) : w.failed
           /\ job[r].until # "run"
           /\ job' = [job EXCEPT ![r].at = "score", ![r].joining = FALSE]
  <2>1. PICK i : i = job[r]
    OBVIOUS
  <2>2. JobKnows(r, i) /\ i.at = "run" /\ i.joining /\ i.until # "run"
    BY <1>1, <1>4, <2>1 DEF Inductive, JobsKnow
  <2>3. IsJob(i)
    BY <2>2 DEF JobKnows
  <2>4. PICK h : h = [i EXCEPT !.at = "score"]
    OBVIOUS
  <2>5. PICK j : j = [h EXCEPT !.joining = FALSE]
    OBVIOUS
  <2>6. job' = [job EXCEPT ![r] = j]
    BY <1>4, <2>1, <2>4, <2>5 DEF Inductive, Shaped, ByRound
  <2>7. ByRound(job)' /\ job'[r] = j /\ \A q \in Rounds \ {r} : job'[q] = job[q]
    BY <2>6 DEF Inductive, Shaped, ByRound
  <2>8. StageNumber("score") <= StageNumber(i.until)
    <3>1. i.until \in {"plan", "run", "score", "screen"} /\ StageNumber(i.at) <= StageNumber(i.until)
      BY <2>3, StageRanks DEF IsJob
    <3> QED
      BY <2>2, <3>1, StageRanks
  <2>9. IsJob(j) /\ j.at = "score" /\ ~j.joining /\ j.from = i.from
    <3>1. "score" \in ToSet(STAGES)
      BY StageRanks
    <3>2. h = [at |-> "score", from |-> i.from, until |-> i.until, joining |-> i.joining,
               failed |-> i.failed]
      BY <2>3, <2>4 DEF IsJob
    <3>3. h = [at |-> h.at, from |-> h.from, until |-> h.until, joining |-> h.joining,
               failed |-> h.failed] /\ h.at = "score" /\ h.from = i.from /\ h.until = i.until
      BY <3>2
    <3>4. /\ j = [at |-> j.at, from |-> j.from, until |-> j.until, joining |-> j.joining,
                  failed |-> j.failed]
          /\ j.at = "score" /\ j.from = i.from /\ j.until = i.until /\ j.joining = FALSE
      BY <2>5, <3>3
    <3> QED
      BY <2>3, <2>8, <3>1, <3>4 DEF IsJob
  <2>10. planned[r] # Nothing /\ \A k \in DOMAIN planned[r] : Awaited(r, k)
    BY <2>2 DEF JobKnows
  <2>11. DOMAIN planned[r] \subseteq DOMAIN logs[r]
    <3> SUFFICES ASSUME NEW k \in DOMAIN planned[r]
                 PROVE  k \in DOMAIN logs[r]
      OBVIOUS
    <3>1. Awaited(r, k)
      BY <2>10
    <3>2. \A w \in Own(r) : ~w.failed /\ DOMAIN w.queue = {}
      BY <1>1, <1>4
    <3> QED
      BY <3>1, <3>2 DEF Awaited
  <2>12. IsJob(j)'
    BY <2>9 DEF IsJob
  <2>13. JobKnows(r, j)'
    BY <1>1, <2>9, <2>10, <2>11, <2>12 DEF JobKnows
  <2>14. JobKnows(r, job[r])'
    BY <2>7, <2>13
  <2>15. \A q \in Rounds \ {r} : Own(q) \subseteq Own(q)'
    BY <1>1 DEF Own
  <2>16. JobsKnow'
    BY <1>1, <2>7, <2>14, <2>15, JobsKept DEF Inductive
  <2>17. Shaped'
    BY <1>1, <2>7 DEF Inductive, Shaped, ByRound
  <2>18. Scratched' /\ PlansWritten' /\ ScoresTyped'
    BY <1>1, PlansKept DEF Inductive, Scratched, ScoresTyped
  <2>19. LogsEarned' /\ VerdictsEarned'
    BY <1>1, LogsKept, EarnedKept DEF Inductive
  <2>20. WorkersRead'
    BY <1>1, WorkersKept DEF Inductive
  <2> QED
    BY <2>16, <2>17, <2>18, <2>19, <2>20 DEF Inductive
<1> QED
  BY <1>3, <1>4 DEF Join, Stop

\* A score says what is in logs with plants that are right.
LEMMA ScoreStageKeeps ==
  ASSUME Inductive, NEW r \in Rounds, ScoreStage(r)
  PROVE  Inductive'
<1>1. /\ job[r] # Nothing /\ job[r].at = "score"
      /\ scratch' = scratch /\ planned' = planned /\ logs' = logs /\ triples' = triples
      /\ novelty' = novelty /\ workers' = workers /\ spoken' = spoken
  BY DEF ScoreStage, At
<1>2. ByRound(triples)'
  BY <1>1 DEF Inductive, Shaped, ByRound
<1>3. CASE planned[r] = Nothing /\ Stop(r, "score") /\ scored' = scored
  BY <1>1, <1>2, <1>3, LeavingKeeps DEF Stop
<1>4. ASSUME NEW result, result = ScoredAttempts(planned[r], logs[r]), planned[r] # Nothing,
             scored' = [scored EXCEPT ![r] = result],
             IF RedGate(result) THEN Stop(r, "score") ELSE Advance(r)
      PROVE  Inductive'
  <2>1. PICK s : s = planned[r]
    OBVIOUS
  <2>2. PICK l : l = logs[r]
    OBVIOUS
  <2>3. s \in Plans /\ LogsOf(l) /\ result = ScoredAttempts(s, l)
    BY <1>4, <2>1, <2>2 DEF Inductive, PlansWritten, LogsEarned
  <2>4. ByRound(scored)' /\ scored'[r] = result /\ \A q \in Rounds \ {r} : scored'[q] = scored[q]
    BY <1>4 DEF Inductive, Shaped, ByRound
  <2>5. ASSUME NEW v \in Verdicts
        PROVE  /\ result[v] \in SUBSET Triples /\ IsFiniteSet(result[v])
               /\ \A p \in result[v] : [probe |-> p, verdict |-> v] \in spoken
    <3>1. result[v] = Rows(s, l, v)
      BY <2>3, FieldsOf
    <3>2. Rows(s, l, v) \in SUBSET Triples /\ IsFiniteSet(Rows(s, l, v))
      BY <2>3, RowsSpoken
    <3>3. ASSUME NEW p \in Rows(s, l, v)
          PROVE  [probe |-> p, verdict |-> v] \in spoken
      <4>1. PICK k \in DOMAIN l : /\ l[k].plants = "right"
                                  /\ [probe |-> p, verdict |-> v] \in ToSet(l[k].lines)
        BY <2>3, RowsSpoken
      <4>2. ToSet(l[k].lines) \subseteq spoken
        BY <2>2, <4>1 DEF Inductive, LogsEarned
      <4> QED
        BY <4>1, <4>2
    <3> QED
      BY <3>1, <3>2, <3>3
  <2>6. ScoresTyped'
    BY <2>4, <2>5 DEF Inductive, ScoresTyped
  <2>7. VerdictsEarned'
    BY <1>1, <2>4, <2>5 DEF Inductive, VerdictsEarned
  <2>8. \A q \in Rounds : Own(q) \subseteq Own(q)'
    BY <1>1 DEF Own
  <2>9. JobKnows(r, job[r]) /\ IsJob(job[r]) /\ ~job[r].joining
    BY <1>1 DEF Inductive, JobsKnow, JobKnows, IsJob
  <2>10. ASSUME RedGate(result)
         PROVE  ByRound(job)' /\ JobsKnow'
    <3>1. ByRound(job)' /\ job'[r] = Nothing /\ \A q \in Rounds \ {r} : job'[q] = job[q]
      BY <1>4, <2>10, Left DEF Inductive, Shaped, Stop
    <3>2. (job[r] = Nothing \/ JobKnows(r, job[r]))'
      BY <3>1
    <3>3. JobsKnow'
      BY <1>1, <2>4, <2>8, <3>1, <3>2, JobsKept DEF Inductive
    <3> QED
      BY <3>1, <3>3
  <2>11. ASSUME ~RedGate(result)
         PROVE  ByRound(job)' /\ JobsKnow'
    <3>1. /\ ByRound(job)'
          /\ \A q \in Rounds \ {r} : job'[q] = job[q]
          /\ \/ job'[r] = Nothing
             \/ /\ IsJob(job[r])' /\ ~job'[r].joining /\ job'[r].at = "screen"
                /\ job'[r].from = job[r].from
      BY <1>1, <1>4, <2>9, <2>11, Advanced DEF Inductive, Shaped
    <3>2. /\ result.invalid = {}
          /\ UNION {result[v] : v \in Verdicts \cup {"unrecognised", "missing"}} = UNION ToSet(s)
      BY <2>3, <2>11, WholePlan
    <3>3. ASSUME job'[r] # Nothing
          PROVE  JobKnows(r, job[r])'
      <4>1. PICK j : j = job'[r]
        BY Zenon
      <4>2. IsJob(j) /\ ~j.joining /\ j.at = "screen" /\ j.from = job[r].from
        BY <3>1, <3>3, <4>1 DEF IsJob
      <4>3. j.from \in {"plan", "run"} =>
              planned[r] # Nothing /\ DOMAIN planned[r] \subseteq DOMAIN logs[r]
        BY <1>1, <2>9, <4>2 DEF JobKnows
      <4>4. IsJob(j)'
        BY <4>2 DEF IsJob
      <4>5. /\ scored'[r].invalid = {}
            /\ UNION {scored'[r][v] : v \in Verdicts \cup {"unrecognised", "missing"}}
                 = UNION ToSet(planned'[r])
        BY <1>1, <2>1, <2>4, <3>2
      <4>6. JobKnows(r, j)'
        BY <1>1, <4>2, <4>3, <4>4, <4>5 DEF JobKnows
      <4> QED
        BY <4>1, <4>6
    <3>4. JobsKnow'
      BY <1>1, <2>4, <2>8, <3>1, <3>3, JobsKept DEF Inductive
    <3> QED
      BY <3>1, <3>4
  <2>12. Shaped'
    BY <1>1, <2>4, <2>10, <2>11 DEF Inductive, Shaped, ByRound
  <2>13. Scratched' /\ PlansWritten' /\ WorkersRead' /\ LogsEarned'
    BY <1>1, PlansKept, WorkersKept, LogsKept DEF Inductive, Scratched
  <2> QED
    BY <2>6, <2>7, <2>10, <2>11, <2>12, <2>13 DEF Inductive
<1> QED
  BY <1>3, <1>4 DEF ScoreStage

\* Whatever comes out of the screen was proved.
LEMMA ScreenStageKeeps ==
  ASSUME Inductive, NEW r \in Rounds, ScreenStage(r)
  PROVE  Inductive'
<1>1. /\ job[r] # Nothing /\ job[r].at = "screen"
      /\ scratch' = scratch /\ planned' = planned /\ logs' = logs /\ scored' = scored
      /\ workers' = workers /\ spoken' = spoken
  BY DEF ScreenStage, At
<1>2. ByRound(triples)' /\ (novelty' = novelty \/ scored[r] # Nothing)
  BY DEF ScreenStage, Inductive, Shaped, ByRound
<1>3. CASE (\E failed : Leave(r, failed)) /\ novelty' = novelty
  BY <1>1, <1>2, <1>3, LeavingKeeps
<1>4. CASE /\ Advance(r)
           /\ \/ novelty' = novelty
              \/ novelty' = [novelty EXCEPT ![r] = Screened(Corpus, scored[r].proved)]
  <2>1. JobKnows(r, job[r]) /\ IsJob(job[r]) /\ ~job[r].joining
    BY <1>1 DEF Inductive, JobsKnow, JobKnows, IsJob
  <2>2. ByRound(job)' /\ job'[r] = Nothing /\ \A q \in Rounds \ {r} : job'[q] = job[q]
    BY <1>1, <1>4, <2>1, Advanced DEF Inductive, Shaped
  <2>3. \A q \in Rounds : Own(q) \subseteq Own(q)'
    BY <1>1 DEF Own
  <2>4. JobsKnow'
    BY <1>1, <2>2, <2>3, JobsLeave DEF Inductive
  <2>5. ByRound(novelty)'
    BY <1>4 DEF Inductive, Shaped, ByRound
  <2>6. VerdictsEarned'
    <3>1. CASE novelty' = novelty
      BY <1>1, <3>1, EarnedKept DEF Inductive
    <3>2. CASE novelty' = [novelty EXCEPT ![r] = Screened(Corpus, scored[r].proved)]
               /\ scored[r] # Nothing
      <4>1. PICK n : n = Screened(Corpus, scored[r].proved)
        OBVIOUS
      <4>2. novelty'[r] = n /\ \A q \in Rounds \ {r} : novelty'[q] = novelty[q]
        BY <3>2, <4>1 DEF Inductive, Shaped, ByRound
      <4>3. n.novel \cup n.rediscovery \subseteq scored[r].proved
        BY <4>1 DEF Screened
      <4>4. \A p \in scored[r].proved : [probe |-> p, verdict |-> "proved"] \in spoken
        <5>1. "proved" \in Verdicts
          BY DEF Verdicts
        <5>2. \A p \in scored[r]["proved"] : [probe |-> p, verdict |-> "proved"] \in spoken
          BY <3>2, <5>1 DEF Inductive, VerdictsEarned
        <5> QED
          BY <5>2
      <4> QED
        BY <1>1, <4>2, <4>3, <4>4 DEF Inductive, VerdictsEarned
    <3> QED
      BY <1>2, <1>4, <3>1, <3>2
  <2>7. Shaped'
    BY <1>1, <1>2, <2>2, <2>5 DEF Inductive, Shaped, ByRound
  <2>8. Scratched' /\ PlansWritten' /\ WorkersRead' /\ LogsEarned' /\ ScoresTyped'
    BY <1>1, PlansKept, WorkersKept, LogsKept DEF Inductive, Scratched, ScoresTyped
  <2> QED
    BY <2>4, <2>6, <2>7, <2>8 DEF Inductive
<1> QED
  BY <1>3, <1>4 DEF ScreenStage, Stop, Raise

LEMMA StepsKeep == Inductive /\ [RoundNext]_roundVars => Inductive'
<1> SUFFICES ASSUME Inductive, [RoundNext]_roundVars
             PROVE  Inductive'
  OBVIOUS
<1>1. ASSUME NEW r \in Rounds,
             \/ Start(r) \/ PlanStage(r) \/ RunStage(r) \/ Join(r)
             \/ ScoreStage(r) \/ ScreenStage(r) \/ Interrupt(r) \/ Kill(r)
      PROVE  Inductive'
  BY <1>1, StartKeeps, PlanStageKeeps, RunStageKeeps, JoinKeeps, ScoreStageKeeps,
     ScreenStageKeeps, InterruptKeeps, KillKeeps
<1>2. ASSUME NEW w \in workers,
             OpenShard(w) \/ CloseShard(w) \/ WorkerFails(w) \/ OrphanEnds(w)
      PROVE  Inductive'
  BY <1>2, OpenShardKeeps, CloseShardKeeps, WorkerFailsKeeps, OrphanEndsKeeps
<1>3. CASE UNCHANGED roundVars
  <2>1. /\ scratch' = scratch /\ planned' = planned /\ logs' = logs /\ scored' = scored
        /\ triples' = triples /\ novelty' = novelty /\ job' = job /\ workers' = workers
        /\ spoken' = spoken
    BY <1>3 DEF roundVars, files
  <2>2. Shaped' /\ Scratched' /\ PlansWritten' /\ ScoresTyped'
    BY <2>1, PlansKept DEF Inductive, Shaped, ByRound, Scratched, ScoresTyped
  <2>3. LogsEarned' /\ VerdictsEarned' /\ WorkersRead'
    BY <2>1, LogsKept, EarnedKept, WorkersKept DEF Inductive
  <2>4. ASSUME NEW q \in Rounds, job'[q] # Nothing
        PROVE  JobKnows(q, job[q])'
    <3>1. PICK j : j = job[q]
      OBVIOUS
    <3>2. JobKnows(q, j) /\ job'[q] = j
      BY <2>1, <2>4, <3>1 DEF Inductive, JobsKnow
    <3>3. Own(q) \subseteq Own(q)'
      BY <2>1 DEF Own
    <3>4. \A k : Awaited(q, k) => Awaited(q, k)'
      BY <2>1, <3>3, AwaitedKept
    <3>5. JobKnows(q, j)'
      BY <2>1, <3>2, <3>4, KnowsKept
    <3> QED
      BY <3>2, <3>5
  <2>5. JobsKnow'
    BY <2>4 DEF JobsKnow
  <2> QED
    BY <2>2, <2>3, <2>5 DEF Inductive
<1> QED
  BY <1>1, <1>2, <1>3 DEF RoundNext

-----------------------------------------------------------------------------
(* Theorems *)

LEMMA Invariance == RoundSpec => []Inductive
<1> QED
  BY Begins, StepsKeep, PTL DEF RoundSpec

LEMMA RecoveryOfScores == Inductive => RecoveredBetween
<1> SUFFICES ASSUME Inductive
             PROVE  RecoveredBetween
  OBVIOUS
<1>1. PICK F : F = {<<p.owner, p.concl>> : p \in {q \in Corpus.projections : q.forgets}}
  OBVIOUS
<1>2. ASSUME NEW r \in Rounds, scored[r] # Nothing, NEW refusal \in scored[r].no_statement,
             NEW t \in RecoveryTriples(Corpus.projections, {refusal})
      PROVE  /\ t.target \in Ancestors(F, t.declared)
             /\ refusal.target \in Ancestors(F, t.target)
  <2>1. "no_statement" \in Verdicts
    BY DEF Verdicts
  <2>2. scored[r]["no_statement"] \in SUBSET Triples
    BY <1>2, <2>1 DEF Inductive, ScoresTyped
  <2>3. refusal \in Triples
    BY <1>2, <2>2
  <2> QED
    BY <1>1, <1>2, <2>3, RecoveryBetween
<1> QED
  BY <1>1, <1>2 DEF RecoveredBetween

\* A score is written from the plan and the logs as they are.
LEMMA ScoresWritten ==
  ASSUME Inductive, [RoundNext]_roundVars, NEW r \in Rounds, scored'[r] # scored[r]
  PROVE  /\ planned[r] # Nothing
         /\ scored'[r] = ScoredAttempts(planned[r], logs[r])
<1>1. scored' # scored
  OBVIOUS
<1>2. ASSUME NEW q \in Rounds, ScoreStage(q)
      PROVE  /\ planned[r] # Nothing
             /\ scored'[r] = ScoredAttempts(planned[r], logs[r])
  <2>1. /\ planned[q] # Nothing
        /\ scored' = [scored EXCEPT ![q] = ScoredAttempts(planned[q], logs[q])]
    BY <1>1, <1>2 DEF ScoreStage
  <2> QED
    BY <2>1 DEF Inductive, Shaped, ByRound
<1>3. ASSUME NEW q \in Rounds,
             \/ Start(q) \/ PlanStage(q) \/ RunStage(q) \/ Join(q)
             \/ ScreenStage(q) \/ Interrupt(q) \/ Kill(q)
      PROVE  scored' = scored
  BY <1>3 DEF Start, PlanStage, RunStage, Join, ScreenStage, Interrupt, Kill, files
<1>4. ASSUME NEW w \in workers,
             OpenShard(w) \/ CloseShard(w) \/ WorkerFails(w) \/ OrphanEnds(w)
      PROVE  scored' = scored
  BY <1>4 DEF OpenShard, CloseShard, WorkerFails, OrphanEnds, files
<1>5. UNCHANGED roundVars => scored' = scored
  BY DEF roundVars, files
<1> QED
  BY <1>1, <1>2, <1>3, <1>4, <1>5 DEF RoundNext

LEMMA DiscardedLie ==
  Inductive /\ [RoundNext]_roundVars =>
    \A r \in Rounds : scored'[r] # scored[r] =>
      \A k \in scored'[r].invalid : logs[r][k].plants = "wrong"
<1> SUFFICES ASSUME Inductive, [RoundNext]_roundVars, NEW r \in Rounds, scored'[r] # scored[r],
                    NEW k \in scored'[r].invalid
             PROVE  logs[r][k].plants = "wrong"
  OBVIOUS
<1>1. PICK s : s = planned[r]
  OBVIOUS
<1>2. PICK l : l = logs[r]
  OBVIOUS
<1>3. scored'[r] = ScoredAttempts(s, l)
  BY <1>1, <1>2, ScoresWritten
<1>4. k \in Invalid(s, l)
  BY <1>3, FieldsOf
<1>5. LogsOf(l)
  BY <1>2 DEF Inductive, LogsEarned
<1> QED
  BY <1>2, <1>4, <1>5, OnlyWrongInvalid

LEMMA AllAccounted ==
  Inductive /\ [RoundNext]_roundVars =>
    \A r \in Rounds : scored'[r] # scored[r] =>
      LET s == scored'[r]
          discarded == UNION {planned[r][k] : k \in s.invalid}
          parts == <<s.proved, s.not_proved, s.no_statement, s.unrecognised, s.missing, discarded>>
      IN /\ UNION ToSet(parts) = UNION ToSet(planned[r])
         /\ \A i, j \in DOMAIN parts : i # j => parts[i] \cap parts[j] = {}
<1> SUFFICES ASSUME Inductive, [RoundNext]_roundVars, NEW r \in Rounds, scored'[r] # scored[r]
             PROVE  LET s == scored'[r]
                        discarded == UNION {planned[r][k] : k \in s.invalid}
                        parts == <<s.proved, s.not_proved, s.no_statement, s.unrecognised,
                                   s.missing, discarded>>
                    IN /\ UNION ToSet(parts) = UNION ToSet(planned[r])
                       /\ \A i, j \in DOMAIN parts : i # j => parts[i] \cap parts[j] = {}
  OBVIOUS
<1>1. PICK shards : shards = planned[r]
  OBVIOUS
<1>2. PICK l : l = logs[r]
  OBVIOUS
<1>3. PICK result : result = ScoredAttempts(shards, l)
  OBVIOUS
<1>4. scored'[r] = result /\ planned[r] # Nothing
  BY <1>1, <1>2, <1>3, ScoresWritten
<1>5. shards \in Plans /\ LogsOf(l)
  BY <1>1, <1>2, <1>4 DEF Inductive, PlansWritten, LogsEarned
<1>6. PICK parts : parts = Parts(shards, result)
  OBVIOUS
<1>7. /\ UNION ToSet(parts) = UNION ToSet(shards)
      /\ \A i, j \in DOMAIN parts : i # j => parts[i] \cap parts[j] = {}
  BY <1>3, <1>5, <1>6, PartsExact
<1>8. parts = <<result.proved, result.not_proved, result.no_statement, result.unrecognised,
                result.missing, UNION {shards[k] : k \in result.invalid}>>
  BY <1>6 DEF Parts
<1>9. UNION {shards[k] : k \in result.invalid} = UNION {planned[r][k] : k \in scored'[r].invalid}
  BY <1>1, <1>4
<1>10. parts = <<scored'[r].proved, scored'[r].not_proved, scored'[r].no_statement,
                 scored'[r].unrecognised, scored'[r].missing,
                 UNION {planned[r][k] : k \in scored'[r].invalid}>>
  BY <1>4, <1>8, <1>9
<1>11. /\ UNION ToSet(parts) = UNION ToSet(planned[r])
       /\ \A i, j \in DOMAIN parts : i # j => parts[i] \cap parts[j] = {}
  BY <1>1, <1>7
<1> QED
  BY <1>10, <1>11

LEMMA ScreensWhole ==
  Inductive =>
    \A r \in Rounds :
      At(r, "screen") /\ triples'[r] # triples[r] =>
        /\ job[r].from # "screen" =>
             /\ scored[r].invalid = {}
             /\ UNION {scored[r][v] : v \in Verdicts \cup {"unrecognised", "missing"}}
                  = UNION ToSet(planned[r])
        /\ job[r].from \in {"plan", "run"} => DOMAIN planned[r] \subseteq DOMAIN logs[r]
<1> SUFFICES ASSUME Inductive, NEW r \in Rounds, job[r] # Nothing, job[r].at = "screen"
             PROVE  /\ job[r].from # "screen" =>
                         /\ scored[r].invalid = {}
                         /\ UNION {scored[r][v] : v \in Verdicts \cup {"unrecognised", "missing"}}
                              = UNION ToSet(planned[r])
                    /\ job[r].from \in {"plan", "run"} => DOMAIN planned[r] \subseteq DOMAIN logs[r]
  BY DEF At
<1>1. JobKnows(r, job[r])
  BY DEF Inductive, JobsKnow
<1> QED
  BY <1>1 DEF JobKnows

\* Whatever plans, rounds, kills and orphans go over the files, a verdict in
\* a scored file and a triple in a screen was given by Lean for that triple
\* in a run whose plants were right (score-attempts.py:130-168), and what is
\* asked again lies strictly between (recovery-triples.py:69-123).
THEOREM VerdictsStaySpoken == RoundSpec => []VerdictsSpoken
<1>1. Inductive => VerdictsSpoken
  BY RecoveryOfScores DEF Inductive, VerdictsSpoken
<1> QED
  BY <1>1, Invariance, PTL

\* Scoring discards liars only and accounts for every probe of the plan once,
\* and what is screened is the whole round (discovery-round.py:60).
THEOREM RoundsStayWhole == RoundSpec => RoundKept
<1>1. RoundSpec => OnlyLiarsDiscarded
  BY DiscardedLie, Invariance, PTL DEF RoundSpec, OnlyLiarsDiscarded
<1>2. RoundSpec => Accounted
  BY AllAccounted, Invariance, PTL DEF RoundSpec, Accounted
<1>3. RoundSpec => WholeRoundScreened
  BY ScreensWhole, Invariance, PTL DEF RoundSpec, WholeRoundScreened
<1> QED
  BY <1>1, <1>2, <1>3 DEF RoundKept
===============================================================================
