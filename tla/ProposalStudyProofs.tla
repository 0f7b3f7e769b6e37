--------------------------- MODULE ProposalStudyProofs ---------------------------
(***************************************************************************)
(* Proofs about ProposalStudy, for every closure.                          *)
(*                                                                         *)
(* A sample is drawn by hashes, so that what it holds is a matter of       *)
(* places in finite orders.  What is published is read off files of        *)
(* different ages, so that it is a matter of what each file says of the    *)
(* closure, whichever program wrote it when.                               *)
(***************************************************************************)
EXTENDS ProposalStudy, FiniteSetTheorems, SequenceTheorems, TLAPS

\* A least natural number, from well-foundedness.
LEMMA Least ==
  ASSUME NEW T \in SUBSET Nat, T # {}
  PROVE  \E n \in T : \A m \in T : n <= m
<1> DEFINE R == OpToRel(<, Nat)
<1>1. \A a, b \in Nat : a < b => <<a, b>> \in R
  BY DEF OpToRel
<1>2. IsWellFoundedOn(R, Nat)
  BY NatLessThanWellFounded
<1> HIDE DEF R
<1>3. \E x \in T : \A y \in T : ~(<<y, x>> \in R)
  BY <1>2, WFMin
<1>4. PICK n \in T : \A y \in T : ~(<<y, n>> \in R)
  BY <1>3
<1>5. \A m \in T : n <= m
  <2> SUFFICES ASSUME NEW m \in T
               PROVE  n <= m
    OBVIOUS
  <2>1. m \in Nat /\ n \in Nat
    OBVIOUS
  <2>2. ~(m < n)
    BY <1>1, <1>4, <2>1
  <2> QED
    BY <2>1, <2>2
<1> QED
  BY <1>5

-----------------------------------------------------------------------------
(* Orders *)

Below(S, R, s) == {r \in S : <<r, s>> \in R}

LinearOn(S, R) ==
  /\ \A s \in S : <<s, s>> \notin R
  /\ \A r, s, t \in S : <<r, s>> \in R /\ <<s, t>> \in R => <<r, t>> \in R
  /\ \A r, s \in S : r # s => <<r, s>> \in R \/ <<s, r>> \in R

\* In a linear order of a finite set each place is taken, by one element.
LEMMA PlacesTaken ==
  ASSUME NEW S, IsFiniteSet(S), NEW R, LinearOn(S, R)
  PROVE  /\ Cardinality(S) \in Nat
         /\ \A s \in S : Cardinality(Below(S, R, s)) + 1 \in 1..Cardinality(S)
         /\ \A i \in 1..Cardinality(S) : \E s \in S : Cardinality(Below(S, R, s)) = i - 1
         /\ \A s, t \in S :
              Cardinality(Below(S, R, s)) = Cardinality(Below(S, R, t)) => s = t
<1> DEFINE n == Cardinality(S)
           place == [s \in S |-> Cardinality(Below(S, R, s)) + 1]
<1>1. n \in Nat
  BY FS_CardinalityType
<1>2. ASSUME NEW s \in S
      PROVE  /\ IsFiniteSet(Below(S, R, s)) /\ Cardinality(Below(S, R, s)) \in Nat
             /\ Cardinality(Below(S, R, s)) <= n - 1
  <2>1. Below(S, R, s) \in SUBSET S /\ Below(S, R, s) # S
    BY DEF Below, LinearOn
  <2>2. /\ IsFiniteSet(Below(S, R, s)) /\ Cardinality(Below(S, R, s)) <= n
        /\ n # Cardinality(Below(S, R, s))
    BY <2>1, FS_Subset
  <2>3. Cardinality(Below(S, R, s)) \in Nat
    BY <2>2, FS_CardinalityType
  <2> QED
    BY <1>1, <2>2, <2>3
<1>3. ASSUME NEW s \in S, NEW t \in S, s # t
      PROVE  Cardinality(Below(S, R, s)) # Cardinality(Below(S, R, t))
  <2>1. ASSUME NEW a \in S, NEW b \in S, <<a, b>> \in R
        PROVE  Cardinality(Below(S, R, a)) # Cardinality(Below(S, R, b))
    <3>1. Below(S, R, a) \in SUBSET Below(S, R, b) /\ Below(S, R, a) # Below(S, R, b)
      BY <2>1 DEF Below, LinearOn
    <3> QED
      BY <1>2, <3>1, FS_Subset
  <2> QED
    BY <1>3, <2>1 DEF LinearOn
<1>4. place \in [S -> 1..n]
  BY <1>1, <1>2
<1>5. place \in Injection(S, 1..n)
  <2>1. \A s, t \in S : place[s] = place[t] => s = t
    BY <1>2, <1>3
  <2> QED
    BY <1>4, <2>1 DEF Injection, IsInjective
<1>6. IsFiniteSet(1..n) /\ Cardinality(1..n) = n
  BY <1>1, FS_Interval
<1>7. place \in Surjection(S, 1..n)
  BY <1>5, <1>6, FS_Injection
<1>8. \A i \in 1..n : \E s \in S : place[s] = i
  BY <1>7 DEF Surjection
<1>9. \A i \in 1..n : \E s \in S : Cardinality(Below(S, R, s)) = i - 1
  BY <1>1, <1>2, <1>8
<1> QED
  BY <1>1, <1>2, <1>3, <1>9

\* Distinct keys of one length put the elements of S in a linear order.
LEMMA KeysOrder ==
  ASSUME NEW S, NEW n \in Nat, NEW K, \A s \in S : K[s] \in Seq(Int) /\ Len(K[s]) = n,
         \A r, s \in S : K[r] = K[s] => r = s,
         NEW R, \A r, s \in S : <<r, s>> \in R <=> Precedes(K[r], K[s])
  PROVE  LinearOn(S, R)
<1>1. \A s \in S : /\ DOMAIN K[s] = 1..n
                   /\ K[s] = [i \in 1..n |-> K[s][i]]
                   /\ \A i \in 1..n : K[s][i] \in Int
  OBVIOUS
<1>2. ASSUME NEW s \in S
      PROVE  <<s, s>> \notin R
  BY <1>1 DEF Precedes
<1>3. ASSUME NEW r \in S, NEW s \in S, NEW t \in S, <<r, s>> \in R, <<s, t>> \in R
      PROVE  <<r, t>> \in R
  <2>1. PICK i \in 1..n : K[r][i] < K[s][i] /\ \A j \in 1..(i - 1) : K[r][j] = K[s][j]
    BY <1>1, <1>3 DEF Precedes
  <2>2. PICK k \in 1..n : K[s][k] < K[t][k] /\ \A j \in 1..(k - 1) : K[s][j] = K[t][j]
    BY <1>1, <1>3 DEF Precedes
  <2>3. CASE i <= k
    <3>1. i = k \/ i \in 1..(k - 1)
      BY <2>3
    <3>2. K[r][i] \in Int /\ K[s][i] \in Int /\ K[t][i] \in Int /\ K[r][i] < K[s][i]
      BY <1>1, <2>1
    <3>3. K[s][i] = K[t][i] \/ K[s][i] < K[t][i]
      BY <2>2, <3>1
    <3>4. K[r][i] < K[t][i]
      BY <3>2, <3>3
    <3>5. \A j \in 1..(i - 1) : K[r][j] = K[t][j]
      BY <2>1, <2>2, <2>3
    <3> QED
      BY <1>1, <3>4, <3>5 DEF Precedes
  <2>4. CASE k < i
    <3>1. K[r][k] < K[t][k]
      BY <1>1, <2>1, <2>2, <2>4
    <3>2. \A j \in 1..(k - 1) : K[r][j] = K[t][j]
      BY <2>1, <2>2, <2>4
    <3> QED
      BY <1>1, <3>1, <3>2 DEF Precedes
  <2> QED
    BY <2>3, <2>4
<1>4. ASSUME NEW r \in S, NEW s \in S, r # s
      PROVE  <<r, s>> \in R \/ <<s, r>> \in R
  <2> DEFINE D == {i \in 1..n : K[r][i] # K[s][i]}
  <2>1. D # {}
    <3> SUFFICES ASSUME \A i \in 1..n : K[r][i] = K[s][i]
                 PROVE  K[r] = K[s]
      BY <1>4
    <3>1. [i \in 1..n |-> K[r][i]] = [i \in 1..n |-> K[s][i]]
      OBVIOUS
    <3> QED
      BY <1>1, <3>1
  <2>2. D \in SUBSET Nat
    OBVIOUS
  <2>3. PICK i \in D : \A j \in D : i <= j
    BY <2>1, <2>2, Least
  <2>4. ASSUME NEW j \in 1..(i - 1)
        PROVE  K[r][j] = K[s][j]
    <3>1. j \in 1..n /\ ~(i <= j)
      BY <2>3
    <3> QED
      BY <2>3, <3>1
  <2>5. K[r][i] < K[s][i] \/ K[s][i] < K[r][i]
    BY <1>1, <2>3
  <2> QED
    BY <1>1, <2>4, <2>5 DEF Precedes
<1> QED
  BY <1>2, <1>3, <1>4 DEF LinearOn

\* Elements that take the places from 0 on, one each.
Placed(M, p) ==
  /\ IsFiniteSet(M) /\ Cardinality(M) \in Nat
  /\ p \in [M -> 0 .. Cardinality(M) - 1]
  /\ \A i \in 0 .. Cardinality(M) - 1 : \E t \in M : p[t] = i
  /\ \A t, u \in M : p[t] = p[u] => t = u

\* As many places as there are are among the first few.
LEMMA CountPlaces ==
  ASSUME NEW M, NEW p, Placed(M, p), NEW c \in Nat, c <= Cardinality(M)
  PROVE  Cardinality({t \in M : p[t] < c}) = c
<1> DEFINE n == Cardinality(M)
           F == {t \in M : p[t] < c}
           h == [t \in F |-> p[t]]
<1>1. n \in Nat /\ \A t \in M : p[t] \in 0 .. n - 1
  BY DEF Placed
<1>2. h \in [F -> 0 .. c - 1]
  BY <1>1
<1>3. h \in Surjection(F, 0 .. c - 1)
  <2> SUFFICES ASSUME NEW i \in 0 .. c - 1
               PROVE  \E t \in F : h[t] = i
    BY <1>2 DEF Surjection
  <2>1. i \in 0 .. n - 1 /\ i < c
    BY <1>1
  <2> QED
    BY <2>1 DEF Placed
<1>4. h \in Injection(F, 0 .. c - 1)
  BY <1>2 DEF Injection, IsInjective, Placed
<1>5. IsFiniteSet(F)
  <2>1. F \in SUBSET M
    OBVIOUS
  <2> QED
    BY <2>1, FS_Subset DEF Placed
<1>6. Cardinality(0 .. c - 1) = c
  <2>1. Cardinality(0 .. c - 1) = IF 0 > c - 1 THEN 0 ELSE (c - 1) - 0 + 1
    BY FS_Interval
  <2> QED
    BY <2>1
<1> HIDE DEF F, h
<1> QED
  BY <1>3, <1>4, <1>5, <1>6, FS_Surjection DEF F

\* Who comes first in a linear order of a finite set.
FirstIn(S, R, n) == {s \in S : Cardinality(Below(S, R, s)) < n}

\* As many come first as are asked for.
LEMMA FirstAre ==
  ASSUME NEW S, IsFiniteSet(S), NEW R, LinearOn(S, R), NEW n \in Nat, n <= Cardinality(S)
  PROVE  Cardinality(FirstIn(S, R, n)) = n
<1> DEFINE p == [s \in S |-> Cardinality(Below(S, R, s))]
<1>1. /\ Cardinality(S) \in Nat
      /\ \A s \in S : Cardinality(Below(S, R, s)) + 1 \in 1..Cardinality(S)
      /\ \A i \in 1..Cardinality(S) : \E s \in S : Cardinality(Below(S, R, s)) = i - 1
      /\ \A s, t \in S :
           Cardinality(Below(S, R, s)) = Cardinality(Below(S, R, t)) => s = t
  BY PlacesTaken
<1>2. \A s \in S : Cardinality(Below(S, R, s)) \in Nat
  <2> SUFFICES ASSUME NEW s \in S
               PROVE  Cardinality(Below(S, R, s)) \in Nat
    OBVIOUS
  <2>1. Below(S, R, s) \in SUBSET S
    BY DEF Below
  <2> QED
    BY <2>1, FS_Subset, FS_CardinalityType
<1>3. p \in [S -> 0 .. Cardinality(S) - 1]
  BY <1>1, <1>2
<1>4. ASSUME NEW i \in 0 .. Cardinality(S) - 1
      PROVE  \E t \in S : p[t] = i
  <2>1. i + 1 \in 1 .. Cardinality(S) /\ (i + 1) - 1 = i
    BY <1>1
  <2>2. PICK t \in S : Cardinality(Below(S, R, t)) = (i + 1) - 1
    BY <1>1, <2>1
  <2> QED
    BY <2>1, <2>2
<1>5. \A s, t \in S : p[s] = p[t] => s = t
  BY <1>1
<1>6. FirstIn(S, R, n) = {t \in S : p[t] < n}
  BY DEF FirstIn
<1> HIDE DEF p
<1>7. Placed(S, p)
  BY <1>1, <1>3, <1>4, <1>5 DEF Placed
<1> QED
  BY <1>6, <1>7, CountPlaces

\* Somebody comes first.
LEMMA SomebodyFirst ==
  ASSUME NEW S, IsFiniteSet(S), NEW R, LinearOn(S, R), S # {}
  PROVE  \E s \in S : s \in FirstIn(S, R, 1)
<1>1. Cardinality(S) \in Nat /\ Cardinality(S) # 0
  BY FS_CardinalityType, FS_EmptySet
<1>2. 1 \in 1 .. Cardinality(S)
  BY <1>1
<1>3. PICK s \in S : Cardinality(Below(S, R, s)) = 1 - 1
  BY <1>2, PlacesTaken
<1> QED
  BY <1>3 DEF FirstIn

\* A number of a set is told by how many numbers of the set are below it.
LEMMA CountTells ==
  ASSUME NEW T, NEW k \in Nat \ {0}, NEW l \in Nat \ {0}, k \in T, l \in T,
         Cardinality({j \in 1 .. k - 1 : j \in T}) = Cardinality({j \in 1 .. l - 1 : j \in T})
  PROVE  k = l
<1>1. ASSUME NEW a \in Nat \ {0}, NEW b \in Nat \ {0}, a \in T, a < b
      PROVE  Cardinality({j \in 1 .. a - 1 : j \in T}) # Cardinality({j \in 1 .. b - 1 : j \in T})
  <2> DEFINE A == {j \in 1 .. a - 1 : j \in T}
             B == {j \in 1 .. b - 1 : j \in T}
  <2>1. A \in SUBSET B /\ A # B
    <3>1. a \in B /\ a \notin A
      BY <1>1
    <3>2. A \subseteq B
      BY <1>1
    <3> QED
      BY <3>1, <3>2
  <2>2. IsFiniteSet(B)
    <3>1. IsFiniteSet(1 .. b - 1) /\ B \in SUBSET (1 .. b - 1)
      BY FS_Interval
    <3> QED
      BY <3>1, FS_Subset
  <2> HIDE DEF A, B
  <2> QED
    BY <2>1, <2>2, FS_Subset DEF A, B
<1>2. k < l \/ l < k \/ k = l
  OBVIOUS
<1> QED
  BY <1>1, <1>2

-----------------------------------------------------------------------------
(* Ancestors *)

\* The tables that Reach is read off.
IsSteps(E, c, n, f) ==
  f = [k \in 0..n |->
         {e[2] : e \in {g \in E : g[1] \in {c} \cup (IF k = 0 THEN {} ELSE f[k-1])}}]

\* The tables exist, for any number of steps.
LEMMA StepsExist ==
  ASSUME NEW E, NEW c, NEW n \in Nat
  PROVE  \E f : IsSteps(E, c, n, f)
<1> DEFINE T == {m \in Nat : ~ \E f : IsSteps(E, c, m, f)}
<1> SUFFICES ASSUME T # {}
             PROVE  FALSE
  OBVIOUS
<1>1. PICK m \in T : \A k \in T : m <= k
  BY Least
<1>2. m # 0
  <2> DEFINE f == [k \in 0..0 |-> {e[2] : e \in {g \in E : g[1] \in {c}}}]
  <2>1. IsSteps(E, c, 0, f)
    BY DEF IsSteps
  <2> HIDE DEF f
  <2> QED
    BY <1>1, <2>1
<1>3. m - 1 \in Nat /\ m - 1 \notin T
  BY <1>1, <1>2
<1>4. PICK g : IsSteps(E, c, m - 1, g)
  BY <1>3
<1> DEFINE f == [k \in 0..m |->
                   {e[2] : e \in {h \in E : h[1] \in {c} \cup (IF k = 0 THEN {} ELSE g[k-1])}}]
<1>5. \A k \in 0..(m - 1) : f[k] = g[k]
  <2> SUFFICES ASSUME NEW k \in 0..(m - 1)
               PROVE  f[k] = g[k]
    OBVIOUS
  <2>1. k \in 0..m
    BY <1>1
  <2> QED
    BY <1>4, <2>1 DEF IsSteps
<1>6. ASSUME NEW k \in 0..m, k # 0
      PROVE  f[k-1] = g[k-1]
  <2>1. k - 1 \in 0..(m - 1)
    BY <1>1, <1>6
  <2> HIDE DEF f
  <2> QED
    BY <1>5, <2>1
<1>7. IsSteps(E, c, m, f)
  <2> SUFFICES \A k \in 0..m :
         {e[2] : e \in {h \in E : h[1] \in {c} \cup (IF k = 0 THEN {} ELSE g[k-1])}}
         = {e[2] : e \in {h \in E : h[1] \in {c} \cup (IF k = 0 THEN {} ELSE f[k-1])}}
    BY DEF IsSteps
  <2> HIDE DEF f
  <2> QED
    BY <1>6
<1> HIDE DEF f
<1> QED
  BY <1>1, <1>7

\* What is reached is the last entry of such a table.
LEMMA ReachIsSteps ==
  ASSUME NEW E, NEW c, NEW n \in Nat
  PROVE  \E f : IsSteps(E, c, n, f) /\ Reach(E, c, n) = f[n]
<1> DEFINE step == CHOOSE f : f = [k \in 0..n |->
         {e[2] : e \in {g \in E : g[1] \in {c} \cup (IF k = 0 THEN {} ELSE f[k-1])}}]
<1>1. IsSteps(E, c, n, step)
  <2>1. \E f : f = [k \in 0..n |->
         {e[2] : e \in {g \in E : g[1] \in {c} \cup (IF k = 0 THEN {} ELSE f[k-1])}}]
    <3>1. PICK f : IsSteps(E, c, n, f)
      BY StepsExist
    <3> QED
      BY <3>1, Zenon DEF IsSteps
  <2> QED
    BY <2>1, Zenon DEF IsSteps
<1>2. Reach(E, c, n) = step[n]
  BY DEF Reach
<1> HIDE DEF step
<1> QED
  BY <1>1, <1>2

\* What is reached is where some edge ends.
LEMMA ReachedAreEnds ==
  ASSUME NEW E, NEW c, NEW n \in Nat
  PROVE  Reach(E, c, n) \subseteq {e[2] : e \in E}
<1>1. PICK f : IsSteps(E, c, n, f) /\ Reach(E, c, n) = f[n]
  BY ReachIsSteps
<1>2. n \in 0..n
  OBVIOUS
<1>3. f[n] = {e[2] : e \in {g \in E : g[1] \in {c} \cup (IF n = 0 THEN {} ELSE f[n-1])}}
  BY <1>1, <1>2 DEF IsSteps
<1> QED
  BY <1>1, <1>3

-----------------------------------------------------------------------------
(* What is read off a closure *)

Binder == [info : STRING, head : Nat, args : Seq(Int)]

\* Heads of binders, where there is one.
HeadsAt(binders) == UNION {{binders[n][i].head : i \in DOMAIN binders[n]} : n \in DOMAIN binders}

Spots(binders) == UNION {DOMAIN binders[n] : n \in DOMAIN binders}

\* Binders of finitely many declarations.
Telescopes(b) ==
  IsFiniteSet(DOMAIN b) /\ DOMAIN b \subseteq Nat /\ \A n \in DOMAIN b : b[n] \in Seq(Binder)

\* Finitely many heads, all of them numbers.
LEMMA HeadsFinite ==
  ASSUME NEW b, Telescopes(b)
  PROVE  /\ IsFiniteSet(HeadsAt(b)) /\ HeadsAt(b) \subseteq Nat
         /\ IsFiniteSet(Spots(b)) /\ Spots(b) \subseteq Nat
<1>1. IsFiniteSet(DOMAIN b) /\ \A n \in DOMAIN b : b[n] \in Seq(Binder)
  BY DEF Telescopes
<1>2. ASSUME NEW n \in DOMAIN b
      PROVE  /\ IsFiniteSet(DOMAIN b[n]) /\ DOMAIN b[n] \subseteq Nat
             /\ IsFiniteSet({b[n][j].head : j \in DOMAIN b[n]})
             /\ {b[n][j].head : j \in DOMAIN b[n]} \subseteq Nat
  <2>1. b[n] \in Seq(Binder)
    BY <1>1
  <2>2. Len(b[n]) \in Nat /\ DOMAIN b[n] = 1 .. Len(b[n])
    BY <2>1
  <2>3. IsFiniteSet(DOMAIN b[n])
    BY <2>2, FS_Interval
  <2>4. PICK h : h = [j \in DOMAIN b[n] |-> b[n][j].head]
    OBVIOUS
  <2>5. h \in Surjection(DOMAIN b[n], {b[n][j].head : j \in DOMAIN b[n]})
    BY <2>4 DEF Surjection
  <2>6. IsFiniteSet({b[n][j].head : j \in DOMAIN b[n]})
    BY <2>3, <2>5, FS_Surjection
  <2>7. ASSUME NEW j \in DOMAIN b[n]
        PROVE  b[n][j].head \in Nat
    <3>1. b[n][j] \in Binder
      BY <2>1, <2>2
    <3> QED
      BY <3>1 DEF Binder
  <2> QED
    BY <2>2, <2>3, <2>6, <2>7
<1>3. PICK H : H = [n \in DOMAIN b |-> {b[n][j].head : j \in DOMAIN b[n]}]
  OBVIOUS
<1>4. PICK D : D = [n \in DOMAIN b |-> DOMAIN b[n]]
  OBVIOUS
<1>5. PICK HS : HS = {H[n] : n \in DOMAIN b}
  OBVIOUS
<1>6. PICK DS : DS = {D[n] : n \in DOMAIN b}
  OBVIOUS
<1>7. H \in Surjection(DOMAIN b, HS) /\ D \in Surjection(DOMAIN b, DS)
  BY <1>3, <1>4, <1>5, <1>6 DEF Surjection
<1>8. IsFiniteSet(HS) /\ IsFiniteSet(DS)
  BY <1>1, <1>7, FS_Surjection
<1>9. /\ \A T \in HS : IsFiniteSet(T) /\ T \subseteq Nat
      /\ \A T \in DS : IsFiniteSet(T) /\ T \subseteq Nat
  BY <1>2, <1>3, <1>4, <1>5, <1>6
<1>10. IsFiniteSet(UNION HS) /\ IsFiniteSet(UNION DS)
  BY <1>8, <1>9, FS_UNION
<1>11. HeadsAt(b) = UNION HS /\ Spots(b) = UNION DS
  BY <1>3, <1>4, <1>5, <1>6 DEF HeadsAt, Spots
<1> QED
  BY <1>9, <1>10, <1>11

\* An index of finitely many declarations over finitely many classes.
IsIndex(i) ==
  /\ Telescopes(i.binders) /\ i.produces \subseteq DOMAIN i.binders
  /\ IsFiniteSet(i.classes) /\ i.classes \subseteq Nat
  /\ \A n \in DOMAIN i.binders : \A k \in DOMAIN i.binders[n] :
       IsInstance(i.binders[n][k]) => i.binders[n][k].head \in i.classes
  /\ \A c \in i.classes : i.above[c] \subseteq i.classes

\* What is read off a closure is such an index.
LEMMA ClosureIndexed ==
  ASSUME NEW slice \in Closures
  PROVE  IsIndex(HomeIndexOf(slice))
<1>1. PICK home : home = HomeIndexOf(slice)
  OBVIOUS
<1>2. PICK b : b = [n \in DOMAIN slice |-> BindersOf(slice, n)]
  OBVIOUS
<1>3. PICK classes : classes = Classes(slice)
  OBVIOUS
<1>4. PICK edges : edges = Parents(slice)
  OBVIOUS
<1>5. /\ home.binders = b /\ home.classes = classes
      /\ home.above = [c \in classes |-> Ancestors(edges, c)]
      /\ home.produces \subseteq DOMAIN slice
  BY <1>1, <1>2, <1>3, <1>4 DEF HomeIndexOf
<1>6. /\ IsFiniteSet(DOMAIN slice) /\ DOMAIN slice \subseteq Nat
      /\ \A n \in DOMAIN slice : slice[n].binders \in Seq(Binder)
  BY ClosuresAreRead DEF Binder
<1>7. Telescopes(b) /\ DOMAIN b = DOMAIN slice
  <2>1. DOMAIN b = DOMAIN slice
    BY <1>2
  <2>2. ASSUME NEW n \in DOMAIN b
        PROVE  b[n] \in Seq(Binder)
    <3>1. b[n] = IF slice[n].telescoped THEN slice[n].binders ELSE <<>>
      BY <1>2, <2>1 DEF BindersOf
    <3>2. slice[n].binders \in Seq(Binder) /\ <<>> \in Seq(Binder)
      BY <1>6, <2>1
    <3> QED
      BY <3>1, <3>2
  <2> QED
    BY <1>6, <2>1, <2>2 DEF Telescopes
<1>8. classes \subseteq HeadsAt(b)
  <2> SUFFICES ASSUME NEW h \in classes
               PROVE  h \in HeadsAt(b)
    OBVIOUS
  <2>1. PICK c \in UNION {ToSet(BindersOf(slice, n)) : n \in DOMAIN slice} : h = c.head
    BY <1>3 DEF Classes
  <2>2. PICK n \in DOMAIN slice : c \in ToSet(BindersOf(slice, n))
    OBVIOUS
  <2>3. b[n] = BindersOf(slice, n) /\ n \in DOMAIN b
    BY <1>2
  <2>4. PICK i \in DOMAIN b[n] : c = b[n][i]
    BY <2>2, <2>3 DEF ToSet
  <2>5. h \in {b[n][j].head : j \in DOMAIN b[n]}
    BY <2>1, <2>4
  <2> QED
    BY <2>3, <2>5 DEF HeadsAt
<1>9. IsFiniteSet(classes) /\ classes \subseteq Nat
  BY <1>7, <1>8, HeadsFinite, FS_Subset
<1>10. ASSUME NEW n \in DOMAIN b, NEW k \in DOMAIN b[n], IsInstance(b[n][k])
       PROVE  b[n][k].head \in classes
  <2>1. b[n] = BindersOf(slice, n) /\ n \in DOMAIN slice
    BY <1>2
  <2>2. b[n][k] \in ToSet(BindersOf(slice, n))
    BY <2>1 DEF ToSet
  <2>3. b[n][k] \in UNION {ToSet(BindersOf(slice, m)) : m \in DOMAIN slice}
    BY <2>1, <2>2
  <2> QED
    BY <1>3, <1>10, <2>3 DEF Classes
<1>11. IsFiniteSet(edges) /\ \A e \in edges : e[2] \in classes
  <2> DEFINE P == {r \in Range(slice) : r.telescoped /\ r.owner \in classes
                                      /\ r.concl \in classes \ {r.owner}}
  <2>1. edges = {<<r.owner, r.concl>> : r \in P}
    BY <1>3, <1>4 DEF Parents
  <2>2. PICK f : f = [n \in DOMAIN slice |-> slice[n]]
    OBVIOUS
  <2>3. f \in Surjection(DOMAIN slice, Range(slice))
    BY <2>2 DEF Surjection, Range
  <2>4. IsFiniteSet(Range(slice))
    BY <1>6, <2>3, FS_Surjection
  <2>5. P \in SUBSET Range(slice)
    OBVIOUS
  <2>6. IsFiniteSet(P)
    BY <2>4, <2>5, FS_Subset
  <2>7. \A r \in P : r.concl \in classes
    OBVIOUS
  <2> HIDE DEF P
  <2>8. PICK g : g = [r \in P |-> <<r.owner, r.concl>>]
    OBVIOUS
  <2>9. g \in Surjection(P, edges)
    BY <2>1, <2>8 DEF Surjection
  <2>10. IsFiniteSet(edges)
    BY <2>6, <2>9, FS_Surjection
  <2> QED
    BY <2>1, <2>7, <2>10
<1>12. ASSUME NEW c \in classes
       PROVE  home.above[c] \subseteq classes
  <2>1. home.above[c] = Reach(edges, c, Cardinality(edges)) \ {c}
    BY <1>5 DEF Ancestors
  <2>2. Cardinality(edges) \in Nat
    BY <1>11, FS_CardinalityType
  <2>3. Reach(edges, c, Cardinality(edges)) \subseteq {e[2] : e \in edges}
    BY <2>2, ReachedAreEnds
  <2> QED
    BY <1>11, <2>1, <2>3
<1> QED
  BY <1>1, <1>5, <1>7, <1>9, <1>10, <1>12 DEF IsIndex

-----------------------------------------------------------------------------
(* Proposals *)

\* What is searched for a binder lies above its class.
LEMMA SearchedAbove ==
  ASSUME NEW i, NEW b, NEW reached, NEW none, NEW uncovered
  PROVE  /\ SearchVerdict(i, b, reached, none, uncovered).class = b.class
         /\ SearchVerdict(i, b, reached, none, uncovered).candidates \subseteq i.above[b.class]
<1>1. PICK requirements : requirements = i.above[b.class] \cap reached
  OBVIOUS
<1>2. PICK candidates : candidates = Covering(i, i.above[b.class], requirements)
  OBVIOUS
<1>3. candidates \subseteq i.above[b.class]
  BY <1>2 DEF Covering
<1>4. SearchVerdict(i, b, reached, none, uncovered) =
        IF b.class \in reached
        THEN [class |-> b.class, carrier |-> b.carrier, verdict |-> "at-home", candidates |-> {}]
        ELSE IF requirements = {}
        THEN [class |-> b.class, carrier |-> b.carrier, verdict |-> none, candidates |-> {}]
        ELSE [class |-> b.class, carrier |-> b.carrier,
              verdict |-> IF candidates = {} THEN uncovered ELSE "candidates",
              candidates |-> candidates]
  BY <1>1, <1>2 DEF SearchVerdict
<1> QED
  BY <1>3, <1>4

\* Only theorems that are no registered instances are judged among those
\* that produce a class.
LEMMA JudgedAreClaims ==
  ASSUME NEW i, NEW n \in i.produces, CarrierStatementCandidates(i, n).skipped = "no"
  PROVE  i.rows[n].isInstance = "no"
<1> SUFFICES ASSUME i.rows[n].isInstance # "no"
             PROVE  FALSE
  OBVIOUS
<1>1. CarrierStatementCandidates(i, n) = Skipped("produces-a-class")
  BY DEF CarrierStatementCandidates
<1> QED
  BY <1>1 DEF Skipped

\* What is proposed for a binder lies above its class, and not for a registered
\* instance.
LEMMA CandidatesAbove ==
  ASSUME NEW i, NEW n \in i.produces, NEW k, NEW c \in CandidatesAt(i, n, k)
  PROVE  c \in i.above[i.binders[n][k].head] /\ i.rows[n].isInstance = "no"
<1>1. PICK search : search = CarrierStatementCandidates(i, n)
  OBVIOUS
<1>2. PICK v \in search.verdicts : v.class = i.binders[n][k].head /\ c \in v.candidates
  BY <1>1 DEF CandidatesAt
<1>3. PICK binders : binders = ParameterAwareInstanceBinders(i, n)
  OBVIOUS
<1> DEFINE judge(b) ==
      IF b.carrier = NoCarrier
      THEN [class |-> b.class, carrier |-> NoCarrier,
            verdict |-> "unknown-carrier", candidates |-> {}]
      ELSE SearchVerdict(i, b, ReachedAt(i, i.rows[n], b.carrier),
                         "no-attached-requirement", "no-attached-requirement")
<1>4. search = Judged({judge(b) : b \in binders})
  <2>1. \/ search = Judged({judge(b) : b \in binders})
        \/ search = Skipped("produces-a-class")
        \/ search = Skipped("no-carrier-evidence")
        \/ search = Skipped("no-instance-binder")
    BY <1>1, <1>3 DEF CarrierStatementCandidates
  <2>2. \A why : Skipped(why).verdicts = {}
    BY DEF Skipped
  <2> QED
    BY <1>2, <2>1, <2>2
<1>5. search.skipped = "no" /\ search.verdicts = {judge(b) : b \in binders}
  BY <1>4 DEF Judged
<1>6. PICK b \in binders : v = judge(b)
  BY <1>2, <1>5
<1>7. v.class = b.class /\ v.candidates \subseteq i.above[b.class]
  BY <1>6, SearchedAbove
<1> QED
  BY <1>1, <1>2, <1>5, <1>7, JudgedAreClaims

\* The proposal to replace a binder's class.
ProposalOf(i, n, k, c) ==
  [decl |-> n, projection |-> ProjectionLike(i, n),
   index |-> Before(i.binders[n], k, IsInstance),
   raw |-> Before(i.binders[n], k, Implicit),
   source |-> i.binders[n][k].head, target |-> c]

ProposalRows ==
  [decl : Nat, projection : BOOLEAN, index : Nat, raw : Nat, source : Nat, target : Nat]

\* Places in a telescope are numbers.
LEMMA CountsAreNumbers ==
  ASSUME NEW b, NEW k \in Nat
  PROVE  Before(b, k, IsInstance) \in Nat /\ Before(b, k, Implicit) \in Nat
<1>1. IsFiniteSet(1 .. k - 1)
  BY FS_Interval
<1>2. \A T \in SUBSET (1 .. k - 1) : Cardinality(T) \in Nat
  BY <1>1, FS_Subset, FS_CardinalityType
<1>3. {j \in 1 .. k - 1 : IsInstance(b[j])} \in SUBSET (1 .. k - 1)
  OBVIOUS
<1>4. {j \in 1 .. k - 1 : Implicit(b[j])} \in SUBSET (1 .. k - 1)
  OBVIOUS
<1>5. /\ Cardinality({j \in 1 .. k - 1 : IsInstance(b[j])}) \in Nat
      /\ Cardinality({j \in 1 .. k - 1 : Implicit(b[j])}) \in Nat
  BY <1>2, <1>3, <1>4
<1> QED
  BY <1>5, Zenon DEF Before

\* Where a proposal comes from.
LEMMA ProposalIs ==
  ASSUME NEW i, IsIndex(i), NEW p \in Proposals(i)
  PROVE  /\ p \in ProposalRows
         /\ \E n \in i.produces : \E k \in DOMAIN i.binders[n] :
              /\ IsInstance(i.binders[n][k]) /\ p = ProposalOf(i, n, k, p.target)
              /\ p.target \in i.above[p.source] /\ p.target \in i.classes
              /\ i.rows[n].isInstance = "no"
<1>1. PICK n \in i.produces : p \in ProposalsOf(i, n)
  BY DEF Proposals
<1>2. PICK k \in {j \in DOMAIN i.binders[n] : IsInstance(i.binders[n][j])} :
        p \in {ProposalOf(i, n, k, c) : c \in CandidatesAt(i, n, k)}
  BY <1>1, Zenon DEF ProposalsOf, ProposalOf
<1>3. PICK c \in CandidatesAt(i, n, k) : p = ProposalOf(i, n, k, c)
  BY <1>2
<1>4. PICK head : head = i.binders[n][k].head
  OBVIOUS
<1>5. /\ p.decl = n /\ p.source = head /\ p.target = c
      /\ p.index = Before(i.binders[n], k, IsInstance)
      /\ p.raw = Before(i.binders[n], k, Implicit)
      /\ p.projection = ProjectionLike(i, n)
  BY <1>3, <1>4 DEF ProposalOf
<1>6. c \in i.above[head] /\ i.rows[n].isInstance = "no"
  BY <1>4, CandidatesAbove
<1>7. n \in DOMAIN i.binders /\ DOMAIN i.binders \subseteq Nat /\ i.binders[n] \in Seq(Binder)
  BY DEF IsIndex, Telescopes
<1>8. k \in Nat
  BY <1>7
<1>9. head \in i.classes /\ c \in i.classes /\ i.classes \subseteq Nat
  BY <1>2, <1>4, <1>6, <1>7 DEF IsIndex
<1>10. ProjectionLike(i, n) \in BOOLEAN
  BY DEF ProjectionLike
<1>11. p.index \in Nat /\ p.raw \in Nat
  BY <1>5, <1>8, CountsAreNumbers
<1>12. p = [decl |-> p.decl, projection |-> p.projection, index |-> p.index, raw |-> p.raw,
            source |-> p.source, target |-> p.target]
  BY <1>3 DEF ProposalOf
<1>13. p.projection \in BOOLEAN
  BY <1>5, <1>10
<1>14. p \in ProposalRows
  BY <1>5, <1>7, <1>9, <1>11, <1>12, <1>13 DEF ProposalRows
<1> QED
  BY <1>2, <1>3, <1>5, <1>6, <1>9, <1>14

\* There are finitely many proposals.
LEMMA ProposalsFinite ==
  ASSUME NEW i, IsIndex(i)
  PROVE  IsFiniteSet(Proposals(i))
<1> DEFINE Q == (DOMAIN i.binders) \X Spots(i.binders) \X i.classes
<1>1. IsFiniteSet(Q)
  <2>1. /\ IsFiniteSet(DOMAIN i.binders) /\ IsFiniteSet(Spots(i.binders))
        /\ IsFiniteSet(i.classes)
    BY HeadsFinite DEF IsIndex, Telescopes
  <2>2. PICK D, S, C : D = DOMAIN i.binders /\ S = Spots(i.binders) /\ C = i.classes
    OBVIOUS
  <2>3. IsFiniteSet(D \X S)
    BY <2>1, <2>2, FS_Product
  <2>4. IsFiniteSet((D \X S) \X C)
    BY <2>1, <2>2, <2>3, FS_Product
  <2>5. PICK f : f = [q \in (D \X S) \X C |-> <<q[1][1], q[1][2], q[2]>>]
    OBVIOUS
  <2>6. f \in Surjection((D \X S) \X C, D \X S \X C)
    <3>1. f \in [(D \X S) \X C -> D \X S \X C]
      BY <2>5
    <3>2. ASSUME NEW q \in D \X S \X C
          PROVE  \E r \in (D \X S) \X C : f[r] = q
      <4>1. PICK d \in D, s \in S, c \in C : q = <<d, s, c>>
        OBVIOUS
      <4>2. <<<<d, s>>, c>> \in (D \X S) \X C
        OBVIOUS
      <4>3. f[<<<<d, s>>, c>>] = <<d, s, c>>
        BY <2>5, <4>2
      <4> QED
        BY <4>1, <4>2, <4>3
    <3> QED
      BY <3>1, <3>2 DEF Surjection
  <2> QED
    BY <2>2, <2>4, <2>6, FS_Surjection
<1> HIDE DEF Q
<1>2. PICK f : f = [q \in Q |-> ProposalOf(i, q[1], q[2], q[3])]
  OBVIOUS
<1>3. PICK A : A = {f[q] : q \in Q}
  OBVIOUS
<1>4. IsFiniteSet(A)
  <2>1. f \in Surjection(Q, A)
    BY <1>2, <1>3 DEF Surjection
  <2> QED
    BY <1>1, <2>1, FS_Surjection
<1>5. ASSUME NEW p \in Proposals(i)
      PROVE  p \in A
  <2>1. PICK n \in i.produces : \E k \in DOMAIN i.binders[n] :
          p = ProposalOf(i, n, k, p.target) /\ p.target \in i.classes
    BY ProposalIs
  <2>2. PICK k \in DOMAIN i.binders[n] : p = ProposalOf(i, n, k, p.target) /\ p.target \in i.classes
    BY <2>1
  <2>3. n \in DOMAIN i.binders
    BY DEF IsIndex
  <2>4. k \in Spots(i.binders)
    BY <2>3 DEF Spots
  <2>5. <<n, k, p.target>> \in Q
    BY <2>2, <2>3, <2>4 DEF Q
  <2>6. f[<<n, k, p.target>>] = ProposalOf(i, n, k, p.target)
    BY <1>2, <2>5
  <2> QED
    BY <1>3, <2>2, <2>5, <2>6
<1> QED
  BY <1>4, <1>5, FS_Subset

\* Either count tells the binder.
LEMMA BinderTold ==
  ASSUME NEW b \in Seq(Binder), NEW k \in DOMAIN b, NEW l \in DOMAIN b
  PROVE  /\ IsInstance(b[k]) /\ IsInstance(b[l])
            /\ Before(b, k, IsInstance) = Before(b, l, IsInstance) => k = l
         /\ Implicit(b[k]) /\ Implicit(b[l])
            /\ Before(b, k, Implicit) = Before(b, l, Implicit) => k = l
<1>1. k \in Nat \ {0} /\ l \in Nat \ {0} /\ k - 1 < Len(b) /\ l - 1 < Len(b) /\ Len(b) \in Nat
      /\ DOMAIN b = 1 .. Len(b)
  OBVIOUS
<1>2. PICK T : T = {j \in DOMAIN b : IsInstance(b[j])}
  OBVIOUS
<1>3. PICK U : U = {j \in DOMAIN b : Implicit(b[j])}
  OBVIOUS
<1>4. ASSUME NEW m \in DOMAIN b
      PROVE  /\ {j \in 1 .. m - 1 : IsInstance(b[j])} = {j \in 1 .. m - 1 : j \in T}
             /\ {j \in 1 .. m - 1 : Implicit(b[j])} = {j \in 1 .. m - 1 : j \in U}
  <2>1. \A j \in 1 .. m - 1 : j \in DOMAIN b
    BY <1>1
  <2>2. \A j \in 1 .. m - 1 : (j \in T <=> IsInstance(b[j])) /\ (j \in U <=> Implicit(b[j]))
    BY <1>2, <1>3, <2>1
  <2> QED
    BY <2>2
<1>5. ASSUME NEW m \in DOMAIN b
      PROVE  /\ Before(b, m, IsInstance) = Cardinality({j \in 1 .. m - 1 : j \in T})
             /\ Before(b, m, Implicit) = Cardinality({j \in 1 .. m - 1 : j \in U})
  <2>1. /\ Before(b, m, IsInstance) = Cardinality({j \in 1 .. m - 1 : IsInstance(b[j])})
        /\ Before(b, m, Implicit) = Cardinality({j \in 1 .. m - 1 : Implicit(b[j])})
    BY Zenon DEF Before
  <2> QED
    BY <1>4, <2>1
<1>6. ASSUME IsInstance(b[k]), IsInstance(b[l]),
             Before(b, k, IsInstance) = Before(b, l, IsInstance)
      PROVE  k = l
  <2>1. k \in T /\ l \in T
    BY <1>2, <1>6
  <2> QED
    BY <1>1, <1>5, <1>6, <2>1, CountTells
<1>7. ASSUME Implicit(b[k]), Implicit(b[l]), Before(b, k, Implicit) = Before(b, l, Implicit)
      PROVE  k = l
  <2>1. k \in U /\ l \in U
    BY <1>3, <1>7
  <2> QED
    BY <1>1, <1>5, <1>7, <2>1, CountTells
<1> QED
  BY <1>6, <1>7

\* Declaration, index, class and target name a proposal.
LEMMA KeyNames ==
  ASSUME NEW i, IsIndex(i), NEW p \in Proposals(i), NEW q \in Proposals(i),
         p.decl = q.decl, p.index = q.index, p.target = q.target
  PROVE  p = q
<1>1. PICK n \in i.produces : \E k \in DOMAIN i.binders[n] :
        IsInstance(i.binders[n][k]) /\ p = ProposalOf(i, n, k, p.target)
  BY ProposalIs
<1>2. PICK m \in i.produces : \E l \in DOMAIN i.binders[m] :
        IsInstance(i.binders[m][l]) /\ q = ProposalOf(i, m, l, q.target)
  BY ProposalIs
<1>3. PICK k \in DOMAIN i.binders[n] :
        IsInstance(i.binders[n][k]) /\ p = ProposalOf(i, n, k, p.target)
  BY <1>1
<1>4. PICK l \in DOMAIN i.binders[m] :
        IsInstance(i.binders[m][l]) /\ q = ProposalOf(i, m, l, q.target)
  BY <1>2
<1>5. p.decl = n /\ p.index = Before(i.binders[n], k, IsInstance)
  BY <1>3 DEF ProposalOf
<1>6. q.decl = m /\ q.index = Before(i.binders[m], l, IsInstance)
  BY <1>4 DEF ProposalOf
<1>7. i.binders[n] \in Seq(Binder) /\ n = m
  BY <1>5, <1>6 DEF IsIndex, Telescopes
<1>8. k = l
  BY <1>3, <1>4, <1>5, <1>6, <1>7, BinderTold
<1> QED
  BY <1>3, <1>4, <1>7, <1>8


-----------------------------------------------------------------------------
(* The sample *)

\* Whose keys come before that of s.
Behind(S, K, s) == {r \in S : Precedes(K[r], K[s])}

Keyed(S, K, n) ==
  /\ IsFiniteSet(S)
  /\ \A s \in S : K[s] \in Seq(Int) /\ Len(K[s]) = n
  /\ \A r, s \in S : K[r] = K[s] => r = s

\* Distinct keys give the elements of a finite set the places from 0 on.
LEMMA KeyedPlaces ==
  ASSUME NEW S, NEW n \in Nat, NEW K, Keyed(S, K, n)
  PROVE  /\ Cardinality(S) \in Nat
         /\ \A s \in S : Cardinality(Behind(S, K, s)) + 1 \in 1..Cardinality(S)
         /\ \A j \in 1..Cardinality(S) : \E s \in S : Cardinality(Behind(S, K, s)) = j - 1
         /\ \A s, t \in S :
              Cardinality(Behind(S, K, s)) = Cardinality(Behind(S, K, t)) => s = t
         /\ \A c \in Nat : c <= Cardinality(S) =>
              Cardinality({s \in S : Cardinality(Behind(S, K, s)) < c}) = c
<1>1. PICK R : R = {e \in S \X S : Precedes(K[e[1]], K[e[2]])}
  OBVIOUS
<1>2. \A r, s \in S : <<r, s>> \in R <=> Precedes(K[r], K[s])
  BY <1>1
<1>3. LinearOn(S, R)
  BY <1>2, KeysOrder DEF Keyed
<1>4. \A s \in S : Behind(S, K, s) = Below(S, R, s)
  BY <1>2 DEF Behind, Below
<1>5. ASSUME NEW c \in Nat, c <= Cardinality(S)
      PROVE  Cardinality({s \in S : Cardinality(Behind(S, K, s)) < c}) = c
  <2>1. Cardinality(FirstIn(S, R, c)) = c
    BY <1>3, <1>5, FirstAre DEF Keyed
  <2>2. FirstIn(S, R, c) = {s \in S : Cardinality(Behind(S, K, s)) < c}
    BY <1>4 DEF FirstIn
  <2> QED
    BY <2>1, <2>2
<1> QED
  BY <1>3, <1>4, <1>5, PlacesTaken DEF Keyed

\* The indexes there are.
Indexes == {HomeIndexOf(s) : s \in Closures}

Families(i) == ByFamily(Proposals(i))

\* What is known of an index and of the hashes of its proposals.
LEMMA IndexesAre ==
  ASSUME NEW i \in Indexes
  PROVE  /\ IsIndex(i) /\ IsFiniteSet(Proposals(i))
         /\ \A p \in Proposals(i), seed \in Seeds :
              Rank(seed, FamilyOf(p)) \in Int /\ Rank(seed, KeyByIndex(p)) \in Int
<1>1. PICK slice \in Closures : i = HomeIndexOf(slice)
  BY DEF Indexes
<1>2. IsIndex(i)
  BY <1>1, ClosureIndexed
<1>3. \A p \in Proposals(i), seed \in Seeds :
        {Rank(seed, FamilyOf(p)), Rank(seed, KeyByIndex(p))} \subseteq Int
  BY <1>1, StudyIsTyped
<1> QED
  BY <1>2, <1>3, ProposalsFinite

\* A family is told by its status and its two classes.
LEMMA FamiliesAre ==
  ASSUME NEW i \in Indexes
  PROVE  /\ DOMAIN Families(i) = {FamilyOf(p) : p \in Proposals(i)}
         /\ IsFiniteSet(DOMAIN Families(i))
         /\ \A f \in DOMAIN Families(i) :
              /\ Families(i)[f] = {p \in Proposals(i) : FamilyOf(p) = f}
              /\ Families(i)[f] # {} /\ IsFiniteSet(Families(i)[f])
              /\ f \in Seq(Int) /\ Len(f) = 3
              /\ f = <<f[1], f[2], f[3]>> /\ f[1] \in {0, 1} /\ f[2] \in Nat /\ f[3] \in Nat
<1>1. PICK P : P = Proposals(i)
  OBVIOUS
<1>2. IsFiniteSet(P) /\ \A p \in P : p \in ProposalRows
  BY <1>1, IndexesAre, ProposalIs
<1>3. PICK g : g = [p \in P |-> FamilyOf(p)]
  OBVIOUS
<1>4. PICK F : F = {FamilyOf(p) : p \in P}
  OBVIOUS
<1>5. g \in Surjection(P, F)
  BY <1>3, <1>4 DEF Surjection
<1>6. IsFiniteSet(F)
  BY <1>2, <1>5, FS_Surjection
<1>7. Families(i) = [f \in F |-> {p \in P : FamilyOf(p) = f}]
  BY <1>1, <1>4, Zenon DEF Families, ByFamily
<1>8. ASSUME NEW f \in F
      PROVE  /\ {p \in P : FamilyOf(p) = f} # {} /\ IsFiniteSet({p \in P : FamilyOf(p) = f})
             /\ f \in Seq(Int) /\ Len(f) = 3
             /\ f = <<f[1], f[2], f[3]>> /\ f[1] \in {0, 1} /\ f[2] \in Nat /\ f[3] \in Nat
  <2>1. PICK p \in P : f = FamilyOf(p)
    BY <1>4
  <2>2. f = <<Flag(p.projection), p.source, p.target>>
    BY <2>1 DEF FamilyOf
  <2>3. p.source \in Nat /\ p.target \in Nat
    BY <1>2 DEF ProposalRows
  <2>4. Flag(p.projection) \in {0, 1}
    BY DEF Flag
  <2>5. {q \in P : FamilyOf(q) = f} \in SUBSET P
    OBVIOUS
  <2>6. IsFiniteSet({q \in P : FamilyOf(q) = f})
    BY <1>2, <2>5, FS_Subset
  <2>7. {q \in P : FamilyOf(q) = f} # {}
    BY <2>1
  <2>8. \A a, b, c \in Int : <<a, b, c>> \in Seq(Int) /\ Len(<<a, b, c>>) = 3
    OBVIOUS
  <2>9. f \in Seq(Int) /\ Len(f) = 3
    BY <2>2, <2>3, <2>4, <2>8
  <2>10. f[1] = Flag(p.projection) /\ f[2] = p.source /\ f[3] = p.target
    BY <2>2
  <2> QED
    BY <2>2, <2>3, <2>4, <2>6, <2>7, <2>9, <2>10
<1> QED
  BY <1>1, <1>4, <1>6, <1>7, <1>8

\* As many families of a cell are drawn as are asked for.
LEMMA DrawnAre ==
  ASSUME NEW i \in Indexes, NEW seed \in Seeds, NEW cell \in Cells, NEW n \in Nat,
         n <= Cardinality(FamiliesIn(Families(i), cell))
  PROVE  /\ Drawn(Families(i), cell, seed, n) \subseteq FamiliesIn(Families(i), cell)
         /\ Cardinality(Drawn(Families(i), cell, seed, n)) = n
<1>1. PICK S : S = FamiliesIn(Families(i), cell)
  OBVIOUS
<1>2. S \in SUBSET DOMAIN Families(i)
  BY <1>1 DEF FamiliesIn
<1>3. IsFiniteSet(S)
  BY <1>2, FamiliesAre, FS_Subset
<1>4. PICK K : K = [f \in S |-> <<Rank(seed, f)>> \o f]
  OBVIOUS
<1>5. ASSUME NEW f \in S
      PROVE  /\ Rank(seed, f) \in Int /\ f \in Seq(Int) /\ Len(f) = 3 /\ f = <<f[1], f[2], f[3]>>
             /\ K[f] = <<Rank(seed, f)>> \o f /\ K[f] \in Seq(Int) /\ Len(K[f]) = 4
             /\ K[f][2] = f[1] /\ K[f][3] = f[2] /\ K[f][4] = f[3]
  <2>1. PICK p \in Proposals(i) : f = FamilyOf(p)
    BY <1>2, FamiliesAre
  <2>2. Rank(seed, f) \in Int
    BY <2>1, IndexesAre
  <2>3. f \in Seq(Int) /\ Len(f) = 3 /\ f = <<f[1], f[2], f[3]>>
    BY <1>2, FamiliesAre
  <2>4. K[f] = <<Rank(seed, f)>> \o f
    BY <1>4
  <2>5. ASSUME NEW x \in Int, NEW s \in Seq(Int), Len(s) = 3
        PROVE  /\ <<x>> \o s \in Seq(Int) /\ Len(<<x>> \o s) = 4
               /\ (<<x>> \o s)[2] = s[1] /\ (<<x>> \o s)[3] = s[2]
               /\ (<<x>> \o s)[4] = s[3]
    <3>1. <<x>> \in Seq(Int) /\ Len(<<x>>) = 1
      OBVIOUS
    <3>2. PICK a \in Seq(Int) : a = <<x>>
      BY <3>1
    <3>3. /\ a \o s \in Seq(Int) /\ Len(a \o s) = Len(a) + Len(s)
          /\ \A k \in 1 .. Len(a) + Len(s) :
               (a \o s)[k] = IF k <= Len(a) THEN a[k] ELSE s[k - Len(a)]
      BY ConcatProperties
    <3>4. Len(a) = 1
      BY <3>1, <3>2
    <3>5. Len(a) + Len(s) = 4
      BY <2>5, <3>4
    <3>6. (a \o s)[2] = s[1] /\ (a \o s)[3] = s[2] /\ (a \o s)[4] = s[3]
      <4>1. \A k \in 2 .. 4 : (a \o s)[k] = s[k - 1]
        BY <3>3, <3>4, <3>5
      <4>2. 2 \in 2 .. 4 /\ 3 \in 2 .. 4 /\ 4 \in 2 .. 4 /\ 2 - 1 = 1 /\ 3 - 1 = 2 /\ 4 - 1 = 3
        OBVIOUS
      <4>3. (a \o s)[2] = s[2 - 1] /\ (a \o s)[3] = s[3 - 1] /\ (a \o s)[4] = s[4 - 1]
        BY <4>1, <4>2, Zenon
      <4> QED
        BY <4>2, <4>3, Zenon
    <3>7. a \o s \in Seq(Int) /\ Len(a \o s) = 4
      BY <3>3, <3>5
    <3> QED
      BY <3>2, <3>6, <3>7
  <2> QED
    BY <2>2, <2>3, <2>4, <2>5
<1>6. \A f, g \in S : K[f] = K[g] => f = g
  <2> SUFFICES ASSUME NEW f \in S, NEW g \in S, K[f] = K[g]
               PROVE  f = g
    OBVIOUS
  <2>1. /\ K[f][2] = f[1] /\ K[f][3] = f[2] /\ K[f][4] = f[3]
        /\ K[g][2] = g[1] /\ K[g][3] = g[2] /\ K[g][4] = g[3]
    BY <1>5
  <2>2. f[1] = g[1] /\ f[2] = g[2] /\ f[3] = g[3]
    BY <2>1
  <2>3. f = <<f[1], f[2], f[3]>> /\ g = <<g[1], g[2], g[3]>>
    BY <1>5
  <2> QED
    BY <2>3, <2>2
<1>7. ASSUME NEW s \in S
      PROVE  {r \in S : Precedes(<<Rank(seed, r)>> \o r, <<Rank(seed, s)>> \o s)} = Behind(S, K, s)
  BY <1>4 DEF Behind
<1>8. Drawn(Families(i), cell, seed, n) = {s \in S : Cardinality(Behind(S, K, s)) < n}
  <2>1. Drawn(Families(i), cell, seed, n) =
          {s \in S : Cardinality({r \in S : Precedes(<<Rank(seed, r)>> \o r,
                                                     <<Rank(seed, s)>> \o s)}) < n}
    BY <1>1, Zenon DEF Drawn, FirstBy
  <2> QED
    BY <1>7, <2>1
<1>9. Cardinality({s \in S : Cardinality(Behind(S, K, s)) < n}) = n
  <2>1. \A s \in S : K[s] \in Seq(Int) /\ Len(K[s]) = 4
    BY <1>5
  <2>2. \A c \in Nat : c <= Cardinality(S) =>
          Cardinality({s \in S : Cardinality(Behind(S, K, s)) < c}) = c
    <3>1. Keyed(S, K, 4)
      BY <1>3, <1>6, <2>1 DEF Keyed
    <3> QED
      BY <3>1, KeyedPlaces
  <2> QED
    BY <1>1, <2>2
<1> QED
  BY <1>1, <1>8, <1>9

\* A family's proposal is one of it.
LEMMA FirstIs ==
  ASSUME NEW i \in Indexes, NEW seed \in Seeds, NEW f \in DOMAIN Families(i)
  PROVE  First(Families(i)[f], seed) \in Families(i)[f]
<1>1. PICK S : S = Families(i)[f]
  OBVIOUS
<1>2. S = {p \in Proposals(i) : FamilyOf(p) = f} /\ S # {} /\ IsFiniteSet(S)
  BY <1>1, FamiliesAre
<1>3. PICK K : K = [q \in S |-> <<Rank(seed, KeyByIndex(q)), q.decl, q.index>>]
  OBVIOUS
<1>4. ASSUME NEW q \in S
      PROVE  /\ K[q] \in Seq(Int) /\ Len(K[q]) = 3
             /\ K[q][2] = q.decl /\ K[q][3] = q.index /\ q.target = f[3]
  <2>1. Rank(seed, KeyByIndex(q)) \in Int
    BY <1>2, IndexesAre
  <2>2. q \in ProposalRows
    BY <1>2, IndexesAre, ProposalIs
  <2>3. q.decl \in Int /\ q.index \in Int
    BY <2>2 DEF ProposalRows
  <2>4. K[q] = <<Rank(seed, KeyByIndex(q)), q.decl, q.index>>
    BY <1>3
  <2>5. f = <<Flag(q.projection), q.source, q.target>>
    BY <1>2 DEF FamilyOf
  <2>6. \A a, b, c \in Int : <<a, b, c>> \in Seq(Int) /\ Len(<<a, b, c>>) = 3
    OBVIOUS
  <2> QED
    BY <2>1, <2>3, <2>4, <2>5, <2>6
<1>5. \A p, q \in S : K[p] = K[q] => p = q
  <2> SUFFICES ASSUME NEW p \in S, NEW q \in S, K[p] = K[q]
               PROVE  p = q
    OBVIOUS
  <2>1. p.decl = q.decl /\ p.index = q.index /\ p.target = q.target
    BY <1>4
  <2> QED
    BY <1>2, <2>1, IndexesAre, KeyNames
<1>6. \A s \in S : {r \in S : Precedes(<<Rank(seed, KeyByIndex(r)), r.decl, r.index>>,
                                       <<Rank(seed, KeyByIndex(s)), s.decl, s.index>>)}
                   = Behind(S, K, s)
  BY <1>3 DEF Behind
<1>7. PICK T : T = {s \in S : Cardinality(Behind(S, K, s)) < 1}
  OBVIOUS
<1>8. First(S, seed) = CHOOSE p \in T : TRUE
  <2>1. First(S, seed) = CHOOSE p \in
          {s \in S : Cardinality({r \in S :
             Precedes(<<Rank(seed, KeyByIndex(r)), r.decl, r.index>>,
                      <<Rank(seed, KeyByIndex(s)), s.decl, s.index>>)}) < 1} : TRUE
    BY Zenon DEF First, FirstBy
  <2>2. {s \in S : Cardinality({r \in S :
             Precedes(<<Rank(seed, KeyByIndex(r)), r.decl, r.index>>,
                      <<Rank(seed, KeyByIndex(s)), s.decl, s.index>>)}) < 1} = T
    BY <1>6, <1>7
  <2> QED
    BY <2>1, <2>2
<1>9. T # {}
  <2>1. \A s \in S : K[s] \in Seq(Int) /\ Len(K[s]) = 3
    BY <1>4
  <2>2. /\ Cardinality(S) \in Nat
        /\ \A j \in 1..Cardinality(S) : \E s \in S : Cardinality(Behind(S, K, s)) = j - 1
    <3>1. Keyed(S, K, 3)
      BY <1>2, <1>5, <2>1 DEF Keyed
    <3> QED
      BY <3>1, KeyedPlaces
  <2>3. Cardinality(S) # 0
    BY <1>2, FS_EmptySet
  <2>4. 1 \in 1..Cardinality(S)
    BY <2>2, <2>3
  <2>5. PICK s \in S : Cardinality(Behind(S, K, s)) = 1 - 1
    BY <2>2, <2>4
  <2> QED
    BY <1>7, <2>5
<1> QED
  BY <1>1, <1>7, <1>8, <1>9

\* A proposal of the population, under the frequency of its family.
InBin(i, p) == Binned(p, FrequencyBin(Cardinality(Families(i)[FamilyOf(p)])))

Probed(i) == {InBin(i, p) : p \in Proposals(i)}

\* A row of a probed proposal says what the proposal says.
LEMMA ProbedIs ==
  ASSUME NEW i, NEW q \in Probed(i)
  PROVE  \E p \in Proposals(i) :
           /\ q = InBin(i, p) /\ FamilyOf(q) = FamilyOf(p)
           /\ q.decl = p.decl /\ q.projection = p.projection /\ q.index = p.index
           /\ q.raw = p.raw /\ q.source = p.source /\ q.target = p.target
           /\ q.bin = FrequencyBin(Cardinality(Families(i)[FamilyOf(p)])) /\ q.bin \in Bins
<1>1. PICK p \in Proposals(i) : q = InBin(i, p)
  BY DEF Probed
<1>2. PICK b : b = FrequencyBin(Cardinality(Families(i)[FamilyOf(p)]))
  OBVIOUS
<1>3. b \in Bins
  BY <1>2 DEF FrequencyBin, Bins
<1>4. q = [decl |-> p.decl, projection |-> p.projection, index |-> p.index, raw |-> p.raw,
           source |-> p.source, target |-> p.target, bin |-> b]
  BY <1>1, <1>2 DEF InBin, Binned
<1>5. /\ q.decl = p.decl /\ q.projection = p.projection /\ q.index = p.index
      /\ q.raw = p.raw /\ q.source = p.source /\ q.target = p.target /\ q.bin = b
  BY <1>4
<1>6. FamilyOf(q) = FamilyOf(p)
  BY <1>5 DEF FamilyOf
<1> QED
  BY <1>1, <1>2, <1>3, <1>5, <1>6

\* Probed proposals are told by declaration, index and target.
LEMMA ProbedNamed ==
  ASSUME NEW i \in Indexes, NEW p \in Probed(i), NEW q \in Probed(i),
         p.decl = q.decl, p.index = q.index, p.target = q.target
  PROVE  p = q
<1>1. PICK a \in Proposals(i) :
        p = InBin(i, a) /\ p.decl = a.decl /\ p.index = a.index /\ p.target = a.target
  BY ProbedIs
<1>2. PICK b \in Proposals(i) :
        q = InBin(i, b) /\ q.decl = b.decl /\ q.index = b.index /\ q.target = b.target
  BY ProbedIs
<1>3. a = b
  BY <1>1, <1>2, IndexesAre, KeyNames
<1> QED
  BY <1>1, <1>2, <1>3

\* What is drawn, one proposal of each family.
LEMMA SelectedAre ==
  ASSUME NEW i \in Indexes, NEW seed \in Seeds, NEW n \in Nat,
         \A cell \in Cells : n <= Cardinality(FamiliesIn(Families(i), cell)),
         NEW T, T = Selected(Families(i), seed, n)
  PROVE  /\ T \subseteq Probed(i)
         /\ \A p, q \in T : FamilyOf(p) = FamilyOf(q) => p = q
         /\ \A cell \in Cells :
              Cardinality({p \in T : p.projection = cell[1] /\ p.bin = cell[2]}) = n
<1>1. PICK draw : draw = [f \in DOMAIN Families(i) |-> First(Families(i)[f], seed)]
  OBVIOUS
<1>2. PICK D : D = [cell \in Cells |-> Drawn(Families(i), cell, seed, n)]
  OBVIOUS
<1>3. ASSUME NEW cell \in Cells
      PROVE  /\ Cardinality(D[cell]) = n
             /\ \A f \in D[cell] : /\ f \in DOMAIN Families(i) /\ Flag(cell[1]) = f[1]
                                   /\ FrequencyBin(Cardinality(Families(i)[f])) = cell[2]
  <2>1. D[cell] = Drawn(Families(i), cell, seed, n)
    BY <1>2
  <2>2. /\ D[cell] \subseteq FamiliesIn(Families(i), cell)
        /\ Cardinality(D[cell]) = n
    BY <2>1, DrawnAre
  <2> QED
    BY <2>2 DEF FamiliesIn
<1>4. ASSUME NEW f \in DOMAIN Families(i)
      PROVE  draw[f] \in Proposals(i) /\ FamilyOf(draw[f]) = f
  <2>1. draw[f] \in Families(i)[f]
    BY <1>1, FirstIs
  <2>2. Families(i)[f] = {p \in Proposals(i) : FamilyOf(p) = f}
    BY FamiliesAre
  <2> QED
    BY <2>1, <2>2
<1>5. T = UNION {{Binned(draw[f], cell[2]) : f \in D[cell]} : cell \in Cells}
  <2>1. T = UNION {{Binned(First(Families(i)[f], seed), cell[2]) :
                      f \in Drawn(Families(i), cell, seed, n)} : cell \in Cells}
    BY Zenon DEF Selected
  <2>2. PICK drawn : drawn = [cell \in Cells |->
          {Binned(First(Families(i)[f], seed), cell[2]) : f \in Drawn(Families(i), cell, seed, n)}]
    OBVIOUS
  <2>3. T = UNION {drawn[cell] : cell \in Cells}
    BY <2>1, <2>2
  <2>4. ASSUME NEW cell \in Cells
        PROVE  drawn[cell] = {Binned(draw[f], cell[2]) : f \in D[cell]}
    <3>1. Drawn(Families(i), cell, seed, n) = D[cell]
      BY <1>2
    <3>2. \A f \in D[cell] : First(Families(i)[f], seed) = draw[f]
      BY <1>1, <1>3
    <3>3. drawn[cell] = {Binned(First(Families(i)[f], seed), cell[2]) : f \in D[cell]}
      BY <2>2, <3>1
    <3> QED
      BY <3>2, <3>3
  <2>5. PICK G : G = [cell \in Cells |-> {Binned(draw[f], cell[2]) : f \in D[cell]}]
    OBVIOUS
  <2>6. \A cell \in Cells : drawn[cell] = G[cell]
    BY <2>4, <2>5
  <2>7. T = UNION {G[cell] : cell \in Cells}
    BY <2>3, <2>6
  <2> QED
    BY <2>5, <2>7
<1>6. ASSUME NEW cell \in Cells, NEW f \in D[cell]
      PROVE  /\ Binned(draw[f], cell[2]) = InBin(i, draw[f]) /\ draw[f] \in Proposals(i)
             /\ InBin(i, draw[f]).projection = cell[1] /\ InBin(i, draw[f]).bin = cell[2]
             /\ FamilyOf(InBin(i, draw[f])) = f
  <2>1. /\ f \in DOMAIN Families(i) /\ Flag(cell[1]) = f[1]
        /\ FrequencyBin(Cardinality(Families(i)[f])) = cell[2]
    BY <1>3
  <2>2. draw[f] \in Proposals(i) /\ FamilyOf(draw[f]) = f
    BY <1>4, <2>1
  <2>3. InBin(i, draw[f]) = Binned(draw[f], cell[2])
    BY <2>1, <2>2 DEF InBin
  <2>4. InBin(i, draw[f]).projection = draw[f].projection /\ InBin(i, draw[f]).bin = cell[2]
    BY <2>3 DEF Binned
  <2>5. f[1] = Flag(draw[f].projection)
    BY <2>2 DEF FamilyOf
  <2>6. draw[f].projection \in BOOLEAN
    <3>1. draw[f] \in ProposalRows
      BY <2>2, IndexesAre, ProposalIs
    <3> QED
      BY <3>1 DEF ProposalRows
  <2>7. cell[1] = draw[f].projection
    <3>1. cell[1] \in BOOLEAN
      BY DEF Cells
    <3> QED
      BY <2>1, <2>5, <2>6, <3>1 DEF Flag
  <2>8. FamilyOf(InBin(i, draw[f])) = FamilyOf(draw[f])
    BY <2>3 DEF Binned, FamilyOf
  <2> QED
    BY <2>2, <2>3, <2>4, <2>7, <2>8
<1>7. ASSUME NEW p \in T
      PROVE  \E cell \in Cells : \E f \in D[cell] : p = InBin(i, draw[f])
  BY <1>5, <1>6
<1>8. T \subseteq Probed(i)
  BY <1>6, <1>7 DEF Probed
<1>9. ASSUME NEW p \in T, NEW q \in T, FamilyOf(p) = FamilyOf(q)
      PROVE  p = q
  BY <1>6, <1>7, <1>9
<1>10. ASSUME NEW cell \in Cells
       PROVE  Cardinality({p \in T : p.projection = cell[1] /\ p.bin = cell[2]}) = n
  <2>1. PICK S : S = {p \in T : p.projection = cell[1] /\ p.bin = cell[2]}
    OBVIOUS
  <2>2. PICK g : g = [f \in D[cell] |-> InBin(i, draw[f])]
    OBVIOUS
  <2>3. ASSUME NEW f \in D[cell]
        PROVE  g[f] \in S /\ FamilyOf(g[f]) = f
    <3>1. g[f] = Binned(draw[f], cell[2]) /\ g[f] = InBin(i, draw[f])
      BY <1>6, <2>2
    <3>2. g[f] \in {Binned(draw[h], cell[2]) : h \in D[cell]}
      BY <3>1
    <3>3. g[f] \in T
      <4>1. PICK G : G = [c \in Cells |-> {Binned(draw[h], c[2]) : h \in D[c]}]
        OBVIOUS
      <4>2. T = UNION {G[c] : c \in Cells}
        BY <1>5, <4>1
      <4>3. g[f] \in G[cell]
        BY <3>2, <4>1
      <4> QED
        BY <4>2, <4>3
    <3> QED
      BY <1>6, <2>1, <3>1, <3>3
  <2>4. ASSUME NEW p \in S
        PROVE  \E f \in D[cell] : g[f] = p
    <3>1. PICK c \in Cells : \E f \in D[c] : p = InBin(i, draw[f])
      BY <1>7, <2>1
    <3>2. PICK f \in D[c] : p = InBin(i, draw[f])
      BY <3>1
    <3>3. c[1] = cell[1] /\ c[2] = cell[2]
      BY <1>6, <2>1, <3>2
    <3>4. c = cell
      BY <3>3 DEF Cells
    <3> QED
      BY <2>2, <3>2, <3>4
  <2>5. g \in Injection(D[cell], S) /\ g \in Surjection(D[cell], S)
    <3>1. g \in [D[cell] -> S]
      BY <2>2, <2>3
    <3>2. \A f, h \in D[cell] : g[f] = g[h] => f = h
      BY <2>3
    <3> QED
      BY <2>4, <3>1, <3>2 DEF Injection, IsInjective, Surjection
  <2>6. IsFiniteSet(D[cell])
    <3>1. D[cell] \in SUBSET DOMAIN Families(i)
      BY <1>3
    <3> QED
      BY <3>1, FamiliesAre, FS_Subset
  <2>7. Cardinality(S) = Cardinality(D[cell])
    BY <2>5, <2>6, FS_Surjection
  <2> QED
    BY <1>3, <2>1, <2>7
<1> QED
  BY <1>8, <1>9, <1>10

\* The order of the probes tells them apart.
LEMMA ProbesOrdered ==
  ASSUME NEW i \in Indexes, NEW p \in Probed(i)
  PROVE  /\ ProbeOrder(p) \in Seq(Int) /\ Len(ProbeOrder(p)) = 6
         /\ ProbeOrder(p)[4] = p.target /\ ProbeOrder(p)[5] = p.decl
         /\ ProbeOrder(p)[6] = p.index
<1>1. PICK q \in Proposals(i) :
        /\ p.decl = q.decl /\ p.index = q.index /\ p.source = q.source /\ p.target = q.target
  BY ProbedIs
<1>2. q \in ProposalRows
  BY IndexesAre, ProposalIs
<1>3. p.decl \in Int /\ p.index \in Int /\ p.source \in Int /\ p.target \in Int
  BY <1>1, <1>2 DEF ProposalRows
<1>4. Flag(p.projection) \in Int /\ BinOrder(p.bin) \in Int
  BY DEF Flag, BinOrder
<1>5. PICK a, b : a = Flag(p.projection) /\ b = BinOrder(p.bin)
  OBVIOUS
<1>6. PICK c, d, e, f : c = p.source /\ d = p.target /\ e = p.decl /\ f = p.index
  OBVIOUS
<1>7. ProbeOrder(p) = <<a, b, c, d, e, f>>
  BY <1>5, <1>6 DEF ProbeOrder
<1>8. a \in Int /\ b \in Int /\ c \in Int /\ d \in Int /\ e \in Int /\ f \in Int
  BY <1>3, <1>4, <1>5, <1>6
<1>9. <<a, b, c, d, e, f>> \in Seq(Int) /\ Len(<<a, b, c, d, e, f>>) = 6
  BY <1>8
<1> QED
  BY <1>6, <1>7, <1>9

\* A sample lists what is selected.
LEMMA SampledAre ==
  ASSUME NEW i \in Indexes, NEW seed, NEW n, NEW T, T = Selected(Families(i), seed, n),
         T \subseteq Probed(i)
  PROVE  /\ ToSet(Sampled(Families(i), seed, n)) = T
         /\ Len(Sampled(Families(i), seed, n)) \in Nat
         /\ DOMAIN Sampled(Families(i), seed, n) = 1..Len(Sampled(Families(i), seed, n))
<1>1. IsFiniteSet(T)
  <2>1. PICK g : g = [p \in Proposals(i) |-> InBin(i, p)]
    OBVIOUS
  <2>2. g \in Surjection(Proposals(i), Probed(i))
    BY <2>1 DEF Surjection, Probed
  <2>3. IsFiniteSet(Probed(i))
    BY <2>2, IndexesAre, FS_Surjection
  <2> QED
    BY <2>3, FS_Subset
<1>2. PICK K : K = [p \in T |-> ProbeOrder(p)]
  OBVIOUS
<1>3. Keyed(T, K, 6)
  <2>1. \A p \in T : K[p] \in Seq(Int) /\ Len(K[p]) = 6
    BY <1>2, ProbesOrdered
  <2>2. ASSUME NEW p \in T, NEW q \in T, K[p] = K[q]
        PROVE  p = q
    <3>1. ProbeOrder(p) = ProbeOrder(q)
      BY <1>2, <2>2
    <3>2. p.target = q.target /\ p.decl = q.decl /\ p.index = q.index
      BY <3>1, ProbesOrdered
    <3> QED
      BY <3>2, ProbedNamed
  <2> QED
    BY <1>1, <2>1, <2>2 DEF Keyed
<1>4. /\ Cardinality(T) \in Nat
      /\ \A s \in T : Cardinality(Behind(T, K, s)) + 1 \in 1..Cardinality(T)
      /\ \A j \in 1..Cardinality(T) : \E s \in T : Cardinality(Behind(T, K, s)) = j - 1
      /\ \A s, t \in T :
           Cardinality(Behind(T, K, s)) = Cardinality(Behind(T, K, t)) => s = t
  BY <1>3, KeyedPlaces
<1>5. PICK seq : seq = [j \in 1..Cardinality(T) |->
                         CHOOSE s \in T : Cardinality(Behind(T, K, s)) = j - 1]
  OBVIOUS
<1>6. Sampled(Families(i), seed, n) = seq
  <2>1. \A s \in T : {r \in T : Precedes(ProbeOrder(r), ProbeOrder(s))} = Behind(T, K, s)
    BY <1>2 DEF Behind
  <2>2. Sampled(Families(i), seed, n) = [j \in 1..Cardinality(T) |->
          CHOOSE s \in T :
            Cardinality({r \in T : Precedes(ProbeOrder(r), ProbeOrder(s))}) = j - 1]
    <3>1. Sampled(Families(i), seed, n) = SortedBy(T, ProbeOrder)
      BY Zenon DEF Sampled
    <3> QED
      BY <3>1, Zenon DEF SortedBy
  <2>3. ASSUME NEW j \in 1..Cardinality(T)
        PROVE  (CHOOSE s \in T :
                  Cardinality({r \in T : Precedes(ProbeOrder(r), ProbeOrder(s))}) = j - 1)
               = CHOOSE s \in T : Cardinality(Behind(T, K, s)) = j - 1
    BY <2>1
  <2> QED
    BY <1>5, <2>2, <2>3
<1>7. ASSUME NEW j \in 1..Cardinality(T)
      PROVE  seq[j] \in T /\ Cardinality(Behind(T, K, seq[j])) = j - 1
  BY <1>4, <1>5
<1>8. ASSUME NEW s \in T
      PROVE  \E j \in 1..Cardinality(T) : seq[j] = s
  <2>1. PICK j \in 1..Cardinality(T) : j = Cardinality(Behind(T, K, s)) + 1
    BY <1>4
  <2>2. Cardinality(Behind(T, K, s)) = j - 1
    <3>1. Behind(T, K, s) \in SUBSET T
      BY DEF Behind
    <3>2. Cardinality(Behind(T, K, s)) \in Nat
      BY <1>1, <3>1, FS_Subset, FS_CardinalityType
    <3> QED
      BY <2>1, <3>2
  <2>3. Cardinality(Behind(T, K, seq[j])) = j - 1 /\ seq[j] \in T
    BY <1>7
  <2>4. seq[j] = s
    BY <1>4, <2>2, <2>3
  <2> QED
    BY <2>4
<1>9. DOMAIN seq = 1..Cardinality(T)
  BY <1>5
<1>10. ToSet(seq) = {seq[j] : j \in 1..Cardinality(T)}
  BY <1>9 DEF ToSet
<1>11. ToSet(seq) = T
  BY <1>7, <1>8, <1>10
<1>12. Len(seq) \in Nat /\ DOMAIN seq = 1..Len(seq)
  BY <1>4, <1>9
<1> QED
  BY <1>6, <1>11, <1>12

-----------------------------------------------------------------------------
(* Balance *)

\* A sample somebody could have drawn from this closure.
IsSample(i, m) ==
  \E seed \in Seeds, n \in PerCells :
    /\ m = [seed |-> seed, counts |-> CountsOf(Proposals(i)),
            proposals |-> Sampled(Families(i), seed, n)]
    /\ ~Drifted(Proposals(i), Families(i), n)

\* What such a sample holds, as many of each cell as of any other.
LEMMA SampleIs ==
  ASSUME NEW i \in Indexes, NEW m, IsSample(i, m)
  PROVE  /\ m.counts = CountsOf(Proposals(i)) /\ ToSet(m.proposals) \subseteq Probed(i)
         /\ Len(m.proposals) \in Nat /\ DOMAIN m.proposals = 1..Len(m.proposals)
         /\ \A p, q \in ToSet(m.proposals) : FamilyOf(p) = FamilyOf(q) => p = q
         /\ \E n \in Nat \ {0} : \A cell \in Cells :
              Cardinality({p \in ToSet(m.proposals) :
                             p.projection = cell[1] /\ p.bin = cell[2]}) = n
<1>1. PICK seed \in Seeds : \E n \in PerCells :
        /\ m = [seed |-> seed, counts |-> CountsOf(Proposals(i)),
                proposals |-> Sampled(Families(i), seed, n)]
        /\ ~Drifted(Proposals(i), Families(i), n)
  BY DEF IsSample
<1>2. PICK n \in PerCells :
        /\ m = [seed |-> seed, counts |-> CountsOf(Proposals(i)),
                proposals |-> Sampled(Families(i), seed, n)]
        /\ ~Drifted(Proposals(i), Families(i), n)
  BY <1>1
<1>3. n \in Nat \ {0}
  BY StudyAssumption
<1>4. ASSUME NEW cell \in Cells
      PROVE  n <= Cardinality(FamiliesIn(Families(i), cell))
  <2>1. ~(Cardinality(FamiliesIn(Families(i), cell)) < n)
    BY <1>2 DEF Drifted
  <2>2. FamiliesIn(Families(i), cell) \in SUBSET DOMAIN Families(i)
    BY DEF FamiliesIn
  <2>3. Cardinality(FamiliesIn(Families(i), cell)) \in Nat
    BY <2>2, FamiliesAre, FS_Subset, FS_CardinalityType
  <2> QED
    BY <1>3, <2>1, <2>3
<1>5. PICK T : T = Selected(Families(i), seed, n)
  OBVIOUS
<1>6. /\ T \subseteq Probed(i)
      /\ \A p, q \in T : FamilyOf(p) = FamilyOf(q) => p = q
      /\ \A cell \in Cells :
           Cardinality({p \in T : p.projection = cell[1] /\ p.bin = cell[2]}) = n
  BY <1>3, <1>4, <1>5, SelectedAre
<1>7. PICK sampled : sampled = Sampled(Families(i), seed, n)
  OBVIOUS
<1>8. /\ ToSet(sampled) = T
      /\ Len(sampled) \in Nat /\ DOMAIN sampled = 1..Len(sampled)
  BY <1>5, <1>6, <1>7, SampledAre
<1>9. m.proposals = sampled /\ m.counts = CountsOf(Proposals(i))
  BY <1>2, <1>7
<1> QED
  BY <1>3, <1>6, <1>9, <1>8

\* The family of a probed proposal is what it has in common with others.
LEMMA AlikeAre ==
  ASSUME NEW i \in Indexes, NEW p \in Probed(i)
  PROVE  /\ {q \in Proposals(i) : /\ <<q.source, q.target>> = <<p.source, p.target>>
                                  /\ q.projection = p.projection}
              = Families(i)[FamilyOf(p)]
         /\ p.bin = FrequencyBin(Cardinality(Families(i)[FamilyOf(p)]))
         /\ Cardinality(Families(i)[FamilyOf(p)]) \in Nat \ {0}
         /\ p.projection \in BOOLEAN /\ p.bin \in Bins
         /\ p.target \in i.above[p.source] /\ i.rows[p.decl].isInstance = "no"
<1>1. PICK a \in Proposals(i) :
        /\ FamilyOf(p) = FamilyOf(a)
        /\ p.decl = a.decl /\ p.projection = a.projection
        /\ p.source = a.source /\ p.target = a.target
        /\ p.bin = FrequencyBin(Cardinality(Families(i)[FamilyOf(a)])) /\ p.bin \in Bins
  BY ProbedIs
<1>2. a \in ProposalRows /\ IsIndex(i)
  BY IndexesAre, ProposalIs
<1>3. PICK n \in i.produces : \E k \in DOMAIN i.binders[n] :
        /\ a = ProposalOf(i, n, k, a.target) /\ a.target \in i.above[a.source]
        /\ i.rows[n].isInstance = "no"
  BY <1>2, ProposalIs
<1>4. a.decl = n /\ a.target \in i.above[a.source] /\ i.rows[n].isInstance = "no"
  BY <1>3 DEF ProposalOf
<1>5. FamilyOf(a) \in DOMAIN Families(i)
  <2>1. DOMAIN Families(i) = {FamilyOf(q) : q \in Proposals(i)}
    BY FamiliesAre
  <2> QED
    BY <2>1
<1>6. /\ Families(i)[FamilyOf(a)] = {q \in Proposals(i) : FamilyOf(q) = FamilyOf(a)}
      /\ Families(i)[FamilyOf(a)] # {} /\ IsFiniteSet(Families(i)[FamilyOf(a)])
  BY <1>5, FamiliesAre
<1>7. Cardinality(Families(i)[FamilyOf(a)]) \in Nat \ {0}
  BY <1>6, FS_CardinalityType, FS_EmptySet
<1>8. ASSUME NEW q \in Proposals(i)
      PROVE  FamilyOf(q) = FamilyOf(a) <=>
               <<q.source, q.target>> = <<p.source, p.target>> /\ q.projection = p.projection
  <2>1. q \in ProposalRows
    BY <1>2, ProposalIs
  <2>2. q.projection \in BOOLEAN /\ a.projection \in BOOLEAN
    BY <1>2, <2>1 DEF ProposalRows
  <2>3. Flag(q.projection) = Flag(a.projection) <=> q.projection = a.projection
    BY <2>2 DEF Flag
  <2>4. FamilyOf(q) = <<Flag(q.projection), q.source, q.target>>
        /\ FamilyOf(a) = <<Flag(a.projection), a.source, a.target>>
    BY DEF FamilyOf
  <2> QED
    BY <1>1, <2>3, <2>4
<1>9. a.projection \in BOOLEAN
  BY <1>2 DEF ProposalRows
<1>10. {q \in Proposals(i) : /\ <<q.source, q.target>> = <<p.source, p.target>>
                             /\ q.projection = p.projection}
       = Families(i)[FamilyOf(a)]
  BY <1>6, <1>8
<1> QED
  BY <1>1, <1>4, <1>7, <1>9, <1>10

\* No registered instance is judged.
LEMMA NoLeaks ==
  ASSUME NEW i
  PROVE  Audited(i).counts = CountsOf(Proposals(i)) /\ Audited(i).leaks = {}
<1>1. Audited(i).leaks = {n \in i.produces : /\ CarrierStatementCandidates(i, n).skipped = "no"
                                             /\ i.rows[n].isInstance = "yes"}
  BY DEF Audited
<1>2. Audited(i).counts = CountsOf(Proposals(i))
  BY DEF Audited
<1> QED
  BY <1>1, <1>2, JudgedAreClaims

\* Balance, from what the files hold.
LEMMA BalancedIf ==
  ASSUME index \in Indexes, audit # Unwritten => audit = Audited(index),
         manifest # Unwritten => IsSample(index, manifest)
  PROVE  SampleBalanced
<1> SUFFICES ASSUME manifest # Unwritten
             PROVE  SampleBalanced
  BY DEF SampleBalanced
<1>1. PICK T : T = ToSet(manifest.proposals)
  OBVIOUS
<1>2. /\ manifest.counts = CountsOf(Proposals(index)) /\ T \subseteq Probed(index)
      /\ \A p, q \in T : FamilyOf(p) = FamilyOf(q) => p = q
      /\ \E n \in Nat \ {0} : \A cell \in Cells :
           Cardinality({p \in T : p.projection = cell[1] /\ p.bin = cell[2]}) = n
  BY <1>1, SampleIs
<1>3. PICK n \in Nat \ {0} : \A cell \in Cells :
        Cardinality({p \in T : p.projection = cell[1] /\ p.bin = cell[2]}) = n
  BY <1>2
<1>4. audit # Unwritten => audit.counts = manifest.counts /\ audit.leaks = {}
  BY <1>2, NoLeaks
<1>5. ASSUME NEW p \in T
      PROVE  /\ <<p.projection, p.bin>> \in Cells
             /\ Cardinality({r \in T : r.projection = p.projection /\ r.bin = p.bin}) = n
  <2>1. p.projection \in BOOLEAN /\ p.bin \in Bins
    BY <1>2, AlikeAre
  <2>2. PICK cell \in Cells : cell[1] = p.projection /\ cell[2] = p.bin
    <3>1. <<p.projection, p.bin>> \in Cells
      BY <2>1 DEF Cells
    <3> QED
      BY <3>1
  <2>3. Cardinality({r \in T : r.projection = cell[1] /\ r.bin = cell[2]}) = n
    BY <1>3
  <2> QED
    BY <2>1, <2>2, <2>3 DEF Cells
<1>6. ASSUME NEW p \in T, NEW q \in T,
             <<p.source, p.target, p.projection>> = <<q.source, q.target, q.projection>>
      PROVE  p = q
  <2>1. FamilyOf(p) = FamilyOf(q)
    BY <1>6 DEF FamilyOf
  <2> QED
    BY <1>2, <2>1
<1>7. {<<p.projection, p.bin>> : p \in T} = Cells
  <2>1. ASSUME NEW cell \in Cells
        PROVE  cell \in {<<p.projection, p.bin>> : p \in T}
    <3>1. PICK S : S = {p \in T : p.projection = cell[1] /\ p.bin = cell[2]}
      OBVIOUS
    <3>2. Cardinality(S) = n
      BY <1>3, <3>1
    <3>3. S # {}
      BY <1>3, <3>2, FS_EmptySet
    <3>4. PICK p \in T : p.projection = cell[1] /\ p.bin = cell[2]
      BY <3>1, <3>3
    <3>5. cell = <<p.projection, p.bin>>
      BY <3>4 DEF Cells
    <3> QED
      BY <3>5
  <2> QED
    BY <1>5, <2>1
<1>8. ASSUME NEW p \in T
      PROVE  LET alike == {q \in Proposals(index) :
                             /\ <<q.source, q.target>> = <<p.source, p.target>>
                             /\ q.projection = p.projection}
             IN /\ p.bin = "singleton" <=> Cardinality(alike) = 1
                /\ p.bin = "recurrent-5-plus" <=> Cardinality(alike) > 4
                /\ p.target \in index.above[p.source]
                /\ index.rows[p.decl].isInstance = "no"
  <2>1. PICK c \in Nat \ {0} : c = Cardinality(Families(index)[FamilyOf(p)])
    BY <1>2, AlikeAre
  <2>2. /\ {q \in Proposals(index) : /\ <<q.source, q.target>> = <<p.source, p.target>>
                                     /\ q.projection = p.projection}
            = Families(index)[FamilyOf(p)]
        /\ p.bin = FrequencyBin(c)
        /\ p.target \in index.above[p.source] /\ index.rows[p.decl].isInstance = "no"
    BY <1>2, <2>1, AlikeAre
  <2>3. /\ p.bin = "singleton" <=> c = 1
        /\ p.bin = "recurrent-5-plus" <=> c > 4
    BY <2>2 DEF FrequencyBin
  <2> QED
    BY <2>1, <2>2, <2>3
<1> QED
  BY <1>1, <1>4, <1>5, <1>6, <1>7, <1>8 DEF SampleBalanced

-----------------------------------------------------------------------------
(* Measurement *)

\* What Lean says of the binder that the proposal replaces.
Told(i, p, v) ==
  \E k \in DOMAIN i.binders[p.decl] :
    /\ IsInstance(i.binders[p.decl][k])
    /\ Before(i.binders[p.decl], k, IsInstance) = p.index
    /\ v = Lean(p.decl, k, p.target) /\ v \in {"proved", "not_proved", "no_statement"}

\* Lean says one thing of a proposal.
LEMMA ToldOnce ==
  ASSUME NEW i \in Indexes, NEW p \in Probed(i), NEW v, NEW w, Told(i, p, v), Told(i, p, w)
  PROVE  v = w
<1>1. PICK b : b = i.binders[p.decl]
  OBVIOUS
<1>2. PICK k \in DOMAIN b : /\ IsInstance(b[k]) /\ Before(b, k, IsInstance) = p.index
                            /\ v = Lean(p.decl, k, p.target)
  BY <1>1 DEF Told
<1>3. PICK l \in DOMAIN b : /\ IsInstance(b[l]) /\ Before(b, l, IsInstance) = p.index
                            /\ w = Lean(p.decl, l, p.target)
  BY <1>1 DEF Told
<1>4. b \in Seq(Binder)
  <2>1. PICK a \in Proposals(i) : p.decl = a.decl
    BY ProbedIs
  <2>2. IsIndex(i)
    BY IndexesAre
  <2>3. PICK n \in i.produces : \E m \in DOMAIN i.binders[n] : a = ProposalOf(i, n, m, a.target)
    BY <2>2, ProposalIs
  <2>4. p.decl = n
    BY <2>1, <2>3 DEF ProposalOf
  <2> QED
    BY <1>1, <2>2, <2>4 DEF IsIndex, Telescopes
<1>5. k = l
  BY <1>2, <1>3, <1>4, BinderTold
<1> QED
  BY <1>2, <1>3, <1>5

\* A probe tries the very binder it is about.
LEMMA TriedIs ==
  ASSUME index \in Indexes, NEW p \in Probed(index)
  PROVE  Told(index, p, Tried(Key(p)))
<1>1. PICK a \in Proposals(index) :
        /\ p.decl = a.decl /\ p.index = a.index /\ p.raw = a.raw
        /\ p.source = a.source /\ p.target = a.target
  BY ProbedIs
<1>2. IsIndex(index)
  BY IndexesAre
<1>3. PICK n \in index.produces : \E m \in DOMAIN index.binders[n] :
        IsInstance(index.binders[n][m]) /\ a = ProposalOf(index, n, m, a.target)
  BY <1>2, ProposalIs
<1>4. PICK k \in DOMAIN index.binders[n] :
        IsInstance(index.binders[n][k]) /\ a = ProposalOf(index, n, k, a.target)
  BY <1>3
<1>5. PICK b : b = index.binders[n]
  OBVIOUS
<1>6. /\ a.decl = n /\ a.source = b[k].head
      /\ a.index = Before(b, k, IsInstance) /\ a.raw = Before(b, k, Implicit)
  BY <1>4, <1>5 DEF ProposalOf
<1>7. b \in Seq(Binder)
  BY <1>2, <1>5 DEF IsIndex, Telescopes
<1>8. PICK key : key = Key(p)
  OBVIOUS
<1>9. key[1] = n /\ key[2] = a.raw /\ key[3] = a.source /\ key[4] = a.target
  BY <1>1, <1>6, <1>8 DEF Key
<1>10. Named(key) = {k}
  <2>1. Named(key) = {l \in DOMAIN b : /\ Implicit(b[l]) /\ b[l].head = key[3]
                                       /\ Before(b, l, Implicit) = key[2]}
    BY <1>5, <1>9, Zenon DEF Named
  <2>2. Implicit(b[k])
    BY <1>4, <1>5 DEF Implicit, IsInstance
  <2>3. \A l \in DOMAIN b : Implicit(b[l]) /\ Before(b, l, Implicit) = key[2] => l = k
    BY <1>4, <1>5, <1>6, <1>7, <1>9, <2>2, BinderTold
  <2>4. k \in DOMAIN b /\ b[k].head = key[3] /\ Before(b, k, Implicit) = key[2]
    BY <1>4, <1>5, <1>6, <1>9
  <2> QED
    BY <2>1, <2>2, <2>3, <2>4
<1>11. Tried(key) = Lean(n, k, a.target)
  BY <1>9, <1>10 DEF Tried
<1>12. Lean(a.decl, k, a.target) \in {"proved", "not_proved", "no_statement"}
  <2>1. PICK slice \in Closures : index = HomeIndexOf(slice)
    BY DEF Indexes
  <2>2. \A l \in DOMAIN index.binders[a.decl] :
          Lean(a.decl, l, a.target) \in {"proved", "not_proved", "no_statement"}
    BY <2>1, StudyIsTyped
  <2> QED
    BY <1>4, <1>6, <2>2
<1>13. /\ k \in DOMAIN index.binders[p.decl] /\ IsInstance(index.binders[p.decl][k])
       /\ Before(index.binders[p.decl], k, IsInstance) = p.index
  BY <1>1, <1>4, <1>5, <1>6
<1>14. Tried(Key(p)) = Lean(p.decl, k, p.target)
  BY <1>1, <1>6, <1>8, <1>11
<1> QED
  BY <1>1, <1>6, <1>12, <1>13, <1>14 DEF Told

\* Verdicts of the shards that count are what Lean says of what they name.
TrueLog(i, log) ==
  log.controls => \A w \in log.verdicts, p \in Probed(i) : w[1] = Key(p) => Told(i, p, w[2])

\* Rows say of probed proposals what Lean says of them.
TrueRows(i, rows) ==
  \A r \in rows : \E p \in Probed(i), v \in {"proved", "not_proved", "no_statement"} :
    r = Answered(p, v) /\ Told(i, p, v)

\* What an answered row says.
LEMMA AnsweredIs ==
  ASSUME NEW p, NEW v
  PROVE  /\ Answered(p, v).decl = p.decl /\ Answered(p, v).index = p.index
         /\ Answered(p, v).source = p.source /\ Answered(p, v).target = p.target
         /\ Answered(p, v).verdict = v
  BY DEF Answered

\* A row is told by declaration, index, class and target.
LEMMA RowsTold ==
  ASSUME NEW i \in Indexes, NEW rows, TrueRows(i, rows)
  PROVE  /\ \A r \in rows : /\ r.verdict \in {"proved", "not_proved", "no_statement"}
                            /\ \E k \in DOMAIN i.binders[r.decl] :
                                 /\ IsInstance(i.binders[r.decl][k])
                                 /\ Before(i.binders[r.decl], k, IsInstance) = r.index
                                 /\ r.verdict = Lean(r.decl, k, r.target)
         /\ \A r, q \in rows : KeyByIndex(r) = KeyByIndex(q) => r = q
<1>1. ASSUME NEW r \in rows
      PROVE  \E p \in Probed(i) :
               /\ r = Answered(p, r.verdict) /\ Told(i, p, r.verdict)
               /\ r.decl = p.decl /\ r.index = p.index /\ r.source = p.source
               /\ r.target = p.target
               /\ r.verdict \in {"proved", "not_proved", "no_statement"}
  <2>1. PICK p \in Probed(i), v \in {"proved", "not_proved", "no_statement"} :
          r = Answered(p, v) /\ Told(i, p, v)
    BY DEF TrueRows
  <2> QED
    BY <2>1, AnsweredIs
<1>2. ASSUME NEW r \in rows
      PROVE  /\ r.verdict \in {"proved", "not_proved", "no_statement"}
             /\ \E k \in DOMAIN i.binders[r.decl] :
                  /\ IsInstance(i.binders[r.decl][k])
                  /\ Before(i.binders[r.decl], k, IsInstance) = r.index
                  /\ r.verdict = Lean(r.decl, k, r.target)
  <2>1. PICK p \in Probed(i) :
          /\ Told(i, p, r.verdict) /\ r.decl = p.decl /\ r.index = p.index
          /\ r.target = p.target
          /\ r.verdict \in {"proved", "not_proved", "no_statement"}
    BY <1>1
  <2>2. PICK k \in DOMAIN i.binders[p.decl] :
          /\ IsInstance(i.binders[p.decl][k])
          /\ Before(i.binders[p.decl], k, IsInstance) = p.index
          /\ r.verdict = Lean(p.decl, k, p.target)
    BY <2>1 DEF Told
  <2> QED
    BY <2>1, <2>2
<1>3. ASSUME NEW r \in rows, NEW q \in rows, KeyByIndex(r) = KeyByIndex(q)
      PROVE  r = q
  <2>1. PICK a \in Probed(i) :
          /\ r = Answered(a, r.verdict) /\ Told(i, a, r.verdict)
          /\ r.decl = a.decl /\ r.index = a.index /\ r.target = a.target
    BY <1>1
  <2>2. PICK b \in Probed(i) :
          /\ q = Answered(b, q.verdict) /\ Told(i, b, q.verdict)
          /\ q.decl = b.decl /\ q.index = b.index /\ q.target = b.target
    BY <1>1
  <2>3. r.decl = q.decl /\ r.index = q.index /\ r.target = q.target
    BY <1>3 DEF KeyByIndex
  <2>4. a = b
    BY <2>1, <2>2, <2>3, ProbedNamed
  <2>5. r.verdict = q.verdict
    BY <2>1, <2>2, <2>4, ToldOnce
  <2> QED
    BY <2>1, <2>2, <2>4, <2>5
<1> QED
  BY <1>2, <1>3

\* The gates as they were registered, of rows that are valid.
GatesOf(s) ==
  /\ s.statementGood <=> Rate(s.rows, 9) /\ \A b \in BOOLEAN : Rate(Having(s.rows, b), 8)
  /\ s.proofGood <=> \A b \in BOOLEAN : \E r \in Having(s.rows, b) : r.verdict = "proved"

\* What is persisted is earned.
EarnedResult(i, res) ==
  TrueRows(i, res.rows) /\ Cardinality(res.rows) = FrozenSample /\ GatesOf(res)

\* Measurement, from what the files hold.
LEMMA EarnedIf ==
  ASSUME index \in Indexes, result # Unwritten => EarnedResult(index, result)
  PROVE  MeasurementEarned
<1> SUFFICES ASSUME result # Unwritten
             PROVE  MeasurementEarned
  BY DEF MeasurementEarned
<1>1. PICK rows : rows = result.rows
  OBVIOUS
<1>2. TrueRows(index, rows) /\ Cardinality(rows) = FrozenSample /\ GatesOf(result)
  BY <1>1 DEF EarnedResult
<1>3. /\ \A r \in rows : /\ r.verdict \in {"proved", "not_proved", "no_statement"}
                         /\ \E k \in DOMAIN index.binders[r.decl] :
                              /\ IsInstance(index.binders[r.decl][k])
                              /\ Before(index.binders[r.decl], k, IsInstance) = r.index
                              /\ r.verdict = Lean(r.decl, k, r.target)
      /\ \A r, q \in rows : KeyByIndex(r) = KeyByIndex(q) => r = q
  BY <1>2, RowsTold
<1>4. ASSUME NEW S \in SUBSET rows
      PROVE  Statable(S) = {r \in S : r.verdict \in {"proved", "not_proved"}}
  BY <1>3 DEF Statable
<1>5. ASSUME NEW S \in SUBSET rows, NEW tenths
      PROVE  Rate(S, tenths) <=>
               10 * Cardinality({r \in S : r.verdict \in {"proved", "not_proved"}})
                 >= tenths * Cardinality(S)
  BY <1>4 DEF Rate
<1>6. ASSUME NEW b \in BOOLEAN
      PROVE  Having(rows, b) = {r \in rows : r.projection = b} /\ Having(rows, b) \in SUBSET rows
  BY DEF Having
<1>7. result.statementGood <=>
        /\ 10 * Cardinality({r \in rows : r.verdict \in {"proved", "not_proved"}})
             >= 9 * Cardinality(rows)
        /\ \A b \in BOOLEAN :
             10 * Cardinality({r \in {q \in rows : q.projection = b} :
                                 r.verdict \in {"proved", "not_proved"}})
               >= 8 * Cardinality({r \in rows : r.projection = b})
  <2>1. Rate(rows, 9) <=>
          10 * Cardinality({r \in rows : r.verdict \in {"proved", "not_proved"}})
            >= 9 * Cardinality(rows)
    BY <1>5
  <2>2. \A b \in BOOLEAN : Rate(Having(rows, b), 8) <=>
          10 * Cardinality({r \in {q \in rows : q.projection = b} :
                              r.verdict \in {"proved", "not_proved"}})
            >= 8 * Cardinality({r \in rows : r.projection = b})
    BY <1>5, <1>6
  <2>3. result.statementGood <=> Rate(rows, 9) /\ \A b \in BOOLEAN : Rate(Having(rows, b), 8)
    BY <1>1, <1>2 DEF GatesOf
  <2> QED
    BY <2>1, <2>2, <2>3
<1>8. result.proofGood <=>
        \A b \in BOOLEAN : \E r \in rows : r.projection = b /\ r.verdict = "proved"
  BY <1>1, <1>2, <1>6 DEF GatesOf
<1>9. \A r \in rows : \E k \in {j \in DOMAIN index.binders[r.decl] :
                                 /\ IsInstance(index.binders[r.decl][j])
                                 /\ Before(index.binders[r.decl], j, IsInstance) = r.index} :
        r.verdict = Lean(r.decl, k, r.target)
  BY <1>3
<1> QED
  BY <1>1, <1>2, <1>3, <1>7, <1>8, <1>9 DEF MeasurementEarned

-----------------------------------------------------------------------------
(* The invariant: what each file says of the closure, whoever wrote it when *)

TrueManifest == manifest # Unwritten => IsSample(index, manifest)

TrueProbes ==
  probes # Unwritten =>
    \A k \in DOMAIN probes.shards : ToSet(probes.shards[k]) \subseteq Probed(index)

TrueLogs == \A k \in DOMAIN logs : TrueLog(index, logs[k])

TrueScore ==
  scored # Unwritten => TrueRows(index, scored.rows) /\ (scored.valid => GatesOf(scored))

TrueResult == result # Unwritten => EarnedResult(index, result)

StudyInv ==
  /\ index \in Indexes
  /\ audit # Unwritten => audit = Audited(index)
  /\ TrueManifest /\ TrueProbes /\ TrueLogs /\ TrueScore /\ TrueResult

\* Runs, one lemma each for what they write.
LEMMA StudyInitially ==
  ASSUME ProposalInit
  PROVE  StudyInv
<1>1. index \in Indexes
  BY DEF ProposalInit, Indexes
<1>2. TrueLogs
  BY DEF ProposalInit, TrueLogs
<1> QED
  BY <1>1, <1>2 DEF ProposalInit, StudyInv, TrueManifest, TrueProbes, TrueScore, TrueResult

\* What a run of the selector writes was drawn.
LEMMA SampleDraws ==
  ASSUME StudyInv, NEW seed \in Seeds, NEW n \in PerCells, Sample(seed, n)
  PROVE  TrueManifest'
<1>1. PICK proposals : proposals = Proposals(index)
  OBVIOUS
<1>2. PICK byFamily : byFamily = Families(index)
  OBVIOUS
<1>3. IF Drifted(proposals, byFamily, n) THEN UNCHANGED manifest
      ELSE manifest' = [seed |-> seed, counts |-> CountsOf(proposals),
                        proposals |-> Sampled(byFamily, seed, n)]
  BY <1>1, <1>2 DEF Sample, Families
<1>4. index' = index
  BY DEF Sample
<1>5. CASE Drifted(proposals, byFamily, n)
  BY <1>3, <1>4, <1>5 DEF StudyInv, TrueManifest
<1>6. CASE ~Drifted(proposals, byFamily, n)
  <2>1. manifest' = [seed |-> seed, counts |-> CountsOf(Proposals(index)),
                     proposals |-> Sampled(Families(index), seed, n)]
    BY <1>1, <1>2, <1>3, <1>6
  <2>2. IsSample(index, manifest')
    BY <1>1, <1>2, <1>6, <2>1 DEF IsSample
  <2> QED
    BY <1>4, <2>2 DEF TrueManifest
<1> QED
  BY <1>5, <1>6

\* What is cut into shards is in the sample.
LEMMA ShardsAreOf ==
  ASSUME NEW s, NEW size \in Nat \ {0}, Len(s) \in Nat, DOMAIN s = 1..Len(s),
         NEW k \in DOMAIN Shards(s, size)
  PROVE  ToSet(Shards(s, size)[k]) \subseteq ToSet(s)
<1>1. k \in Nat \ {0}
  BY DEF Shards
<1>2. PICK a : a = (k - 1) * size + 1
  OBVIOUS
<1>3. PICK b : b = Min({k * size, Len(s)})
  OBVIOUS
<1>4. Shards(s, size)[k] = SubSeq(s, a, b)
  BY <1>2, <1>3 DEF Shards
<1>5. a \in Nat /\ a >= 1
  <2>1. (k - 1) \in Nat
    BY <1>1
  <2>2. (k - 1) * size \in Nat
    BY <2>1
  <2> QED
    BY <1>2, <2>2
<1>6. b \in Nat /\ b <= Len(s)
  <2>1. k * size \in Nat
    BY <1>1
  <2>2. PICK c \in Nat : c = k * size
    BY <2>1
  <2>3. PICK d \in Nat : d = Len(s)
    OBVIOUS
  <2>4. \E x \in {c, d} : \A y \in {c, d} : x <= y
    BY <2>2, <2>3
  <2>5. Min({c, d}) \in {c, d} /\ \A y \in {c, d} : Min({c, d}) <= y
    BY <2>4 DEF Min
  <2> QED
    BY <1>3, <2>2, <2>3, <2>5
<1>7. \A j \in a .. b : s[j] \in ToSet(s)
  BY <1>5, <1>6 DEF ToSet
<1>8. PICK t : t = SubSeq(s, a, b)
  OBVIOUS
<1>9. t \in Seq(ToSet(s))
  <2>1. a \in Int /\ b \in Int
    BY <1>5, <1>6
  <2> QED
    BY <1>7, <1>8, <2>1, SubSeqProperties
<1>10. ASSUME NEW x \in ToSet(t)
       PROVE  x \in ToSet(s)
  <2>1. PICK j \in DOMAIN t : x = t[j]
    BY DEF ToSet
  <2> QED
    BY <1>9, <2>1
<1> QED
  BY <1>4, <1>8, <1>10

\* Shards are cut from the manifest that is there.
LEMMA GenerateCuts ==
  ASSUME StudyInv, NEW size \in ShardSizes, Generate(size)
  PROVE  TrueProbes'
<1>1. index' = index /\ manifest # Unwritten
  BY DEF Generate
<1>2. CASE Len(manifest.proposals) # FrozenSample
  BY <1>1, <1>2 DEF Generate, StudyInv, TrueProbes
<1>3. CASE Len(manifest.proposals) = FrozenSample
  <2>1. PICK s : s = manifest.proposals
    OBVIOUS
  <2>2. IsSample(index, manifest) /\ index \in Indexes
    BY <1>1 DEF StudyInv, TrueManifest
  <2>3. ToSet(s) \subseteq Probed(index)
    BY <2>1, <2>2, SampleIs
  <2>4. Len(s) \in Nat /\ DOMAIN s = 1..Len(s)
    BY <2>1, <2>2, SampleIs
  <2>5. probes' = [manifest |-> manifest, shards |-> Shards(s, size)]
    BY <1>3, <2>1 DEF Generate
  <2>6. probes'.shards = Shards(s, size)
    BY <2>5
  <2>7. size \in Nat \ {0}
    BY StudyAssumption
  <2>8. \A k \in DOMAIN probes'.shards : ToSet(probes'.shards[k]) \subseteq Probed(index)
    BY <2>3, <2>4, <2>6, <2>7, ShardsAreOf
  <2> QED
    BY <1>1, <2>8 DEF TrueProbes
<1> QED
  BY <1>2, <1>3

\* A log that counts was written by a Lean that is sound.
LEMMA ProbeTells ==
  ASSUME StudyInv, NEW k, Probe(k)
  PROVE  TrueLogs'
<1>1. index' = index /\ index \in Indexes
  BY DEF Probe, StudyInv
<1>2. PICK shard : shard = probes.shards[k]
  OBVIOUS
<1>3. PICK log \in {LogOf(shard, [p \in ToSet(shard) |-> Tried(Key(p))], TRUE, TRUE),
                    LogOf(shard, [p \in {shard[1]} |-> Tried(Key(p))], FALSE, TRUE),
                    LogOf(shard, [p \in ToSet(shard) |-> "proved"], TRUE, FALSE)} :
        logs' = [j \in DOMAIN logs \cup {k} |-> IF j = k THEN log ELSE logs[j]]
  BY <1>2 DEF Probe
<1>4. ASSUME NEW S, NEW exit, NEW controls, NEW answers,
             controls => answers = [p \in S |-> Tried(Key(p))]
      PROVE  TrueLog(index, LogOf(shard, answers, exit, controls))
  <2>1. PICK L : L = LogOf(shard, answers, exit, controls)
    OBVIOUS
  <2>2. L.controls = controls /\ L.verdicts = {<<Key(p), answers[p]>> : p \in DOMAIN answers}
    BY <2>1 DEF LogOf
  <2>3. ASSUME L.controls, NEW w \in L.verdicts, NEW p \in Probed(index), w[1] = Key(p)
        PROVE  Told(index, p, w[2])
    <3>1. answers = [q \in S |-> Tried(Key(q))]
      BY <1>4, <2>2, <2>3
    <3>2. PICK q \in S : w = <<Key(q), answers[q]>>
      BY <2>2, <2>3, <3>1
    <3>3. w[2] = Tried(Key(q)) /\ Key(q) = Key(p)
      BY <2>3, <3>1, <3>2
    <3>4. Told(index, p, Tried(Key(p)))
      BY <1>1, TriedIs
    <3> QED
      BY <3>3, <3>4
  <2> QED
    BY <2>1, <2>3 DEF TrueLog
<1>5. TrueLog(index, log)
  <2>1. CASE log = LogOf(shard, [p \in ToSet(shard) |-> Tried(Key(p))], TRUE, TRUE)
    BY <1>4, <2>1
  <2>2. CASE log = LogOf(shard, [p \in {shard[1]} |-> Tried(Key(p))], FALSE, TRUE)
    BY <1>4, <2>2
  <2>3. CASE log = LogOf(shard, [p \in ToSet(shard) |-> "proved"], TRUE, FALSE)
    BY <1>4, <2>3
  <2> QED
    BY <1>3, <2>1, <2>2, <2>3
<1>6. ASSUME NEW j \in DOMAIN logs'
      PROVE  TrueLog(index, logs'[j])
  <2>1. logs'[j] = IF j = k THEN log ELSE logs[j]
    BY <1>3
  <2>2. j # k => j \in DOMAIN logs
    BY <1>3
  <2> QED
    BY <1>5, <2>1, <2>2 DEF StudyInv, TrueLogs
<1> QED
  BY <1>1, <1>6 DEF TrueLogs

\* A score counts such logs only.
LEMMA ScoreTells ==
  ASSUME StudyInv, Score
  PROVE  TrueScore'
<1>1. index' = index /\ scored' = Scored /\ probes # Unwritten /\ index \in Indexes
  BY DEF Score, StudyInv
<1>2. PICK rows : rows = UNION {RowsOf(k) : k \in Trusted}
  OBVIOUS
<1>3. PICK valid : valid = (/\ Trusted = DOMAIN probes.shards /\ Finished = DOMAIN probes.shards
                            /\ Cardinality(rows) = Len(probes.manifest.proposals))
  OBVIOUS
<1>4. Scored =
        [rows |-> rows, valid |-> valid,
         statementGood |-> valid /\ Rate(rows, 9) /\ \A b \in BOOLEAN : Rate(Having(rows, b), 8),
         proofGood |-> valid /\ \A b \in BOOLEAN : \E r \in Having(rows, b) : r.verdict = "proved"]
  BY <1>2, <1>3, Zenon DEF Scored
<1>5. TrueRows(index, rows)
  <2> SUFFICES ASSUME NEW r \in rows
               PROVE  \E p \in Probed(index), v \in {"proved", "not_proved", "no_statement"} :
                        r = Answered(p, v) /\ Told(index, p, v)
    BY DEF TrueRows
  <2>1. PICK k \in Trusted : r \in RowsOf(k)
    BY <1>2
  <2>2. PICK p \in ToSet(probes.shards[k]) :
          r \in {Answered(p, v[2]) : v \in {w \in logs[k].verdicts : w[1] = Key(p)}}
    BY <2>1 DEF RowsOf
  <2>3. PICK w \in logs[k].verdicts : w[1] = Key(p) /\ r = Answered(p, w[2])
    BY <2>2
  <2>4. k \in DOMAIN logs /\ logs[k].controls /\ k \in DOMAIN probes.shards
    BY <2>1 DEF Trusted
  <2>5. p \in Probed(index)
    BY <1>1, <2>2, <2>4 DEF StudyInv, TrueProbes
  <2>6. Told(index, p, w[2])
    BY <2>3, <2>4, <2>5 DEF StudyInv, TrueLogs, TrueLog
  <2>7. w[2] \in {"proved", "not_proved", "no_statement"}
    BY <2>6 DEF Told
  <2> QED
    BY <2>3, <2>5, <2>6, <2>7
<1>6. PICK s : s = Scored
  OBVIOUS
<1>7. s.rows = rows /\ s.valid = valid
  BY <1>4, <1>6
<1>8. ASSUME valid
      PROVE  GatesOf(s)
  <2>1. s.statementGood = (valid /\ Rate(rows, 9) /\ \A b \in BOOLEAN : Rate(Having(rows, b), 8))
    BY <1>4, <1>6
  <2>2. s.proofGood =
          (valid /\ \A b \in BOOLEAN : \E r \in Having(rows, b) : r.verdict = "proved")
    BY <1>4, <1>6
  <2> QED
    BY <1>7, <1>8, <2>1, <2>2, Zenon DEF GatesOf
<1>9. TrueRows(index, s.rows) /\ (s.valid => GatesOf(s))
  BY <1>5, <1>7, <1>8
<1> QED
  BY <1>1, <1>6, <1>9 DEF TrueScore

\* What is persisted was scored and valid.
LEMMA PersistEarns ==
  ASSUME StudyInv, Persist
  PROVE  TrueResult'
<1>1. index' = index /\ scored # Unwritten
  BY DEF Persist
<1>2. CASE result' = result
  BY <1>1, <1>2 DEF StudyInv, TrueResult
<1>3. CASE result' # result
  <2>1. /\ scored.valid /\ Cardinality(scored.rows) = FrozenSample
        /\ result' = [manifest |-> manifest, rows |-> scored.rows,
                      statementGood |-> scored.statementGood, proofGood |-> scored.proofGood]
    BY <1>3 DEF Persist
  <2>2. TrueRows(index, scored.rows) /\ GatesOf(scored)
    BY <1>1, <2>1 DEF StudyInv, TrueScore
  <2>3. PICK r : r = result'
    OBVIOUS
  <2>4. /\ r.rows = scored.rows /\ r.statementGood = scored.statementGood
        /\ r.proofGood = scored.proofGood
    BY <2>1, <2>3
  <2>5. GatesOf(r)
    BY <2>2, <2>4 DEF GatesOf
  <2>6. EarnedResult(index, r)
    BY <2>1, <2>2, <2>4, <2>5 DEF EarnedResult
  <2> QED
    BY <1>1, <2>3, <2>6 DEF TrueResult
<1> QED
  BY <1>2, <1>3

\* Every run keeps what all files hold.
LEMMA StudyKept ==
  ASSUME StudyInv, [ProposalNext]_proposalVars
  PROVE  StudyInv'
<1> USE DEF StudyInv
<1>1. CASE AuditClosure
  <2>1. audit' = Audited(index)
    BY <1>1 DEF AuditClosure
  <2> QED
    BY <1>1, <2>1 DEF AuditClosure, TrueManifest, TrueProbes, TrueLogs, TrueScore, TrueResult
<1>2. ASSUME NEW seed \in Seeds, NEW n \in PerCells, Sample(seed, n)
      PROVE  StudyInv'
  <2>1. TrueManifest'
    BY <1>2, SampleDraws
  <2> QED
    BY <1>2, <2>1 DEF Sample, TrueProbes, TrueLogs, TrueScore, TrueResult
<1>3. ASSUME NEW n \in ShardSizes, Generate(n)
      PROVE  StudyInv'
  <2>1. TrueProbes'
    BY <1>3, GenerateCuts
  <2> QED
    BY <1>3, <2>1 DEF Generate, TrueManifest, TrueLogs, TrueScore, TrueResult
<1>4. ASSUME NEW k \in 1 .. FrozenSample, Probe(k)
      PROVE  StudyInv'
  <2>1. TrueLogs'
    BY <1>4, ProbeTells
  <2> QED
    BY <1>4, <2>1 DEF Probe, TrueManifest, TrueProbes, TrueScore, TrueResult
<1>5. CASE Score
  <2>1. TrueScore'
    BY <1>5, ScoreTells
  <2> QED
    BY <1>5, <2>1 DEF Score, TrueManifest, TrueProbes, TrueLogs, TrueResult
<1>6. CASE Persist
  <2>1. TrueResult'
    BY <1>6, PersistEarns
  <2> QED
    BY <1>6, <2>1 DEF Persist, TrueManifest, TrueProbes, TrueLogs, TrueScore
<1>7. CASE UNCHANGED proposalVars
  BY <1>7 DEF proposalVars, TrueManifest, TrueProbes, TrueLogs, TrueScore, TrueResult
<1> QED
  BY <1>1, <1>2, <1>3, <1>4, <1>5, <1>6, <1>7 DEF ProposalNext

\* The invariant of the study: each file holds what the closure and Lean
\* say, whatever is run, in whatever order and however often.
THEOREM StudyInvariant == ProposalSpec => []StudyInv
<1>1. ProposalInit => StudyInv
  BY StudyInitially
<1>2. StudyInv /\ [ProposalNext]_proposalVars => StudyInv'
  BY StudyKept
<1> QED
  BY <1>1, <1>2, PTL DEF ProposalSpec

\* A manifest always holds a balanced sample of the audited population,
\* whatever the seed and the hashes (kuna-proposal-sample.py).
THEOREM SamplesStayBalanced == ProposalSpec => []SampleBalanced
<1>1. StudyInv => SampleBalanced
  BY BalancedIf DEF StudyInv, TrueManifest
<1> QED
  BY <1>1, StudyInvariant, PTL

\* What is published is always measured, although shards are run again, are
\* interrupted, are broken or belong to another manifest
\* (kuna-proposal-score.py, kuna-proposal-result.py).
THEOREM MeasurementsStayEarned == ProposalSpec => []MeasurementEarned
<1>1. StudyInv => MeasurementEarned
  BY EarnedIf DEF StudyInv, TrueResult
<1> QED
  BY <1>1, StudyInvariant, PTL

\* Both, as the run checks it.
THEOREM ProposalsStayMeasured == ProposalSpec => []ProposalMeasured
<1>1. SampleBalanced /\ MeasurementEarned => ProposalMeasured
  BY DEF ProposalMeasured
<1> QED
  BY <1>1, SamplesStayBalanced, MeasurementsStayEarned, PTL
=============================================================================
