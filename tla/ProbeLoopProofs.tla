----------------------------- MODULE ProbeLoopProofs -----------------------------
(***************************************************************************)
(* Proofs about ProbeLoop, for every slice.                                *)
(*                                                                         *)
(* Three questions that have little to do with one another: whether the    *)
(* searches for weakenings agree, which is about the operators of          *)
(* HomeIndex; whether a plan is fair to families, which is about places    *)
(* in finite orders; and whether what is reported confirmed was proved,    *)
(* which is an invariant of the loop.                                      *)
(***************************************************************************)
EXTENDS ProbeLoop, FiniteSetTheorems, SequenceTheorems, TLAPS

\* A least natural number, from well-foundedness.
LEMMA Least ==
  ASSUME NEW T \in SUBSET Nat, T # {}
  PROVE  \E n \in T : \A m \in T : n <= m
<1> DEFINE R == OpToRel(<, Nat)
<1>1. \A a, b \in Nat : a < b => <<a, b>> \in R
  BY DEF OpToRel
<1>2. IsWellFoundedOn(R, Nat)
  BY NatLessThanWellFounded
<1> HIDE DEF R
<1>3. \E x \in T : \A y \in T : ~(<<y, x>> \in R)
  BY <1>2, WFMin
<1>4. PICK n \in T : \A y \in T : ~(<<y, n>> \in R)
  BY <1>3
<1>5. \A m \in T : n <= m
  <2> SUFFICES ASSUME NEW m \in T
               PROVE  n <= m
    OBVIOUS
  <2>1. m \in Nat /\ n \in Nat
    OBVIOUS
  <2>2. ~(m < n)
    BY <1>1, <1>4, <2>1
  <2> QED
    BY <2>1, <2>2
<1> QED
  BY <1>5

-----------------------------------------------------------------------------
(* Orders *)

Below(S, R, s) == {r \in S : <<r, s>> \in R}

LinearOn(S, R) ==
  /\ \A s \in S : <<s, s>> \notin R
  /\ \A r, s, t \in S : <<r, s>> \in R /\ <<s, t>> \in R => <<r, t>> \in R
  /\ \A r, s \in S : r # s => <<r, s>> \in R \/ <<s, r>> \in R

\* In a linear order of a finite set each place is taken, by one element.
LEMMA PlacesTaken ==
  ASSUME NEW S, IsFiniteSet(S), NEW R, LinearOn(S, R)
  PROVE  /\ Cardinality(S) \in Nat
         /\ \A s \in S : Cardinality(Below(S, R, s)) + 1 \in 1..Cardinality(S)
         /\ \A i \in 1..Cardinality(S) : \E s \in S : Cardinality(Below(S, R, s)) = i - 1
         /\ \A s, t \in S :
              Cardinality(Below(S, R, s)) = Cardinality(Below(S, R, t)) => s = t
<1> DEFINE n == Cardinality(S)
           place == [s \in S |-> Cardinality(Below(S, R, s)) + 1]
<1>1. n \in Nat
  BY FS_CardinalityType
<1>2. ASSUME NEW s \in S
      PROVE  /\ IsFiniteSet(Below(S, R, s)) /\ Cardinality(Below(S, R, s)) \in Nat
             /\ Cardinality(Below(S, R, s)) <= n - 1
  <2>1. Below(S, R, s) \in SUBSET S /\ Below(S, R, s) # S
    BY DEF Below, LinearOn
  <2>2. /\ IsFiniteSet(Below(S, R, s)) /\ Cardinality(Below(S, R, s)) <= n
        /\ n # Cardinality(Below(S, R, s))
    BY <2>1, FS_Subset
  <2>3. Cardinality(Below(S, R, s)) \in Nat
    BY <2>2, FS_CardinalityType
  <2> QED
    BY <1>1, <2>2, <2>3
<1>3. ASSUME NEW s \in S, NEW t \in S, s # t
      PROVE  Cardinality(Below(S, R, s)) # Cardinality(Below(S, R, t))
  <2>1. ASSUME NEW a \in S, NEW b \in S, <<a, b>> \in R
        PROVE  Cardinality(Below(S, R, a)) # Cardinality(Below(S, R, b))
    <3>1. Below(S, R, a) \in SUBSET Below(S, R, b) /\ Below(S, R, a) # Below(S, R, b)
      BY <2>1 DEF Below, LinearOn
    <3> QED
      BY <1>2, <3>1, FS_Subset
  <2> QED
    BY <1>3, <2>1 DEF LinearOn
<1>4. place \in [S -> 1..n]
  BY <1>1, <1>2
<1>5. place \in Injection(S, 1..n)
  <2>1. \A s, t \in S : place[s] = place[t] => s = t
    BY <1>2, <1>3
  <2> QED
    BY <1>4, <2>1 DEF Injection, IsInjective
<1>6. IsFiniteSet(1..n) /\ Cardinality(1..n) = n
  BY <1>1, FS_Interval
<1>7. place \in Surjection(S, 1..n)
  BY <1>5, <1>6, FS_Injection
<1>8. \A i \in 1..n : \E s \in S : place[s] = i
  BY <1>7 DEF Surjection
<1>9. \A i \in 1..n : \E s \in S : Cardinality(Below(S, R, s)) = i - 1
  BY <1>1, <1>2, <1>8
<1> QED
  BY <1>1, <1>2, <1>3, <1>9

\* Distinct keys of one length put the elements of S in a linear order.
LEMMA KeysOrder ==
  ASSUME NEW S, NEW n \in Nat, NEW K, \A s \in S : K[s] \in Seq(Int) /\ Len(K[s]) = n,
         \A r, s \in S : K[r] = K[s] => r = s,
         NEW R, \A r, s \in S : <<r, s>> \in R <=> Precedes(K[r], K[s])
  PROVE  LinearOn(S, R)
<1>1. \A s \in S : /\ DOMAIN K[s] = 1..n
                   /\ K[s] = [i \in 1..n |-> K[s][i]]
                   /\ \A i \in 1..n : K[s][i] \in Int
  OBVIOUS
<1>2. ASSUME NEW s \in S
      PROVE  <<s, s>> \notin R
  BY <1>1 DEF Precedes
<1>3. ASSUME NEW r \in S, NEW s \in S, NEW t \in S, <<r, s>> \in R, <<s, t>> \in R
      PROVE  <<r, t>> \in R
  <2>1. PICK i \in 1..n : K[r][i] < K[s][i] /\ \A j \in 1..(i - 1) : K[r][j] = K[s][j]
    BY <1>1, <1>3 DEF Precedes
  <2>2. PICK k \in 1..n : K[s][k] < K[t][k] /\ \A j \in 1..(k - 1) : K[s][j] = K[t][j]
    BY <1>1, <1>3 DEF Precedes
  <2>3. CASE i <= k
    <3>1. i = k \/ i \in 1..(k - 1)
      BY <2>3
    <3>2. K[r][i] \in Int /\ K[s][i] \in Int /\ K[t][i] \in Int /\ K[r][i] < K[s][i]
      BY <1>1, <2>1
    <3>3. K[s][i] = K[t][i] \/ K[s][i] < K[t][i]
      BY <2>2, <3>1
    <3>4. K[r][i] < K[t][i]
      BY <3>2, <3>3
    <3>5. \A j \in 1..(i - 1) : K[r][j] = K[t][j]
      BY <2>1, <2>2, <2>3
    <3> QED
      BY <1>1, <3>4, <3>5 DEF Precedes
  <2>4. CASE k < i
    <3>1. K[r][k] < K[t][k]
      BY <1>1, <2>1, <2>2, <2>4
    <3>2. \A j \in 1..(k - 1) : K[r][j] = K[t][j]
      BY <2>1, <2>2, <2>4
    <3> QED
      BY <1>1, <3>1, <3>2 DEF Precedes
  <2> QED
    BY <2>3, <2>4
<1>4. ASSUME NEW r \in S, NEW s \in S, r # s
      PROVE  <<r, s>> \in R \/ <<s, r>> \in R
  <2> DEFINE D == {i \in 1..n : K[r][i] # K[s][i]}
  <2>1. D # {}
    <3> SUFFICES ASSUME \A i \in 1..n : K[r][i] = K[s][i]
                 PROVE  K[r] = K[s]
      BY <1>4
    <3>1. [i \in 1..n |-> K[r][i]] = [i \in 1..n |-> K[s][i]]
      OBVIOUS
    <3> QED
      BY <1>1, <3>1
  <2>2. D \in SUBSET Nat
    OBVIOUS
  <2>3. PICK i \in D : \A j \in D : i <= j
    BY <2>1, <2>2, Least
  <2>4. ASSUME NEW j \in 1..(i - 1)
        PROVE  K[r][j] = K[s][j]
    <3>1. j \in 1..n /\ ~(i <= j)
      BY <2>3
    <3> QED
      BY <2>3, <3>1
  <2>5. K[r][i] < K[s][i] \/ K[s][i] < K[r][i]
    BY <1>1, <2>3
  <2> QED
    BY <1>1, <2>4, <2>5 DEF Precedes
<1> QED
  BY <1>2, <1>3, <1>4 DEF LinearOn

\* Who comes first in a linear order of a finite set.
FirstIn(S, R, n) == {s \in S : Cardinality(Below(S, R, s)) < n}

LEMMA FirstFew ==
  ASSUME NEW S, IsFiniteSet(S), NEW R, LinearOn(S, R), NEW n \in Nat
  PROVE  /\ \A r, s \in S : s \in FirstIn(S, R, n) /\ <<r, s>> \in R => r \in FirstIn(S, R, n)
         /\ \A r, s \in S : <<r, s>> \in R
              => Cardinality(Below(S, R, r)) < Cardinality(Below(S, R, s))
         /\ Cardinality(FirstIn(S, R, n)) < n => FirstIn(S, R, n) = S
<1> DEFINE F == FirstIn(S, R, n)
<1> USE DEF FirstIn
<1>1. ASSUME NEW s \in S
      PROVE  IsFiniteSet(Below(S, R, s)) /\ Cardinality(Below(S, R, s)) \in Nat
  <2>1. Below(S, R, s) \in SUBSET S
    BY DEF Below
  <2> QED
    BY <2>1, FS_Subset, FS_CardinalityType
<1>2. ASSUME NEW r \in S, NEW s \in S, <<r, s>> \in R
      PROVE  Cardinality(Below(S, R, r)) < Cardinality(Below(S, R, s))
  <2>1. Below(S, R, r) \in SUBSET Below(S, R, s) /\ Below(S, R, r) # Below(S, R, s)
    BY <1>2 DEF Below, LinearOn
  <2>2. /\ Cardinality(Below(S, R, r)) <= Cardinality(Below(S, R, s))
        /\ Cardinality(Below(S, R, r)) # Cardinality(Below(S, R, s))
    BY <1>1, <2>1, FS_Subset
  <2> QED
    BY <1>1, <2>2
<1>3. ASSUME NEW r \in S, NEW s \in S, s \in F, <<r, s>> \in R
      PROVE  r \in F
  BY <1>1, <1>2, <1>3
<1>4. ASSUME Cardinality(F) < n, F # S
      PROVE  FALSE
  <2> DEFINE T == {Cardinality(Below(S, R, s)) : s \in S \ F}
  <2>1. T \in SUBSET Nat /\ T # {}
    BY <1>1, <1>4
  <2>2. PICK m \in T : \A k \in T : m <= k
    BY <2>1, Least
  <2>3. PICK s \in S \ F : m = Cardinality(Below(S, R, s))
    BY <2>2
  <2>4. Below(S, R, s) \in SUBSET F
    <3> SUFFICES ASSUME NEW r \in Below(S, R, s), r \notin F
                 PROVE  FALSE
      OBVIOUS
    <3>1. r \in S /\ <<r, s>> \in R
      BY DEF Below
    <3>2. Cardinality(Below(S, R, r)) < Cardinality(Below(S, R, s))
      BY <1>2, <2>3, <3>1
    <3>3. m <= Cardinality(Below(S, R, r))
      BY <2>2, <3>1
    <3> QED
      BY <1>1, <2>3, <3>1, <3>2, <3>3
  <2>5. F \in SUBSET S
    OBVIOUS
  <2>6. IsFiniteSet(F) /\ Cardinality(F) \in Nat
    BY <2>5, FS_Subset, FS_CardinalityType
  <2>7. Cardinality(Below(S, R, s)) <= Cardinality(F)
    BY <2>4, <2>6, FS_Subset
  <2>8. ~(Cardinality(Below(S, R, s)) < n)
    BY <2>3
  <2> QED
    BY <1>1, <1>4, <2>3, <2>6, <2>7, <2>8
<1> QED
  BY <1>2, <1>3, <1>4

\* Elements that take the places from 0 on, one each.
Placed(M, p) ==
  /\ IsFiniteSet(M) /\ Cardinality(M) \in Nat
  /\ p \in [M -> 0 .. Cardinality(M) - 1]
  /\ \A i \in 0 .. Cardinality(M) - 1 : \E t \in M : p[t] = i
  /\ \A t, u \in M : p[t] = p[u] => t = u

\* As many places as there are are among the first few.
LEMMA CountPlaces ==
  ASSUME NEW M, NEW p, Placed(M, p), NEW c \in Nat, c <= Cardinality(M)
  PROVE  Cardinality({t \in M : p[t] < c}) = c
<1> DEFINE n == Cardinality(M)
           F == {t \in M : p[t] < c}
           h == [t \in F |-> p[t]]
<1>1. n \in Nat /\ \A t \in M : p[t] \in 0 .. n - 1
  BY DEF Placed
<1>2. h \in [F -> 0 .. c - 1]
  BY <1>1
<1>3. h \in Surjection(F, 0 .. c - 1)
  <2> SUFFICES ASSUME NEW i \in 0 .. c - 1
               PROVE  \E t \in F : h[t] = i
    BY <1>2 DEF Surjection
  <2>1. i \in 0 .. n - 1 /\ i < c
    BY <1>1
  <2> QED
    BY <2>1 DEF Placed
<1>4. h \in Injection(F, 0 .. c - 1)
  BY <1>2 DEF Injection, IsInjective, Placed
<1>5. IsFiniteSet(F)
  <2>1. F \in SUBSET M
    OBVIOUS
  <2> QED
    BY <2>1, FS_Subset DEF Placed
<1>6. Cardinality(0 .. c - 1) = c
  <2>1. Cardinality(0 .. c - 1) = IF 0 > c - 1 THEN 0 ELSE (c - 1) - 0 + 1
    BY FS_Interval
  <2> QED
    BY <2>1
<1> HIDE DEF F, h
<1> QED
  BY <1>3, <1>4, <1>5, <1>6, FS_Surjection DEF F

\* A set that holds whoever is placed before an element of it has as many as
\* it holds places.
LEMMA FirstPlaces ==
  ASSUME NEW M, NEW p, Placed(M, p), NEW F \in SUBSET M,
         \A t, u \in M : t \in F /\ p[u] < p[t] => u \in F
  PROVE  /\ Cardinality(F) \in Nat /\ Cardinality(F) <= Cardinality(M)
         /\ F = {t \in M : p[t] < Cardinality(F)}
<1> DEFINE n == Cardinality(M)
<1>1. n \in Nat /\ \A t \in M : p[t] \in 0 .. n - 1
  BY DEF Placed
<1>2. Cardinality(F) \in Nat /\ Cardinality(F) <= n
  BY <1>1, FS_Subset, FS_CardinalityType DEF Placed
<1>3. CASE F = M
  BY <1>1, <1>3
<1>4. CASE F # M
  <2> DEFINE T == {p[t] : t \in M \ F}
  <2>1. T \in SUBSET Nat /\ T # {}
    BY <1>1, <1>4
  <2>2. PICK c \in T : \A k \in T : c <= k
    BY <2>1, Least
  <2>3. PICK u \in M \ F : c = p[u]
    BY <2>2
  <2>4. ASSUME NEW t \in M
        PROVE  t \in F <=> p[t] < c
    <3>1. p[t] \in Nat /\ c \in Nat
      BY <1>1, <2>3
    <3>2. ASSUME t \in F, ~(p[t] < c)
          PROVE  FALSE
      <4>1. p[t] # p[u]
        BY <2>3, <3>2 DEF Placed
      <4>2. p[u] < p[t]
        BY <2>3, <3>1, <3>2, <4>1
      <4> QED
        BY <2>3, <3>2, <4>2
    <3>3. ASSUME t \notin F
          PROVE  c <= p[t]
      BY <2>2, <3>3
    <3> QED
      BY <3>1, <3>2, <3>3
  <2>5. F = {t \in M : p[t] < c}
    BY <2>4
  <2>6. c \in Nat /\ c <= n
    BY <1>1, <2>3
  <2>7. Cardinality(F) = c
    BY <2>5, <2>6, CountPlaces
  <2> QED
    BY <1>2, <2>5, <2>7
<1> QED
  BY <1>2, <1>3, <1>4

-----------------------------------------------------------------------------
(* Places in a family and turns of families *)

Triples == [decl : Nat, declared : Nat, target : Nat]

Members(rows, f) == {t \in rows : Family(t) = f}

\* The place of each member of a family.
PlaceIn(rows, f) == [t \in Members(rows, f) |-> Place(rows, t)]

LEMMA FamilyPlaced ==
  ASSUME NEW rows \in SUBSET Triples, IsFiniteSet(rows), NEW f
  PROVE  Placed(Members(rows, f), PlaceIn(rows, f))
<1> DEFINE M == Members(rows, f)
           p == PlaceIn(rows, f)
<1>1. PICK R : R = {q \in M \X M : q[1].decl < q[2].decl}
  OBVIOUS
<1>2. M \in SUBSET rows
  BY DEF Members
<1>3. IsFiniteSet(M)
  BY <1>2, FS_Subset
<1>4. \A t, u \in M : t.decl \in Nat /\ u.decl \in Nat /\ (t.decl = u.decl => t = u)
  BY <1>2 DEF Members, Family, Triples
<1>5. \A t, u \in M : <<t, u>> \in R <=> t.decl < u.decl
  BY <1>1
<1> HIDE DEF M
<1>6. LinearOn(M, R)
  BY <1>4, <1>5 DEF LinearOn
<1>7. ASSUME NEW t \in M
      PROVE  p[t] = Cardinality(Below(M, R, t))
  <2>1. {u \in rows : Family(u) = Family(t) /\ u.decl < t.decl} = Below(M, R, t)
    BY <1>5 DEF Below, M, Members
  <2> QED
    BY <2>1 DEF PlaceIn, Place, M
<1>8. DOMAIN p = M /\ p = [t \in M |-> p[t]]
  BY DEF PlaceIn, M
<1>9. /\ Cardinality(M) \in Nat
      /\ \A t \in M : Cardinality(Below(M, R, t)) + 1 \in 1 .. Cardinality(M)
      /\ \A i \in 1 .. Cardinality(M) : \E t \in M : Cardinality(Below(M, R, t)) = i - 1
      /\ \A t, u \in M :
           Cardinality(Below(M, R, t)) = Cardinality(Below(M, R, u)) => t = u
  BY <1>3, <1>6, PlacesTaken
<1>10. ASSUME NEW t \in M
       PROVE  p[t] \in 0 .. Cardinality(M) - 1
  <2>1. Below(M, R, t) \in SUBSET M
    BY DEF Below
  <2>2. Cardinality(Below(M, R, t)) \in Nat
    BY <1>3, <2>1, FS_Subset, FS_CardinalityType
  <2> QED
    BY <1>7, <1>9, <2>2
<1>11. ASSUME NEW i \in 0 .. Cardinality(M) - 1
       PROVE  \E t \in M : p[t] = i
  <2>1. i + 1 \in 1 .. Cardinality(M) /\ (i + 1) - 1 = i
    BY <1>9
  <2>2. PICK t \in M : Cardinality(Below(M, R, t)) = (i + 1) - 1
    BY <1>9, <2>1
  <2> QED
    BY <1>7, <2>1, <2>2
<1> HIDE DEF p
<1>12. \A t, u \in M : p[t] = p[u] => t = u
  BY <1>7, <1>9
<1> QED
  BY <1>3, <1>8, <1>9, <1>10, <1>11, <1>12 DEF Placed, M, p

Families(rows) == {Family(t) : t \in rows}

LEMMA FamiliesFinite ==
  ASSUME NEW rows \in SUBSET Triples, IsFiniteSet(rows)
  PROVE  /\ IsFiniteSet(Families(rows)) /\ Families(rows) \subseteq Nat \X Nat
         /\ \A f : Cardinality(Members(rows, f)) \in Nat
<1>1. PICK h : h = [t \in rows |-> Family(t)]
  OBVIOUS
<1>2. h \in Surjection(rows, Families(rows))
  BY <1>1 DEF Surjection, Families
<1>3. IsFiniteSet(Families(rows))
  BY <1>2, FS_Surjection
<1>4. Families(rows) \subseteq Nat \X Nat
  BY DEF Families, Family, Triples
<1>5. ASSUME NEW f
      PROVE  Cardinality(Members(rows, f)) \in Nat
  BY FamilyPlaced DEF Placed
<1> QED
  BY <1>3, <1>4, <1>5

LEMMA RateIsNumber ==
  ASSUME NEW known, IsFiniteSet(known), NEW f
  PROVE  Rate(known, f) \in Nat
<1>1. {t \in known : Family(t) = f} \in SUBSET known
  OBVIOUS
<1> QED
  BY <1>1, FS_Subset, FS_CardinalityType DEF Rate

LEMMA PairsJoined ==
  ASSUME NEW u, NEW v, u \in Seq(Int), v \in Seq(Int), Len(u) = 2, Len(v) = 2
  PROVE  /\ u \o v \in Seq(Int) /\ Len(u \o v) = 4 /\ DOMAIN (u \o v) = 1 .. 4
         /\ (u \o v)[1] = u[1] /\ (u \o v)[2] = u[2]
         /\ (u \o v)[3] = v[1] /\ (u \o v)[4] = v[2]
<1>1. /\ u \o v \in Seq(Int) /\ Len(u \o v) = Len(u) + Len(v)
      /\ \A i \in 1 .. Len(u) + Len(v) :
           (u \o v)[i] = IF i <= Len(u) THEN u[i] ELSE v[i - Len(u)]
  BY ConcatProperties
<1>2. DOMAIN (u \o v) = 1 .. 4
  BY <1>1
<1>3. Len(u \o v) = 4 /\ \A i \in 1 .. 4 : (u \o v)[i] = IF i <= 2 THEN u[i] ELSE v[i - 2]
  BY <1>1
<1> QED
  BY <1>1, <1>2, <1>3

\* Families take turns, the less known ones first.
LEMMA TurnsTaken ==
  ASSUME NEW rows \in SUBSET Triples, IsFiniteSet(rows), NEW known, IsFiniteSet(known)
  PROVE  /\ \A f \in Families(rows) : Turn(rows, known, f) \in Nat
         /\ \A f, g \in Families(rows) :
              Turn(rows, known, f) = Turn(rows, known, g) => f = g
         /\ \A f, g \in Families(rows) :
              Rate(known, g) < Rate(known, f) => Turn(rows, known, g) < Turn(rows, known, f)
<1> DEFINE S == Families(rows)
           size(g) == Cardinality({t \in rows : Family(t) = g})
           key(g) == <<Rate(known, g), 0 - size(g)>> \o g
<1>1. IsFiniteSet(S) /\ S \subseteq Nat \X Nat
  BY FamiliesFinite
<1>2. ASSUME NEW g \in S
      PROVE  /\ key(g) \in Seq(Int) /\ Len(key(g)) = 4
             /\ key(g)[1] = Rate(known, g) /\ key(g)[3] = g[1] /\ key(g)[4] = g[2]
             /\ DOMAIN key(g) = 1 .. 4
  <2>1. Rate(known, g) \in Nat
    BY RateIsNumber
  <2>2. size(g) \in Nat
    BY FamiliesFinite DEF Members
  <2>3. PICK a \in Nat, b \in Nat : g = <<a, b>>
    BY <1>1
  <2>4. PICK r : r = Rate(known, g)
    OBVIOUS
  <2>5. PICK n : n = size(g)
    OBVIOUS
  <2>6. r \in Int /\ 0 - n \in Int
    BY <2>1, <2>2, <2>4, <2>5
  <2>7. PICK s \in Int : s = 0 - n
    BY <2>6
  <2>8. PICK u : u = <<r, s>>
    OBVIOUS
  <2>9. u \in Seq(Int) /\ Len(u) = 2 /\ u[1] = r
    BY <2>6, <2>8
  <2>10. g \in Seq(Int) /\ Len(g) = 2
    BY <2>3
  <2>11. key(g) = u \o g
    BY <2>4, <2>5, <2>7, <2>8
  <2> HIDE DEF key, size
  <2> QED
    BY <2>4, <2>9, <2>10, <2>11, PairsJoined
<1>3. PICK K : K = [g \in S |-> key(g)]
  OBVIOUS
<1>4. PICK R : R = {q \in S \X S : Precedes(key(q[1]), key(q[2]))}
  OBVIOUS
<1>5. \A f \in S : Turn(rows, known, f) = Cardinality(Below(S, R, f))
  <2> SUFFICES ASSUME NEW f \in S
               PROVE  Turn(rows, known, f) = Cardinality(Below(S, R, f))
    OBVIOUS
  <2>1. {g \in S : Precedes(key(g), key(f))} = Below(S, R, f)
    BY <1>4 DEF Below
  <2>2. Turn(rows, known, f) = Cardinality({g \in S : Precedes(key(g), key(f))})
    BY DEF Turn, Families
  <2> QED
    BY <2>1, <2>2
<1> HIDE DEF S, key
<1>6. \A r, s \in S : <<r, s>> \in R <=> Precedes(K[r], K[s])
  BY <1>3, <1>4
<1>7. ASSUME NEW r \in S, NEW s \in S, K[r] = K[s]
      PROVE  r = s
  <2>1. key(r) = key(s)
    BY <1>3, <1>7
  <2>2. r[1] = s[1] /\ r[2] = s[2]
    BY <1>2, <2>1
  <2>3. r \in Nat \X Nat /\ s \in Nat \X Nat
    BY <1>1
  <2> QED
    BY <2>2, <2>3
<1>8. \A s \in S : K[s] \in Seq(Int) /\ Len(K[s]) = 4
  BY <1>2, <1>3
<1>9. LinearOn(S, R)
  BY <1>6, <1>7, <1>8, KeysOrder
<1>10. \A r, s \in S : <<r, s>> \in R
         => Cardinality(Below(S, R, r)) < Cardinality(Below(S, R, s))
  <2>1. 0 \in Nat
    OBVIOUS
  <2> QED
    BY <1>1, <1>9, <2>1, FirstFew
<1>11. ASSUME NEW f \in S
       PROVE  Cardinality(Below(S, R, f)) \in Nat
  <2>1. Below(S, R, f) \in SUBSET S
    BY DEF Below
  <2> QED
    BY <1>1, <2>1, FS_Subset, FS_CardinalityType
<1>12. \A f, g \in S : Cardinality(Below(S, R, f)) = Cardinality(Below(S, R, g)) => f = g
  BY <1>1, <1>9, PlacesTaken
<1>13. ASSUME NEW f \in S, NEW g \in S, Rate(known, g) < Rate(known, f)
       PROVE  Turn(rows, known, g) < Turn(rows, known, f)
  <2> HIDE DEF size
  <2>1. K[g] = key(g) /\ K[f] = key(f)
    BY <1>3
  <2>2. 1 \in DOMAIN key(g) /\ key(g)[1] = Rate(known, g) /\ key(f)[1] = Rate(known, f)
    BY <1>2
  <2>3. 1 \in DOMAIN K[g] /\ K[g][1] < K[f][1]
    BY <1>13, <2>1, <2>2
  <2>4. Precedes(K[g], K[f])
    BY <2>3 DEF Precedes
  <2> QED
    BY <1>5, <1>6, <1>10, <2>4
<1> QED
  BY <1>5, <1>11, <1>12, <1>13 DEF S

-----------------------------------------------------------------------------
(* Plans *)

Ahead(A, B, r, s) == Precedes(<<A[r], B[r]>>, <<A[s], B[s]>>)

LEMMA TwoKeys ==
  ASSUME NEW S, NEW A, NEW B, \A s \in S : A[s] \in Nat /\ B[s] \in Nat,
         \A r, s \in S : A[r] = A[s] /\ B[r] = B[s] => r = s,
         NEW R, \A r, s \in S : <<r, s>> \in R <=> Ahead(A, B, r, s)
  PROVE  /\ LinearOn(S, R)
         /\ \A r, s \in S : A[r] < A[s] => <<r, s>> \in R
         /\ \A r, s \in S : A[r] = A[s] /\ B[r] < B[s] => <<r, s>> \in R
<1>1. PICK K : K = [s \in S |-> <<A[s], B[s]>>]
  OBVIOUS
<1>2. ASSUME NEW s \in S
      PROVE  /\ K[s] \in Seq(Int) /\ Len(K[s]) = 2 /\ DOMAIN K[s] = 1 .. 2
             /\ K[s][1] = A[s] /\ K[s][2] = B[s]
  <2>1. PICK a \in Int, b \in Int : a = A[s] /\ b = B[s]
    OBVIOUS
  <2>2. K[s] = <<a, b>>
    BY <1>1, <2>1
  <2> QED
    BY <2>1, <2>2
<1>3. \A r, s \in S : <<r, s>> \in R <=> Precedes(K[r], K[s])
  BY <1>1 DEF Ahead
<1>4. \A r, s \in S : K[r] = K[s] => r = s
  BY <1>2
<1>5. LinearOn(S, R)
  <2>1. \A s \in S : K[s] \in Seq(Int) /\ Len(K[s]) = 2
    BY <1>2
  <2>2. 2 \in Nat
    OBVIOUS
  <2> QED
    BY <1>3, <1>4, <2>1, <2>2, KeysOrder
<1>6. ASSUME NEW r \in S, NEW s \in S, A[r] < A[s]
      PROVE  <<r, s>> \in R
  <2>1. 1 \in DOMAIN K[r] /\ K[r][1] < K[s][1] /\ \A j \in 1 .. (1 - 1) : K[r][j] = K[s][j]
    BY <1>2, <1>6
  <2> QED
    BY <1>3, <2>1 DEF Precedes
<1>7. ASSUME NEW r \in S, NEW s \in S, A[r] = A[s], B[r] < B[s]
      PROVE  <<r, s>> \in R
  <2>1. 2 \in DOMAIN K[r] /\ K[r][2] < K[s][2]
    BY <1>2, <1>7
  <2>2. \A j \in 1 .. (2 - 1) : K[r][j] = K[s][j]
    BY <1>2, <1>7
  <2> QED
    BY <1>3, <2>1, <2>2 DEF Precedes
<1> QED
  BY <1>5, <1>6, <1>7

\* The first few, by two keys that name an element.
LEMMA FirstByTwo ==
  ASSUME NEW S, IsFiniteSet(S), NEW A, NEW B, \A s \in S : A[s] \in Nat /\ B[s] \in Nat,
         \A r, s \in S : A[r] = A[s] /\ B[r] = B[s] => r = s,
         NEW R, \A r, s \in S : <<r, s>> \in R <=> Ahead(A, B, r, s),
         NEW n \in Nat
  PROVE  /\ FirstIn(S, R, n) \subseteq S
         /\ \A r, s \in S : s \in FirstIn(S, R, n) /\ A[r] < A[s] => r \in FirstIn(S, R, n)
         /\ \A r, s \in S :
              s \in FirstIn(S, R, n) /\ A[r] = A[s] /\ B[r] < B[s] => r \in FirstIn(S, R, n)
         /\ Cardinality(FirstIn(S, R, n)) < n => FirstIn(S, R, n) = S
<1>1. /\ LinearOn(S, R)
      /\ \A r, s \in S : A[r] < A[s] => <<r, s>> \in R
      /\ \A r, s \in S : A[r] = A[s] /\ B[r] < B[s] => <<r, s>> \in R
  BY TwoKeys
<1>2. /\ \A r, s \in S : s \in FirstIn(S, R, n) /\ <<r, s>> \in R => r \in FirstIn(S, R, n)
      /\ Cardinality(FirstIn(S, R, n)) < n => FirstIn(S, R, n) = S
  BY <1>1, FirstFew
<1>3. FirstIn(S, R, n) \subseteq S
  BY DEF FirstIn
<1> QED
  BY <1>1, <1>2, <1>3

\* What a plan by families may ask.
Eligible(rows, known) ==
  {t \in rows : /\ Place(rows, t) < PerFamily
                /\ Rate(known, Family(t)) >= Saturated => Place(rows, t) = 0}

\* A probe is named by its family's turn and its place in the family.
LEMMA KeysName ==
  ASSUME NEW rows \in SUBSET Triples, IsFiniteSet(rows), NEW known, IsFiniteSet(known)
  PROVE  /\ \A t \in rows : Place(rows, t) \in Nat /\ Turn(rows, known, Family(t)) \in Nat
         /\ \A t, u \in rows :
              Place(rows, t) = Place(rows, u)
                /\ Turn(rows, known, Family(t)) = Turn(rows, known, Family(u)) => t = u
<1>1. ASSUME NEW t \in rows
      PROVE  Place(rows, t) \in Nat /\ Turn(rows, known, Family(t)) \in Nat
  <2>1. Family(t) \in Families(rows) /\ t \in Members(rows, Family(t))
    BY DEF Families, Members
  <2>2. PlaceIn(rows, Family(t))[t] \in Nat
    BY <2>1, FamilyPlaced DEF Placed
  <2> QED
    BY <2>1, <2>2, TurnsTaken DEF PlaceIn
<1>2. ASSUME NEW t \in rows, NEW u \in rows, Place(rows, t) = Place(rows, u),
             Turn(rows, known, Family(t)) = Turn(rows, known, Family(u))
      PROVE  t = u
  <2>1. Family(t) \in Families(rows) /\ Family(u) \in Families(rows)
    BY DEF Families
  <2>2. Family(t) = Family(u)
    BY <1>2, <2>1, TurnsTaken
  <2>3. t \in Members(rows, Family(t)) /\ u \in Members(rows, Family(t))
    BY <2>2 DEF Members
  <2>4. PlaceIn(rows, Family(t))[t] = PlaceIn(rows, Family(t))[u]
    BY <1>2, <2>3 DEF PlaceIn
  <2> QED
    BY <2>3, <2>4, FamilyPlaced DEF Placed
<1> QED
  BY <1>1, <1>2

LEMMA RoundRobinTakes ==
  ASSUME NEW rows \in SUBSET Triples, IsFiniteSet(rows), NEW known, IsFiniteSet(known),
         NEW P, P = RoundRobin(rows, known)
  PROVE  /\ P \subseteq Eligible(rows, known)
         /\ \A t, u \in Eligible(rows, known) :
              u \in P /\ Place(rows, t) < Place(rows, u) => t \in P
         /\ \A t, u \in Eligible(rows, known) :
              /\ u \in P /\ Place(rows, t) = Place(rows, u)
              /\ Turn(rows, known, Family(t)) < Turn(rows, known, Family(u))
              => t \in P
         /\ Cardinality(P) < Budget => P = Eligible(rows, known)
<1>1. PICK S : S = Eligible(rows, known)
  OBVIOUS
<1>2. S \in SUBSET rows /\ IsFiniteSet(S)
  BY <1>1, FS_Subset DEF Eligible
<1>3. PICK A : A = [t \in S |-> Place(rows, t)]
  OBVIOUS
<1>4. PICK B : B = [t \in S |-> Turn(rows, known, Family(t))]
  OBVIOUS
<1>5. \A s \in S : A[s] \in Nat /\ B[s] \in Nat
  BY <1>2, <1>3, <1>4, KeysName
<1>6. \A r, s \in S : A[r] = A[s] /\ B[r] = B[s] => r = s
  BY <1>2, <1>3, <1>4, KeysName
<1>7. PICK R : R = {q \in S \X S : Ahead(A, B, q[1], q[2])}
  OBVIOUS
<1>8. \A r, s \in S : <<r, s>> \in R <=> Ahead(A, B, r, s)
  BY <1>7
<1>9. RoundRobin(rows, known) = FirstIn(S, R, Budget)
  <2>1. RoundRobin(rows, known) = {s \in S : Cardinality({r \in S :
               Precedes(<<Place(rows, r), Turn(rows, known, Family(r))>>,
                        <<Place(rows, s), Turn(rows, known, Family(s))>>)}) < Budget}
    BY <1>1 DEF RoundRobin, FirstBy, Eligible
  <2>2. ASSUME NEW s \in S
        PROVE  {r \in S : Precedes(<<Place(rows, r), Turn(rows, known, Family(r))>>,
                                   <<Place(rows, s), Turn(rows, known, Family(s))>>)}
               = Below(S, R, s)
    BY <1>3, <1>4, <1>8 DEF Below, Ahead
  <2> QED
    BY <2>1, <2>2 DEF FirstIn
<1>10. /\ P \subseteq S
       /\ \A r, s \in S : s \in P /\ A[r] < A[s] => r \in P
       /\ \A r, s \in S : s \in P /\ A[r] = A[s] /\ B[r] < B[s] => r \in P
       /\ Cardinality(P) < Budget => P = S
  <2>1. Budget \in Nat
    BY OptionsAreNumbers
  <2> QED
    BY <1>2, <1>5, <1>6, <1>8, <1>9, <2>1, FirstByTwo
<1> QED
  BY <1>1, <1>3, <1>4, <1>10

LEMMA CensusTakes ==
  ASSUME NEW rows \in SUBSET Triples, IsFiniteSet(rows), NEW known, IsFiniteSet(known),
         NEW P, P = Census(rows, known)
  PROVE  /\ P \subseteq rows
         /\ \A t, u \in rows :
              u \in P /\ Turn(rows, known, Family(t)) < Turn(rows, known, Family(u)) => t \in P
<1>1. PICK A : A = [t \in rows |-> Turn(rows, known, Family(t))]
  OBVIOUS
<1>2. PICK B : B = [t \in rows |-> Place(rows, t)]
  OBVIOUS
<1>3. \A s \in rows : A[s] \in Nat /\ B[s] \in Nat
  BY <1>1, <1>2, KeysName
<1>4. \A r, s \in rows : A[r] = A[s] /\ B[r] = B[s] => r = s
  BY <1>1, <1>2, KeysName
<1>5. PICK R : R = {q \in rows \X rows : Ahead(A, B, q[1], q[2])}
  OBVIOUS
<1>6. \A r, s \in rows : <<r, s>> \in R <=> Ahead(A, B, r, s)
  BY <1>5
<1>7. Census(rows, known) = FirstIn(rows, R, Budget)
  <2>1. Census(rows, known) = {s \in rows : Cardinality({r \in rows :
               Precedes(<<Turn(rows, known, Family(r)), Place(rows, r)>>,
                        <<Turn(rows, known, Family(s)), Place(rows, s)>>)}) < Budget}
    BY DEF Census, FirstBy
  <2>2. ASSUME NEW s \in rows
        PROVE  {r \in rows : Precedes(<<Turn(rows, known, Family(r)), Place(rows, r)>>,
                                      <<Turn(rows, known, Family(s)), Place(rows, s)>>)}
               = Below(rows, R, s)
    BY <1>1, <1>2, <1>6 DEF Below, Ahead
  <2> QED
    BY <2>1, <2>2 DEF FirstIn
<1>8. /\ P \subseteq rows
      /\ \A r, s \in rows : s \in P /\ A[r] < A[s] => r \in P
  <2>1. Budget \in Nat
    BY OptionsAreNumbers
  <2> QED
    BY <1>3, <1>4, <1>6, <1>7, <2>1, FirstByTwo
<1> QED
  BY <1>1, <1>8

\* How many probes a family may get.
Cap(known, f) == IF Cardinality(Members(known, f)) >= Saturated THEN 1 ELSE PerFamily

Quota(rows, known, f) == Min({Cardinality(Members(rows, f)), Cap(known, f)})

LEMMA MinOfTwo ==
  ASSUME NEW a \in Nat, NEW b \in Nat
  PROVE  /\ Min({a, b}) \in Nat /\ Min({a, b}) <= a /\ Min({a, b}) <= b
         /\ Min({a, b}) = a \/ Min({a, b}) = b
<1>1. \E x \in {a, b} : \A y \in {a, b} : x <= y
  OBVIOUS
<1>2. Min({a, b}) \in {a, b} /\ \A y \in {a, b} : Min({a, b}) <= y
  BY <1>1 DEF Min
<1> QED
  BY <1>2

LEMMA CapIs ==
  ASSUME NEW known, IsFiniteSet(known), NEW f
  PROVE  Cap(known, f) \in Nat \ {0}
<1>1. Cardinality(Members(known, f)) \in Nat
  BY RateIsNumber DEF Rate, Members
<1> QED
  BY <1>1, OptionsAreNumbers DEF Cap

\* Of a family there are eligible as many as its quota, the first ones.
LEMMA FamilyEligible ==
  ASSUME NEW rows \in SUBSET Triples, IsFiniteSet(rows), NEW known, IsFiniteSet(known), NEW f
  PROVE  /\ \A t \in rows : Family(t) = f
              => (t \in Eligible(rows, known) <=> Place(rows, t) < Cap(known, f))
         /\ Cardinality(Members(Eligible(rows, known), f)) = Quota(rows, known, f)
<1> DEFINE M == Members(rows, f)
           p == PlaceIn(rows, f)
           c == Cap(known, f)
           q == Quota(rows, known, f)
<1>1. Placed(M, p)
  BY FamilyPlaced
<1>2. c \in Nat \ {0}
  BY CapIs
<1>3. Rate(known, f) = Cardinality(Members(known, f)) /\ Rate(known, f) \in Nat
  BY RateIsNumber DEF Rate, Members
<1>4. ASSUME NEW t \in rows, Family(t) = f
      PROVE  /\ t \in M /\ p[t] = Place(rows, t) /\ Place(rows, t) \in Nat
             /\ t \in Eligible(rows, known) <=> Place(rows, t) < c
  <2>1. t \in M /\ p[t] = Place(rows, t)
    BY <1>4 DEF Members, PlaceIn
  <2>2. Place(rows, t) \in Nat
    BY <1>1, <2>1 DEF Placed
  <2>3. t \in Eligible(rows, known)
          <=> Place(rows, t) < PerFamily /\ (Rate(known, f) >= Saturated => Place(rows, t) = 0)
    BY <1>4 DEF Eligible
  <2> QED
    BY <1>3, <2>1, <2>2, <2>3, OptionsAreNumbers DEF Cap
<1>5. \A t \in M : t \in rows /\ Family(t) = f
  BY DEF Members
<1>6. Cardinality(M) \in Nat /\ \A t \in M : p[t] \in 0 .. Cardinality(M) - 1
  BY <1>1 DEF Placed
<1>7. q \in Nat /\ q <= Cardinality(M) /\ q <= c /\ (q = Cardinality(M) \/ q = c)
  BY <1>2, <1>6, MinOfTwo DEF Quota
<1>8. Members(Eligible(rows, known), f) = {t \in M : p[t] < q}
  <2>1. \A t : t \in Members(Eligible(rows, known), f) <=> t \in M /\ t \in Eligible(rows, known)
    BY DEF Members, Eligible
  <2>2. \A t \in M : t \in Eligible(rows, known) <=> p[t] < c
    BY <1>4, <1>5
  <2>3. \A t \in M : p[t] < c <=> p[t] < q
    BY <1>2, <1>6, <1>7
  <2> QED
    BY <2>1, <2>2, <2>3
<1>9. Cardinality({t \in M : p[t] < q}) = q
  BY <1>1, <1>7, CountPlaces
<1> QED
  BY <1>4, <1>8, <1>9

\* The plan P is fair to the families of rows.
Broad(P, rows, known) ==
  /\ \A f \in Families(rows) : Cardinality(Members(P, f)) <= Quota(rows, known, f)
  /\ \A f, g \in Families(rows) :
       /\ Cardinality(Members(P, f)) > Cardinality(Members(P, g)) + 1
            => Cardinality(Members(P, g)) = Quota(rows, known, g)
       /\ Cardinality(Members(P, f)) > 0 /\ Cardinality(Members(P, g)) = 0
            => Cardinality(Members(known, f)) <= Cardinality(Members(known, g))
  /\ Cardinality(P) < Budget
       => \A f \in Families(rows) : Cardinality(Members(P, f)) = Quota(rows, known, f)

LEMMA RoundRobinBroad ==
  ASSUME NEW rows \in SUBSET Triples, IsFiniteSet(rows), NEW known, IsFiniteSet(known)
  PROVE  Broad(RoundRobin(rows, known), rows, known)
<1>1. PICK P : P = RoundRobin(rows, known)
  OBVIOUS
<1>2. PICK E : E = Eligible(rows, known)
  OBVIOUS
<1>3. /\ P \subseteq E
      /\ \A t, u \in E : u \in P /\ Place(rows, t) < Place(rows, u) => t \in P
      /\ \A t, u \in E : /\ u \in P /\ Place(rows, t) = Place(rows, u)
                         /\ Turn(rows, known, Family(t)) < Turn(rows, known, Family(u))
                         => t \in P
      /\ Cardinality(P) < Budget => P = E
  BY <1>1, <1>2, RoundRobinTakes
<1>4. E \subseteq rows
  BY <1>2 DEF Eligible
<1> DEFINE n(f) == Cardinality(Members(P, f))
           q(f) == Quota(rows, known, f)
           c(f) == Cap(known, f)
           s(f) == Cardinality(Members(rows, f))
\* The probes of a family are its first ones.
<1>5. ASSUME NEW f
      PROVE  /\ n(f) \in Nat /\ s(f) \in Nat /\ n(f) <= q(f) /\ q(f) \in Nat /\ q(f) <= s(f)
             /\ \A t \in Members(rows, f) : t \in P <=> Place(rows, t) < n(f)
             /\ \A t \in Members(rows, f) : t \in E <=> Place(rows, t) < c(f)
             /\ \A i \in 0 .. s(f) - 1 : \E t \in Members(rows, f) : Place(rows, t) = i
             /\ q(f) <= c(f) /\ c(f) \in Nat
  <2> DEFINE M == Members(rows, f)
             F == Members(P, f)
             p == PlaceIn(rows, f)
  <2>1. Placed(M, p) /\ \A t \in M : p[t] = Place(rows, t)
    BY FamilyPlaced DEF PlaceIn
  <2>2. s(f) \in Nat /\ c(f) \in Nat
    BY <2>1, CapIs DEF Placed
  <2>3. q(f) \in Nat /\ q(f) <= s(f) /\ q(f) <= c(f)
    BY <2>2, MinOfTwo DEF Quota
  <2>4. \A t \in M : t \in E <=> Place(rows, t) < c(f)
    BY <1>2, FamilyEligible DEF Members
  <2>5. F \in SUBSET M /\ \A t \in M : t \in F <=> t \in P
    BY <1>3, <1>4 DEF Members
  <2>6. ASSUME NEW t \in M, NEW u \in M, t \in F, p[u] < p[t]
        PROVE  u \in F
    <3>1. Place(rows, u) < Place(rows, t) /\ t \in P
      BY <2>1, <2>5, <2>6
    <3>2. Place(rows, t) \in Nat /\ Place(rows, u) \in Nat
      BY <2>1 DEF Placed
    <3>3. t \in E /\ Place(rows, t) < c(f)
      BY <1>3, <2>4, <3>1
    <3>4. u \in E
      BY <2>2, <2>4, <3>1, <3>2, <3>3
    <3> QED
      BY <1>3, <2>5, <3>1, <3>3, <3>4
  <2>7. n(f) \in Nat /\ F = {t \in M : p[t] < n(f)}
    BY <2>1, <2>5, <2>6, FirstPlaces
  <2>8. n(f) <= q(f)
    <3>1. Members(E, f) \in SUBSET M /\ F \in SUBSET Members(E, f)
      BY <1>3, <1>4 DEF Members
    <3>2. IsFiniteSet(Members(E, f))
      BY <2>1, <3>1, FS_Subset DEF Placed
    <3>3. Cardinality(Members(E, f)) = q(f)
      BY <1>2, FamilyEligible
    <3> QED
      BY <3>1, <3>2, <3>3, FS_Subset
  <2>9. \A t \in M : t \in P <=> Place(rows, t) < n(f)
    BY <2>1, <2>5, <2>7
  <2>10. \A i \in 0 .. s(f) - 1 : \E t \in M : Place(rows, t) = i
    BY <2>1 DEF Placed
  <2> QED
    BY <2>2, <2>3, <2>4, <2>7, <2>8, <2>9, <2>10
<1>6. \A f : \A t \in Members(rows, f) : t \in rows /\ Family(t) = f
  BY DEF Members
<1>7. ASSUME NEW f, NEW g, n(f) > n(g) + 1, n(g) # q(g)
      PROVE  FALSE
  <2>1. n(g) \in 0 .. s(g) - 1 /\ n(g) < c(g)
    BY <1>5, <1>7
  <2>2. PICK u \in Members(rows, g) : Place(rows, u) = n(g)
    BY <1>5, <2>1
  <2>3. n(f) - 1 \in 0 .. s(f) - 1
    BY <1>5, <1>7
  <2>4. PICK t \in Members(rows, f) : Place(rows, t) = n(f) - 1
    BY <1>5, <2>3
  <2>5. u \in E /\ u \notin P
    BY <1>5, <2>1, <2>2
  <2>6. t \in P
    BY <1>5, <2>4
  <2>7. Place(rows, u) < Place(rows, t)
    BY <1>5, <1>7, <2>2, <2>4
  <2> QED
    BY <1>3, <2>5, <2>6, <2>7
<1>8. ASSUME NEW f \in Families(rows), NEW g \in Families(rows), n(f) > 0, n(g) = 0,
             ~(Cardinality(Members(known, f)) <= Cardinality(Members(known, g)))
      PROVE  FALSE
  <2>1. /\ Rate(known, f) = Cardinality(Members(known, f)) /\ Rate(known, f) \in Nat
        /\ Rate(known, g) = Cardinality(Members(known, g)) /\ Rate(known, g) \in Nat
    BY RateIsNumber DEF Rate, Members
  <2>2. Turn(rows, known, g) < Turn(rows, known, f)
    BY <1>8, <2>1, TurnsTaken
  <2>3. s(g) > 0
    <3>1. PICK u \in rows : Family(u) = g
      BY DEF Families
    <3>2. Members(rows, g) # {} /\ Members(rows, g) \in SUBSET rows
      BY <3>1 DEF Members
    <3>3. IsFiniteSet(Members(rows, g))
      BY <3>2, FS_Subset
    <3>4. s(g) # 0
      BY <3>2, <3>3, FS_EmptySet
    <3> QED
      BY <1>5, <3>4
  <2>4. PICK u \in Members(rows, g) : Place(rows, u) = 0
    BY <1>5, <2>3
  <2>5. PICK t \in Members(rows, f) : Place(rows, t) = 0
    BY <1>5, <1>8
  <2>6. c(g) > 0
    BY CapIs
  <2>7. u \in E /\ u \notin P
    BY <1>5, <1>8, <2>4, <2>6
  <2>8. t \in P
    BY <1>5, <1>8, <2>5
  <2>9. Turn(rows, known, Family(u)) < Turn(rows, known, Family(t))
    BY <1>6, <2>2
  <2> QED
    BY <1>3, <2>4, <2>5, <2>7, <2>8, <2>9
<1>9. ASSUME Cardinality(P) < Budget, NEW f
      PROVE  n(f) = q(f)
  BY <1>2, <1>3, <1>9, FamilyEligible
<1> QED
  BY <1>1, <1>5, <1>7, <1>8, <1>9 DEF Broad

\* A census in which one family at most is probed in part.
Whole(P, rows) ==
  Cardinality({f \in Families(rows) :
     Members(rows \ P, f) # {} /\ Members(rows \ P, f) # Members(rows, f)}) <= 1

LEMMA CensusWhole ==
  ASSUME NEW rows \in SUBSET Triples, IsFiniteSet(rows), NEW known, IsFiniteSet(known)
  PROVE  Whole(Census(rows, known), rows)
<1>1. PICK P : P = Census(rows, known)
  OBVIOUS
<1>2. /\ P \subseteq rows
      /\ \A t, u \in rows :
           u \in P /\ Turn(rows, known, Family(t)) < Turn(rows, known, Family(u)) => t \in P
  BY <1>1, CensusTakes
<1> DEFINE X == {f \in Families(rows) :
                   Members(rows \ P, f) # {} /\ Members(rows \ P, f) # Members(rows, f)}
<1>3. ASSUME NEW f \in X
      PROVE  \E t, u \in rows : Family(t) = f /\ Family(u) = f /\ t \notin P /\ u \in P
  <2>1. PICK t \in Members(rows \ P, f) : TRUE
    OBVIOUS
  <2>2. Members(rows \ P, f) \subseteq Members(rows, f)
    BY DEF Members
  <2>3. PICK u \in Members(rows, f) : u \notin Members(rows \ P, f)
    BY <2>2
  <2> QED
    BY <2>1, <2>3 DEF Members
<1>4. ASSUME NEW f \in X, NEW g \in X, f # g
      PROVE  FALSE
  <2>1. PICK t, u \in rows : Family(t) = f /\ Family(u) = f /\ t \notin P /\ u \in P
    BY <1>3
  <2>2. PICK v, w \in rows : Family(v) = g /\ Family(w) = g /\ v \notin P /\ w \in P
    BY <1>3
  <2>3. Turn(rows, known, f) \in Nat /\ Turn(rows, known, g) \in Nat
        /\ Turn(rows, known, f) # Turn(rows, known, g)
    BY <1>4, TurnsTaken
  <2>4. ~(Turn(rows, known, f) < Turn(rows, known, g))
    BY <1>2, <2>1, <2>2
  <2>5. ~(Turn(rows, known, g) < Turn(rows, known, f))
    BY <1>2, <2>1, <2>2
  <2> QED
    BY <2>3, <2>4, <2>5
<1> HIDE DEF X
<1>5. Cardinality(X) <= 1
  <2>1. CASE X = {}
    BY <2>1, FS_EmptySet
  <2>2. CASE X # {}
    <3>1. PICK f : f \in X
      BY <2>2
    <3>2. X = {f}
      BY <1>4, <3>1
    <3> QED
      BY <3>2, FS_Singleton
  <2> QED
    BY <2>1, <2>2
<1> QED
  BY <1>1, <1>5 DEF Whole, X

-----------------------------------------------------------------------------
(* What the scripts read off a slice *)

Binder == [info : STRING, head : Nat, args : Seq(Int)]

\* Heads of binders, where there is one.
HeadsAt(binders) == UNION {{binders[n][i].head : i \in DOMAIN binders[n]} : n \in DOMAIN binders}

Spots(binders) == UNION {DOMAIN binders[n] : n \in DOMAIN binders}

\* An index of finitely many rows, each under its name.
IsIndex(i) ==
  /\ IsFiniteSet(DOMAIN i.rows) /\ DOMAIN i.rows \subseteq Nat
  /\ DOMAIN i.binders = DOMAIN i.rows
  /\ \A n \in DOMAIN i.rows : i.binders[n] \in Seq(Binder) /\ i.rows[n].name = n
  /\ i.classes \subseteq HeadsAt(i.binders) /\ i.produces \subseteq DOMAIN i.rows
  /\ {"rows", "binders", "classes", "above", "produces"} \subseteq DOMAIN i
  /\ i = [x \in DOMAIN i |-> i[x]]
  /\ i.rows = [n \in DOMAIN i.rows |-> i.rows[n]]
  /\ \A n \in DOMAIN i.rows :
       /\ "requirements" \in DOMAIN i.rows[n]
       /\ i.rows[n] = [x \in DOMAIN i.rows[n] |-> i.rows[n][x]]

LEMMA InitialIndex ==
  ASSUME LoopInit
  PROVE  IsIndex(idx)
<1>1. PICK slice \in Slices :
        LET home == HomeIndexOf(slice.rows)
        IN idx = [rows |-> home.rows, binders |-> home.binders, classes |-> home.classes,
                  above |-> home.above, produces |-> home.produces,
                  arity |-> [c \in home.classes |-> ArityIn(home, c)],
                  groups |-> slice.groups]
  BY DEF LoopInit
<1>2. PICK rows : rows = slice.rows
  OBVIOUS
<1>3. PICK home : home = HomeIndexOf(slice.rows)
  OBVIOUS
<1>4. PICK b : b = [n \in DOMAIN rows |-> BindersOf(rows, n)]
  OBVIOUS
<1>5. /\ idx.rows = rows /\ idx.binders = b /\ idx.classes = Classes(rows)
      /\ idx.produces \subseteq DOMAIN rows
      /\ {"rows", "binders", "classes", "above", "produces"} \subseteq DOMAIN idx
      /\ idx = [x \in DOMAIN idx |-> idx[x]]
  <2>1. /\ home.rows = rows /\ home.binders = b /\ home.classes = Classes(rows)
        /\ home.produces \subseteq DOMAIN rows
    BY <1>2, <1>3, <1>4 DEF HomeIndexOf
  <2>2. PICK a : a = [c \in home.classes |-> ArityIn(home, c)]
    OBVIOUS
  <2>3. idx = [rows |-> home.rows, binders |-> home.binders, classes |-> home.classes,
               above |-> home.above, produces |-> home.produces,
               arity |-> a, groups |-> slice.groups]
    BY <1>1, <1>3, <2>2
  <2> QED
    BY <2>1, <2>3
<1>6. /\ IsFiniteSet(DOMAIN rows) /\ DOMAIN rows \subseteq Nat
      /\ rows \in [DOMAIN rows ->
           [name : Nat, kind : STRING, owner : Nat, namespace : Nat, telescoped : BOOLEAN,
            binders : Seq([info : STRING, head : Nat, args : Seq(Int)]), concl : Nat,
            usesStatement : SUBSET Nat, usesProof : SUBSET Nat,
            isInstance : STRING, attached : BOOLEAN,
            requirements : SUBSET [source : Nat, class : Nat, carrier : Int]]]
      /\ \A n \in DOMAIN rows : rows[n].name = n
  BY <1>2, SlicesAreRead
<1>7. ASSUME NEW n \in DOMAIN rows
      PROVE  /\ b[n] \in Seq(Binder)
             /\ "requirements" \in DOMAIN rows[n] /\ rows[n] = [x \in DOMAIN rows[n] |-> rows[n][x]]
  <2>1. b[n] = IF rows[n].telescoped THEN rows[n].binders ELSE <<>>
    BY <1>4 DEF BindersOf
  <2>2. rows[n].binders \in Seq(Binder)
    BY <1>6 DEF Binder
  <2>3. <<>> \in Seq(Binder)
    OBVIOUS
  <2>4. b[n] \in Seq(Binder)
    BY <2>1, <2>2, <2>3
  <2>5. rows[n] \in [name : Nat, kind : STRING, owner : Nat, namespace : Nat, telescoped : BOOLEAN,
            binders : Seq([info : STRING, head : Nat, args : Seq(Int)]), concl : Nat,
            usesStatement : SUBSET Nat, usesProof : SUBSET Nat,
            isInstance : STRING, attached : BOOLEAN,
            requirements : SUBSET [source : Nat, class : Nat, carrier : Int]]
    BY <1>6
  <2>6. "requirements" \in DOMAIN rows[n] /\ rows[n] = [x \in DOMAIN rows[n] |-> rows[n][x]]
    BY <2>5
  <2> QED
    BY <2>4, <2>6
<1>8. Classes(rows) \subseteq HeadsAt(b)
  <2> SUFFICES ASSUME NEW h \in Classes(rows)
               PROVE  h \in HeadsAt(b)
    OBVIOUS
  <2>1. PICK c \in UNION {ToSet(BindersOf(rows, n)) : n \in DOMAIN rows} : h = c.head
    BY DEF Classes
  <2>2. PICK n \in DOMAIN rows : c \in ToSet(BindersOf(rows, n))
    OBVIOUS
  <2>3. b[n] = BindersOf(rows, n) /\ n \in DOMAIN b
    BY <1>4
  <2>4. PICK i \in DOMAIN b[n] : c = b[n][i]
    BY <2>2, <2>3 DEF ToSet
  <2>5. h \in {b[n][j].head : j \in DOMAIN b[n]}
    BY <2>1, <2>4
  <2> QED
    BY <2>3, <2>5 DEF HeadsAt
<1>9. DOMAIN b = DOMAIN rows
  BY <1>4
<1>10. rows = [n \in DOMAIN rows |-> rows[n]]
  BY <1>6
<1> QED
  BY <1>5, <1>6, <1>7, <1>8, <1>9, <1>10 DEF IsIndex

\* Finitely many heads, all of them numbers.
LEMMA HeadsFinite ==
  ASSUME NEW i, IsIndex(i)
  PROVE  /\ IsFiniteSet(HeadsAt(i.binders)) /\ HeadsAt(i.binders) \subseteq Nat
         /\ IsFiniteSet(Spots(i.binders)) /\ Spots(i.binders) \subseteq Nat
<1>1. PICK b : b = i.binders
  OBVIOUS
<1>2. IsFiniteSet(DOMAIN b) /\ \A n \in DOMAIN b : b[n] \in Seq(Binder)
  BY <1>1 DEF IsIndex
<1>3. ASSUME NEW n \in DOMAIN b
      PROVE  /\ IsFiniteSet(DOMAIN b[n]) /\ DOMAIN b[n] \subseteq Nat
             /\ IsFiniteSet({b[n][j].head : j \in DOMAIN b[n]})
             /\ {b[n][j].head : j \in DOMAIN b[n]} \subseteq Nat
  <2>1. b[n] \in Seq(Binder)
    BY <1>2
  <2>2. Len(b[n]) \in Nat /\ DOMAIN b[n] = 1 .. Len(b[n])
    BY <2>1
  <2>3. IsFiniteSet(DOMAIN b[n])
    BY <2>2, FS_Interval
  <2>4. PICK h : h = [j \in DOMAIN b[n] |-> b[n][j].head]
    OBVIOUS
  <2>5. h \in Surjection(DOMAIN b[n], {b[n][j].head : j \in DOMAIN b[n]})
    BY <2>4 DEF Surjection
  <2>6. IsFiniteSet({b[n][j].head : j \in DOMAIN b[n]})
    BY <2>3, <2>5, FS_Surjection
  <2>7. ASSUME NEW j \in DOMAIN b[n]
        PROVE  b[n][j].head \in Nat
    <3>1. b[n][j] \in Binder
      BY <2>1, <2>2
    <3> QED
      BY <3>1 DEF Binder
  <2> QED
    BY <2>2, <2>3, <2>6, <2>7
<1>4. PICK H : H = [n \in DOMAIN b |-> {b[n][j].head : j \in DOMAIN b[n]}]
  OBVIOUS
<1>5. PICK D : D = [n \in DOMAIN b |-> DOMAIN b[n]]
  OBVIOUS
<1>6. PICK HS : HS = {H[n] : n \in DOMAIN b}
  OBVIOUS
<1>7. PICK DS : DS = {D[n] : n \in DOMAIN b}
  OBVIOUS
<1>8. H \in Surjection(DOMAIN b, HS) /\ D \in Surjection(DOMAIN b, DS)
  BY <1>4, <1>5, <1>6, <1>7 DEF Surjection
<1>9. IsFiniteSet(HS) /\ IsFiniteSet(DS)
  BY <1>2, <1>8, FS_Surjection
<1>10. /\ \A T \in HS : IsFiniteSet(T) /\ T \subseteq Nat
       /\ \A T \in DS : IsFiniteSet(T) /\ T \subseteq Nat
  BY <1>3, <1>4, <1>5, <1>6, <1>7
<1>11. IsFiniteSet(UNION HS) /\ IsFiniteSet(UNION DS)
  BY <1>9, <1>10, FS_UNION
<1>12. HeadsAt(b) = UNION HS /\ Spots(b) = UNION DS
  BY <1>4, <1>5, <1>6, <1>7 DEF HeadsAt, Spots
<1> QED
  BY <1>1, <1>10, <1>11, <1>12

-----------------------------------------------------------------------------
(* The searches *)

\* A weakening is proposed for a class that is not used itself, to the least
\* of the classes above it that are used and provide what is used of them.
LEMMA WeakeningFound ==
  ASSUME NEW i, IsIndex(i), NEW uses, NEW class,
         Verdict(i, class, Required(i, uses)).verdict = "over-hypothesis"
  PROVE  LET v == Verdict(i, class, Required(i, uses))
         IN /\ v.class = class /\ class \notin Required(i, uses)
            /\ v.home \in i.above[class] /\ v.home \in HeadsAt(i.binders)
            /\ \A r \in i.above[class] \cap Required(i, uses) : r \in {v.home} \cup i.above[v.home]
<1> DEFINE reached == Required(i, uses)
           v == Verdict(i, class, reached)
<1>1. PICK hit : hit = i.above[class] \cap reached
  OBVIOUS
<1>2. PICK covering : covering = Covering(i, hit, hit)
  OBVIOUS
<1>3. reached \subseteq HeadsAt(i.binders)
  <2> SUFFICES ASSUME NEW h \in reached
               PROVE  h \in HeadsAt(i.binders)
    OBVIOUS
  <2>1. PICK u \in DOMAIN i.rows : \E b \in InstanceBinders(i, u) : h = b.class
    BY DEF Required
  <2>2. PICK j \in DOMAIN i.binders[u] : h = i.binders[u][j].head
    BY <2>1 DEF InstanceBinders
  <2>3. u \in DOMAIN i.binders
    BY DEF IsIndex
  <2>4. h \in {i.binders[u][k].head : k \in DOMAIN i.binders[u]}
    BY <2>2
  <2> QED
    BY <2>3, <2>4 DEF HeadsAt
<1> HIDE DEF reached
<1>4. v = IF class \in reached THEN [class |-> class, verdict |-> "at-home", home |-> 0]
          ELSE IF hit = {} THEN [class |-> class, verdict |-> "unused", home |-> 0]
          ELSE IF covering = {} THEN [class |-> class, verdict |-> "no-single-home", home |-> 0]
          ELSE [class |-> class, verdict |-> "over-hypothesis", home |-> Min(covering)]
  BY <1>1, <1>2 DEF Verdict
<1>5. v.verdict = "over-hypothesis"
  BY DEF reached
<1> HIDE DEF v
<1>6. class \notin reached /\ covering # {} /\ v.class = class /\ v.home = Min(covering)
  BY <1>4, <1>5
<1>7. covering \subseteq hit /\ \A c \in covering : \A r \in hit : r \in {c} \cup i.above[c]
  BY <1>2 DEF Covering
<1>8. covering \in SUBSET Nat
  BY <1>1, <1>3, <1>7, HeadsFinite
<1>9. \E c \in covering : \A d \in covering : c <= d
  BY <1>6, <1>8, Least
<1>10. Min(covering) \in covering
  BY <1>9 DEF Min
<1> QED
  BY <1>1, <1>3, <1>6, <1>7, <1>10 DEF v, reached

\* What the stream says of a row is what the search in memory says of it.
LEMMA StreamingSame ==
  ASSUME NEW i, IsIndex(i)
  PROVE  StreamedCandidates(i) = InMemoryCandidates(i)
<1> DEFINE Over(V) == {w \in V : w.verdict = "over-hypothesis"}
           Judge(n) == n \in Theorems(i) /\ ~ProjectionLike(i, n)
<1>1. ASSUME NEW n \in DOMAIN i.rows, Judge(n)
      PROVE  StreamVerdicts(i, i.rows[n]) = Home(i, n).verdicts
  <2>1. i.rows[n].name = n
    BY DEF IsIndex
  <2>2. PICK row : row = i.rows[n]
    OBVIOUS
  <2>3. row.kind = "theorem" /\ row.telescoped
        /\ ~(row.namespace \in i.classes /\ row.namespace \in row.usesProof)
    BY <1>1, <2>2 DEF Theorems, ProjectionLike
  <2>4. PICK B : B = InstanceBinders(i, n)
    OBVIOUS
  <2>5. PICK V : V = {Verdict(i, b.class, Evidence(i, row)) : b \in B}
    OBVIOUS
  <2>6. StreamVerdicts(i, row) = IF B = {} \/ Cardinality(Carriers(B)) > 1 \/ n \in i.produces
                                 THEN {} ELSE V
    BY <2>1, <2>2, <2>3, <2>4, <2>5 DEF StreamVerdicts
  <2>7. Home(i, n) = IF B = {} THEN Skipped("no-instance-binder")
                     ELSE IF Cardinality(Carriers(B)) > 1 THEN Skipped("multi-carrier")
                     ELSE IF n \in i.produces THEN Skipped("produces-a-class")
                     ELSE Judged(V)
    BY <2>2, <2>4, <2>5 DEF Home
  <2>8. (\A why : Skipped(why).verdicts = {}) /\ Judged(V).verdicts = V
    BY DEF Skipped, Judged
  <2> QED
    BY <2>2, <2>6, <2>7, <2>8
<1>2. ASSUME NEW n \in DOMAIN i.rows, ~Judge(n)
      PROVE  StreamVerdicts(i, i.rows[n]) = {}
  BY <1>2 DEF StreamVerdicts, Theorems, ProjectionLike
<1>3. \A n : Judge(n) => n \in DOMAIN i.rows
  BY DEF Theorems
<1> HIDE DEF Judge
<1>4. \A n \in DOMAIN i.rows :
        {Triple(n, v.class, v.home) : v \in Over(StreamVerdicts(i, i.rows[n]))}
        = IF Judge(n) THEN {Triple(n, v.class, v.home) : v \in Over(Home(i, n).verdicts)} ELSE {}
  BY <1>1, <1>2
<1>5. PICK T : T = [n \in DOMAIN i.rows |->
                      {Triple(n, v.class, v.home) : v \in Over(Home(i, n).verdicts)}]
  OBVIOUS
<1>6. StreamedCandidates(i) = UNION {IF Judge(n) THEN T[n] ELSE {} : n \in DOMAIN i.rows}
  <2>1. PICK S : S = [n \in DOMAIN i.rows |->
                        {Triple(n, v.class, v.home) : v \in Over(StreamVerdicts(i, i.rows[n]))}]
    OBVIOUS
  <2>2. StreamedCandidates(i) = UNION {S[n] : n \in DOMAIN i.rows}
    BY <2>1 DEF StreamedCandidates
  <2>3. \A n \in DOMAIN i.rows : S[n] = IF Judge(n) THEN T[n] ELSE {}
    BY <1>4, <1>5, <2>1
  <2> HIDE DEF Over
  <2> QED
    BY <2>2, <2>3
<1>7. InMemoryCandidates(i) = UNION {T[n] : n \in {m \in DOMAIN i.rows : Judge(m)}}
  <2>1. {m \in Theorems(i) : ~ProjectionLike(i, m)} = {m \in DOMAIN i.rows : Judge(m)}
    BY <1>3 DEF Judge
  <2> QED
    BY <1>5, <2>1 DEF InMemoryCandidates
<1> QED
  BY <1>6, <1>7

\* What a candidate is.
LEMMA CandidateIs ==
  ASSUME NEW i, IsIndex(i), NEW t \in StreamedCandidates(i)
  PROVE  /\ t = Triple(t.decl, t.declared, t.target)
         /\ t.decl \in DOMAIN i.rows /\ t.declared \in HeadsAt(i.binders)
         /\ t.target \in HeadsAt(i.binders)
         /\ t.target \in i.above[t.declared]
         /\ LET reached == Evidence(i, i.rows[t.decl])
            IN /\ t.declared \notin reached
               /\ \A r \in i.above[t.declared] \cap reached :
                    r \in {t.target} \cup i.above[t.target]
<1>0. PICK n \in DOMAIN i.rows : \E v \in StreamVerdicts(i, i.rows[n]) :
        v.verdict = "over-hypothesis" /\ t = Triple(n, v.class, v.home)
  BY DEF StreamedCandidates
<1>1. PICK v \in StreamVerdicts(i, i.rows[n]) :
        v.verdict = "over-hypothesis" /\ t = Triple(n, v.class, v.home)
  BY <1>0
<1>2. t.decl = n /\ t.declared = v.class /\ t.target = v.home
  BY <1>1 DEF Triple
<1>3. i.rows[n].name = n /\ n \in DOMAIN i.binders
  BY DEF IsIndex
<1>4. PICK b \in InstanceBinders(i, n) : v = Verdict(i, b.class, Evidence(i, i.rows[n]))
  BY <1>3 DEF StreamVerdicts
<1>5. PICK uses : uses = i.rows[n].usesStatement \cup i.rows[n].usesProof
  OBVIOUS
<1>6. Evidence(i, i.rows[n]) = Required(i, uses)
  BY <1>5 DEF Evidence
<1>7. Verdict(i, b.class, Required(i, uses)).verdict = "over-hypothesis"
  BY <1>1, <1>4, <1>6
<1>8. /\ v.class = b.class /\ b.class \notin Required(i, uses)
      /\ v.home \in i.above[b.class] /\ v.home \in HeadsAt(i.binders)
      /\ \A r \in i.above[b.class] \cap Required(i, uses) : r \in {v.home} \cup i.above[v.home]
  BY <1>4, <1>6, <1>7, WeakeningFound
<1>9. b.class \in HeadsAt(i.binders)
  <2>1. PICK j \in DOMAIN i.binders[n] : b.class = i.binders[n][j].head
    BY DEF InstanceBinders
  <2>2. b.class \in {i.binders[n][k].head : k \in DOMAIN i.binders[n]}
    BY <2>1
  <2> QED
    BY <1>3, <2>2 DEF HeadsAt
<1> QED
  BY <1>1, <1>2, <1>6, <1>8, <1>9

\* The statement alone admits what statement and proof admit.
LEMMA StatementAdmits ==
  ASSUME NEW i, IsIndex(i), NEW t \in StreamedCandidates(i),
         NEW v \in StatementCandidates(i, t.decl).verdicts,
         v.class = t.declared, v.verdict # "unused"
  PROVE  t.target \in v.candidates
<1> DEFINE n == t.decl
           row == i.rows[n]
           B == ParameterAwareInstanceBinders(i, n)
<1>1. PICK reached : reached = Required(i, row.usesStatement)
  OBVIOUS
<1>2. PICK V : V = {SearchVerdict(i, b, reached, "unused", "no-single-home") : b \in B}
  OBVIOUS
<1>3. v \in V
  <2>1. StatementCandidates(i, n)
          = IF B = {} THEN Skipped("no-instance-binder")
            ELSE IF Cardinality(Carriers(B)) > 1 THEN Skipped("multi-carrier")
            ELSE IF n \in i.produces THEN Skipped("produces-a-class")
            ELSE Judged(V)
    BY <1>1, <1>2 DEF StatementCandidates
  <2>2. (\A why : Skipped(why).verdicts = {}) /\ Judged(V).verdicts = V
    BY DEF Skipped, Judged
  <2> QED
    BY <2>1, <2>2
<1>4. PICK b \in B : v = SearchVerdict(i, b, reached, "unused", "no-single-home")
  BY <1>2, <1>3
<1>5. PICK requirements : requirements = i.above[b.class] \cap reached
  OBVIOUS
<1>6. PICK admitted : admitted = Covering(i, i.above[b.class], requirements)
  OBVIOUS
<1>7. v = IF b.class \in reached
          THEN [class |-> b.class, carrier |-> b.carrier, verdict |-> "at-home", candidates |-> {}]
          ELSE IF requirements = {}
          THEN [class |-> b.class, carrier |-> b.carrier, verdict |-> "unused", candidates |-> {}]
          ELSE [class |-> b.class, carrier |-> b.carrier,
                verdict |-> IF admitted = {} THEN "no-single-home" ELSE "candidates",
                candidates |-> admitted]
  BY <1>4, <1>5, <1>6 DEF SearchVerdict
<1>8. b.class = t.declared
  BY <1>7
<1>9. reached \subseteq Evidence(i, row)
  BY <1>1 DEF Evidence, Required
<1>10. /\ t.target \in i.above[t.declared]
       /\ t.declared \notin Evidence(i, row)
       /\ \A r \in i.above[t.declared] \cap Evidence(i, row) :
            r \in {t.target} \cup i.above[t.target]
  BY CandidateIs
<1>11. b.class \notin reached
  BY <1>8, <1>9, <1>10
<1>12. v.candidates = admitted
  BY <1>7, <1>11
<1>13. t.target \in admitted
  BY <1>5, <1>6, <1>8, <1>9, <1>10 DEF Covering
<1> QED
  BY <1>12, <1>13

\* An index that differs in the requirements of one row only.
WithRequirements(i, n, Q) == [i EXCEPT !.rows[n].requirements = Q]

LEMMA RequirementsChanged ==
  ASSUME NEW i, IsIndex(i), NEW n \in DOMAIN i.rows, NEW Q, NEW o,
         o = WithRequirements(i, n, Q)
  PROVE  /\ o.binders = i.binders /\ o.classes = i.classes /\ o.above = i.above
         /\ o.produces = i.produces /\ DOMAIN o.rows = DOMAIN i.rows
         /\ o.rows[n].requirements = Q
         /\ \A m \in DOMAIN i.rows :
              /\ o.rows[m].kind = i.rows[m].kind /\ o.rows[m].concl = i.rows[m].concl
              /\ o.rows[m].isInstance = i.rows[m].isInstance
              /\ o.rows[m].attached = i.rows[m].attached
<1>1. PICK r : r = [i.rows[n] EXCEPT !.requirements = Q]
  OBVIOUS
<1>2. PICK R : R = [i.rows EXCEPT ![n] = r]
  OBVIOUS
<1>3. o = [i EXCEPT !.rows = R]
  BY <1>1, <1>2 DEF WithRequirements
<1>4. /\ o.binders = i.binders /\ o.classes = i.classes /\ o.above = i.above
      /\ o.produces = i.produces /\ o.rows = R
  BY <1>3 DEF IsIndex
<1>5. /\ DOMAIN R = DOMAIN i.rows /\ R[n] = r
      /\ \A m \in DOMAIN i.rows : m # n => R[m] = i.rows[m]
  BY <1>2 DEF IsIndex
<1>6. "requirements" \in DOMAIN i.rows[n]
  BY DEF IsIndex
<1>7. r.requirements = Q
  BY <1>1, <1>6
<1>8. /\ r.kind = i.rows[n].kind /\ r.concl = i.rows[n].concl
      /\ r.isInstance = i.rows[n].isInstance /\ r.attached = i.rows[n].attached
  BY <1>1
<1> QED
  BY <1>4, <1>5, <1>7, <1>8

\* Whether an instance is forgetful does not depend on requirements.
LEMMA ForgetfulKept ==
  ASSUME NEW i, NEW o, o.binders = i.binders, o.above = i.above, o.produces = i.produces,
         i.produces \subseteq DOMAIN i.rows,
         \A m \in DOMAIN i.rows : o.rows[m].concl = i.rows[m].concl
  PROVE  Forgetful(o) = Forgetful(i)
<1>1. \A m : InstanceBinders(o, m) = InstanceBinders(i, m)
  BY DEF InstanceBinders
<1> QED
  BY <1>1 DEF Forgetful

\* The index with the requirements of one carrier only.
OnlyOf(i, n, k) ==
  WithRequirements(i, n, {q \in i.rows[n].requirements : q.carrier = k})

\* What is required of other carriers changes no verdict about a carrier.
LEMMA CarriersKept ==
  ASSUME NEW i, IsIndex(i), NEW n \in DOMAIN i.rows, NEW k, NEW o,
         o = OnlyOf(i, n, k)
  PROVE  {v \in CarrierStatementCandidates(i, n).verdicts : v.carrier = k}
           = {v \in CarrierStatementCandidates(o, n).verdicts : v.carrier = k}
<1> DEFINE row == i.rows[n]
           new == o.rows[n]
<1>1. PICK Q : Q = {q \in i.rows[n].requirements : q.carrier = k}
  OBVIOUS
<1>2. /\ o.binders = i.binders /\ o.classes = i.classes /\ o.above = i.above
      /\ o.produces = i.produces /\ DOMAIN o.rows = DOMAIN i.rows
      /\ new.requirements = Q
      /\ \A m \in DOMAIN i.rows :
           /\ o.rows[m].kind = i.rows[m].kind /\ o.rows[m].concl = i.rows[m].concl
           /\ o.rows[m].isInstance = i.rows[m].isInstance
           /\ o.rows[m].attached = i.rows[m].attached
  <2>1. o = WithRequirements(i, n, Q)
    BY <1>1 DEF OnlyOf
  <2> HIDE DEF row
  <2> QED
    BY <2>1, RequirementsChanged
<1>3. PICK B : B = ParameterAwareInstanceBinders(i, n)
  OBVIOUS
<1>4. B = ParameterAwareInstanceBinders(o, n)
  BY <1>2, <1>3 DEF ParameterAwareInstanceBinders
<1>5. Forgetful(o) = Forgetful(i)
  <2>1. i.produces \subseteq DOMAIN i.rows
    BY DEF IsIndex
  <2> QED
    BY <1>2, <2>1, ForgetfulKept
<1>6. ReachedAt(o, new, k) = ReachedAt(i, row, k)
  <2>1. {p \in new.requirements : p.source \notin Forgetful(o) /\ p.class # 0 /\ p.carrier = k}
        = {p \in row.requirements : p.source \notin Forgetful(i) /\ p.class # 0 /\ p.carrier = k}
    BY <1>1, <1>2, <1>5
  <2> QED
    BY <2>1 DEF ReachedAt
<1> DEFINE Say(j, r, b) == IF b.carrier = NoCarrier
                    THEN [class |-> b.class, carrier |-> NoCarrier,
                          verdict |-> "unknown-carrier", candidates |-> {}]
                    ELSE SearchVerdict(j, b, ReachedAt(j, r, b.carrier),
                                       "no-attached-requirement",
                                       "no-attached-requirement")
<1>7. ASSUME NEW b \in B
      PROVE  /\ Say(i, row, b).carrier = b.carrier /\ Say(o, new, b).carrier = b.carrier
             /\ b.carrier = k => Say(i, row, b) = Say(o, new, b)
  <2>1. \A j, reached, none, uncovered :
          SearchVerdict(j, b, reached, none, uncovered).carrier = b.carrier
    BY DEF SearchVerdict
  <2>2. \A reached, none, uncovered :
          SearchVerdict(i, b, reached, none, uncovered) = SearchVerdict(o, b, reached, none, uncovered)
    BY <1>2 DEF SearchVerdict, Covering
  <2>3. CASE b.carrier = NoCarrier
    BY <2>3
  <2>4. CASE b.carrier # NoCarrier
    <3>1. Say(i, row, b).carrier = b.carrier /\ Say(o, new, b).carrier = b.carrier
      BY <2>1, <2>4
    <3>2. b.carrier = k => Say(i, row, b) = Say(o, new, b)
      BY <1>6, <2>2, <2>4
    <3> QED
      BY <3>1, <3>2
  <2> QED
    BY <2>3, <2>4
<1>8. PICK V : V = {Say(i, row, b) : b \in B}
  OBVIOUS
<1>9. PICK W : W = {Say(o, new, b) : b \in B}
  OBVIOUS
<1>10. PICK claim \in BOOLEAN : claim = (row.kind = "theorem" /\ row.isInstance = "no")
  OBVIOUS
<1>11. CarrierStatementCandidates(i, n)
         = IF n \in i.produces /\ ~claim THEN Skipped("produces-a-class")
           ELSE IF ~row.attached THEN Skipped("no-carrier-evidence")
           ELSE IF B = {} THEN Skipped("no-instance-binder")
           ELSE Judged(V)
  BY <1>3, <1>8, <1>10 DEF CarrierStatementCandidates
<1>12. CarrierStatementCandidates(o, n)
         = IF n \in i.produces /\ ~claim THEN Skipped("produces-a-class")
           ELSE IF ~row.attached THEN Skipped("no-carrier-evidence")
           ELSE IF B = {} THEN Skipped("no-instance-binder")
           ELSE Judged(W)
  <2>1. claim = (new.kind = "theorem" /\ new.isInstance = "no")
    BY <1>2, <1>10
  <2>2. new.attached = row.attached
    BY <1>2
  <2>3. CarrierStatementCandidates(o, n)
         = IF n \in o.produces /\ ~claim THEN Skipped("produces-a-class")
           ELSE IF ~new.attached THEN Skipped("no-carrier-evidence")
           ELSE IF B = {} THEN Skipped("no-instance-binder")
           ELSE Judged(W)
    BY <1>4, <1>9, <2>1 DEF CarrierStatementCandidates
  <2> QED
    BY <1>2, <2>2, <2>3
<1> HIDE DEF Say
<1>13. {v \in V : v.carrier = k} = {v \in W : v.carrier = k}
  <2>1. \A v : v \in V /\ v.carrier = k => v \in W
    BY <1>7, <1>8, <1>9
  <2>2. \A v : v \in W /\ v.carrier = k => v \in V
    BY <1>7, <1>8, <1>9
  <2> QED
    BY <2>1, <2>2
<1>14. (\A why : Skipped(why).verdicts = {}) /\ Judged(V).verdicts = V /\ Judged(W).verdicts = W
  BY DEF Skipped, Judged
<1> QED
  BY <1>11, <1>12, <1>13, <1>14

-----------------------------------------------------------------------------
(* Triples and lines over one slice *)

Universe(i) ==
  [decl : DOMAIN i.rows, declared : HeadsAt(i.binders) \cup {0},
   target : HeadsAt(i.binders) \cup {0}]

LEMMA UniverseFinite ==
  ASSUME NEW i, IsIndex(i)
  PROVE  IsFiniteSet(Universe(i)) /\ Universe(i) \subseteq Triples
<1> DEFINE D == DOMAIN i.rows
           H == HeadsAt(i.binders) \cup {0}
<1>1. IsFiniteSet(D) /\ D \subseteq Nat
  BY DEF IsIndex
<1>2. IsFiniteSet(H) /\ H \subseteq Nat
  <2>1. IsFiniteSet({0})
    BY FS_Singleton
  <2>2. PICK G : G = HeadsAt(i.binders)
    OBVIOUS
  <2>3. IsFiniteSet(G) /\ G \subseteq Nat
    BY <2>2, HeadsFinite
  <2>4. IsFiniteSet(G \cup {0})
    BY <2>1, <2>3, FS_Union
  <2> QED
    BY <2>2, <2>3, <2>4
<1> HIDE DEF D, H
<1>3. IsFiniteSet((D \X H) \X H)
  <2>1. IsFiniteSet(D \X H)
    BY <1>1, <1>2, FS_Product
  <2> QED
    BY <1>2, <2>1, FS_Product
<1>4. PICK T : T = [decl : D, declared : H, target : H]
  OBVIOUS
<1>5. PICK h : h = [q \in (D \X H) \X H |-> Triple(q[1][1], q[1][2], q[2])]
  OBVIOUS
<1>6. \A q \in (D \X H) \X H : h[q] \in T
  BY <1>4, <1>5 DEF Triple
<1>7. ASSUME NEW t \in T
      PROVE  \E q \in (D \X H) \X H : h[q] = t
  <2>1. t.decl \in D /\ t.declared \in H /\ t.target \in H
    BY <1>4
  <2>2. t = Triple(t.decl, t.declared, t.target)
    BY <1>4 DEF Triple
  <2>3. PICK q \in (D \X H) \X H : q = <<<<t.decl, t.declared>>, t.target>>
    BY <2>1
  <2>4. h[q] = Triple(t.decl, t.declared, t.target)
    BY <1>5, <2>3
  <2> QED
    BY <2>2, <2>4
<1>8. DOMAIN h = (D \X H) \X H /\ h = [q \in (D \X H) \X H |-> h[q]]
  BY <1>5
<1>9. h \in Surjection((D \X H) \X H, T)
  BY <1>6, <1>7, <1>8 DEF Surjection
<1>10. IsFiniteSet(T)
  BY <1>3, <1>9, FS_Surjection
<1>11. T \subseteq Triples
  BY <1>1, <1>2, <1>4 DEF Triples
<1> QED
  BY <1>4, <1>10, <1>11 DEF Universe, D, H

LEMMA StreamedInUniverse ==
  ASSUME NEW i, IsIndex(i)
  PROVE  StreamedCandidates(i) \subseteq Universe(i)
<1> SUFFICES ASSUME NEW t \in StreamedCandidates(i)
             PROVE  t \in Universe(i)
  OBVIOUS
<1>1. /\ t = Triple(t.decl, t.declared, t.target)
      /\ t.decl \in DOMAIN i.rows /\ t.declared \in HeadsAt(i.binders)
      /\ t.target \in HeadsAt(i.binders)
  BY CandidateIs
<1> QED
  BY <1>1 DEF Triple, Universe

\* A home is the head of some binder.
LEMMA HomesAreHeads ==
  ASSUME IsIndex(idx), NEW n \in DOMAIN idx.rows, NEW v \in Homes(n)
  PROVE  v.home \in HeadsAt(idx.binders)
<1> DEFINE B == InstanceBinders(idx, n)
<1>1. PICK uses : uses = idx.rows[n].usesStatement \cup idx.rows[n].usesProof
  OBVIOUS
<1>2. PICK V : V = {Verdict(idx, b.class, Required(idx, uses)) : b \in B}
  OBVIOUS
<1>3. v \in Home(idx, n).verdicts /\ v.verdict = "over-hypothesis"
  BY DEF Homes
<1>4. Home(idx, n) = IF B = {} THEN Skipped("no-instance-binder")
                     ELSE IF Cardinality(Carriers(B)) > 1 THEN Skipped("multi-carrier")
                     ELSE IF n \in idx.produces THEN Skipped("produces-a-class")
                     ELSE Judged(V)
  BY <1>1, <1>2 DEF Home, Evidence
<1>5. (\A why : Skipped(why).verdicts = {}) /\ Judged(V).verdicts = V
  BY DEF Skipped, Judged
<1>6. v \in V
  BY <1>3, <1>4, <1>5
<1>7. PICK b \in B : v = Verdict(idx, b.class, Required(idx, uses))
  BY <1>2, <1>6
<1>8. Verdict(idx, b.class, Required(idx, uses)).verdict = "over-hypothesis"
  BY <1>3, <1>7
<1> QED
  BY <1>7, <1>8, WeakeningFound

\* What Lean may print for probes about the slice.
LEMMA LinesKnown ==
  ASSUME IsIndex(idx), NEW probes \in SUBSET Universe(idx)
  PROVE  /\ IsFiniteSet(LinesOf(probes))
         /\ \A l \in LinesOf(probes) :
              /\ l.line.decl \in Nat /\ l.line.target \in Nat /\ l.at \in Nat
              /\ l = [at |-> l.at,
                      line |-> Triple(l.line.decl, idx.binders[l.line.decl][l.at].head,
                                      l.line.target)]
<1> DEFINE L == LinesOf(probes)
           b == idx.binders
           U == Universe(idx)
           S == Spots(b)
<1>1. IsFiniteSet(U) /\ U \subseteq Triples
  BY UniverseFinite
<1>2. IsFiniteSet(S) /\ S \subseteq Nat
  BY HeadsFinite
<1>3. ASSUME NEW l \in L
      PROVE  \E p \in U, j \in S :
               l = [at |-> j, line |-> Triple(p.decl, b[p.decl][j].head, p.target)]
  <2>1. PICK p \in probes : \E j \in DOMAIN b[p.decl] :
          l = [at |-> j, line |-> Triple(p.decl, b[p.decl][j].head, p.target)]
    BY DEF LinesOf
  <2>2. p \in U
    OBVIOUS
  <2>3. p.decl \in DOMAIN b
    BY <2>2 DEF Universe, IsIndex
  <2>4. DOMAIN b[p.decl] \subseteq S
    BY <2>3 DEF Spots
  <2> QED
    BY <2>1, <2>2, <2>4
<1> HIDE DEF U, S, L
<1>4. PICK h : h = [q \in U \X S |-> [at |-> q[2],
                      line |-> Triple(q[1].decl, b[q[1].decl][q[2]].head, q[1].target)]]
  OBVIOUS
<1>5. PICK R : R = {h[q] : q \in U \X S}
  OBVIOUS
<1>6. h \in Surjection(U \X S, R)
  BY <1>4, <1>5 DEF Surjection
<1>7. IsFiniteSet(U \X S)
  BY <1>1, <1>2, FS_Product
<1>8. IsFiniteSet(R)
  BY <1>6, <1>7, FS_Surjection
<1>9. L \in SUBSET R
  <2> SUFFICES ASSUME NEW l \in L
               PROVE  l \in R
    OBVIOUS
  <2>1. PICK p \in U, j \in S :
               l = [at |-> j, line |-> Triple(p.decl, b[p.decl][j].head, p.target)]
    BY <1>3
  <2>2. PICK q \in U \X S : q = <<p, j>>
    OBVIOUS
  <2>3. h[q] = l
    BY <1>4, <2>1, <2>2
  <2> QED
    BY <1>5, <2>3
<1>10. IsFiniteSet(L)
  BY <1>8, <1>9, FS_Subset
<1>11. ASSUME NEW l \in L
       PROVE  /\ l.line.decl \in Nat /\ l.line.target \in Nat /\ l.at \in Nat
              /\ l = [at |-> l.at,
                      line |-> Triple(l.line.decl, b[l.line.decl][l.at].head, l.line.target)]
  <2>1. PICK p \in U, j \in S :
               l = [at |-> j, line |-> Triple(p.decl, b[p.decl][j].head, p.target)]
    BY <1>3
  <2>2. p.decl \in Nat /\ p.target \in Nat /\ j \in Nat
    BY <1>1, <1>2 DEF Triples
  <2>3. l.at = j /\ l.line.decl = p.decl /\ l.line.target = p.target
    BY <2>1 DEF Triple
  <2> QED
    BY <2>1, <2>2, <2>3
<1> QED
  BY <1>10, <1>11 DEF L

-----------------------------------------------------------------------------
(* Transcripts and scores *)

LEMMA MinIsIn ==
  ASSUME NEW T \in SUBSET Nat, T # {}
  PROVE  Min(T) \in T
<1>1. \E x \in T : \A y \in T : x <= y
  BY Least
<1> QED
  BY <1>1 DEF Min

\* In a linear order of a finite set somebody is first.
LEMMA SomebodyFirst ==
  ASSUME NEW S, IsFiniteSet(S), S # {}, NEW R, LinearOn(S, R)
  PROVE  \E s \in S : \A r \in S : <<r, s>> \notin R
<1>1. 1 \in 1 .. Cardinality(S) /\ 1 - 1 = 0
  <2>1. Cardinality(S) \in Nat /\ Cardinality(S) # 0
    BY FS_CardinalityType, FS_EmptySet
  <2> QED
    BY <2>1
<1>2. \A i \in 1 .. Cardinality(S) : \E s \in S : Cardinality(Below(S, R, s)) = i - 1
  BY PlacesTaken
<1>3. PICK s \in S : Cardinality(Below(S, R, s)) = 0
  BY <1>1, <1>2
<1>4. Below(S, R, s) \in SUBSET S
  BY DEF Below
<1>5. Below(S, R, s) = {}
  BY <1>3, <1>4, FS_Subset, FS_EmptySet
<1> QED
  BY <1>5 DEF Below

LEMMA MaxIsIn ==
  ASSUME NEW T, IsFiniteSet(T), T # {}, \A x \in T : x \in Nat
  PROVE  Max(T) \in T
<1>1. PICK R : R = {q \in T \X T : q[1] > q[2]}
  OBVIOUS
<1>2. \A x, y \in T : <<x, y>> \in R <=> x > y
  BY <1>1
<1>3. LinearOn(T, R)
  BY <1>2 DEF LinearOn
<1>4. PICK x \in T : \A y \in T : <<y, x>> \notin R
  BY <1>3, SomebodyFirst
<1>5. ASSUME NEW y \in T
      PROVE  x >= y
  <2>1. ~(y > x)
    BY <1>2, <1>4
  <2>2. x \in Nat /\ y \in Nat
    OBVIOUS
  <2> QED
    BY <2>1, <2>2
<1>6. \E u \in T : \A y \in T : u >= y
  BY <1>5
<1> QED
  BY <1>6 DEF Max

\* What is in the transcript as confirmed, the kernel accepted.
LogHonest(l, acc) ==
  /\ IsFiniteSet(DOMAIN l) /\ DOMAIN l \subseteq Nat
  /\ \A i \in DOMAIN l : l[i].verdict = "confirmed" => l[i].line \in acc

\* Each place of a transcript has a line of its own.
LEMMA TranscriptListed ==
  ASSUME IsIndex(idx), NEW probes \in SUBSET Universe(idx), NEW printed \in SUBSET LinesOf(probes)
  PROVE  /\ Cardinality(printed) \in Nat
         /\ DOMAIN TranscriptOrder(printed) = 1 .. Cardinality(printed)
         /\ \A i \in 1 .. Cardinality(printed) : TranscriptOrder(printed)[i] \in printed
<1> DEFINE key(l) == <<l.line.decl, l.line.target, l.at>>
           order == TranscriptOrder(printed)
           pick(i) == CHOOSE s \in printed :
                        Cardinality({r \in printed : Precedes(key(r), key(s))}) = i - 1
<1>1. order = [i \in 1 .. Cardinality(printed) |-> pick(i)]
  BY DEF TranscriptOrder, SortedBy
<1>2. IsFiniteSet(LinesOf(probes)) /\ IsFiniteSet(printed)
  BY LinesKnown, FS_Subset
<1>3. PICK K : K = [l \in printed |-> key(l)]
  OBVIOUS
<1>4. PICK R : R = {q \in printed \X printed : Precedes(key(q[1]), key(q[2]))}
  OBVIOUS
<1>5. ASSUME NEW l \in printed
      PROVE  /\ K[l] \in Seq(Int) /\ Len(K[l]) = 3
             /\ K[l][1] = l.line.decl /\ K[l][2] = l.line.target /\ K[l][3] = l.at
  <2>1. l.line.decl \in Nat /\ l.line.target \in Nat /\ l.at \in Nat
    BY LinesKnown
  <2>2. K[l] = <<l.line.decl, l.line.target, l.at>>
    BY <1>3
  <2> QED
    BY <2>1, <2>2
<1>6. ASSUME NEW r \in printed, NEW s \in printed, K[r] = K[s]
      PROVE  r = s
  <2>1. r.line.decl = s.line.decl /\ r.line.target = s.line.target /\ r.at = s.at
    BY <1>5, <1>6
  <2>2. /\ r = [at |-> r.at, line |-> Triple(r.line.decl, idx.binders[r.line.decl][r.at].head,
                                             r.line.target)]
        /\ s = [at |-> s.at, line |-> Triple(s.line.decl, idx.binders[s.line.decl][s.at].head,
                                             s.line.target)]
    BY LinesKnown
  <2> QED
    BY <2>1, <2>2
<1>7. \A r, s \in printed : <<r, s>> \in R <=> Precedes(K[r], K[s])
  BY <1>3, <1>4
<1>8. LinearOn(printed, R)
  <2>1. \A l \in printed : K[l] \in Seq(Int) /\ Len(K[l]) = 3
    BY <1>5
  <2>2. 3 \in Nat
    OBVIOUS
  <2> QED
    BY <1>6, <1>7, <2>1, <2>2, KeysOrder
<1>9. \A s \in printed :
        {r \in printed : Precedes(key(r), key(s))} = Below(printed, R, s)
  BY <1>4 DEF Below
<1>10. ASSUME NEW i \in 1 .. Cardinality(printed)
       PROVE  order[i] \in printed
  <2>1. \E s \in printed : Cardinality(Below(printed, R, s)) = i - 1
    BY <1>2, <1>8, PlacesTaken
  <2>2. \E s \in printed : Cardinality({r \in printed : Precedes(key(r), key(s))}) = i - 1
    BY <1>9, <2>1
  <2> HIDE DEF key
  <2>3. pick(i) \in printed
    BY <2>2
  <2> HIDE DEF pick, order
  <2> QED
    BY <1>1, <2>3
<1>11. DOMAIN order = 1 .. Cardinality(printed)
  BY <1>1
<1>12. Cardinality(printed) \in Nat
  BY <1>2, FS_CardinalityType
<1> QED
  BY <1>10, <1>11, <1>12

LEMMA TranscriptHonest ==
  ASSUME IsIndex(idx), NEW probes \in SUBSET Universe(idx), Elaborate(probes)
  PROVE  LogHonest(log', accepted') /\ accepted \subseteq accepted'
<1>1. PICK printed \in SUBSET LinesOf(probes) :
        \E verdict \in [printed -> UNION {Outcomes(l.line) : l \in printed}] :
          /\ LET order == TranscriptOrder(printed)
             IN log' = [i \in DOMAIN order |-> [line |-> order[i].line, verdict |-> verdict[order[i]]]]
          /\ accepted' = accepted \cup {l.line : l \in {m \in printed : verdict[m] = "confirmed"}}
  BY DEF Elaborate
<1>2. PICK verdict :
          /\ LET order == TranscriptOrder(printed)
             IN log' = [i \in DOMAIN order |-> [line |-> order[i].line, verdict |-> verdict[order[i]]]]
          /\ accepted' = accepted \cup {l.line : l \in {m \in printed : verdict[m] = "confirmed"}}
  BY <1>1
<1>3. PICK order : order = TranscriptOrder(printed)
  OBVIOUS
<1>4. PICK n \in Nat : n = Cardinality(printed)
  BY TranscriptListed
<1>5. DOMAIN order = 1 .. n /\ \A i \in 1 .. n : order[i] \in printed
  BY <1>3, <1>4, TranscriptListed
<1>6. /\ DOMAIN log' = 1 .. n
      /\ \A i \in 1 .. n : log'[i] = [line |-> order[i].line, verdict |-> verdict[order[i]]]
  BY <1>2, <1>3, <1>5
<1>7. IsFiniteSet(1 .. n) /\ 1 .. n \subseteq Nat
  BY FS_Interval
<1>8. ASSUME NEW i \in 1 .. n, log'[i].verdict = "confirmed"
      PROVE  log'[i].line \in accepted'
  <2>1. verdict[order[i]] = "confirmed" /\ log'[i].line = order[i].line /\ order[i] \in printed
    BY <1>5, <1>6, <1>8
  <2>2. order[i] \in {m \in printed : verdict[m] = "confirmed"}
    BY <2>1
  <2>3. order[i].line \in {l.line : l \in {m \in printed : verdict[m] = "confirmed"}}
    BY <2>2
  <2>4. accepted' = accepted \cup {l.line : l \in {m \in printed : verdict[m] = "confirmed"}}
    BY <1>2
  <2> QED
    BY <2>1, <2>3, <2>4
<1> QED
  BY <1>2, <1>6, <1>7, <1>8 DEF LogHonest

\* A run scored over a slice, and where its lines are.
RunsOver(U) ==
  [confirmed : SUBSET U, refuted : SUBSET U, inconclusive : SUBSET U, unaskable : SUBSET U,
   missing : SUBSET U, spurious : Int]

LEMMA RunHonest ==
  ASSUME IsIndex(idx), LogHonest(log, accepted), NEW probes \in SUBSET Universe(idx)
  PROVE  /\ ScoredRun(probes) \in RunsOver(Universe(idx))
         /\ ScoredRun(probes).confirmed \subseteq accepted
<1> DEFINE judged(v) == {t \in probes : VerdictOf(t) = v}
           matched == {t \in probes : VerdictOf(t) # "missing"}
           lines == {log[i].line : i \in DOMAIN log}
<1>1. PICK s : s = Cardinality(lines) - Cardinality(matched)
  OBVIOUS
<1>2. s \in Int
  <2>1. IsFiniteSet(lines)
    <3>1. PICK h : h = [i \in DOMAIN log |-> log[i].line]
      OBVIOUS
    <3>2. h \in Surjection(DOMAIN log, lines)
      BY <3>1 DEF Surjection
    <3> QED
      BY <3>2, FS_Surjection DEF LogHonest
  <2>2. IsFiniteSet(matched)
    <3>1. matched \in SUBSET Universe(idx)
      OBVIOUS
    <3> QED
      BY <3>1, UniverseFinite, FS_Subset
  <2>3. Cardinality(lines) \in Nat /\ Cardinality(matched) \in Nat
    BY <2>1, <2>2, FS_CardinalityType
  <2> QED
    BY <1>1, <2>3
<1>3. ScoredRun(probes) =
        [confirmed |-> judged("confirmed"), refuted |-> judged("refuted"),
         inconclusive |-> judged("inconclusive"), unaskable |-> judged("unaskable"),
         missing |-> judged("missing"), spurious |-> s]
  BY <1>1 DEF ScoredRun
<1>4. ASSUME NEW t \in probes, VerdictOf(t) = "confirmed"
      PROVE  t \in accepted
  <2>1. PICK M : M = {i \in DOMAIN log : Matches(log[i].line, t)}
    OBVIOUS
  <2>2. VerdictOf(t) = IF M = {} THEN "missing" ELSE log[Max(M)].verdict
    BY <2>1 DEF VerdictOf
  <2>3. M # {} /\ log[Max(M)].verdict = "confirmed"
    BY <1>4, <2>2
  <2>4. M \in SUBSET DOMAIN log /\ M \in SUBSET Nat
    BY <2>1 DEF LogHonest
  <2>5. IsFiniteSet(M)
    BY <2>4, FS_Subset DEF LogHonest
  <2>6. Max(M) \in M
    BY <2>3, <2>4, <2>5, MaxIsIn
  <2>7. log[Max(M)].line = t
    BY <2>1, <2>6 DEF Matches
  <2> QED
    BY <2>3, <2>4, <2>6, <2>7 DEF LogHonest
<1> HIDE DEF judged
<1>5. \A v : judged(v) \in SUBSET Universe(idx)
  BY DEF judged
<1> QED
  BY <1>2, <1>3, <1>4, <1>5 DEF RunsOver, judged

\* What a confirmed stratum rests on.
Backed(pick, acc) ==
  \E t \in acc :
    /\ t.decl = pick.decl
    /\ IF pick.stratum = "S_ONLY" THEN t.target = pick.forced
       ELSE \E v \in Homes(t.decl) : t.declared = v.class /\ t.target = v.home

LEMMA StratumHonest ==
  ASSUME LogHonest(log, accepted), NEW pick, StratumVerdict(pick) = "confirmed"
  PROVE  Backed(pick, accepted)
<1>1. PICK E : E = Evident(pick)
  OBVIOUS
<1>2. E \in SUBSET DOMAIN log /\ E \in SUBSET Nat
  BY <1>1 DEF Evident, LogHonest
<1>3. StratumVerdict(pick) = IF E = {} THEN "no-verdict"
                             ELSE IF \E i \in E : log[i].verdict = "confirmed" THEN "confirmed"
                             ELSE log[Min(E)].verdict
  BY <1>1 DEF StratumVerdict
<1>4. E # {} => Min(E) \in E
  BY <1>2, MinIsIn
<1>5. PICK i \in E : log[i].verdict = "confirmed"
  BY <1>3, <1>4
<1>6. log[i].line \in accepted
  BY <1>2, <1>5 DEF LogHonest
<1>7. /\ log[i].line.decl = pick.decl
      /\ IF pick.stratum = "S_ONLY" THEN log[i].line.target = pick.forced
         ELSE \E v \in Homes(pick.decl) : log[i].line = Triple(pick.decl, v.class, v.home)
  BY <1>1 DEF Evident, Matches
<1>8. CASE pick.stratum = "S_ONLY"
  BY <1>6, <1>7, <1>8 DEF Backed
<1>9. CASE pick.stratum # "S_ONLY"
  <2>1. PICK v \in Homes(pick.decl) : log[i].line = Triple(pick.decl, v.class, v.home)
    BY <1>7, <1>9
  <2>2. log[i].line.declared = v.class /\ log[i].line.target = v.home
    BY <2>1 DEF Triple
  <2> QED
    BY <1>6, <1>7, <1>9, <2>2 DEF Backed
<1> QED
  BY <1>8, <1>9

-----------------------------------------------------------------------------
(* The loop *)

\* What of a plan or of strata is asked about the slice.
PlanKnown == index # None => index.probes \subseteq Universe(idx)

StrataKnown ==
  strata # None => \A p \in strata : p.decl \in DOMAIN idx.rows /\ p.forced \in HeadsAt(idx.binders)

RunsKnown ==
  /\ runs \in Seq(RunsOver(Universe(idx)))
  /\ \A i \in DOMAIN runs : runs[i].confirmed \subseteq accepted

ReportKnown ==
  report # None => \A r \in report : r.verdict = "confirmed" => Backed(r.pick, accepted)

\* The inductive invariant.
LoopInv ==
  /\ IsIndex(idx)
  /\ candidates # None => candidates = StreamedCandidates(idx)
  /\ PlanKnown /\ StrataKnown /\ RunsKnown /\ ReportKnown
  /\ LogHonest(log, accepted)
  /\ PlansFair

LEMMA InitLoopInv == LoopInit => LoopInv
<1> SUFFICES ASSUME LoopInit
             PROVE  LoopInv
  OBVIOUS
<1>1. IsIndex(idx)
  BY InitialIndex
<1>2. /\ candidates = None /\ index = None /\ strata = None /\ report = None
      /\ log = <<>> /\ runs = <<>> /\ accepted = {}
  BY DEF LoopInit
<1>3. PlanKnown /\ StrataKnown /\ ReportKnown
  BY <1>2 DEF PlanKnown, StrataKnown, ReportKnown
<1>4. RunsKnown
  BY <1>2 DEF RunsKnown
<1>5. LogHonest(log, accepted)
  <2>1. DOMAIN log = {}
    BY <1>2
  <2> QED
    BY <2>1, FS_EmptySet DEF LogHonest
<1>6. PlansFair
  BY <1>2 DEF PlansFair, BreadthFirst, CensusIsWhole
<1> QED
  BY <1>1, <1>2, <1>3, <1>4, <1>5, <1>6 DEF LoopInv

\* What is backed stays backed, the kernel forgets nothing.
LEMMA BackedStays ==
  ASSUME idx' = idx, accepted \subseteq accepted', NEW pick, Backed(pick, accepted)
  PROVE  Backed(pick, accepted)'
<1>1. \A n : Homes(n)' = Homes(n)
  BY DEF Homes
<1> QED
  BY <1>1 DEF Backed

LEMMA FairKept ==
  ASSUME PlansFair, index' = index
  PROVE  PlansFair'
BY DEF PlansFair, BreadthFirst, CensusIsWhole

LEMMA SweepStep == LoopInv /\ Sweep => LoopInv'
<1> SUFFICES ASSUME LoopInv, Sweep
             PROVE  LoopInv'
  OBVIOUS
<1>1. /\ candidates' = StreamedCandidates(idx) /\ idx' = idx /\ index' = index
      /\ strata' = strata /\ log' = log /\ runs' = runs /\ report' = report
      /\ accepted' = accepted
  BY DEF Sweep
<1>2. ReportKnown'
  BY <1>1, BackedStays DEF LoopInv, ReportKnown
<1>3. PlansFair'
  BY <1>1, FairKept DEF LoopInv
<1> QED
  BY <1>1, <1>2, <1>3 DEF LoopInv, PlanKnown, StrataKnown, RunsKnown

LEMMA SweepAndProbeStep == LoopInv /\ SweepAndProbe => LoopInv'
<1> SUFFICES ASSUME LoopInv, SweepAndProbe
             PROVE  LoopInv'
  OBVIOUS
<1>1. /\ idx' = idx /\ candidates' = candidates
      /\ strata' = strata /\ log' = log /\ runs' = runs /\ report' = report
      /\ accepted' = accepted
  BY DEF SweepAndProbe
<1>2. PICK found : found = InMemoryCandidates(idx)
  OBVIOUS
<1>3. \E novel \in SUBSET found : \E probes \in SUBSET novel :
        index' = [probes |-> probes, plan |-> "first", rows |-> novel, known |-> {}]
  BY <1>2 DEF SweepAndProbe
<1>4. PICK novel \in SUBSET found : \E probes \in SUBSET novel :
        index' = [probes |-> probes, plan |-> "first", rows |-> novel, known |-> {}]
  BY <1>3
<1>5. PICK probes \in SUBSET novel :
        index' = [probes |-> probes, plan |-> "first", rows |-> novel, known |-> {}]
  BY <1>4
<1>6. found \subseteq Universe(idx)
  BY <1>2, StreamingSame, StreamedInUniverse DEF LoopInv
<1>7. PlanKnown'
  BY <1>1, <1>4, <1>5, <1>6 DEF PlanKnown
<1>8. PlansFair'
  BY <1>5 DEF PlansFair, BreadthFirst, CensusIsWhole
<1>9. ReportKnown'
  BY <1>1, BackedStays DEF LoopInv, ReportKnown
<1> QED
  BY <1>1, <1>7, <1>8, <1>9 DEF LoopInv, StrataKnown, RunsKnown

LEMMA BroadIsFair ==
  ASSUME Broad(index'.probes, index'.rows, index'.known)
  PROVE  BreadthFirst'
BY DEF Broad, BreadthFirst, Members, Families, Quota, Cap

LEMMA WholeIsFair ==
  ASSUME Whole(index'.probes, index'.rows)
  PROVE  CensusIsWhole'
BY DEF Whole, CensusIsWhole, Members, Families

LEMMA PlanStep == LoopInv /\ Plan => LoopInv'
<1> SUFFICES ASSUME LoopInv, Plan
             PROVE  LoopInv'
  OBVIOUS
<1>1. /\ idx' = idx /\ candidates' = candidates
      /\ strata' = strata /\ log' = log /\ runs' = runs /\ report' = report
      /\ accepted' = accepted
  BY DEF Plan
<1>2. candidates = StreamedCandidates(idx) /\ candidates \subseteq Universe(idx)
  BY StreamedInUniverse DEF Plan, LoopInv
<1>3. PICK known \in {{}} \cup {runs[i].confirmed \cup runs[i].refuted : i \in DOMAIN runs} :
        \E excluded \in SUBSET DOMAIN runs, census \in BOOLEAN :
         LET done == UNION {Scored(runs[i]) : i \in excluded}
             rows == {t \in candidates \ done : Askable(t)}
         IN index' = [probes |-> IF census THEN Census(rows, known) ELSE RoundRobin(rows, known),
                      plan |-> IF census THEN "census" ELSE "families",
                      rows |-> rows, known |-> known]
  BY DEF Plan
<1>4. PICK excluded \in SUBSET DOMAIN runs, census \in BOOLEAN :
         LET done == UNION {Scored(runs[i]) : i \in excluded}
             rows == {t \in candidates \ done : Askable(t)}
         IN index' = [probes |-> IF census THEN Census(rows, known) ELSE RoundRobin(rows, known),
                      plan |-> IF census THEN "census" ELSE "families",
                      rows |-> rows, known |-> known]
  BY <1>3
<1>5. PICK rows : rows = {t \in candidates \ UNION {Scored(runs[i]) : i \in excluded} : Askable(t)}
  OBVIOUS
<1>6. index' = [probes |-> IF census THEN Census(rows, known) ELSE RoundRobin(rows, known),
                plan |-> IF census THEN "census" ELSE "families",
                rows |-> rows, known |-> known]
  BY <1>4, <1>5
<1>7. rows \subseteq candidates
  BY <1>5
<1>8. rows \in SUBSET Triples /\ IsFiniteSet(rows)
  BY <1>2, <1>7, UniverseFinite, FS_Subset DEF LoopInv
<1>9. IsFiniteSet(known)
  <2>1. CASE known = {}
    BY <2>1, FS_EmptySet
  <2>2. CASE known # {}
    <3>1. PICK i \in DOMAIN runs : known = runs[i].confirmed \cup runs[i].refuted
      BY <1>3, <2>2
    <3>2. runs[i] \in RunsOver(Universe(idx))
      BY DEF LoopInv, RunsKnown
    <3>3. known \in SUBSET Universe(idx)
      BY <3>1, <3>2 DEF RunsOver
    <3> QED
      BY <3>3, UniverseFinite, FS_Subset DEF LoopInv
  <2> QED
    BY <2>1, <2>2
<1> HIDE <1>3, <1>4, <1>5
<1>10. PICK P : P = IF census THEN Census(rows, known) ELSE RoundRobin(rows, known)
  OBVIOUS
<1>11. index'.probes = P /\ index'.rows = rows /\ index'.known = known
       /\ index'.plan = IF census THEN "census" ELSE "families"
  BY <1>6, <1>10
<1>12. CASE census
  <2>1. P = Census(rows, known) /\ index'.plan = "census"
    BY <1>10, <1>11, <1>12
  <2>2. P \subseteq rows
    BY <1>8, <1>9, <2>1, CensusTakes
  <2>3. Whole(P, rows)
    BY <1>8, <1>9, <2>1, CensusWhole
  <2>4. CensusIsWhole'
    BY <1>11, <2>3, WholeIsFair
  <2>5. BreadthFirst'
    BY <2>1 DEF BreadthFirst
  <2> QED
    BY <1>1, <1>2, <1>7, <1>11, <2>2, <2>4, <2>5, BackedStays
    DEF LoopInv, PlanKnown, StrataKnown, RunsKnown, ReportKnown, PlansFair
<1>13. CASE ~census
  <2>1. P = RoundRobin(rows, known) /\ index'.plan = "families"
    BY <1>10, <1>11, <1>13
  <2>2. P \subseteq rows
    BY <1>8, <1>9, <2>1, RoundRobinTakes DEF Eligible
  <2>3. Broad(P, rows, known)
    BY <1>8, <1>9, <2>1, RoundRobinBroad
  <2>4. BreadthFirst'
    BY <1>11, <2>3, BroadIsFair
  <2>5. CensusIsWhole'
    BY <2>1 DEF CensusIsWhole
  <2> QED
    BY <1>1, <1>2, <1>7, <1>11, <2>2, <2>4, <2>5, BackedStays
    DEF LoopInv, PlanKnown, StrataKnown, RunsKnown, ReportKnown, PlansFair
<1> QED
  BY <1>12, <1>13

LEMMA CrossStep == LoopInv /\ Cross => LoopInv'
<1> SUFFICES ASSUME LoopInv, Cross
             PROVE  LoopInv'
  OBVIOUS
<1>1. /\ idx' = idx /\ candidates' = candidates /\ index' = index
      /\ log' = log /\ runs' = runs /\ report' = report /\ accepted' = accepted
  BY DEF Cross
<1> DEFINE D == DOMAIN idx.rows
           H == HeadsAt(idx.binders)
           Good(p) == p.decl \in D /\ p.forced \in H
<1>2. PICK both : both = FlaggedByLattice \cap FlaggedByShape
  OBVIOUS
<1>3. PICK latticeOnly : latticeOnly = FlaggedByLattice \ FlaggedByShape
  OBVIOUS
<1>4. PICK shapeOnly : shapeOnly = FlaggedByShape \ FlaggedByLattice
  OBVIOUS
<1>5. \E agree \in LatticePicks("BOTH", both),
         lattice \in UNION {AtMost(P, PerStratum) : P \in LatticePicks("L_ONLY", latticeOnly)},
         shape \in AtMost(ShapePicks(shapeOnly), PerStratum) :
            strata' = agree \cup lattice \cup shape
  BY <1>2, <1>3, <1>4 DEF Cross
<1>6. PICK agree \in LatticePicks("BOTH", both) :
        \E lattice \in UNION {AtMost(P, PerStratum) : P \in LatticePicks("L_ONLY", latticeOnly)},
           shape \in AtMost(ShapePicks(shapeOnly), PerStratum) :
             strata' = agree \cup lattice \cup shape
  BY <1>5
<1>7. PICK lattice \in UNION {AtMost(P, PerStratum) : P \in LatticePicks("L_ONLY", latticeOnly)},
           shape \in AtMost(ShapePicks(shapeOnly), PerStratum) :
             strata' = agree \cup lattice \cup shape
  BY <1>6
<1>8. both \subseteq D /\ latticeOnly \subseteq D /\ shapeOnly \subseteq D
  <2>1. FlaggedByLattice \subseteq D
    BY DEF FlaggedByLattice, Theorems
  <2>2. FlaggedByShape \subseteq D
    BY DEF FlaggedByShape
  <2> QED
    BY <1>2, <1>3, <1>4, <2>1, <2>2
<1>9. ASSUME NEW stratum, NEW names \in SUBSET D, NEW P \in LatticePicks(stratum, names)
      PROVE  \A p \in P : Good(p)
  <2> SUFFICES ASSUME NEW p \in P
               PROVE  Good(p)
    OBVIOUS
  <2>1. P \in SUBSET UNION {{Pick(stratum, n, v.home) : v \in Homes(n)} : n \in names}
    BY DEF LatticePicks
  <2>2. PICK n \in names : p \in {Pick(stratum, n, v.home) : v \in Homes(n)}
    BY <2>1
  <2>3. PICK v \in Homes(n) : p = Pick(stratum, n, v.home)
    BY <2>2
  <2>4. v.home \in H
    BY HomesAreHeads DEF LoopInv
  <2> QED
    BY <2>3, <2>4 DEF Pick
<1>10. ASSUME NEW p \in ShapePicks(shapeOnly)
       PROVE  Good(p)
  <2>1. PICK n \in shapeOnly, c \in idx.classes : p = Pick("S_ONLY", n, c)
    BY DEF ShapePicks
  <2>2. idx.classes \subseteq H
    BY DEF LoopInv, IsIndex
  <2> QED
    BY <1>8, <2>1, <2>2 DEF Pick
<1> HIDE DEF Good
<1>11. \A p \in agree : Good(p)
  BY <1>6, <1>8, <1>9
<1>12. \A p \in lattice : Good(p)
  <2>1. PICK P \in LatticePicks("L_ONLY", latticeOnly) : lattice \in AtMost(P, PerStratum)
    BY <1>7
  <2>2. lattice \subseteq P
    BY <2>1 DEF AtMost
  <2> QED
    BY <1>8, <1>9, <2>1, <2>2
<1>13. \A p \in shape : Good(p)
  <2>1. shape \subseteq ShapePicks(shapeOnly)
    BY <1>7 DEF AtMost
  <2> QED
    BY <1>10, <2>1
<1>14. StrataKnown'
  <2>1. \A p \in strata' : Good(p)
    BY <1>7, <1>11, <1>12, <1>13
  <2> QED
    BY <1>1, <2>1 DEF StrataKnown, Good
<1>15. PlansFair'
  BY <1>1, FairKept DEF LoopInv
<1>16. ReportKnown'
  BY <1>1, BackedStays DEF LoopInv, ReportKnown
<1> QED
  BY <1>1, <1>14, <1>15, <1>16 DEF LoopInv, PlanKnown, RunsKnown

LEMMA RunLeanStep == LoopInv /\ RunLean => LoopInv'
<1> SUFFICES ASSUME LoopInv, RunLean
             PROVE  LoopInv'
  OBVIOUS
<1>1. /\ idx' = idx /\ candidates' = candidates /\ index' = index
      /\ strata' = strata /\ runs' = runs /\ report' = report
  BY DEF RunLean
<1>2. \E probes \in SUBSET Universe(idx) : Elaborate(probes)
  <2>1. CASE index # None /\ Elaborate(index.probes)
    BY <2>1 DEF LoopInv, PlanKnown
  <2>2. CASE strata # None /\ Elaborate({Triple(p.decl, 0, p.forced) : p \in strata})
    <3>1. \A p \in strata : Triple(p.decl, 0, p.forced) \in Universe(idx)
      BY <2>2 DEF LoopInv, StrataKnown, Universe, Triple
    <3>2. {Triple(p.decl, 0, p.forced) : p \in strata} \in SUBSET Universe(idx)
      BY <3>1
    <3> QED
      BY <2>2, <3>2
  <2> QED
    BY <2>1, <2>2 DEF RunLean
<1>3. PICK probes \in SUBSET Universe(idx) : Elaborate(probes)
  BY <1>2
<1>4. LogHonest(log', accepted') /\ accepted \subseteq accepted'
  BY <1>3, TranscriptHonest DEF LoopInv
<1>5. ReportKnown'
  BY <1>1, <1>4, BackedStays DEF LoopInv, ReportKnown
<1>6. RunsKnown'
  BY <1>1, <1>4 DEF LoopInv, RunsKnown
<1>7. PlansFair'
  BY <1>1, FairKept DEF LoopInv
<1> QED
  BY <1>1, <1>4, <1>5, <1>6, <1>7 DEF LoopInv, PlanKnown, StrataKnown

LEMMA ScoreStep == LoopInv /\ Score => LoopInv'
<1> SUFFICES ASSUME LoopInv, Score
             PROVE  LoopInv'
  OBVIOUS
<1>1. /\ idx' = idx /\ candidates' = candidates /\ index' = index /\ strata' = strata
      /\ log' = log /\ report' = report /\ accepted' = accepted
  BY DEF Score
<1>2. index # None /\ index.probes \in SUBSET Universe(idx)
  BY DEF Score, LoopInv, PlanKnown
<1>3. PICK r : r = ScoredRun(index.probes)
  OBVIOUS
<1>4. r \in RunsOver(Universe(idx)) /\ r.confirmed \subseteq accepted
  BY <1>2, <1>3, RunHonest DEF LoopInv
<1>5. runs \in Seq(RunsOver(Universe(idx))) /\ runs' = Append(runs, r)
  BY <1>3 DEF Score, LoopInv, RunsKnown
<1>6. PICK n \in Nat : n = Len(runs)
  BY <1>5
<1>7. /\ runs' \in Seq(RunsOver(Universe(idx))) /\ DOMAIN runs = 1 .. n
      /\ DOMAIN runs' = 1 .. n + 1 /\ runs'[n + 1] = r
      /\ \A i \in 1 .. n : runs'[i] = runs[i]
  BY <1>4, <1>5, <1>6
<1>8. \A i \in 1 .. n + 1 : i = n + 1 \/ i \in 1 .. n
  BY <1>6
<1>9. \A i \in 1 .. n : runs[i].confirmed \subseteq accepted
  BY <1>7 DEF LoopInv, RunsKnown
<1>10. \A i \in DOMAIN runs' : runs'[i].confirmed \subseteq accepted
  BY <1>4, <1>7, <1>8, <1>9
<1>11. RunsKnown'
  BY <1>1, <1>7, <1>10 DEF RunsKnown
<1>12. ReportKnown'
  BY <1>1, BackedStays DEF LoopInv, ReportKnown
<1>13. PlansFair'
  BY <1>1, FairKept DEF LoopInv
<1> QED
  BY <1>1, <1>11, <1>12, <1>13 DEF LoopInv, PlanKnown, StrataKnown

LEMMA ScoreStrataStep == LoopInv /\ ScoreStrata => LoopInv'
<1> SUFFICES ASSUME LoopInv, ScoreStrata
             PROVE  LoopInv'
  OBVIOUS
<1>1. /\ idx' = idx /\ candidates' = candidates /\ index' = index /\ strata' = strata
      /\ log' = log /\ runs' = runs /\ accepted' = accepted
      /\ report' = {[pick |-> p, verdict |-> StratumVerdict(p)] : p \in strata}
  BY DEF ScoreStrata
<1>2. ASSUME NEW r \in report', r.verdict = "confirmed"
      PROVE  Backed(r.pick, accepted)
  <2>1. PICK p \in strata : r = [pick |-> p, verdict |-> StratumVerdict(p)]
    BY <1>1
  <2>2. StratumVerdict(p) = "confirmed"
    BY <1>2, <2>1
  <2> QED
    BY <2>1, <2>2, StratumHonest DEF LoopInv
<1>3. ReportKnown'
  BY <1>1, <1>2, BackedStays DEF ReportKnown
<1>4. PlansFair'
  BY <1>1, FairKept DEF LoopInv
<1> QED
  BY <1>1, <1>3, <1>4 DEF LoopInv, PlanKnown, StrataKnown, RunsKnown

LEMMA StutterStep == LoopInv /\ UNCHANGED loopVars => LoopInv'
<1> SUFFICES ASSUME LoopInv, UNCHANGED loopVars
             PROVE  LoopInv'
  OBVIOUS
<1>1. /\ idx' = idx /\ candidates' = candidates /\ index' = index /\ strata' = strata
      /\ log' = log /\ runs' = runs /\ accepted' = accepted /\ report' = report
  BY DEF loopVars
<1>2. ReportKnown'
  BY <1>1, BackedStays DEF LoopInv, ReportKnown
<1>3. PlansFair'
  BY <1>1, FairKept DEF LoopInv
<1> QED
  BY <1>1, <1>2, <1>3 DEF LoopInv, PlanKnown, StrataKnown, RunsKnown

LEMMA SearchesSame == LoopInv => LanesAgree
<1> SUFFICES ASSUME LoopInv
             PROVE  LanesAgree
  OBVIOUS
<1>1. StreamingAgrees
  BY StreamingSame DEF LoopInv, StreamingAgrees
<1>2. SearchesAgree
  <2> SUFFICES ASSUME candidates # None, NEW t \in candidates
               PROVE  /\ t.target \in idx.above[t.declared]
                      /\ \A v \in StatementCandidates(idx, t.decl).verdicts :
                           v.class = t.declared /\ v.verdict # "unused" => t.target \in v.candidates
    BY DEF SearchesAgree
  <2>1. t \in StreamedCandidates(idx) /\ IsIndex(idx)
    BY DEF LoopInv
  <2>2. t.target \in idx.above[t.declared]
    BY <2>1, CandidateIs
  <2>3. \A v \in StatementCandidates(idx, t.decl).verdicts :
          v.class = t.declared /\ v.verdict # "unused" => t.target \in v.candidates
    BY <2>1, StatementAdmits
  <2> QED
    BY <2>2, <2>3
<1>3. CarriersApart
  <2> SUFFICES ASSUME NEW n \in Theorems(idx), NEW k
               PROVE  {v \in CarrierStatementCandidates(idx, n).verdicts : v.carrier = k}
                        = {v \in CarrierStatementCandidates(
                             [idx EXCEPT !.rows[n].requirements =
                                {q \in idx.rows[n].requirements : q.carrier = k}], n).verdicts :
                             v.carrier = k}
    BY DEF CarriersApart
  <2>1. n \in DOMAIN idx.rows /\ IsIndex(idx)
    BY DEF Theorems, LoopInv
  <2>2. PICK o : o = OnlyOf(idx, n, k)
    OBVIOUS
  <2>3. {v \in CarrierStatementCandidates(idx, n).verdicts : v.carrier = k}
          = {v \in CarrierStatementCandidates(o, n).verdicts : v.carrier = k}
    BY <2>1, <2>2, CarriersKept
  <2> QED
    BY <2>2, <2>3 DEF OnlyOf, WithRequirements
<1> QED
  BY <1>1, <1>2, <1>3 DEF LanesAgree

\* The invariant of the loop: an index of finitely many rows that does not
\* change, candidates that are those of the sweep, plans and strata about the
\* slice, and a transcript, runs and a report that confirm only what the
\* kernel accepted.
THEOREM LoopInvariant == LoopSpec => []LoopInv
<1>1. LoopInit => LoopInv
  BY InitLoopInv
<1>2. LoopInv /\ [LoopNext]_loopVars => LoopInv'
  BY SweepStep, SweepAndProbeStep, PlanStep, CrossStep, RunLeanStep, ScoreStep, ScoreStrataStep,
     StutterStep DEF LoopNext
<1> QED
  BY <1>1, <1>2, PTL DEF LoopSpec

\* Over every slice, the streamed sweep proposes what the sweep in memory
\* proposes; what statement and proof together admit, the statement alone
\* admits; and what is required of one carrier changes no verdict about
\* another (generalization-full.py, generalization-run.py, atlas_home.py,
\* atlas_home_stream.py).
THEOREM LanesStayAgreed == LoopSpec => []LanesAgree
BY LoopInvariant, SearchesSame, PTL

\* However the scripts are run and however many runs are scored, a weakening
\* is reported confirmed only if the kernel accepted it, a plan goes through
\* the families breadth first and a census leaves one family at most in part
\* (probe-plan.py, score-probes.py, score-confirmations.py).
THEOREM ProbesStayEarned == LoopSpec => []ProbesEarned
<1>1. LoopInv => ProbesEarned
  <2> SUFFICES ASSUME LoopInv
               PROVE  ProbesEarned
    OBVIOUS
  <2>1. ConfirmedEarned
    BY DEF LoopInv, RunsKnown, ReportKnown, Backed, ConfirmedEarned
  <2> QED
    BY <2>1 DEF LoopInv, ProbesEarned
<1> QED
  BY <1>1, LoopInvariant, PTL
=============================================================================
