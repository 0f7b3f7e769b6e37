--------------------------- MODULE SymplecticTables ---------------------------
(***************************************************************************)
(* The checker of the GAP kit (scripts/mtxe-check.py): closed-form counts, *)
(* matrices over GF(p), and Frobenius orbits of lines over GF(p^m).        *)
(***************************************************************************)
EXTENDS Integers, Sequences, FiniteSets, SequencesExt

RECURSIVE Divisor(_, _)
Divisor(a, b) == IF b = 0 THEN a ELSE Divisor(b, a % b)

ProductOver(f, S) == FoldSet(LAMBDA i, acc : f[i] * acc, 1, S)
TotalOver(f, S) == FoldSet(LAMBDA i, acc : f[i] + acc, 0, S)

LagrangianCount(q, n) == ProductOver([i \in 1 .. n |-> q ^ i + 1], 1 .. n)

IsotropicCount(q, n, k) ==
    ProductOver([i \in 1 .. k |-> q ^ (2 * n - i + 1) - q ^ (i - 1)], 1 .. k)
      \div ProductOver([i \in 1 .. k |-> q ^ k - q ^ (i - 1)], 1 .. k)

EulerPhi(x) == Cardinality({i \in 1 .. x : Divisor(i, x) = 1})

OrbitCount(p, m, n) ==
    LET divisors == {d \in 1 .. m : m % d = 0}
    IN TotalOver([d \in divisors |-> EulerPhi(m \div d) * LagrangianCount(p ^ d, n)], divisors)
         \div m

-----------------------------------------------------------------------------
(* GF(p^m): gf is [p, m, modulus], an element the number of its digits *)

Digit(gf, e, i) == (e \div gf.p ^ i) % gf.p
Number(gf, digits) ==
    TotalOver([i \in 0 .. gf.m - 1 |-> (digits[i] % gf.p) * gf.p ^ i], 0 .. gf.m - 1)

\* The product's digits, reduced by the monic modulus from the highest down.
RECURSIVE Reduce(_, _, _)
Reduce(gf, digits, deg) ==
    IF deg < gf.m THEN digits
    ELSE Reduce(gf,
           [j \in DOMAIN digits |->
              IF j = deg THEN 0
              ELSE IF j \in deg - gf.m .. deg - 1
                   THEN (digits[j] - digits[deg] * gf.modulus[j - deg + gf.m + 1]) % gf.p
                   ELSE digits[j]],
           deg - 1)

GfMul(gf, a, b) ==
    LET product == [s \in 0 .. 2 * gf.m - 1 |->
          TotalOver([i \in 0 .. gf.m - 1 |->
                       IF s - i \in 0 .. gf.m - 1
                       THEN Digit(gf, a, i) * Digit(gf, b, s - i) ELSE 0],
                    0 .. gf.m - 1) % gf.p]
    IN Number(gf, Reduce(gf, product, 2 * gf.m - 1))

FieldSize(gf) == gf.p ^ gf.m
Inverses(gf, a) == {b \in 1 .. FieldSize(gf) - 1 : GfMul(gf, a, b) = 1}

RECURSIVE Power(_, _, _)
Power(gf, a, k) == IF k = 0 THEN 1 ELSE GfMul(gf, a, Power(gf, a, k - 1))
Frob(gf, a) == Power(gf, a, gf.p)

\* A line by the vector of it whose first nonzero coordinate is 1.
CanonLine(gf, v) ==
    IF v[1] # 0 THEN <<1, GfMul(gf, Min(Inverses(gf, v[1])), v[2])>> ELSE <<0, 1>>

NoLine(gf, v) == v = <<0, 0>> \/ (v[1] # 0 /\ Inverses(gf, v[1]) = {})

-----------------------------------------------------------------------------
(* Cases of the manifest: [p, m, n, q, lagrangians, isotropics, orbits,     *)
(* sizes], the last by size how many orbits have it, or nothing             *)

SizesDiffer(c) ==
    /\ DOMAIN c.sizes # {}
    /\ \/ TotalOver(c.sizes, DOMAIN c.sizes) # c.orbits
       \/ TotalOver([s \in DOMAIN c.sizes |-> s * c.sizes[s]], DOMAIN c.sizes) # c.lagrangians
       \/ \E s \in DOMAIN c.sizes : c.m % s # 0

CheckCase(c) ==
    IF \/ c.p ^ c.m # c.q
       \/ c.lagrangians # LagrangianCount(c.q, c.n)
       \/ \E k \in 1 .. c.n : c.isotropics[k] # IsotropicCount(c.q, c.n, k)
       \/ c.orbits # OrbitCount(c.p, c.m, c.n)
       \/ SizesDiffer(c)
    THEN "FAIL" ELSE "PASS"

-----------------------------------------------------------------------------
(* Matrices: [p, rows, cols, declared, entries], entries <<row, col, value>> *)

MatrixUnread(f) ==
    \/ f.p = 0
    \/ Len(f.entries) # f.declared
    \/ \E t \in ToSet(f.entries) :
         t[1] \notin 1 .. f.rows \/ t[2] \notin 1 .. f.cols \/ t[3] \notin 0 .. f.p - 1

\* The last entry of a place counts.
Matrix(f) ==
    FoldLeft(LAMBDA mat, t : [mat EXCEPT ![t[1]][t[2]] = t[3]],
             [r \in 1 .. f.rows |-> [c \in 1 .. f.cols |-> 0]], f.entries)

Symplectic(p, u, v) ==
    LET n == Len(u) \div 2
    IN TotalOver([i \in 1 .. n |-> u[i] * v[n + i] - u[n + i] * v[i]], 1 .. n) % p

GramIsZero(f) == \A u, v \in Range(Matrix(f)) : Symplectic(f.p, u, v) = 0

\* Eliminates column by column, below and above, from row r on.
RECURSIVE RowRank(_, _, _, _)
RowRank(mat, p, r, col) ==
    IF mat = <<>> \/ r > Len(mat) \/ col > Len(mat[1]) THEN r - 1
    ELSE LET pivots == {i \in r .. Len(mat) : mat[i][col] # 0}
         IN IF pivots = {} THEN RowRank(mat, p, r, col + 1)
            ELSE LET swapped == [mat EXCEPT ![r] = mat[Min(pivots)], ![Min(pivots)] = mat[r]]
                     inverse == (swapped[r][col] ^ (p - 2)) % p
                     unit == [c \in DOMAIN mat[1] |-> (swapped[r][c] * inverse) % p]
                 IN RowRank([i \in DOMAIN mat |->
                            IF i = r THEN unit
                            ELSE [c \in DOMAIN mat[1] |->
                                    (swapped[i][c] - swapped[i][col] * unit[c]) % p]],
                         p, r + 1, col + 1)

\* For a mutant: as many rows as needed, dependent or not.
CheckLagrangianAnyRank(f) ==
    IF MatrixUnread(f) THEN "MALFORMED"
    ELSE IF f.rows # f.cols \div 2 THEN "FAIL"
    ELSE IF f.cols % 2 # 0 THEN "MALFORMED"
    ELSE IF ~GramIsZero(f) THEN "FAIL"
    ELSE "PASS"

CheckLagrangian(f) ==
    IF MatrixUnread(f) THEN "MALFORMED"
    ELSE IF f.rows # f.cols \div 2 \/ RowRank(Matrix(f), f.p, 1, 1) # f.cols \div 2 THEN "FAIL"
    ELSE IF f.cols % 2 # 0 THEN "MALFORMED"
    ELSE IF ~GramIsZero(f) THEN "FAIL"
    ELSE "PASS"

\* The planted matrix must be read, and must not be isotropic.
CheckCorrupted(f) ==
    IF MatrixUnread(f) \/ f.cols % 2 # 0 THEN "MALFORMED"
    ELSE IF GramIsZero(f) THEN "FAIL"
    ELSE "PASS"

\* All the files together, against the case of the last one's field.
CheckFiles(kit) ==
    LET last == Last(kit.files)
        cases == {c \in ToSet(kit.cases) : c.p = last.p /\ c.m = 1 /\ c.n = last.cols \div 2}
    IN IF cases = {} \/ \A c \in cases : c.lagrangians # Len(kit.files) THEN "FAIL" ELSE "PASS"

-----------------------------------------------------------------------------
(* Orbit records: [gf, q, n, subs, orbits], a line of subs [basis, orbit],  *)
(* an orbit [size, members], members the places of its lines in subs        *)

Line(o, i) == CanonLine(o.gf, o.subs[i].basis)
ImageBasis(o, i) == <<Frob(o.gf, o.subs[i].basis[1]), Frob(o.gf, o.subs[i].basis[2])>>
Image(o, i) == CanonLine(o.gf, ImageBasis(o, i))

\* The last record of a line is the one an image is looked up at.
PlaceOf(o, line) == {i \in DOMAIN o.subs : Line(o, i) = line
                                           /\ \A j \in i + 1 .. Len(o.subs) : Line(o, j) # line}

Stays(o, i) == \E j \in PlaceOf(o, Image(o, i)) : o.subs[j].orbit = o.subs[i].orbit

Moved(o) == {i \in DOMAIN o.subs : NoLine(o.gf, ImageBasis(o, i)) \/ ~Stays(o, i)}

Singletons(o) == {Head(r.members) : r \in {s \in ToSet(o.orbits) : s.size = 1}}
Fixed(o) == {i \in DOMAIN o.subs : Image(o, i) = Line(o, i)}
Subfield(o) == {i \in DOMAIN o.subs : Line(o, i) = <<0, 1>> \/ Line(o, i)[2] < o.gf.p}
Covered(o) == TotalOver([r \in DOMAIN o.orbits |-> o.orbits[r].size], DOMAIN o.orbits)

CheckOrbits(o) ==
    IF o.n # 1 THEN "PASS"
    ELSE IF \/ FieldSize(o.gf) # o.q
            \/ Len(o.subs) # LagrangianCount(o.q, 1)
            \/ Len(o.orbits) # OrbitCount(o.gf.p, o.gf.m, o.n) THEN "FAIL"
    ELSE IF \E s \in ToSet(o.subs) : NoLine(o.gf, s.basis) THEN "MALFORMED"
    ELSE IF Moved(o) # {}
         THEN IF NoLine(o.gf, ImageBasis(o, Min(Moved(o)))) THEN "MALFORMED" ELSE "FAIL"
    ELSE IF \/ Fixed(o) # Singletons(o)
            \/ Subfield(o) # Singletons(o)
            \/ Covered(o) # Len(o.subs)
            \/ \E r \in ToSet(o.orbits) : o.gf.m % r.size # 0 THEN "FAIL"
    ELSE "PASS"
=============================================================================
