----------------------------- MODULE Certificates -----------------------------
(***************************************************************************)
(* The species of atlas-cert/1.  The polynomial one                        *)
(* (scripts/verify-certificate.py): the quartic V4 of the Z2xZ2            *)
(* three-Higgs-doublet model, counterexamples to its positivity, and sums  *)
(* of squares; and the scan of a wall of its couplings.  The radical one   *)
(* (scripts/verify-radical-cert.py): signs in towers of square roots.  A   *)
(* number, or a group of fields, that is missing or no rational is Absent. *)
(***************************************************************************)
EXTENDS Integers, Sequences, SequencesExt

(***************************************************************************)
(* Exact fractions in lowest terms, <<numerator, denominator>> with a      *)
(* positive denominator, and complex numbers over them, as the referee's   *)
(* scripts take them from Python's fractions.                              *)
(***************************************************************************)
RECURSIVE Gcd(_, _)
Gcd(a, b) == IF b = 0 THEN a ELSE Gcd(b, a % b)

Magnitude(n) == IF n < 0 THEN -n ELSE n

Lowest(n, d, g) == IF g = 1 THEN <<n, d>> ELSE <<n \div g, d \div g>>
Frac(n, d) == Lowest(n, d, Gcd(Magnitude(n), d))

Q(n) == <<n, 1>>
Zero == Q(0)
One == Q(1)

Neg(x) == <<-x[1], x[2]>>
Add(x, y) ==
    IF x[2] = 1 /\ y[2] = 1 THEN <<x[1] + y[1], 1>>
    ELSE Frac(x[1] * y[2] + y[1] * x[2], x[2] * y[2])
Sub(x, y) == Add(x, Neg(y))
PartsMul(x, y) == <<x[1] * y[1], x[2] * y[2]>>
Mul(x, y) ==
    IF x[2] = 1 /\ y[2] = 1 THEN <<x[1] * y[1], 1>>
    ELSE PartsMul(Frac(x[1], y[2]), Frac(y[1], x[2]))
Quot(x, y) == Mul(x, IF y[1] < 0 THEN <<-y[2], -y[1]>> ELSE <<y[2], y[1]>>)
Half(x) == Mul(x, <<1, 2>>)

Sgn(x) == IF x[1] > 0 THEN 1 ELSE IF x[1] < 0 THEN -1 ELSE 0
Size(x) == <<Magnitude(x[1]), x[2]>>
Leq(x, y) == x[1] * y[2] <= y[1] * x[2]
Smaller(x, y) == IF Leq(x, y) THEN x ELSE y

SumOver(f, n) ==
    LET upTo[i \in 0 .. n] == IF i = 0 THEN Zero ELSE Add(upTo[i - 1], f[i]) IN upTo[n]

-----------------------------------------------------------------------------
(* Complex numbers: <<real part, imaginary part>> *)

CAdd(x, y) == <<Add(x[1], y[1]), Add(x[2], y[2])>>
CMul(x, y) == <<Sub(Mul(x[1], y[1]), Mul(x[2], y[2])), Add(Mul(x[1], y[2]), Mul(x[2], y[1]))>>
Conj(x) == <<x[1], Neg(x[2])>>
Abs2(x) == Add(Mul(x[1], x[1]), Mul(x[2], x[2]))

-----------------------------------------------------------------------------

CONSTANT Absent

After(k) == (k % 3) + 1

\* The pair of indices that goes with k.
Pair(k) == <<After(k), After(After(k))>>

-----------------------------------------------------------------------------
(* The model: couplings [a, b, c, d, cos, sin], three doublets phi *)

UnitPhase(cpl) == Add(Mul(cpl.cos, cpl.cos), Mul(cpl.sin, cpl.sin)) = One

Inner(phi, j, l) ==
    CAdd(CMul(Conj(phi[j][1]), phi[l][1]), CMul(Conj(phi[j][2]), phi[l][2]))

\* Only the first of the d-terms carries the phase.
PhaseTerm(cpl, k, square) ==
    IF k = 1 THEN Sub(Mul(cpl.cos, square[1]), Mul(cpl.sin, square[2])) ELSE square[1]

V4Line(cpl, norm, cross, k) ==
    Add(Add(Half(Mul(cpl.a[k], Mul(norm[k], norm[k]))),
            Mul(cpl.b[k], Mul(norm[Pair(k)[1]], norm[Pair(k)[2]]))),
        Add(Mul(cpl.c[k], Abs2(cross[k])),
            Mul(cpl.d[k], PhaseTerm(cpl, k, CMul(cross[k], cross[k])))))

V4Of(cpl, norm, cross) == SumOver([k \in 1 .. 3 |-> V4Line(cpl, norm, cross, k)], 3)

V4(cpl, phi) ==
    V4Of(cpl, [k \in 1 .. 3 |-> Inner(phi, k, k)[1]],
         [k \in 1 .. 3 |-> Inner(phi, Pair(k)[1], Pair(k)[2])])

-----------------------------------------------------------------------------
(* Counterexamples: [couplings, phi, asserted, strict] *)

CounterexampleUnread(b) == b.couplings = Absent \/ b.phi = Absent \/ b.asserted = Absent
ZeroDirection(b) == \A k \in 1 .. 3, i \in 1 .. 2 : b.phi[k][i] = <<Zero, Zero>>
WrongArithmetic(b) == V4(b.couplings, b.phi) # b.asserted
NotNegative(b) == Sgn(V4(b.couplings, b.phi)) > (IF b.strict THEN 0 ELSE -1)

CheckCounterexample(b) ==
    IF CounterexampleUnread(b) THEN "MALFORMED"
    ELSE IF ~UnitPhase(b.couplings) THEN "PHASE_NOT_UNIT"
    ELSE IF ZeroDirection(b) THEN "ZERO_DIRECTION"
    ELSE IF WrongArithmetic(b) THEN "WRONG_ARITHMETIC"
    ELSE IF NotNegative(b) THEN "NOT_NEGATIVE"
    ELSE "PASS"

-----------------------------------------------------------------------------
(* Polynomials: coefficients, none of them zero, by exponents *)

NoTerms == [e \in {} |-> Zero]

PolyPut(poly, e, sum) ==
    IF sum = Zero THEN Restrict(poly, DOMAIN poly \ {e}) ELSE (e :> sum) @@ poly
PolyAdd(poly, e, coeff) ==
    PolyPut(poly, e, IF e \in DOMAIN poly THEN Add(poly[e], coeff) ELSE coeff)

PlusScaled(poly, scale, other) ==
    FoldSet(LAMBDA e, p : PolyAdd(p, e, Mul(scale, other[e])), poly, DOMAIN other)

Poly(terms) == FoldLeft(LAMBDA p, t : PolyAdd(p, t.exps, t.coeff), NoTerms, terms)

-----------------------------------------------------------------------------
(* Sums of squares: [vars, target, constraints, multipliers, basis, gram,   *)
(* slice], a polynomial as a list of terms, the slice Absent if not cited   *)

SosUnread(b) ==
    \/ b.target = Absent \/ b.basis = Absent \/ b.gram = Absent
    \/ Absent \in ToSet(b.constraints) \/ Absent \in ToSet(b.multipliers)
    \/ Len(b.constraints) # Len(b.multipliers)
    \/ Len(b.basis) = 0 \/ Len(b.gram) # Len(b.basis)
    \/ \E i \in DOMAIN b.gram : Len(b.gram[i]) # Len(b.basis)

NegativeMultiplier(b) == \E i \in DOMAIN b.multipliers : Sgn(b.multipliers[i]) < 0

Remainder(b) ==
    FoldLeft(LAMBDA p, i : PlusScaled(p, Neg(b.multipliers[i]), Poly(b.constraints[i])),
             Poly(b.target), [i \in DOMAIN b.multipliers |-> i])

Product(e, f) == [v \in DOMAIN e |-> e[v] + f[v]]

Expansion(b) ==
    FoldSet(LAMBDA ij, p : PolyAdd(p, Product(b.basis[ij[1]], b.basis[ij[2]]),
                                   b.gram[ij[1]][ij[2]]),
            NoTerms, {ij \in (DOMAIN b.basis) \X (DOMAIN b.basis) : b.gram[ij[1]][ij[2]] # Zero})

ClaimMismatch(b) == Remainder(b) # Expansion(b)

NotSymmetric(b) == \E i, j \in DOMAIN b.gram : b.gram[i][j] # b.gram[j][i]

\* For a mutant: the first draft, which wrote a row's entries to their mirror
\* images as well, the pivot row's among them, so that the diagonal stayed.
EliminateMirrored(A, i) ==
    IF A[i][i] = Zero THEN A
    ELSE [r \in DOMAIN A |->
            IF r <= i THEN A[r]
            ELSE [c \in DOMAIN A |->
                    IF c < i \/ c = r THEN A[r][c]
                    ELSE Sub(A[r][c], Mul(Quot(A[r][i], A[i][i]), A[i][c]))]]

\* One step of the elimination: whole rows, below the pivot's.
Eliminate(A, i) ==
    IF A[i][i] = Zero THEN A
    ELSE [r \in DOMAIN A |->
            IF r <= i THEN A[r]
            ELSE [c \in DOMAIN A |->
                    IF c < i THEN A[r][c]
                    ELSE Sub(A[r][c], Mul(Quot(A[r][i], A[i][i]), A[i][c]))]]

RECURSIVE BadPivot(_, _)
BadPivot(A, i) ==
    /\ i <= Len(A)
    /\ \/ Sgn(A[i][i]) < 0
       \/ A[i][i] = Zero /\ \E j \in i + 1 .. Len(A) : A[i][j] # Zero
       \/ BadPivot(Eliminate(A, i), i + 1)

NotPsd(b) == BadPivot(b.gram, 1)

\* V4 on Phi_k = (0, x_k), in the squares of the x_k.
NeutralSlice(cpl) ==
    LET square(k) == [v \in 1 .. 3 |-> IF v = k THEN 2 ELSE 0]
        cross(k) == [v \in 1 .. 3 |-> IF v = k THEN 0 ELSE 1]
        d(k) == IF k = 1 THEN Mul(cpl.d[k], cpl.cos) ELSE cpl.d[k]
    IN FoldSet(LAMBDA k, p : PolyAdd(PolyAdd(p, square(k), Half(cpl.a[k])), cross(k),
                                     Add(Add(cpl.b[k], cpl.c[k]), d(k))),
               NoTerms, 1 .. 3)

Bound(b) == b.slice # Absent
SliceUnread(b) == Bound(b) /\ (~b.slice.named \/ b.vars # 3 \/ b.slice.couplings = Absent)
SlicePhase(b) == Bound(b) /\ ~UnitPhase(b.slice.couplings)
SliceMismatch(b) == Bound(b) /\ NeutralSlice(b.slice.couplings) # Poly(b.target)

CheckSos(b) ==
    IF SosUnread(b) THEN "MALFORMED"
    ELSE IF NegativeMultiplier(b) THEN "NEG_MULTIPLIER"
    ELSE IF ClaimMismatch(b) THEN "CLAIM_MISMATCH"
    ELSE IF NotSymmetric(b) THEN "GRAM_NOT_SYMMETRIC"
    ELSE IF NotPsd(b) THEN "GRAM_NOT_PSD"
    ELSE IF SliceUnread(b) THEN "MALFORMED"
    ELSE IF SlicePhase(b) THEN "PHASE_NOT_UNIT"
    ELSE IF SliceMismatch(b) THEN "CLAIM_MISMATCH"
    ELSE "PASS"

-----------------------------------------------------------------------------
(* strict-ncl1-band-scan.py: a third transcription of NCL1, and the scan of *)
(* the wall on which its strict form fails while V4 is not negative         *)

ISqrt(n) == CHOOSE r \in 0 .. n : r * r <= n /\ (r + 1) * (r + 1) > n

\* The root of a fraction, Absent if it is not rational.
ExactSqrt(x) ==
    LET root == <<ISqrt(x[1]), ISqrt(x[2])>>
    IN IF Sgn(x) < 0 \/ Mul(root, root) # x THEN Absent ELSE root

V4FromNorms(cpl, n) ==
    SumOver([k \in 1 .. 3 |-> Add(Half(Mul(cpl.a[k], Mul(n[k], n[k]))),
                                  Mul(cpl.b[k], Mul(n[Pair(k)[1]], n[Pair(k)[2]])))], 3)

Root(cpl, k) == ExactSqrt(Mul(cpl.a[Pair(k)[1]], cpl.a[Pair(k)[2]]))

\* NCL1 with > or with >=, and the first b-bar; the roots are rational.
Ncl1(cpl) ==
    LET bbar(k) == Add(cpl.b[k], Root(cpl, k))
        e(k) == Sub(cpl.c[k], Size(cpl.d[k]))
        least(k) == Smaller(cpl.a[k], Smaller(bbar(k), Add(bbar(k), e(k))))
    IN [strict |-> \A k \in 1 .. 3 : Sgn(least(k)) > 0,
        nonstrict |-> \A k \in 1 .. 3 : Sgn(least(k)) >= 0,
        bbar1 |-> bbar(1)]

Neutral(x) == [k \in 1 .. 3 |-> << <<Zero, Zero>>, <<x[k], Zero>> >>]
Squares(x) == [k \in 1 .. 3 |-> Mul(x[k], x[k])]

Couplings(a, b) ==
    [a |-> a, b |-> b, c |-> <<Zero, Zero, Zero>>, d |-> <<Zero, Zero, Zero>>,
     cos |-> One, sin |-> Zero]

Wall(p, m, n) ==
    Couplings(Squares(<<p, m, n>>), <<Neg(Mul(m, n)), Zero, Zero>>)

\* The witness of the scan, moved off the wall by delta.
Witness(delta) == Couplings(<<One, One, One>>, <<Add(Q(-1), delta), Zero, Zero>>)

Values(cpl, field) == {V4FromNorms(cpl, Squares(x)) : x \in [1 .. 3 -> field]}
Flat(values) == Zero \in values /\ \A v \in values : Sgn(v) >= 0

\* A scan: the grid of the fields, full doublets, the values of the wall's
\* parameters, and how far off the controls are.
GridNegative(s) == \E x \in [1 .. 3 -> s.field] : Sgn(V4(Witness(Zero), Neutral(x))) < 0
OracleDiffers(s) ==
    \E x \in [1 .. 3 -> s.field] :
      V4(Witness(Zero), Neutral(x)) # V4FromNorms(Witness(Zero), Squares(x))
NotFlat(s) == ~Flat({V4(Witness(Zero), Neutral(x)) : x \in [1 .. 3 -> s.field]})
RayLifted(s) ==
    LET none == <<Zero, Zero>>
        unit == <<One, Zero>>
    IN V4(Witness(Zero), << <<none, none>>, <<none, unit>>, <<unit, none>> >>) # Zero
DoubletNegative(s) == \E phi \in s.doublets : Sgn(V4(Witness(Zero), phi)) < 0
WitnessOffWall(s) == Ncl1(Witness(Zero)).bbar1 # Zero
StrictHolds(s) == Ncl1(Witness(Zero)).strict
NonstrictFails(s) == ~Ncl1(Witness(Zero)).nonstrict
BandBroken(s) ==
    \E p, m, n \in s.base :
      LET ncl1 == Ncl1(Wall(p, m, n))
      IN ~(/\ ncl1.bbar1 = Zero /\ ~ncl1.strict /\ ncl1.nonstrict
           /\ Flat(Values(Wall(p, m, n), s.field)))
InteriorFails(s) ==
    LET ncl1 == Ncl1(Witness(s.delta))
    IN ~(/\ ncl1.bbar1 = s.delta /\ ncl1.strict
         /\ \A v \in Values(Witness(s.delta), s.field) : Sgn(v) >= 0)
ExteriorHolds(s) ==
    LET outside == Witness(Neg(s.delta))
        ncl1 == Ncl1(outside)
    IN ~(/\ ncl1.bbar1 = Neg(s.delta) /\ ~ncl1.strict /\ ~ncl1.nonstrict
         /\ Sgn(V4FromNorms(outside, <<Zero, One, One>>)) < 0)

ScanFails(s) ==
    \/ GridNegative(s) \/ OracleDiffers(s) \/ NotFlat(s) \/ RayLifted(s) \/ DoubletNegative(s)
    \/ WitnessOffWall(s) \/ StrictHolds(s) \/ NonstrictFails(s) \/ BandBroken(s)
    \/ InteriorFails(s) \/ ExteriorHolds(s)

-----------------------------------------------------------------------------
(***************************************************************************)
(* The radical species (scripts/verify-radical-cert.py): arithmetic and    *)
(* signs in the field of the roots of three positive fractions, and the    *)
(* conditions NCL1, NCL2 and NCL3 of the 3HDM quartic.  An element is the  *)
(* sequence of its eight coefficients; coefficient s + 1 belongs to the    *)
(* product of the roots whose bits are set in s.                           *)
(***************************************************************************)
Rational(q) == [s \in 1 .. 8 |-> IF s = 1 THEN q ELSE Zero]

Plus(x, y) == [s \in DOMAIN x |-> Add(x[s], y[s])]
Times(d, x) == [s \in DOMAIN x |-> Mul(d, x[s])]
Minus(x, y) == Plus(x, Times(Q(-1), y))

\* The halves: x = Low(x) + High(x) * the root of rad[Level(x)].
Low(x) == SubSeq(x, 1, Len(x) \div 2)
High(x) == SubSeq(x, Len(x) \div 2 + 1, Len(x))
Level(x) == IF Len(x) = 2 THEN 1 ELSE IF Len(x) = 4 THEN 2 ELSE 3

RECURSIVE TowerMul(_, _, _)
TowerMul(rad, x, y) ==
    IF Len(x) = 1 THEN <<Mul(x[1], y[1])>>
    ELSE LET times(u, v) == TowerMul(rad, u, v)
         IN Plus(times(Low(x), Low(y)), Times(rad[Level(x)], times(High(x), High(y))))
              \o Plus(times(Low(x), High(y)), times(High(x), Low(y)))

\* For a mutant: the radicand forgotten.
NormUnscaled(rad, x) ==
    Minus(TowerMul(rad, Low(x), Low(x)), TowerMul(rad, High(x), High(x)))

\* u^2 - r * v^2, for x = u + v * the root of r.
Norm(rad, x) ==
    Minus(TowerMul(rad, Low(x), Low(x)), Times(rad[Level(x)], TowerMul(rad, High(x), High(x))))

RECURSIVE TowerSign(_, _)
TowerSign(rad, x) ==
    IF Len(x) = 1 THEN Sgn(x[1])
    ELSE LET su == TowerSign(rad, Low(x))
             sv == TowerSign(rad, High(x))
         IN IF sv = 0 THEN su
            ELSE IF su = 0 \/ su = sv THEN sv
            ELSE su * TowerSign(rad, Norm(rad, x))

\* The sign of q plus the root of r, Absent if r is negative.
SqrtSign(rad, q, r, sq, sr) ==
    IF sr < 0 THEN Absent
    ELSE IF sr = 0 THEN sq
    ELSE IF sq >= 0 THEN 1
    ELSE TowerSign(rad, Minus(r, TowerMul(rad, q, q)))
PlusSqrtSign(rad, q, r) == SqrtSign(rad, q, r, TowerSign(rad, q), TowerSign(rad, r))

-----------------------------------------------------------------------------
(* The conditions *)

EOf(cpl, k) == Sub(cpl.c[k], Size(cpl.d[k]))

Monomial(roots, coeff) ==
    LET bit(k) == IF k \in roots THEN 2 ^ (k - 1) ELSE 0
    IN [s \in 1 .. 8 |-> IF s = 1 + bit(1) + bit(2) + bit(3) THEN coeff ELSE Zero]

\* q plus the root of the two a's that go with k.
WithRoot(k, q) == Plus(Rational(q), Monomial({Pair(k)[1], Pair(k)[2]}, One))

BBar(cpl, k) == WithRoot(k, cpl.b[k])

Linear(f) ==
    Plus(Plus(Monomial({1, 2, 3}, One), Monomial({1}, f[1])),
         Plus(Monomial({2}, f[2]), Monomial({3}, f[3])))

ABar(cpl) == Linear(cpl.b)

\* The master inequality at x: the signs of the factors under its root, whether
\* they are all positive, and then the sign of its margin.
Radicand(rad, factor) ==
    FoldLeft(LAMBDA x, y : TowerMul(rad, x, y), Rational(Q(2)), factor)
Margin(cpl, shifted, factor, real) ==
    [real |-> real,
     margin |-> IF real THEN PlusSqrtSign(cpl.a, Linear(shifted), Radicand(cpl.a, factor))
                        ELSE Absent]
JdpEval(cpl, x) ==
    LET shifted == [k \in 1 .. 3 |-> Add(cpl.b[k], x[k])]
        factor == [k \in 1 .. 3 |-> WithRoot(k, shifted[k])]
    IN Margin(cpl, shifted, factor, \A k \in 1 .. 3 : TowerSign(cpl.a, factor[k]) > 0)

Holds(eval) == eval.real /\ eval.margin = 1

Corners(cpl) ==
    [k \in 1 .. 3 |-> [i \in 1 .. 3 |-> IF i = k THEN EOf(cpl, k) ELSE Zero]]

\* The seven vectors of the placement that puts the phase at index p.
Options(cpl, p) ==
    LET idx == <<p, Pair(p)[1], Pair(p)[2]>>
        c(s) == cpl.c[idx[s]]
        d(s) == cpl.d[idx[s]]
        e(s) == EOf(cpl, idx[s])
        dcos == Mul(d(1), cpl.cos)
        dsin == Size(Mul(d(1), cpl.sin))
        slots == << <<Add(c(1), dcos), Add(c(2), d(2)), Add(c(3), d(3))>>,
                    <<Add(c(1), dcos), Sub(c(2), d(2)), Sub(c(3), d(3))>>,
                    <<Sub(c(1), dcos), Sub(c(2), d(2)), Add(c(3), d(3))>>,
                    <<Sub(c(1), dcos), Add(c(2), d(2)), Sub(c(3), d(3))>>,
                    <<Sub(c(1), Size(dcos)), c(2), c(3)>>,
                    <<Sub(c(1), dsin), c(2), e(3)>>,
                    <<Sub(c(1), dsin), e(2), c(3)>> >>
    IN [row \in 1 .. 7 |-> [i \in 1 .. 3 |-> slots[row][CHOOSE s \in 1 .. 3 : idx[s] = i]]]

Betas(cpl) == UNION {Range(Options(cpl, p)) : p \in 1 .. 3}

Positive(cpl) == \A k \in 1 .. 3 : Sgn(cpl.a[k]) > 0

\* q plus the root of r is positive, both rational.
PlusSqrtPositive(q, r) == Sgn(q) > 0 \/ ~Leq(r, Mul(q, q))

ExactNcl1(cpl) ==
    /\ Positive(cpl)
    /\ \A k \in 1 .. 3 :
         LET product == Mul(cpl.a[Pair(k)[1]], cpl.a[Pair(k)[2]])
         IN /\ PlusSqrtPositive(cpl.b[k], product)
            /\ PlusSqrtPositive(Add(cpl.b[k], EOf(cpl, k)), product)

ExactNcl2(cpl) == Positive(cpl) /\ \A k \in 1 .. 3 : Holds(JdpEval(cpl, Corners(cpl)[k]))
ExactNcl3(cpl) == Positive(cpl) /\ \A x \in Betas(cpl) : Holds(JdpEval(cpl, x))

-----------------------------------------------------------------------------
(* Dominations: [couplings, claim], the claim [corner, spine] with its      *)
(* verdicts [dominates, ncl2, ncl3], each of them Absent if not claimed     *)

Evaluation(b) ==
    LET corners == Corners(b.couplings)
        from == corners[b.claim.corner]
    IN [corners |-> [k \in 1 .. 3 |-> Holds(JdpEval(b.couplings, corners[k]))],
        betas |-> {[dominated |-> \A k \in 1 .. 3 : Leq(from[k], v[k]),
                    holds |-> Holds(JdpEval(b.couplings, v))] : v \in Betas(b.couplings)}]

DominatesAll(eval) == \A v \in eval.betas : v.dominated
Ncl2(eval) == \A k \in 1 .. 3 : eval.corners[k]
Ncl3(eval) == \A v \in eval.betas : v.holds

\* If the inequality holds at the corner, it holds at whatever that dominates.
MonotonicityBroken(b, eval) ==
    eval.corners[b.claim.corner] /\ \E v \in eval.betas : v.dominated /\ ~v.holds

OffSpine(b) ==
    \/ b.couplings.cos # One \/ b.couplings.sin # Zero
    \/ \E k \in 1 .. 3 : Sgn(EOf(b.couplings, k)) < 0

CheckEvaluation(b, eval) ==
    IF \/ b.claim.spine /\ ~DominatesAll(eval)
       \/ b.claim.dominates \notin {Absent, DominatesAll(eval)}
    THEN "DOMINATION_BROKEN"
    ELSE IF MonotonicityBroken(b, eval) THEN "MONOTONICITY_BROKEN"
    ELSE IF \/ b.claim.ncl2 \notin {Absent, Ncl2(eval)}
            \/ b.claim.ncl3 \notin {Absent, Ncl3(eval)}
    THEN "CLAIM_MISMATCH"
    ELSE "PASS"

CheckDomination(b) ==
    IF b.couplings = Absent \/ b.claim = Absent THEN "MALFORMED"
    ELSE IF ~UnitPhase(b.couplings) THEN "PHASE_NOT_UNIT"
    ELSE IF ~Positive(b.couplings) THEN "A_NOT_POSITIVE"
    ELSE IF b.claim.corner \notin 1 .. 3 THEN "MALFORMED"
    ELSE IF b.claim.spine /\ OffSpine(b) THEN "NOT_ON_SPINE"
    ELSE CheckEvaluation(b, Evaluation(b))

-----------------------------------------------------------------------------
(* Witnesses: [rad, kind, elem, couplings, k, x, sign] *)

Element(b) ==
    CASE b.kind = "coeffs" -> b.elem
      [] b.kind = "b_bar" -> BBar(b.couplings, b.k)
      [] b.kind = "a_bar" -> ABar(b.couplings)

ComputedSign(b) ==
    IF b.kind = "jdp_margin" THEN JdpEval(b.couplings, b.x).margin
    ELSE TowerSign(b.rad, Element(b))

\* What the couplings an expression cites are refused for.
CheckCited(b) ==
    IF b.couplings = Absent THEN "MALFORMED"
    ELSE IF ~UnitPhase(b.couplings) THEN "PHASE_NOT_UNIT"
    ELSE IF b.couplings.a # b.rad THEN "CLAIM_MISMATCH"
    ELSE "PASS"

CheckExpression(b) ==
    CASE b.kind = "coeffs" -> IF b.elem = Absent THEN "MALFORMED" ELSE "PASS"
      [] b.kind \in {"a_bar", "b_bar", "jdp_margin"} ->
           IF CheckCited(b) # "PASS" THEN CheckCited(b)
           ELSE IF \/ b.kind = "b_bar" /\ b.k \notin 1 .. 3
                   \/ b.kind = "jdp_margin" /\ b.x = Absent THEN "MALFORMED"
           ELSE IF b.kind = "jdp_margin" /\ ~JdpEval(b.couplings, b.x).real
                THEN "FACTOR_NONPOSITIVE"
           ELSE "PASS"
      [] OTHER -> "MALFORMED"

CheckWitness(b) ==
    IF b.rad = Absent THEN "MALFORMED"
    ELSE IF \E k \in 1 .. 3 : Sgn(b.rad[k]) <= 0 THEN "A_NOT_POSITIVE"
    ELSE IF b.sign \notin -1 .. 1 THEN "MALFORMED"
    ELSE IF CheckExpression(b) # "PASS" THEN CheckExpression(b)
    ELSE IF ComputedSign(b) # b.sign THEN "SIGN_MISMATCH"
    ELSE "PASS"

-----------------------------------------------------------------------------
(* Candidates of fathom's results, for the cross-check: [couplings] and     *)
(* what fathom recorded, Absent if it did not: [bbar, strict, exact, false2, *)
(* gbar], or the document's [ncl1, ncl2, ncl3]                              *)

GBar(cpl) == WithRoot(1, Sub(Add(cpl.b[1], Smaller(Zero, cpl.c[1])), Size(cpl.d[1])))

\* What the tower says of each thing fathom may have recorded.
Ours(cpl, thing) ==
    CASE thing = "bbar" -> TowerSign(cpl.a, BBar(cpl, 1))
      [] thing \in {"strict", "exact", "ncl1"} -> ExactNcl1(cpl)
      [] thing = "false2" -> ~ExactNcl2(cpl)
      [] thing = "gbar" -> TowerSign(cpl.a, GBar(cpl))
      [] thing = "ncl2" -> ExactNcl2(cpl)
      [] thing = "ncl3" -> ExactNcl3(cpl)

ComparedOf(cand) ==
    IF cand.couplings = Absent THEN {}
    ELSE {t \in DOMAIN cand.recorded : cand.recorded[t] # Absent}
Differs(cand) == \E t \in ComparedOf(cand) : Ours(cand.couplings, t) # cand.recorded[t]
=============================================================================
