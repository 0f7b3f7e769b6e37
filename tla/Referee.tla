-------------------------------- MODULE Referee --------------------------------
(***************************************************************************)
(* The referee's checkers of the certificates (verify-certificate.py,      *)
(* verify-radical-cert.py), of the wall (strict-ncl1-band-scan.py) and of  *)
(* the GAP kit (mtxe-check.py): one invocation, one item a step, an item   *)
(* being a file of the kit or what is checked of several.                  *)
(***************************************************************************)
EXTENDS Certificates, SymplecticTables

CONSTANT Tasks  \* invocations: [script, mode, items]

VARIABLES task,    \* the invocation
          judged,  \* by item done, PASS or the code it was refused with
          exit     \* Absent while it runs

refereeVars == <<task, judged, exit>>

\* The species a script has a checker for.
Handled ==
    [certificate |-> {"counterexample", "sos"}, radical |-> {"domination", "witness"}]

\* The header [schema, model, species] before the content.
CheckBundle(script, item) ==
    IF item.head = Absent \/ ~item.head.schema THEN "MALFORMED"
    ELSE IF ~item.head.model THEN "UNSUPPORTED_MODEL"
    ELSE IF item.kind \notin Handled[script] THEN "MALFORMED"
    ELSE CASE item.kind = "counterexample" -> CheckCounterexample(item.body)
           [] item.kind = "sos" -> CheckSos(item.body)
           [] item.kind = "domination" -> CheckDomination(item.body)
           [] item.kind = "witness" -> CheckWitness(item.body)

\* A table of the GAP kit.
CheckTable(kind, table) ==
    CASE kind = "manifest" -> IF table = "ours" THEN "PASS" ELSE "MALFORMED"
      [] kind = "case" -> CheckCase(table)
      [] kind = "lagrangian" -> CheckLagrangian(table)
      [] kind = "files" -> CheckFiles(table)
      [] kind = "corrupted" -> CheckCorrupted(table)
      [] kind = "none" -> "MALFORMED"
      [] kind = "orbits" -> CheckOrbits(table)

Judge(item) ==
    CASE task.script \in DOMAIN Handled -> CheckBundle(task.script, item)
      [] task.script = "crosscheck" -> IF Differs(item) THEN "DIFFER" ELSE "PASS"
      [] task.script = "scan" -> IF ScanFails(item) THEN "FAIL" ELSE "PASS"
      [] task.script = "gap" -> CheckTable(item.kind, item.body)

RefereeInit ==
    /\ task \in Tasks
    /\ judged = <<>>
    /\ exit = Absent

\* The GAP checker ends at what it refuses, a self-test goes on.
Ended ==
    \/ Len(judged) = Len(task.items)
    \/ task.script = "gap" /\ judged # <<>> /\ Last(judged) # "PASS"

\* A file of the pinned kit that is not there is a failure of the self-test.
Missing ==
    /\ ~Ended
    /\ task.items[Len(judged) + 1] = Absent
    /\ judged' = Append(judged, "MISSING")
    /\ UNCHANGED <<task, exit>>

Check ==
    /\ ~Ended
    /\ task.items[Len(judged) + 1] # Absent
    /\ judged' = Append(judged, Judge(task.items[Len(judged) + 1]))
    /\ UNCHANGED <<task, exit>>

\* What is pinned for the items of the kit.
AsPinned == \A i \in DOMAIN judged : judged[i] = task.pinned[i]

ExitOf(code) == IF code = "PASS" THEN 0 ELSE IF code = "MALFORMED" THEN 2 ELSE 1

Compared(items) == {i \in DOMAIN items : ComparedOf(items[i]) # {}}

Finish ==
    /\ Ended /\ exit = Absent
    /\ exit' = CASE task.mode = "selftest" -> IF AsPinned THEN 0 ELSE 1
                 [] task.script = "crosscheck" ->
                      IF Compared(task.items) = {} THEN 2
                      ELSE IF \A i \in DOMAIN judged : judged[i] = "PASS" THEN 0 ELSE 1
                 [] OTHER -> ExitOf(Last(judged))
    /\ UNCHANGED <<task, judged>>

RefereeNext == Missing \/ Check \/ Finish

-----------------------------------------------------------------------------
(* References, by other means than the scripts' *)

\* The item judged last, with its verdict, if its kind is the one given.
Lately(kind) ==
    IF judged = <<>> \/ exit # Absent \/ task.script \notin {"certificate", "radical", "gap"} THEN {}
    ELSE LET item == task.items[Len(judged)]
         IN IF item # Absent /\ item.kind = kind
            THEN {[body |-> item.body, verdict |-> Last(judged)]} ELSE {}

\* Eq. (11) as it stands, the terms of the last line with their conjugates.
Eq11(cpl, phi) ==
    LET real(x) == <<x, Zero>>
        norm(k) == Inner(phi, k, k)
        there(k) == Inner(phi, Pair(k)[1], Pair(k)[2])
        back(k) == Inner(phi, Pair(k)[2], Pair(k)[1])
        phase(k) == IF k = 1 THEN <<cpl.cos, cpl.sin>> ELSE <<One, Zero>>
        turned(k) == CMul(phase(k), CMul(real(Half(cpl.d[k])), CMul(there(k), there(k))))
        line(k) == CAdd(CAdd(CMul(real(Half(cpl.a[k])), CMul(norm(k), norm(k))),
                             CMul(real(cpl.b[k]), CMul(norm(Pair(k)[1]), norm(Pair(k)[2])))),
                        CAdd(CMul(real(cpl.c[k]), CMul(there(k), back(k))),
                             CAdd(turned(k), Conj(turned(k)))))
    IN CAdd(line(1), CAdd(line(2), line(3)))

Raised(x, n) == IF n = 0 THEN One ELSE IF n = 1 THEN x ELSE Mul(x, IF n = 2 THEN x ELSE Mul(x, x))

\* A polynomial of at most three variables, of degree at most 4 in each.
ValueAt(terms, x) ==
    LET power(e) == FoldSet(LAMBDA v, acc : Mul(acc, Mul(Raised(x[v], e[v] \div 2),
                                                         Raised(x[v], e[v] - e[v] \div 2))),
                            One, DOMAIN e)
    IN SumOver([i \in DOMAIN terms |-> Mul(terms[i].coeff, power(terms[i].exps))], Len(terms))

Points == {Q(-1), Zero, <<1, 2>>, Q(2)}

Det(A, I) ==
    LET n == Cardinality(I)
        at(r, c) == A[r][c]
        i == Min(I)
        j == Max(I)
        two(r1, r2, c1, c2) == Sub(Mul(at(r1, c1), at(r2, c2)), Mul(at(r1, c2), at(r2, c1)))
    IN IF n = 1 THEN at(i, i)
       ELSE IF n = 2 THEN two(i, j, i, j)
       ELSE Add(Mul(at(1, 1), two(2, 3, 2, 3)),
                Sub(Mul(at(1, 3), two(2, 3, 1, 2)), Mul(at(1, 2), two(2, 3, 1, 3))))

\* A symmetric matrix is positive semidefinite iff its principal minors are
\* not negative.
MinorsNonnegative(A) == \A I \in (SUBSET DOMAIN A) \ {{}} : Sgn(Det(A, I)) >= 0

\* sqrt(n) = SquarePart(n) * sqrt(n \div SquarePart(n)^2), the latter squarefree.
SquarePart(n) == Max({m \in 1 .. ISqrt(n) : n % (m * m) = 0})

\* The integers under the roots, with their coefficients: a number is zero iff
\* they all are, roots of different squarefree integers being independent.
Canonical(rad, x) ==
    LET under(s) == (IF s % 2 = 1 THEN rad[1][1] ELSE 1)
                    * (IF (s \div 2) % 2 = 1 THEN rad[2][1] ELSE 1)
                    * (IF s \div 4 = 1 THEN rad[3][1] ELSE 1)
        part(s) == SquarePart(under(s))
        free(s) == under(s) \div (part(s) * part(s))
        at(n) == {s \in 0 .. 7 : free(s) = n}
    IN [n \in {free(s) : s \in 0 .. 7} |->
          FoldSet(LAMBDA s, acc : acc + x[s + 1][1] * part(s), 0, at(n))]

\* The sign that a hundredth of precision shows, or 0.
ShownSign(canon) ==
    LET hundredths == TotalOver([n \in DOMAIN canon |-> canon[n] * ISqrt(10000 * n)], DOMAIN canon)
        error == TotalOver([n \in DOMAIN canon |-> Magnitude(canon[n])], DOMAIN canon)
    IN IF hundredths > error THEN 1 ELSE IF hundredths < -error THEN -1 ELSE 0

\* The master inequality where the a's are one number, a[1], times squares:
\* its root is all that is left, the sign of the margin is one of fractions.
Commensurable(a) == \A k \in 1 .. 3 : ExactSqrt(Quot(a[k], a[1])) # Absent
RationalMargin(cpl, x) ==
    LET r == [k \in 1 .. 3 |-> ExactSqrt(Quot(cpl.a[k], cpl.a[1]))]
        y == [k \in 1 .. 3 |-> Add(cpl.b[k], x[k])]
        factor == [k \in 1 .. 3 |->
                     Add(y[k], Mul(cpl.a[1], Mul(r[Pair(k)[1]], r[Pair(k)[2]])))]
        q == Add(SumOver([k \in 1 .. 3 |-> Mul(y[k], r[k])], 3),
                 Mul(cpl.a[1], Mul(r[1], Mul(r[2], r[3]))))
        under == Mul(Q(2), Mul(factor[1], Mul(factor[2], factor[3])))
    IN IF \E k \in 1 .. 3 : Sgn(factor[k]) <= 0 THEN Absent
       ELSE IF Sgn(q) >= 0 THEN 1
       ELSE Sgn(Sub(under, Mul(cpl.a[1], Mul(q, q))))

Vectors(p, d) == [1 .. d -> 0 .. p - 1]

Span(p, rows) ==
    {[c \in DOMAIN rows[1] |->
        TotalOver([r \in DOMAIN rows |-> k[r] * rows[r][c]], DOMAIN rows) % p] :
       k \in [DOMAIN rows -> 0 .. p - 1]}

\* The totally isotropic subspaces of dimension k of GF(p)^2n, all of them.
Isotropic(p, n, k) ==
    {V \in {Span(p, rows) : rows \in [1 .. k -> Vectors(p, 2 * n)]} :
       Cardinality(V) = p ^ k /\ \A u, v \in V : Symplectic(p, u, v) = 0}

\* The subspace is its own complement.
IsLagrangian(p, V) ==
    V = {u \in Vectors(p, Len(CHOOSE v \in V : TRUE)) : \A v \in V : Symplectic(p, u, v) = 0}

\* The orbits of the Frobenius map on the places of the lines: the lines whose
\* coordinates are the p^t-th powers of one's, for some t.
Conjugates(o, i) ==
    {CanonLine(o.gf, [c \in 1 .. 2 |-> Power(o.gf, o.subs[i].basis[c], o.gf.p ^ t)]) :
       t \in 0 .. o.gf.m - 1}
TrueOrbits(o) ==
    {UNION {PlaceOf(o, line) : line \in Conjugates(o, i)} : i \in DOMAIN o.subs}

\* The record has these orbits by number, by sizes and by fixed lines, and its
\* labels split none of them.
OrbitsAre(o, orbits) ==
    /\ Cardinality(orbits) = Len(o.orbits)
    /\ \A C \in orbits : \A i, j \in C : o.subs[i].orbit = o.subs[j].orbit
    /\ {C \in orbits : Cardinality(C) = 1} = {{i} : i \in Singletons(o)}
    /\ \A s \in {Cardinality(C) : C \in orbits} :
         Cardinality({C \in orbits : Cardinality(C) = s})
           = Cardinality({r \in DOMAIN o.orbits : o.orbits[r].size = s})

-----------------------------------------------------------------------------
(* Correctness *)

\* A certificate that passes says the truth: a counterexample gives V4 of
\* Eq. (11) a value that violates the claim; the target of a sum of squares is
\* not negative where its constraints are not, and is V4 on the slice it cites.
\* A Gram matrix is refused as not semidefinite only if it is not.
CertificatesTrue ==
    /\ \A l \in Lately("counterexample") :
         LET b == l.body
         IN l.verdict = "PASS" =>
              /\ Eq11(b.couplings, b.phi) = <<b.asserted, Zero>>
              /\ Sgn(b.asserted) = -1 \/ (b.strict /\ b.asserted = Zero /\ ~ZeroDirection(b))
    /\ \A l \in Lately("sos") :
         LET b == l.body
         IN /\ l.verdict = "PASS" =>
                 \A x \in [1 .. b.vars -> Points] :
                   /\ (\A i \in DOMAIN b.constraints : Sgn(ValueAt(b.constraints[i], x)) >= 0)
                         => Sgn(ValueAt(b.target, x)) >= 0
                   /\ Bound(b) => Eq11(b.slice.couplings, Neutral(x))
                                    = <<ValueAt(b.target, Squares(x)), Zero>>
            /\ l.verdict = "PASS" => MinorsNonnegative(b.gram)
            /\ l.verdict = "GRAM_NOT_PSD" => ~MinorsNonnegative(b.gram)

\* The sign of an element is its value's, zero for zero, also where the roots
\* depend on each other; the transcriptions of NCL1 agree; where the roots are
\* multiples of one the margins, those of a boundary among them, are those of
\* rational arithmetic; and what a corner dominates follows from it, on the
\* spine all of NCL3.
SignsExact ==
    /\ \A l \in Lately("witness") :
         LET b == l.body
         IN
         /\ b.kind # "jdp_margin" /\ l.verdict \in {"PASS", "SIGN_MISMATCH"} =>
              LET canon == Canonical(b.rad, Element(b))
                  shown == ShownSign(canon)
                  computed == ComputedSign(b)
              IN /\ computed = 0 <=> \A n \in DOMAIN canon : canon[n] = 0
                 /\ shown # 0 => computed = shown
                 /\ l.verdict = "PASS" <=> computed = b.sign
         /\ b.kind = "jdp_margin" /\ l.verdict \in {"PASS", "SIGN_MISMATCH", "FACTOR_NONPOSITIVE"}
              /\ Commensurable(b.couplings.a) =>
              LET margin == RationalMargin(b.couplings, b.x)
              IN l.verdict = IF margin = Absent THEN "FACTOR_NONPOSITIVE"
                             ELSE IF margin = b.sign THEN "PASS" ELSE "SIGN_MISMATCH"
    /\ \A l \in Lately("domination") :
         LET b == l.body
             cpl == b.couplings
         IN l.verdict \in {"PASS", "CLAIM_MISMATCH", "MONOTONICITY_BROKEN"} =>
              /\ l.verdict # "MONOTONICITY_BROKEN"
              /\ (\A k \in 1 .. 3 : Root(cpl, k) # Absent) => ExactNcl1(cpl) = Ncl1(cpl).strict
              /\ ExactNcl1(cpl) =
                   \A k \in 1 .. 3 : \A q \in {cpl.b[k], Add(cpl.b[k], EOf(cpl, k))} :
                     TowerSign(cpl.a, WithRoot(k, q)) > 0
              /\ Commensurable(cpl.a) =>
                   \A x \in Range(Corners(cpl)) \cup Betas(cpl) :
                     Holds(JdpEval(cpl, x)) <=> RationalMargin(cpl, x) = 1
              /\ b.claim.spine /\ ExactNcl2(cpl) => ExactNcl3(cpl)

\* A kit that passes is what it says: its counts are those of all isotropic
\* subspaces, matrices of different spans are all the Lagrangians, and a record
\* of different lines has the Frobenius orbits by number, by sizes and by fixed
\* lines, its labels never splitting one.
KitTrue ==
    /\ \A l \in Lately("case") :
         l.verdict = "PASS" /\ l.body.m = 1 =>
           /\ Cardinality(Isotropic(l.body.p, l.body.n, l.body.n)) = l.body.lagrangians
           /\ \A k \in 1 .. l.body.n :
                Cardinality(Isotropic(l.body.p, l.body.n, k)) = l.body.isotropics[k]
    /\ \A l \in Lately("lagrangian") :
         l.verdict = "PASS" => IsLagrangian(l.body.p, Span(l.body.p, Matrix(l.body)))
    /\ \A l \in Lately("files") :
         LET spans == {Span(f.p, Matrix(f)) : f \in Range(l.body.files)}
             f == Last(l.body.files)
         IN l.verdict = "PASS" /\ Cardinality(spans) = Len(l.body.files) =>
              spans = Isotropic(f.p, f.cols \div 2, f.rows)
    /\ \A l \in Lately("orbits") :
         l.verdict = "PASS" /\ l.body.n = 1
           /\ Cardinality({Line(l.body, i) : i \in DOMAIN l.body.subs}) = Len(l.body.subs)
         => OrbitsAre(l.body, TrueOrbits(l.body))

\* Whatever passes a referee is true.
RefereesTrue == CertificatesTrue /\ KitTrue
=============================================================================
