------------------------------ MODULE Echelons ------------------------------
(***************************************************************************)
(* Sparse rational linear algebra of scripts/phys_dimlib.py and            *)
(* scripts/dim-k-attribution.py.  A row maps the atoms it mentions to      *)
(* nonzero rationals and means that the sum of the atoms' exponents,       *)
(* weighted so, is zero.  A rational is a reduced pair <<num, den>>.       *)
(***************************************************************************)
EXTENDS Integers, Sequences, FiniteSets, SequencesExt

Abs(n) == IF n < 0 THEN -n ELSE n
RECURSIVE Gcd(_, _)
Gcd(a, b) == IF b = 0 THEN a ELSE Gcd(b, a % b)

Lowest(n, d, g) == IF d < 0 THEN <<-n \div g, -d \div g>> ELSE <<n \div g, d \div g>>
Fraction(n, d) == Lowest(n, d, Gcd(Abs(n), Abs(d)))
Zero == <<0, 1>>
One == <<1, 1>>
Whole(n) == <<n, 1>>
Plus(p, q) == Fraction(p[1] * q[2] + q[1] * p[2], p[2] * q[2])
Times(p, q) == Fraction(p[1] * q[1], p[2] * q[2])
Minus(p) == <<-p[1], p[2]>>
Over(p, q) == Fraction(p[1] * q[2], p[2] * q[1])

(***************************************************************************)
(* Rows                                                                    *)
(***************************************************************************)
NoRow == <<>>
Unit(c) == c :> One
Get(row, c) == IF c \in DOMAIN row THEN row[c] ELSE Zero
Enter(row, c, v) == IF v = Zero THEN row ELSE row @@ (c :> v)
Combine(a, f, b) ==
    FoldSet(LAMBDA c, row : Enter(row, c, Plus(Get(a, c), Times(f, Get(b, c)))),
            NoRow, DOMAIN a \cup DOMAIN b)
Add(a, b) == Combine(a, One, b)
Sub(a, b) == Combine(a, Minus(One), b)
Scale(a, f) == Combine(NoRow, f, a)

(***************************************************************************)
(* Echelon: reduced row echelon form, one row at a time.  occ remembers    *)
(* which pivot rows mention a column, so that a new pivot is substituted   *)
(* back into exactly those.                                                *)
(***************************************************************************)
Echelon == [pivots |-> <<>>, occ |-> <<>>]

RECURSIVE ReduceRow(_, _)
ReduceRow(ech, row) ==
    LET hits == DOMAIN row \cap DOMAIN ech.pivots
    IN IF hits = {} THEN row
       ELSE LET hit == CHOOSE c \in hits : TRUE
            IN ReduceRow(ech, Combine(row, Minus(row[hit]), ech.pivots[hit]))

Occ(ech, c) == IF c \in DOMAIN ech.occ THEN ech.occ[c] ELSE {}
Least(S, order) == CHOOSE c \in S : \A d \in S : order[c] <= order[d]

(* The columns whose occurrence sets change: those the new row brings into *)
(* a pivot row or cancels there, and the new row's own.                    *)
BackSubstituted(ech, col, row) ==
    FoldSet(LAMBDA p, piv :
                IF col \in DOMAIN piv[p]
                THEN (p :> Combine(piv[p], Minus(piv[p][col]), row)) @@ piv
                ELSE piv,
            ech.pivots, Occ(ech, col))

Indexed(ech, monic, after, occ(_)) ==
    [pivots |-> after,
     occ |-> FoldSet(LAMBDA c, m : (c :> occ(c)) @@ m, ech.occ, DOMAIN ech.occ \cup DOMAIN monic)]

PlaceRowStale(ech, col, monic, after) ==
    LET occ(c) == Occ(ech, c) \cup (IF c \in DOMAIN monic THEN {col} ELSE {})
    IN Indexed(ech, monic, (col :> monic) @@ after, occ)

PlaceRow(ech, col, monic, after) ==
    LET was(c, p) == c \in DOMAIN ech.pivots[p]
        occ(c) == {p \in Occ(ech, c) : ~(was(c, p) /\ c \notin DOMAIN after[p])}
                  \cup {p \in DOMAIN after : ~was(c, p) /\ c \in DOMAIN after[p]}
                  \cup (IF c \in DOMAIN monic THEN {col} ELSE {})
    IN Indexed(ech, monic, (col :> monic) @@ after, occ)

InsertMonic(ech, col, monic) == PlaceRow(ech, col, monic, BackSubstituted(ech, col, monic))
InsertRow(ech, row, col) == InsertMonic(ech, col, Scale(row, Over(One, row[col])))

(* A row brings a pivot only from the columns may, in the given order. *)
AddReduced(ech, left, may, order) ==
    LET cand == DOMAIN left \cap may
    IN IF cand = {} THEN ech ELSE InsertRow(ech, left, Least(cand, order))
AddRow(ech, row, may, order) == AddReduced(ech, ReduceRow(ech, row), may, order)

Rank(ech) == Cardinality(DOMAIN ech.pivots)
Implies(ech, row) == ReduceRow(ech, row) = NoRow
Span(rows, order) ==
    FoldLeft(LAMBDA e, r : AddRow(e, r, DOMAIN order, order), Echelon, rows)

(* One declaration's rows projected onto its global atoms. *)
Project(acc, red, locals, order) ==
    IF red = NoRow THEN acc
    ELSE IF DOMAIN red \cap locals # {}
    THEN [acc EXCEPT !.ech = AddReduced(acc.ech, red, locals, order)]
    ELSE [acc EXCEPT !.out = Append(@, red)]
EliminateLocals(rows, locals, order) ==
    FoldLeft(LAMBDA acc, r : Project(acc, ReduceRow(acc.ech, r), locals, order),
             [ech |-> Echelon, out |-> <<>>], rows).out

(***************************************************************************)
(* TrackedEch: triangular elimination that keeps, beside every pivot row,  *)
(* the combination of inserted rows it is.                                 *)
(***************************************************************************)
TrackedEch == [piv |-> <<>>, n |-> 0]

RECURSIVE ReduceTracked(_, _, _)
ReduceTracked(t, row, combo) ==
    LET hits == DOMAIN row \cap DOMAIN t.piv
    IN IF hits = {} THEN [row |-> row, combo |-> combo]
       ELSE LET hit == CHOOSE c \in hits : \A d \in hits : t.piv[c].n <= t.piv[d].n
                f == Minus(row[hit])
            IN ReduceTracked(t, Combine(row, f, t.piv[hit].row),
                                Combine(combo, f, t.piv[hit].combo))

Track(t, red, col, f) ==
    [piv |-> (col :> [row |-> Scale(red.row, f), combo |-> Scale(red.combo, f), n |-> t.n])
             @@ t.piv,
     n |-> t.n + 1]
TrackReduced(t, red, order) ==
    LET col == Least(DOMAIN red.row, order)
    IN IF red.row = NoRow THEN t ELSE Track(t, red, col, Over(One, red.row[col]))
AddTracked(t, row, i, order) == TrackReduced(t, ReduceTracked(t, row, Unit(i)), order)
=============================================================================
