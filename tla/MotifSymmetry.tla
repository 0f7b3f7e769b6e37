--------------------------- MODULE MotifSymmetry ---------------------------
(***************************************************************************)
(* scripts/phys-symmetry.py: which statements have the shape of a symmetry *)
(* (one side of a relation is the other with something applied), of an     *)
(* exchange or of a conservation law, and whether the ones cite the        *)
(* others.  A row is a record of its name, kind, module (the sequence of   *)
(* its parts), statement and the names its statement and its proof use.    *)
(* Samples are taken whole: a null is the set of all its draws.  The size  *)
(* of a statement is its number of nodes; the queries of the Rust corpus   *)
(* (skeletons, motifs, similar) and the effect sizes are left out.         *)
(***************************************************************************)
EXTENDS Terms, Folds

CONSTANTS SymmetrySlices,    \* sequences of rows
          Scopes,            \* prefixes of modules to analyse; empty means all
          Garbled,           \* a statement that does not parse
          MaxStmt,           \* nodes of a statement that is still parsed
          MaxDiffs, MaxSwaps, \* differences a wrapping, an exchange may have
          MinFamily,
          SELF_TEST          \* name -> the motif it must show, or "none"

VARIABLES slice, scope, selftest,
          nextRow,   \* the next row
          verdicts,  \* row -> what classify made of it
          analysis,  \* the phase that is next
          report
symmetryVars == <<slice, scope, selftest, nextRow, verdicts, analysis, report>>

(***************************************************************************)
(* Terms as the arena keeps them: a constant without its levels and a      *)
(* projection without its index are one node.                              *)
(***************************************************************************)
RECURSIVE Arena(_)
Arena(e) ==
    CASE Tag(e) = "c" -> <<"c", e[2], <<>>>>
      [] Tag(e) = "j" -> <<"j", e[2], "any", Arena(e[4])>>
      [] OTHER -> Rebuild(e, [i \in DOMAIN Parts(e) |-> Arena(Parts(e)[i])])

RECURSIVE Concrete(_)
Concrete(e) ==
    IF Tag(e) \in {"_", "?"} THEN 0
    ELSE 1 + FoldFunction(+, 0, [i \in DOMAIN Parts(e) |-> Concrete(Parts(e)[i])])

RECURSIVE Peel(_)
Peel(e) == IF Tag(e) = "p" THEN <<e[4]>> \o Peel(e[3]) ELSE <<>>

(* Every loose index one lower, for a term under a binder it does not use. *)
\* Faulty variant: what follows keeps the indices it had under the binder
LowerNot(e, depth) == e
RECURSIVE Lower(_, _)
Lower(e, depth) ==
    CASE Needs(e) <= depth -> e
      [] Needs(e) > depth /\ Tag(e) = "b" -> <<"b", e[2] - 1>>
      [] OTHER -> Rebuild(e, [i \in DOMAIN Parts(e) |-> Lower(Parts(e)[i], depth + Under(e, i))])

RECURSIVE Loose(_, _)
Loose(e, depth) ==
    IF Tag(e) = "b" THEN {e[2] - depth} \cap Nat
    ELSE UNION {Loose(Parts(e)[i], depth + Under(e, i)) : i \in DOMAIN Parts(e)}
MentionsZero(e) == 0 \in Loose(e, 0)

(***************************************************************************)
(* Anti-unification of the two sides of one statement                      *)
(***************************************************************************)
SameOperator(a, b) ==
    /\ Tag(a) = Tag(b)
    /\ \/ Tag(a) = "a"
       \/ Tag(a) \in {"l", "p"} /\ a[4] = b[4]
       \/ Tag(a) = "j" /\ a[2] = b[2]

(* Each pair is visited once per depth: an index names another binder when *)
(* it is one binder deeper.                                                *)
RECURSIVE Meet(_, _, _, _)
Meet(st, a, b, depth) ==
    LET s == [st EXCEPT !.seen = @ \cup {<<a, b, depth>>}]
        below == [s EXCEPT !.common = @ + 1]
    IN CASE <<a, b, depth>> \in st.seen -> st
         [] <<a, b, depth>> \notin st.seen /\ a = b -> [s EXCEPT !.common = @ + Concrete(a)]
         [] <<a, b, depth>> \notin st.seen /\ a # b /\ SameOperator(a, b) ->
                FoldLeftDomain(LAMBDA t, i : Meet(t, Parts(a)[i], Parts(b)[i], depth + Under(a, i)),
                               below, Parts(a))
         [] OTHER -> [s EXCEPT !.binds = Append(@, <<a, b>>)]
AntiUnify(l, r) == Meet([seen |-> {}, common |-> 0, binds |-> <<>>], l, r, 0)

HeadLabel(e) ==
    LET h == Spine(e).head
    IN CASE Tag(h) = "c" -> h[2] [] Tag(h) = "b" -> "?bvar"
         [] Tag(h) \in {"l", "p"} -> "?binder" [] OTHER -> "?"

(* big is small inside a context that crosses no binder; the first such    *)
(* context, arguments before functions.                                    *)
RECURSIVE Encloses(_, _)
Encloses(big, small) ==
    \/ big = small
    \/ Tag(big) = "a" /\ (Encloses(big[3], small) \/ Encloses(big[2], small))
    \/ Tag(big) = "j" /\ Encloses(big[4], small)
Wraps(big, small) == big # small /\ Encloses(big, small)

RECURSIVE Context(_, _)
Context(big, small) ==
    CASE big = small -> <<>>
      [] big # small /\ Tag(big) = "j" -> <<<<"j", big[2]>>>> \o Context(big[4], small)
      [] OTHER ->
            IF Encloses(big[3], small)
            THEN <<<<"a1", HeadLabel(big[2])>>>> \o Context(big[3], small)
            ELSE <<<<"a0", HeadLabel(big[3])>>>> \o Context(big[2], small)

(* Is one side the other with a context wrapped in, wherever they differ?  *)
Judged(binds, whole, right, left, exacts) ==
    CASE binds = <<>> -> [is |-> FALSE, why |-> "identical_sides"]
      [] Len(binds) > MaxDiffs -> [is |-> FALSE, why |-> "too_many_diffs"]
      [] Len(binds) \in 1 .. MaxDiffs /\ left \cup right # DOMAIN binds ->
             [is |-> FALSE, why |-> "diff_not_a_wrapping"]
      [] Len(binds) \in 1 .. MaxDiffs /\ left # {} /\ right # {} /\ left \cup right = DOMAIN binds ->
             [is |-> FALSE, why |-> "mixed_direction"]
      [] OTHER ->
             [is |-> TRUE, strict |-> Cardinality(exacts) = 1, nvars |-> Len(binds),
              exact |-> exacts, shape |-> {[k \in DOMAIN x |-> x[k][1]] : x \in exacts},
              direction |-> IF left = {} THEN "L<R" ELSE "R<L", whole |-> whole]
Grown(binds, n) == {k \in DOMAIN binds : Wraps(binds[k][n], binds[k][3 - n])}
Contexts(binds) ==
    {Context(binds[k][n], binds[k][3 - n]) :
        <<k, n>> \in {kn \in (DOMAIN binds) \X {1, 2} : Wraps(binds[kn[1]][kn[2]], binds[kn[1]][3 - kn[2]])}}
InvOf(binds, common) == Judged(binds, common = 0, Grown(binds, 2), Grown(binds, 1), Contexts(binds))
InvTest(l, r) == LET met == AntiUnify(l, r) IN InvOf(met.binds, met.common)

Tally(s) == [x \in Range(s) |-> Cardinality({k \in DOMAIN s : s[k] = x})]
(* Are the sides a permutation of the same parts? *)
SwapTest(l, r) ==
    LET met == AntiUnify(l, r)
        side(n) == [k \in DOMAIN met.binds |-> met.binds[k][n]]
    IN /\ met.common > 0 /\ Len(met.binds) \in 2 .. MaxSwaps
       /\ Tally(side(1)) = Tally(side(2))

(* Does one side depend on an explicit variable that the other drops?      *)
ConsTest(binders, l, r) ==
    LET n == Len(binders)
        expl == {n - i : i \in {i \in DOMAIN binders : binders[i] = "d"}}
        fl == Loose(l, 0)
        fr == Loose(r, 0)
        droppedL == (fl \ fr) \cap expl
        droppedR == (fr \ fl) \cap expl
    IN IF droppedL \cup droppedR = {} \/ Concrete(l) <= 1 \/ Concrete(r) < 1 THEN [is |-> FALSE]
       ELSE [is |-> TRUE, closed |-> IF droppedL # {} THEN fr = {} ELSE fl = {},
             direction |-> IF droppedL # {} THEN "L>R" ELSE "R>L"]

(* The antecedents and lowered consequents of the Pis nothing depends on.  *)
RECURSIVE Implications(_)
Implications(e) ==
    IF Tag(e) # "p" THEN <<>>
    ELSE (IF ~MentionsZero(e[3]) /\ Concrete(e[2]) > 2 THEN <<<<e[2], Lower(e[3], 0)>>>> ELSE <<>>)
            \o Implications(e[3])

Classify(stmt) ==
    LET root == Arena(stmt)
        binders == Peel(root)
        concl == Spine(PiBody(root))
        n == Len(concl.args)
        relational == n >= 2 /\ Tag(concl.head) = "c"
        l == concl.args[n - 1]
        r == concl.args[n]
        imps == Implications(root)
        wrapped == SelectSeq([k \in DOMAIN imps |-> InvTest(imps[k][1], imps[k][2])], LAMBDA h : h.is)
    IN [relational |-> relational,
        head |-> ConstName(concl.head), arity |-> n,
        inv |-> IF relational THEN InvTest(l, r) ELSE [is |-> FALSE],
        swap |-> relational /\ SwapTest(l, r),
        cons |-> IF relational THEN ConsTest(binders, l, r) ELSE [is |-> FALSE],
        invImp |-> IF wrapped = <<>> THEN [is |-> FALSE] ELSE wrapped[1],
        swapImp |-> \E k \in DOMAIN imps : SwapTest(imps[k][1], imps[k][2])]

(***************************************************************************)
(* Loading and the classes of rows                                         *)
(***************************************************************************)
Subfield(module) == IF Len(module) >= 2 THEN SubSeq(module, 1, 2) ELSE module
(* A prefix of a name ends where one of its parts does.                    *)
InScope(row) == scope = {} \/ \E p \in scope : IsPrefix(p, row.module)
Oversize(row) == row.stmt \notin {None, Garbled} /\ NodeCount(row.stmt) > MaxStmt
Parses(row) == row.stmt \notin {None, Garbled} /\ ~Oversize(row)

Universe == DOMAIN verdicts
Inv == {i \in Universe : verdicts[i].inv.is}
InvPos == {i \in Inv : ~verdicts[i].inv.whole}
Swap == {i \in Universe : verdicts[i].swap}
Conserved == {i \in Universe : verdicts[i].cons.is}
ConservedClosed == {i \in Conserved : verdicts[i].cons.closed}
InvImp == {i \in Universe : verdicts[i].invImp.is}
Relational == {i \in Universe : verdicts[i].relational}

(***************************************************************************)
(* The scrambled control: the left side of one, the right of another       *)
(***************************************************************************)
SideOf(i, k) == LET args == Spine(PiBody(Arena(slice[i].stmt))).args IN args[Len(args) - 2 + k]
Crossed == {ij \in Relational \X Relational : ij[1] # ij[2]}
Scramble ==
    LET hit(ij) == InvTest(SideOf(ij[1], 1), SideOf(ij[2], 2))
    IN [trials |-> Cardinality(Crossed),
        inv |-> Cardinality({ij \in Crossed : hit(ij).is}),
        whole |-> Cardinality({ij \in Crossed : hit(ij).is /\ hit(ij).whole}),
        swap |-> Cardinality({ij \in Crossed : SwapTest(SideOf(ij[1], 1), SideOf(ij[2], 2))})]

(***************************************************************************)
(* Families, against the spread of a random family of their size           *)
(***************************************************************************)
Spread(ids) == Cardinality({Subfield(slice[i].module) : i \in ids})
RECURSIVE Choose(_, _)
Choose(n, k) == IF k = 0 THEN 1 ELSE IF n < k THEN 0 ELSE (Choose(n - 1, k - 1) * n) \div k
(* The expected number of subfields among n of the population, as a        *)
(* fraction: a subfield is missed by the draws from the others.            *)
ExpectedSpread(ids, n) ==
    LET N == Cardinality(ids)
        sub(f) == {i \in ids : Subfield(slice[i].module) = f}
        all == {Subfield(slice[i].module) : i \in ids}
    IN IF n >= N THEN [num |-> Cardinality(all), den |-> 1]
       ELSE [num |-> FoldSet(LAMBDA f, sum : sum + Choose(N, n) - Choose(N - Cardinality(sub(f)), n), 0, all),
             den |-> Choose(N, n)]

Grouped(ids, key) ==
    LET fams == {{i \in ids : key[i] = key[k]} : k \in ids}
    IN {[members |-> F, subfields |-> Spread(F), expected |-> ExpectedSpread(Universe, Cardinality(F))] :
        F \in {F \in fams : Cardinality(F) >= MinFamily}}
FamiliesOf ==
    [transformation |-> Grouped(Inv, [i \in Inv |-> verdicts[i].inv.exact]),
     shape |-> Grouped(Inv, [i \in Inv |-> <<verdicts[i].head, verdicts[i].inv.shape,
                                            verdicts[i].inv.nvars, verdicts[i].inv.direction>>]),
     baseline |-> Grouped(Relational \ Inv, [i \in Relational |-> verdicts[i].head])]

(***************************************************************************)
(* Citations between classes, against a uniform and a degree-matched null  *)
(***************************************************************************)
Uses(i, lens) ==
    (IF lens \in {"statement", "both"} THEN slice[i].us ELSE <<>>)
        \o (IF lens \in {"proof", "both"} THEN slice[i].up ELSE <<>>)
(* Of rows of one name, the last is the one that is cited.                 *)
RowOf(name, ids) == Max({i \in ids : slice[i].name = name})
Adjacency(lens) ==
    [i \in Universe |->
        {RowOf(x, Universe) : x \in {x \in Range(Uses(i, lens)) :
                                       \E k \in Universe : slice[k].name = x}} \ {i}]
\* Faulty variant: exactly two steps
Reach2Exactly(adj) == [i \in DOMAIN adj |-> UNION {adj[j] : j \in adj[i]} \ {i}]
Reach2(adj) == [i \in DOMAIN adj |-> (adj[i] \cup UNION {adj[j] : j \in adj[i]}) \ {i}]
Citations(g, A, B) == FoldSet(LAMBDA i, n : n + Cardinality(g[i] \cap B), 0, A)

RECURSIVE Log(_)
Log(n) == IF n < 2 THEN 0 ELSE 1 + Log(n \div 2)
DegreeBucket(n) == IF n = 0 THEN 0 ELSE IF Log(n) + 1 < 12 THEN Log(n) + 1 ELSE 12
OutDegree(adj) == [i \in DOMAIN adj |-> Cardinality(adj[i])]
InDegree(adj) == [i \in DOMAIN adj |-> Cardinality({k \in DOMAIN adj : i \in adj[k]})]

AtMost(n, m) == IF n < m THEN n ELSE m
UniformDraws(target) == kSubset(Cardinality(target), Universe)
(* From each bucket as many as the target has in it.                       *)
MatchedDraws(target, degree) ==
    LET pool(b) == {i \in Universe : DegreeBucket(degree[i]) = b}
        one(b, draws) == LET k == AtMost(Cardinality(pool(b) \cap target), Cardinality(pool(b)))
                         IN {D \cup S : D \in draws, S \in kSubset(k, pool(b))}
    IN FoldSet(one, {{}}, {DegreeBucket(degree[i]) : i \in target})

Noether(A, B, lens) ==
    LET adj == Adjacency(lens)
        counts(g, As, Bs) == {Citations(g, AB[1], AB[2]) : AB \in As \X Bs}
        hops(g) ==
            [observed |-> Citations(g, A, B), back |-> Citations(g, B, A),
             uniform |-> counts(g, UniformDraws(A), UniformDraws(B)),
             matched |-> counts(g, MatchedDraws(A, OutDegree(adj)), MatchedDraws(B, InDegree(adj)))]
    IN [A |-> A, B |-> B, lens |-> lens, one |-> hops(adj), two |-> hops(Reach2(adj))]

Disjoint == {<<Conserved, Inv>>, <<Conserved, InvPos>>, <<ConservedClosed, Inv>>, <<ConservedClosed, InvPos>>}
Placebos == {<<Conserved, Swap>>, <<Swap, Inv>>, <<Inv, Inv>>, <<Conserved, Conserved>>, <<Conserved, InvImp>>}

(***************************************************************************)
(* Each invariance statement beside a theorem of its subfield and size     *)
(***************************************************************************)
SizeBucket(i) == AtMost(Log(NodeCount(slice[i].stmt)), 14)
Stratum(i) == <<Subfield(slice[i].module), SizeBucket(i)>>
Controls(i) == {j \in Universe \ Inv : Stratum(j) = Stratum(i)}

(***************************************************************************)
(* The run                                                                 *)
(***************************************************************************)
SymmetryInit ==
    /\ slice \in SymmetrySlices /\ scope \in Scopes /\ selftest \in BOOLEAN
    /\ nextRow = 1 /\ verdicts = <<>> /\ report = <<>>
    /\ analysis = IF selftest THEN "self" ELSE "classify"

Same == UNCHANGED <<slice, scope, selftest>>

(* Theorems in scope whose statement is there, not too large, and parses.  *)
ClassifyRow ==
    /\ analysis = "classify" /\ nextRow \in DOMAIN slice
    /\ nextRow' = nextRow + 1
    /\ verdicts' = IF InScope(slice[nextRow]) /\ slice[nextRow].kind = "theorem" /\ Parses(slice[nextRow])
                   THEN verdicts @@ (nextRow :> Classify(slice[nextRow].stmt)) ELSE verdicts
    /\ UNCHANGED <<analysis, report>> /\ Same

ScrambleControl ==
    /\ analysis = "classify" /\ nextRow \notin DOMAIN slice
    /\ analysis' = "families"
    /\ report' = "scramble" :> Scramble
    /\ UNCHANGED <<nextRow, verdicts>> /\ Same

GroupFamilies ==
    /\ analysis = "families" /\ analysis' = "noether"
    /\ report' = report @@ "families" :> FamiliesOf
    /\ UNCHANGED <<nextRow, verdicts>> /\ Same

TestNoether ==
    /\ analysis = "noether" /\ analysis' = "pairs"
    /\ LET main == {Noether(Conserved, Inv, lens) : lens \in {"statement", "proof", "both"}}
           apart == {Noether(AB[1] \ AB[2], AB[2] \ AB[1], "both") :
                     AB \in {AB \in Disjoint : AB[1] \ AB[2] # {} /\ AB[2] \ AB[1] # {}}}
           placebos == {Noether(AB[1], AB[2], "both") :
                        AB \in {AB \in Placebos : AB[1] # {} /\ AB[2] # {}}}
       IN report' = report @@ "noether" :> (main \cup apart \cup placebos)
    /\ UNCHANGED <<nextRow, verdicts>> /\ Same

PairUp ==
    /\ analysis = "pairs" /\ analysis' = "done"
    /\ \E pairs \in {f \in [{i \in Inv : Controls(i) # {}} -> Universe] :
                        \A i \in DOMAIN f : f[i] \in Controls(i)} :
         report' = report @@ "pairs" :> pairs
    /\ UNCHANGED <<nextRow, verdicts>> /\ Same

(* The hand-known lemmas of the slice; a statement that does not parse is  *)
(* an error nothing catches here.                                          *)
Shown(v) ==
    (IF v.inv.is THEN {"INV"} ELSE {}) \cup (IF v.invImp.is THEN {"INV_IMP"} ELSE {})
        \cup (IF v.swap THEN {"SWAP"} ELSE {}) \cup (IF v.cons.is THEN {"CONS"} ELSE {})
SelfTestRow ==
    /\ analysis = "self" /\ nextRow \in DOMAIN slice
    /\ nextRow' = nextRow + 1
    /\ LET row == slice[nextRow]
           asked == row.name \in DOMAIN SELF_TEST /\ row.stmt # None
       IN /\ analysis' = IF asked /\ row.stmt = Garbled THEN "raised" ELSE "self"
          /\ report' = IF asked /\ row.stmt # Garbled
                       THEN row.name :> Shown(Classify(row.stmt)) @@ report ELSE report
    /\ UNCHANGED verdicts /\ Same

SelfTestExit ==
    /\ analysis = "self" /\ nextRow \notin DOMAIN slice
    /\ LET meets(x) == IF SELF_TEST[x] = "none" THEN report[x] = {} ELSE SELF_TEST[x] \in report[x]
       IN analysis' = IF \A x \in DOMAIN report : meets(x) THEN "passed" ELSE "failed"
    /\ UNCHANGED <<nextRow, verdicts, report>> /\ Same

SymmetryNext ==
    \/ ClassifyRow \/ ScrambleControl \/ GroupFamilies \/ TestNoether \/ PairUp
    \/ SelfTestRow \/ SelfTestExit

(***************************************************************************)
(* Properties                                                              *)
(***************************************************************************)
(* Where two terms first differ, as paths.                                 *)
RECURSIVE Divergences(_, _)
Divergences(a, b) ==
    CASE a = b -> {}
      [] a # b /\ ~SameOperator(a, b) -> {<<>>}
      [] OTHER -> UNION {{<<i>> \o w : w \in Divergences(Parts(a)[i], Parts(b)[i])} : i \in DOMAIN Parts(a)}
RECURSIVE Under_(_, _)
Under_(e, w) == IF w = <<>> THEN <<e, 0>>
                ELSE LET x == Under_(Parts(e)[w[1]], Tail(w)) IN <<x[1], x[2] + Under(e, w[1])>>
Pairs(l, r) == {<<Under_(l, w)[1], Under_(r, w)[1], Under_(l, w)[2]>> : w \in Divergences(l, r)}
GrowsBy(P, n, m) == \A p \in P : Wraps(p[n], p[m])
Wrapped(l, r) ==
    LET P == Pairs(l, r)
    IN /\ P # {} /\ Cardinality(P) <= MaxDiffs
       /\ GrowsBy(P, 2, 1) \/ GrowsBy(P, 1, 2)
Exchanged(l, r) ==
    LET P == Pairs(l, r)
        parts == {p[1] : p \in P} \cup {p[2] : p \in P}
    IN /\ Cardinality(P) \in 2 .. MaxSwaps /\ <<>> \notin Divergences(l, r)
       /\ \A x \in parts : Cardinality({p \in P : p[1] = x}) = Cardinality({p \in P : p[2] = x})

(* The body of a Pi with something else for its variable. *)
RECURSIVE Instantiated(_, _, _)
Instantiated(e, depth, c) ==
    IF Tag(e) = "b" THEN (IF e[2] = depth THEN c ELSE IF e[2] > depth THEN <<"b", e[2] - 1>> ELSE e)
    ELSE Rebuild(e, [i \in DOMAIN Parts(e) |-> Instantiated(Parts(e)[i], depth + Under(e, i), c)])
RECURSIVE Steps(_)
Steps(e) == IF Tag(e) # "p" THEN {}
            ELSE {<<e[2], Instantiated(e[3], 0, Const("fresh1")), Instantiated(e[3], 0, Const("fresh2"))>>}
                    \cup Steps(e[3])

Reversed == "L<R" :> "R<L" @@ "R<L" :> "L<R"
VerdictExact(stmt, v) ==
    LET root == Arena(stmt)
        args == Spine(PiBody(root)).args
        l == args[Len(args) - 1]
        r == args[Len(args)]
        mirror == InvTest(r, l)
        steps == {s \in Steps(root) : s[2] = s[3] /\ Concrete(s[1]) > 2}
    IN /\ v.relational =>
            /\ v.inv.is <=> Wrapped(l, r)
            /\ v.inv.is => /\ v.inv.nvars = Cardinality(Pairs(l, r))
                           /\ (v.inv.direction = "L<R") = (NodeCount(l) < NodeCount(r))
                           /\ mirror.is /\ mirror.direction = Reversed[v.inv.direction]
            /\ v.swap <=> Exchanged(l, r)
            /\ ~(v.swap /\ v.inv.is)
       /\ v.invImp.is <=> \E s \in steps : Wrapped(s[1], s[2])
       /\ v.swapImp <=> \E s \in steps : Exchanged(s[1], s[2])

\* A motif is found exactly where the two sides, read by paths, differ by
\* contexts that all go one way, or by a permutation, and no statement is both;
\* an implication is one when what follows, whatever is put for the bound variable, is.
MotifsExact == \A i \in DOMAIN verdicts : VerdictExact(slice[i].stmt, verdicts[i])

(* What was observed could have been drawn, and what is expected of a      *)
(* random family is the average over all families of its size.             *)
Drawable(h) == /\ h.observed \in h.uniform /\ h.observed \in h.matched
               /\ h.matched \subseteq h.uniform
SpreadExpected(f) ==
    LET draws == kSubset(Cardinality(f.members), Universe)
    IN f.expected.num * Cardinality(draws)
         = f.expected.den * FoldSet(LAMBDA D, sum : sum + Spread(D), 0, draws)
\* The nulls are nulls: the observed count of citations is one of the draws,
\* degrees matched or not, and a family's expected spread is the mean of its draws.
NullsFair ==
    /\ analysis = "pairs" =>
         \A h \in report["noether"] : Drawable(h.one) /\ Drawable(h.two) /\ h.one.observed <= h.two.observed
    /\ analysis = "noether" =>
         \A f \in UNION {report["families"][k] : k \in DOMAIN report["families"]} : SpreadExpected(f)
    /\ analysis = "done" =>
         LET p == report["pairs"] IN Range(p) \cap Inv = {} /\ \A i \in DOMAIN p : Stratum(p[i]) = Stratum(i)

\* The motifs found are those there are, and are compared with what chance gives.
MotifsHonest == MotifsExact /\ NullsFair
=============================================================================
