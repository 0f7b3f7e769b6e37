---------------------------- MODULE GradingStudy ----------------------------
(***************************************************************************)
(* scripts/phys-dimensional.py: does a corpus carry a grading?  One        *)
(* command loads a slice, refuses it unless it is closed, and runs the     *)
(* experiments that were asked for, each on what those before it left:     *)
(* E1 finds the type whose elements index others, E2 solves the equations, *)
(* E3 holds rows out, E4 injects false identities, E6 clusters the         *)
(* declarations and E5 compares analogues with other pairs.                *)
(*                                                                         *)
(* A row of a slice is [name, path, module, kind, stmt, size, parses];     *)
(* path and module are sequences of name parts, size is that of the        *)
(* encoding.  What random draws is any choice, but for the rewiring of     *)
(* atoms and the sampling of labels, which follow a stream of numbers.     *)
(* Names that break ties in a ranking are left open.                       *)
(***************************************************************************)
EXTENDS DimensionalRun

CONSTANTS
    Commands,      \* command lines, with the slices they name
    Streams,       \* what a generator may return, as finite cycles of numbers
    Retention(_, _),   \* external: of two statements, in percent, or Unrelated
    Unrelated,
    SelfCorpus,    \* the rows of the self-test
    CAP,           \* bytes of an encoding that is still read
    CLOSURE_FLOOR, \* percent of heads that must be in the slice
    UNIT_TYPES,
    FALSE_IDENTITIES, TRIES,   \* injections wanted, and draws to find them
    PUNCTUATION,   \* a list of declarations this long says nothing
    PER_PAIR       \* draws, for each analogue, that look for another pair

ASSUME GradingAssumption ==
    /\ {CAP, CLOSURE_FLOOR, FALSE_IDENTITIES, TRIES, PUNCTUATION, PER_PAIR} \subseteq Nat
    /\ \A s \in Streams : s # <<>>

VARIABLES
    command, phase,
    decoded,     \* declaration -> what E1 read in its statement
    equations,   \* E2's: atoms and global rows
    rewired,     \* the rows of the control with its atoms shuffled
    drawn,       \* the identities drawn, then the pairs that are no analogues
    looked,      \* the pairs of theorems looked at
    measured     \* what the last experiment found

gradingVars == <<command, phase, decoded, equations, rewired, drawn, looked, measured>>

-----------------------------------------------------------------------------
(* Loading, and the gate *)

Begins(path, p) == Len(p) <= Len(path) /\ SubSeq(path, 1, Len(p)) = p
Selected(r, prefixes, modules) ==
    /\ prefixes = {} \/ \E p \in prefixes : Begins(r.path, p)
    /\ modules = {} \/ \E p \in modules : Begins(r.module, p)
LoadRows(rows, prefixes, modules) ==
    SelectSeq(rows, LAMBDA r : /\ Selected(r, prefixes, modules)
                               /\ r.stmt # None /\ r.size <= CAP /\ r.parses)

AllNames(rows) == {rows[i].name : i \in DOMAIN rows}
HeadsOf(rows) ==
    LET heads(e) == SelectSeq([i \in DOMAIN IterSpines(e) |-> ConstName(IterSpines(e)[i].head)],
                              LAMBDA n : n # "none")
    IN FlattenSeq([i \in DOMAIN rows |-> heads(rows[i].stmt)])
Covers(names, heads) ==
    \/ heads = <<>>
    \/ 100 * Len(SelectSeq(heads, LAMBDA n : n \in names)) >= CLOSURE_FLOOR * Len(heads)

(* Corpus.closure, over the whole slice. *)
CorpusClosed(rows) ==
    Covers(AllNames(rows), HeadsOf(SelectSeq(rows, LAMBDA r : r.stmt # None /\ r.parses)))
PythonClosed(rows, names) == Covers(names, HeadsOf(rows))

-----------------------------------------------------------------------------
(* E1: the type whose elements index other types *)

GROUP_CLASSES == {"Mul", "CommGroup", "Group", "CommMonoid", "Monoid", "Inv", "Div",
                  "DivisionRing", "One"}
INVERTIBLE == {"CommGroup", "Group", "Inv"}

Conclusion(stmt) ==
    LET h == Spine(PiBody(stmt)).head
    IN IF Tag(h) = "s" THEN IF h[2] = Zero_ THEN "*Prop*" ELSE "*Type*" ELSE ConstName(h)
Conclusions(rows) ==
    FoldLeft(LAMBDA concl, r : (r.name :> Conclusion(r.stmt)) @@ concl, <<>>, rows)
GroupOn(rows, T) ==
    {HeadName(PiBody(r.stmt)) :
        r \in {r \in Range(rows) : LET args == Spine(PiBody(r.stmt)).args
                                   IN args # <<>> /\ HeadName(args[1]) = T}} \cap GROUP_CLASSES
SortValued(concl) == {n \in DOMAIN concl : concl[n] = "*Type*"}
ValuedIn(concl, T) == {n \in DOMAIN concl : concl[n] = T}
Owner(concl, n) ==
    IF n \in DOMAIN concl /\ concl[n] \notin {"*Prop*", "*Type*"} THEN concl[n] ELSE "none"

(* The types that the elements of T occur as arguments of, as often. *)
FormersOver(rows, concl, T) ==
    LET uses(s) == IF ConstName(s.head) \in SortValued(concl) \ {T}
                   THEN SelectSeq(s.args, LAMBDA a : Owner(concl, HeadName(a)) = T) ELSE <<>>
        in(stmt) == FlattenSeq([i \in DOMAIN IterSpines(stmt) |->
                        LET s == IterSpines(stmt)[i]
                        IN [k \in DOMAIN uses(s) |-> ConstName(s.head)]])
    IN FlattenSeq([i \in DOMAIN rows |-> in(rows[i].stmt)])

(* Types with a group structure whose elements index others, by how many.  *)
Indexing(rows, concl) ==
    LET rank(T, formers) == <<Cardinality(Range(formers)), Len(formers)>>
    IN UNION {{[type |-> T, rank |-> rank(T, formers)] :
                  formers \in {FormersOver(rows, concl, T)} \ {<<>>}} :
              T \in {T \in Range(concl) \ {"none"} : GroupOn(rows, T) # {}}}

(* Candidates with inverses first, then by formers and by uses. *)
Carriers(rows, concl) ==
    LET inverses(T) == IF GroupOn(rows, T) \cap INVERTIBLE # {} THEN 1 ELSE 0
    IN {[c EXCEPT !.rank = <<inverses(c.type)>> \o c.rank] : c \in Indexing(rows, concl)}
Outranks(p, q) == \E i \in DOMAIN p : p[i] > q[i] /\ \A k \in 1 .. i - 1 : p[k] = q[k]
TopRanked(rows, concl) ==
    LET all == Carriers(rows, concl)
    IN {c.type : c \in {c \in all : \A o \in all : ~Outranks(o.rank, c.rank)}}

(* A term of the carrier as a vector over its leaves, as a set: empty where *)
(* the term is not made of them.                                           *)
Both(f(_, _), u, v) == {f(x, y) : x \in u, y \in v}
RECURSIVE DecodeValue(_, _)
DecodeValue(e, members) ==
    LET n == HeadName(e)
        args == Spine(e).args
        k == Len(args)
        v(i) == DecodeValue(FromEnd(args, i), members)
        exponent == NatLiteral(FromEnd(args, 1))
    IN CASE n \in MUL /\ k >= 2 -> Both(Add, v(2), v(1))
         [] n \in DIV /\ k >= 2 -> Both(Sub, v(2), v(1))
         [] n \in INV /\ k >= 1 -> Both(Sub, {NoRow}, v(1))
         [] n \in POW /\ k >= 2 -> Both(Scale, v(2), {exponent} \ {NoNumeral})
         [] n \in {"One.one", "OfNat.ofNat"} -> {NoRow}
         [] n \in members -> {Unit(n)}
         [] OTHER -> {}

(* What E1 reads in a statement, in the order it walks it. *)
Annotations(stmt, concl, T) ==
    LET members == ValuedIn(concl, T)
        here(s) == IF ConstName(s.head) \notin SortValued(concl) THEN <<>>
                    ELSE SelectSeq([i \in DOMAIN s.args |->
                             IF HeadName(s.args[i]) \in members \cup MUL \cup DIV \cup INV \cup POW
                             THEN DecodeValue(s.args[i], members) ELSE {}],
                             LAMBDA v : v # {})
    IN FlattenSeq([i \in DOMAIN IterSpines(stmt) |-> here(IterSpines(stmt)[i])])
Decoded(rows, concl, T) ==
    FoldLeft(LAMBDA found, r :
                 LET vs == Annotations(r.stmt, concl, T)
                 IN IF vs = <<>> THEN found ELSE (r.name :> CHOOSE v \in vs[1] : TRUE) @@ found,
             <<>>, rows)

-----------------------------------------------------------------------------
(* E2: the equations *)

BaseOptions(keying, literals) ==
    [rules |-> {}, bvar |-> "local", keying |-> keying, literals |-> literals]
EmptyGrading == [table |-> <<>>, grows |-> <<>>]
WithDecl(sys, r, t) ==
    LET out == EliminateLocals(r.own, {a \in Atoms(r.own) : IsLocal(a)}, Ids(t))
    IN [table |-> t, grows |-> sys.grows \o [i \in DOMAIN out |-> [row |-> out[i], decl |-> r.decl]]]
BuildSystem(rows, keying, literals) ==
    FoldLeft(LAMBDA sys, r : WithDecl(sys, r, Interned(sys.table, r.own)),
             EmptyGrading,
             [i \in DOMAIN rows |->
                 [decl |-> rows[i].name,
                  own |-> Rows(rows[i].name, rows[i].stmt, BaseOptions(keying, literals))]])
GlobalRows(sys) == [i \in DOMAIN sys.grows |-> sys.grows[i].row]
Descending(order) == [a \in DOMAIN order |-> -order[a]]

Columns(form) == UNION {DOMAIN form.pivots[c] : c \in DOMAIN form.pivots}
GradingSpace(form) == Cardinality(Columns(form)) - Rank(form)
OfWidth(form, S) == {c \in DOMAIN form.pivots : Cardinality(DOMAIN form.pivots[c]) \in S}
Shape(form, c) ==
    LET row == form.pivots[c]
    IN FoldSet(LAMBDA a, bag : (row[a] :> 1 + (IF row[a] \in DOMAIN bag THEN bag[row[a]] ELSE 0))
                               @@ bag,
               <<>>, DOMAIN row \ {c})

PairsOf(S) == UNION {{{a, b} : b \in S \ {a}} : a \in S}

(* The atoms that rows a - b = 0 tie together. *)
Merge(classes, pair) ==
    LET met == {k \in classes : k \cap pair # {}}
    IN (classes \ met) \cup {(UNION met) \cup pair}
EqualClassesUnsigned(form) ==
    FoldSet(LAMBDA c, classes : Merge(classes, DOMAIN form.pivots[c]), {}, OfWidth(form, {2}))
EqualClasses(form) ==
    LET opposite(c) == {form.pivots[c][a] : a \in DOMAIN form.pivots[c]} = {One, Minus(One)}
    IN FoldSet(LAMBDA c, classes : Merge(classes, DOMAIN form.pivots[c]),
               {}, {c \in OfWidth(form, {2}) : opposite(c)})

(* The control: atom by atom of a row, another one out of all, the same    *)
(* for all its occurrences in the row.                                     *)
ShuffleRows(rows, listing, stream) ==
    LET pool == SelectSeq(listing, LAMBDA a : a \in Atoms(rows))
        listed(row) == SelectSeq(listing, LAMBDA a : a \in DOMAIN row)
        before(i) == FoldLeft(LAMBDA n, row : n + Cardinality(DOMAIN row), 0,
                              SubSeq(rows, 1, i - 1))
        draw(n) == pool[1 + (stream[1 + (n % Len(stream))] % Len(pool))]
        swap(i) == FoldLeftDomain(
                       LAMBDA row, k : Add(row, (draw(before(i) + k) :> rows[i][listed(rows[i])[k]])),
                       NoRow, listed(rows[i]))
    IN [i \in DOMAIN rows |-> swap(i)]

Solution(form) ==
    [atoms |-> Columns(form), rank |-> Rank(form), dim |-> GradingSpace(form)]
Graded(built, mixed, order(_)) ==
    LET fit == [c \in DOMAIN built |-> Span(GlobalRows(built[c]), order(built[c].table))]
        pairs(form) == OfWidth(form, {2})
        wide(form) == DOMAIN form.pivots \ OfWidth(form, {1, 2})
        of(form) ==
            [of |-> "grading", form |-> form, solution |-> Solution(form),
             singleton |-> OfWidth(form, {1}), pairs |-> pairs(form),
             shapes |-> [c \in wide(form) |-> Shape(form, c)],
             powered |-> {c \in wide(form) : \E a \in DOMAIN form.pivots[c] :
                             form.pivots[c][a] \notin {One, Minus(One)}},
             classes |-> EqualClasses(form),
             coarse |-> Solution(fit.coarse), control |-> Solution(fit.control),
             shuffled |-> Solution(Span(mixed, order(built.own.table)))]
    IN of(fit.own)

-----------------------------------------------------------------------------
(* E3: rows held out *)

(* Which of the rows held out does a fit imply, of those whose atoms it    *)
(* mentions?                                                               *)
Held(fit, rows, test) ==
    LET covered == {i \in test : rows[i] # NoRow /\ DOMAIN rows[i] \subseteq Columns(fit)}
        implied == {i \in covered : Implies(fit, rows[i])}
        rich(S) == Cardinality({i \in S : Cardinality(DOMAIN rows[i]) >= 3})
    IN [of |-> "holdout", rows |-> rows, test |-> test, fit |-> Solution(fit),
        covered |-> covered, implied |-> implied,
        richCovered |-> rich(covered), richImplied |-> rich(implied)]
HoldOut(rows, test, order) ==
    Held(Span([i \in DOMAIN rows |-> IF i \in test THEN NoRow ELSE rows[i]], order), rows, test)
Tenth(rows) == kSubset(Min({Len(rows), Max({1, Len(rows) \div 10})}), DOMAIN rows)

-----------------------------------------------------------------------------
(* E4: false identities, and the annotations against the rows *)

Identity(pair) ==
    LET a == CHOOSE a \in pair : TRUE
    IN Sub(Unit(a), Unit(CHOOSE b \in pair : b # a))
Caught(rows, pair, order) ==
    Rank(Span(Append(rows, Identity(pair)), order)) = Rank(Span(rows, order)) + 1

Annotated(atom, found) ==
    ~IsLocal(atom) /\ atom[1] = "spine" /\ atom[2] \in DOMAIN found
CoveredRows(rows, found) ==
    {i \in DOMAIN rows : rows[i] # NoRow /\ \A a \in DOMAIN rows[i] : Annotated(a, found)}
Weighed(row, found) ==
    FoldSet(LAMBDA a, sum : Combine(sum, row[a], found[a[2]]), NoRow, DOMAIN row)
Violated(rows, found) == {i \in CoveredRows(rows, found) : Weighed(rows[i], found) # NoRow}

-----------------------------------------------------------------------------
(* E6: declarations by the atoms they mention *)

PerDecl(all) == [d \in Decls(all) |-> DeclAtoms(all, d)]
Informative(per) ==
    LET uses(a) == Cardinality({d \in DOMAIN per : a \in per[d]})
        hi == Max({3, Cardinality(DOMAIN per) \div 20})
    IN {a \in UNION Range(per) : uses(a) \in 2 .. hi}
SharedBy(per) ==
    LET posting(a) == {d \in DOMAIN per : a \in per[d]}
    IN FoldSet(LAMBDA a, shared :
                   IF Cardinality(posting(a)) > PUNCTUATION THEN shared
                   ELSE [p \in DOMAIN shared \cup PairsOf(posting(a)) |->
                            (IF p \in DOMAIN shared THEN shared[p] ELSE 0)
                                + (IF p \subseteq posting(a) THEN 1 ELSE 0)],
               <<>>, Informative(per))
PathOf(rows, d) == (CHOOSE r \in Range(rows) : r.name = d).path
SubfieldOf(rows, d) ==
    LET path == PathOf(rows, d) IN SubSeq(path, 1, Min({2, Len(path)}))
Agreeing(pairs, label) == {p \in pairs : \A a, b \in p : label[a] = label[b]}

(* How many of n random pairs may agree. *)
Baselines(decls, n, label) ==
    LET all == PairsOf(decls)
    IN {k \in 0 .. n : /\ k > 0 => Agreeing(all, label) # {}
                       /\ k < n => Agreeing(all, label) # all}
(* rng.sample of a whole list: one after the other, of those that are left. *)
Sampled(seq, stream) ==
    FoldLeftDomain(
        LAMBDA s, i : LET k == 1 + (stream[1 + (i % Len(stream))] % Len(s.left))
                      IN [left |-> RemoveAt(s.left, k), out |-> Append(s.out, s.left[k])],
        [left |-> seq, out |-> <<>>], seq).out
Relabelled(label, names, stream) ==
    \* the labels, sampled, in the order of the names
    LET labels == Sampled([i \in DOMAIN names |-> label[names[i]]], stream)
    IN [d \in DOMAIN label |-> labels[CHOOSE i \in DOMAIN names : names[i] = d]]
Cluster(per, label, mixed, base) ==
    LET shared == SharedBy(per)
        sel(k) == {p \in DOMAIN shared : shared[p] >= k}
    IN [of |-> "clusters", label |-> label, mixed |-> mixed, base |-> base, shared |-> shared,
        rate |-> [k \in 1 .. 3 |-> <<Cardinality(sel(k)), Cardinality(Agreeing(sel(k), label)),
                                     Cardinality(Agreeing(sel(k), mixed))>>],
        cross |-> DOMAIN shared \ Agreeing(DOMAIN shared, label)]

-----------------------------------------------------------------------------
(* E5: analogues and other pairs *)

UnitRow(r) == Len(r.path) >= 2 /\ r.path[1] \in UNIT_TYPES
Proposed(rows) ==
    {pair \in PairsOf({r \in Range(rows) : UnitRow(r)}) :
        \A r, s \in pair : Tail(r.path) = Tail(s.path)}
Kept(rows) ==
    {pair \in Proposed(rows) : /\ \A r \in pair : r.kind = "theorem"
                               /\ \A r, s \in pair : ShapeKey(r.stmt) = ShapeKey(s.stmt)}
UnitTheorems(rows) == {r \in Range(rows) : UnitRow(r) /\ r.kind = "theorem"}
Negative(rows, pair) ==
    /\ {pair[1], pair[2]} \notin Kept(rows)
    /\ pair[1].path[1] # pair[2].path[1]

(* Twice the area under the curve, of n * m; ties count one. *)
Auc(pos, neg) ==
    FoldLeft(LAMBDA sum, p :
                 FoldLeft(LAMBDA s, n : s + (IF p > n THEN 2 ELSE IF p = n THEN 1 ELSE 0), sum, neg),
             0, pos)
Scores(pairs, score(_, _)) ==
    SelectSeq([i \in DOMAIN pairs |-> score(pairs[i][1], pairs[i][2])], LAMBDA v : v # Unrelated)
Agreement(found, a, b) ==
    IF {a.name, b.name} \subseteq DOMAIN found
    THEN IF found[a.name] = found[b.name] THEN 1 ELSE 0 ELSE Unrelated
Jaccard(per, a, b) ==
    LET of(r) == IF r.name \in DOMAIN per THEN per[r.name] ELSE {}
        all == of(a) \cup of(b)
    IN IF all = {} THEN Unrelated
       ELSE (2520 * Cardinality(of(a) \cap of(b))) \div Cardinality(all)
Compared(pos, neg, found, per) ==
    LET auc(score(_, _)) == <<Auc(Scores(pos, score), Scores(neg, score)),
                              Len(Scores(pos, score)), Len(Scores(neg, score))>>
    IN [of |-> "analogy", pos |-> pos, neg |-> neg,
        retention |-> auc(Retention),
        agreement |-> auc(LAMBDA a, b : Agreement(found, a, b)),
        jaccard |-> auc(LAMBDA a, b : Jaccard(per, a, b))]

-----------------------------------------------------------------------------
(* The command *)

Rows_of(cmd) ==
    IF cmd.selftest THEN SelfCorpus ELSE LoadRows(cmd.rows, cmd.prefixes, cmd.modules)
ControlRows(cmd) == LoadRows(cmd.control, {}, {})
Experiments == <<"carrier", "building", "grading", "holdout", "errors", "clusters", "analogy">>
Asked(x, want) ==
    CASE x = "carrier" -> 1 \in want
      [] x \in {"building", "grading"} -> want \cap 2 .. 6 # {}
      [] x = "holdout" -> 3 \in want
      [] x = "errors" -> 4 \in want
      [] x = "clusters" -> 6 \in want
      [] OTHER -> 5 \in want
From(i) ==
    LET left == {k \in i .. Len(Experiments) : Asked(Experiments[k], command.want)}
    IN IF left = {} THEN "done" ELSE Experiments[Min(left)]
Nothing == [of |-> "nothing"]
Systems == {"own", "coarse", "control"}

GradingInit ==
    /\ command \in Commands
    /\ phase = IF command.selftest THEN "building" ELSE "closure"
    /\ decoded = <<>>
    /\ equations = [c \in Systems |-> EmptyGrading]
    /\ rewired = <<>>
    /\ drawn = <<>> /\ looked = {}
    /\ measured = Nothing

Own == GlobalRows(equations.own)
OwnIds == Ids(equations.own.table)

(* The self-test's corpus has three base dimensions, and the second form   *)
(* of its energy follows from the definitions before it.                   *)
SelfTestCorpus ==
    /\ phase = "selftest"
    /\ LET all == equations.own.grows
           rows(names) == SelectSeq(all, LAMBDA g : g.decl \in names)
           fit == Span(GlobalRows([grows |-> rows({"s_def", "p_def", "e_def"})]), OwnIds)
           ok == /\ GradingSpace(Span(Own, Descending(OwnIds))) = 3
                 /\ \A g \in Range(rows({"e_alt"})) : Implies(fit, g.row)
                 /\ \A g \in Range(all) : Holds(g.row)
       IN phase' = IF ok THEN "passed" ELSE "failed"
    /\ UNCHANGED <<command, decoded, equations, rewired, drawn, looked, measured>>

(* Two implementations of the gate; either may refuse. *)
GateClosure ==
    /\ phase = "closure"
    /\ phase' = IF \/ command.skip
                   \/ /\ CorpusClosed(command.rows)
                      /\ PythonClosed(Rows_of(command), AllNames(command.rows))
                THEN From(1) ELSE "refused"
    /\ UNCHANGED <<command, decoded, equations, rewired, drawn, looked, measured>>

DiscoverCarrier ==
    /\ phase = "carrier"
    /\ \E rows \in {Rows_of(command)} : \E concl \in {Conclusions(rows)} :
         \E T \in IF TopRanked(rows, concl) = {} THEN {"none"} ELSE TopRanked(rows, concl) :
            /\ decoded' = IF T = "none" THEN <<>> ELSE Decoded(rows, concl, T)
            /\ measured' = [of |-> "carrier", type |-> T]
    /\ phase' = From(2)
    /\ UNCHANGED <<command, equations, rewired, drawn, looked>>

(* build_system: of the slice, with atoms keyed by their heads alone, and  *)
(* of the control.                                                         *)
BuildSystems ==
    /\ phase = "building"
    /\ equations' = [c \in Systems |->
           BuildSystem(IF c = "control" THEN ControlRows(command) ELSE Rows_of(command),
                       IF c = "coarse" THEN c ELSE command.keying, command.literals)]
    /\ phase' = IF command.selftest THEN "selftest" ELSE From(3)
    /\ UNCHANGED <<command, decoded, rewired, drawn, looked, measured>>

SolveGrading ==
    /\ phase = "grading"
    /\ \E stream \in Streams, down \in BOOLEAN :
       \E mixed \in {ShuffleRows(Own, equations.own.table, stream)} :
         /\ rewired' = mixed
         /\ measured' = Graded(equations, mixed,
                               LAMBDA t : IF down THEN Descending(Ids(t)) ELSE Ids(t))
    /\ phase' = From(4)
    /\ UNCHANGED <<command, decoded, equations, drawn, looked>>

(* Of the slice, of the shuffled control or of the control slice: a        *)
(* behaviour follows one of the three.                                     *)
HoldOutRows ==
    /\ phase = "holdout"
    /\ \E rows \in {Own, rewired} \cup
                    (IF command.control = <<>> THEN {} ELSE {GlobalRows(equations.control)}) :
         \E test \in Tenth(rows) :
            measured' = HoldOut(rows, test, Ids(Listed(Atoms(rows))))
    /\ phase' = From(5)
    /\ UNCHANGED <<command, decoded, equations, rewired, drawn, looked>>

(* Two different atoms; none can be drawn from fewer. *)
Independent(pair) == ~Implies(Span(Own, OwnIds), Identity(pair))
Injected_ == SelectSeq(drawn, Independent)
DrawIdentity ==
    /\ phase = "errors"
    /\ Len(drawn) < TRIES
    /\ Len(Injected_) < FALSE_IDENTITIES
    /\ \E columns \in {Atoms(Own)} :
         IF Cardinality(columns) < 2 THEN phase' = "raised" /\ UNCHANGED drawn
         ELSE \E pair \in PairsOf(columns) : drawn' = Append(drawn, pair) /\ UNCHANGED phase
    /\ UNCHANGED <<command, decoded, equations, rewired, looked, measured>>

DetectErrors ==
    /\ phase = "errors"
    /\ Len(drawn) = TRIES \/ Len(Injected_) = FALSE_IDENTITIES
    /\ measured' = [of |-> "errors", drawn |-> Range(drawn), injected |-> Range(Injected_),
                    caught |-> {p \in Range(Injected_) : Caught(Own, p, OwnIds)},
                    checked |-> CoveredRows(Own, decoded), violated |-> Violated(Own, decoded)]
    /\ drawn' = <<>>
    /\ phase' = From(6)
    /\ UNCHANGED <<command, decoded, equations, rewired, looked>>

ClusterDecls ==
    /\ phase = "clusters"
    /\ \E per \in {PerDecl(equations.own.grows)} :
       \E label \in {[d \in DOMAIN per |-> SubfieldOf(Rows_of(command), d)]} :
         IF Cardinality(DOMAIN per) < 2 THEN phase' = "raised" /\ UNCHANGED measured
         ELSE /\ \E stream \in Streams : \E shared \in {SharedBy(per)} :
                 \E base \in Baselines(DOMAIN per, Max({1, Cardinality(DOMAIN shared)}), label) :
                    measured' = Cluster(per, label,
                                        Relabelled(label, Listed(DOMAIN per), stream), base)
              /\ phase' = From(7)
    /\ UNCHANGED <<command, decoded, equations, rewired, drawn, looked>>

(* Pairs of different theorems, until there are as many as analogues.  A   *)
(* pair that was drawn before does not count as looked at.                 *)
Enough(kept) == Len(drawn) >= kept \/ Cardinality(looked) >= PER_PAIR * kept
DrawPair ==
    /\ phase = "analogy"
    /\ \E rows \in {Rows_of(command)} :
         /\ ~Enough(Cardinality(Kept(rows)))
         /\ \E a \in UnitTheorems(rows) : \E b \in UnitTheorems(rows) \ {a} :
              /\ looked' = looked \cup {<<a, b>>}
              /\ drawn' = IF Negative(rows, <<a, b>>) THEN Append(drawn, <<a, b>>) ELSE drawn
    /\ UNCHANGED <<command, phase, decoded, equations, rewired, measured>>

CompareAnalogues ==
    /\ phase = "analogy"
    /\ \E rows \in {Rows_of(command)} : \E kept \in {Listed(Kept(rows))} :
         /\ Enough(Len(kept))
         /\ measured' = IF kept = <<>> THEN Nothing
                        ELSE Compared([i \in DOMAIN kept |-> Listed(kept[i])], drawn,
                                      decoded, PerDecl(equations.own.grows))
    /\ drawn' = <<>> /\ looked' = {}
    /\ phase' = "done"
    /\ UNCHANGED <<command, decoded, equations, rewired>>

GradingNext ==
    \/ SelfTestCorpus \/ GateClosure \/ DiscoverCarrier \/ BuildSystems \/ SolveGrading
    \/ HoldOutRows \/ DrawIdentity \/ DetectErrors \/ ClusterDecls \/ DrawPair \/ CompareAnalogues

-----------------------------------------------------------------------------
(* Properties *)

(* The gradings a solved system leaves: one for every column without pivot.*)
Gradings(form) ==
    LET grading(free) == [a \in Columns(form) |->
            IF a \in DOMAIN form.pivots THEN Minus(Get(form.pivots[a], free))
            ELSE IF a = free THEN One ELSE Zero]
    IN {grading(free) : free \in Columns(form) \ DOMAIN form.pivots}
Balances(row, g) == FoldSet(LAMBDA a, sum : Plus(sum, Times(row[a], g[a])), Zero, DOMAIN row) = Zero

(* Every grading left balances every row of the corpus; the atoms said to  *)
(* be forced dimensionless are those no grading gives a dimension, and two *)
(* atoms are in one class exactly when no grading tells them apart and no  *)
(* third quantity but an equal one defines either.                         *)
ForcedExactly ==
    measured.of = "grading" =>
        \A form \in {measured.form} : \A gs \in {Gradings(form)} :
            LET equal(a) == \/ a \notin DOMAIN form.pivots
                            \/ /\ Range(form.pivots[a]) = {One, Minus(One)}
                               /\ a \in measured.pairs
                same(a, b) == \E k \in measured.classes : {a, b} \subseteq k
            IN /\ Cardinality(gs) = measured.solution.dim
               /\ \A g \in gs : \A i \in DOMAIN Own : Balances(Own[i], g)
               /\ measured.singleton = {a \in Columns(form) : \A g \in gs : g[a] = Zero}
               /\ \A a \in Columns(form) : \A b \in Columns(form) \ {a} :
                    same(a, b) <=> equal(a) /\ equal(b) /\ \A g \in gs : g[a] = g[b]

(* Keying atoms by their head alone only ever loses gradings, and the      *)
(* shuffled control keeps the sum of every row and adds no atom to it.     *)
ControlsComparable ==
    measured.of = "grading" =>
        /\ measured.coarse.dim <= measured.solution.dim
        /\ \A i \in DOMAIN Own :
             LET weight(row) == FoldSet(LAMBDA a, sum : Plus(sum, row[a]), Zero, DOMAIN row)
             IN /\ weight(rewired[i]) = weight(Own[i])
                /\ Cardinality(DOMAIN rewired[i]) <= Cardinality(DOMAIN Own[i])

(* A fit knows no atom that only rows held out mention.  A row held out is *)
(* implied exactly when the whole system's rank does not need it, and a    *)
(* fit that left no grading implies all it covers.                         *)
HoldOutAccounted ==
    measured.of = "holdout" =>
        \A rank \in {Rank(Span(measured.rows, Ids(Listed(Atoms(measured.rows)))))} :
            LET left == {i \in measured.test : measured.rows[i] # NoRow} \ measured.implied
                kept == DOMAIN measured.rows \ measured.test
            IN /\ measured.fit.atoms \subseteq UNION {DOMAIN measured.rows[i] : i \in kept}
               /\ rank \in measured.fit.rank .. measured.fit.rank + Cardinality(left)
               /\ Cardinality(left) = 1 => rank = measured.fit.rank + 1
               /\ measured.fit.dim = 0 => measured.implied = measured.covered

(* Every false identity injected is detected; a pair is injected exactly   *)
(* when some grading tells its atoms apart.  Where the annotations of the  *)
(* quantities are their dimensions, the rows found to violate them are     *)
(* those that do not hold of the dimensions.                               *)
Right(n) == FoldSet(LAMBDA x, sum : [i \in DOMAIN sum |->
                        Plus(sum[i], Times(decoded[n][x], Whole(Truth[x][i])))],
                    [i \in DOMAIN Origin |-> Zero], DOMAIN decoded[n])
            = [i \in DOMAIN Origin |-> Whole(Truth[n][i])]
ErrorsDetected ==
    measured.of = "errors" =>
        \A gs \in {Gradings(Span(Own, OwnIds))} :
            /\ measured.caught = measured.injected
            /\ measured.injected = {p \in measured.drawn : \E g \in gs : \E a, b \in p : g[a] # g[b]}
            /\ (\A n \in DOMAIN decoded \cap DOMAIN Truth : Right(n)) =>
                 measured.violated = {i \in measured.checked : ~Holds(Own[i])}

(* The carrier found is the corpus's own type of dimensions, and what is   *)
(* read of the type of a quantity that is no function is its dimension.    *)
CarrierFound ==
    measured.of = "carrier" =>
        /\ measured.type = command.carrier
        /\ \A r \in Range(Rows_of(command)) :
             r.name \in DOMAIN decoded \cap DOMAIN Truth /\ Tag(r.stmt) # "p" => Right(r.name)

(* Declarations share what both mention, of what neither everybody nor     *)
(* only one mentions; shuffled labels agree as often over all pairs.       *)
ClustersCounted ==
    measured.of = "clusters" =>
        \A per \in {PerDecl(equations.own.grows)} :
            LET all == PairsOf(DOMAIN per)
                users(a) == Cardinality({d \in DOMAIN per : a \in per[d]})
                common(p) == {a \in UNION {per[d] : d \in p} :
                                /\ \A d \in p : a \in per[d]
                                /\ users(a) <= Min({PUNCTUATION, Max({3, Cardinality(DOMAIN per) \div 20})})}
            IN /\ measured.shared = [p \in {p \in all : common(p) # {}} |-> Cardinality(common(p))]
               /\ Cardinality(Agreeing(all, measured.mixed)) = Cardinality(Agreeing(all, measured.label))

(* The self-test never fails.                                              *)
SelfTestHolds == phase # "failed"

GradingHonest ==
    /\ ForcedExactly /\ ControlsComparable /\ HoldOutAccounted
    /\ ErrorsDetected /\ CarrierFound /\ ClustersCounted /\ SelfTestHolds
=============================================================================
