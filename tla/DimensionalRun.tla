--------------------------- MODULE DimensionalRun ---------------------------
(***************************************************************************)
(* The grading solver as scripts/phys-calculus.py (build_system, solve,    *)
(* classify), scripts/phys-dimensional.py and scripts/dim-k-attribution.py *)
(* run it: the declarations are read one after another and projected onto  *)
(* global atoms, their rows are inserted into one echelon form, and every  *)
(* recovered relation is attributed to declarations.                       *)
(***************************************************************************)
EXTENDS DimExtractor

(***************************************************************************)
(* What the dimensions of a statement really are: the reference against    *)
(* which the extracted rows are checked.  A dimension is a tuple of        *)
(* integer exponents of the base dimensions.  Truth gives every quantity   *)
(* constant the dimension of its values and every carrier type the one of  *)
(* its elements.  Binders are read through an environment, never through a *)
(* shared name, which is where the reference and the code differ.          *)
(***************************************************************************)
CONSTANTS Truth, Dimensions

ASSUME TruthAssumption == \A n \in DOMAIN Truth : Truth[n] \in Dimensions

Origin == [i \in DOMAIN (CHOOSE d \in Dimensions : TRUE) |-> 0]
Sums(S, T) == {[i \in DOMAIN s |-> s[i] + t[i]] : s \in S, t \in T}
Differences(S, T) == {[i \in DOMAIN s |-> s[i] - t[i]] : s \in S, t \in T}
Multiples(S, k) ==
    {d \in Dimensions : \E s \in S : \A i \in DOMAIN s : k[2] * d[i] = k[1] * s[i]}

(* The dimensions a term can have, none where it is not homogeneous. *)
RECURSIVE Possible(_, _)
Values(f, S, env) ==
    IF Tag(f) = "l" THEN UNION {Possible(f[3], <<d>> \o env) : d \in S}
                    ELSE Possible(f, env)

Quotient(f, x, k, env) ==
    UNION {Differences(Values(f, {d}, env), Multiples({d}, k)) : d \in Possible(x, env)}

Ruled(rule, args, env) ==
    LET a(i) == Arg(rule, args, i)
        p(i) == Possible(a(i), env)
    IN CASE rule.form = "derivative" -> Quotient(a(1), a(2), One, env)
         [] rule.form = "iterated" -> Quotient(a(1), a(2), RatLiteral(a(3)), env)
         [] rule.form = "integral" ->
                UNION {Sums(Values(a(2), {d}, env), {d}) : d \in p(1)}
         [] rule.form = "interval" ->
                UNION {Sums(Values(a(1), {d}, env), {d}) : d \in p(2) \cap p(3)}
         [] rule.form = "values" -> Values(a(1), Dimensions, env)
         [] rule.form = "same" -> p(1)
         [] rule.form = "alike" -> p(1) \cap p(2)
         [] rule.form = "root" -> Multiples(p(1), <<1, 2>>)
         [] rule.form = "power" -> Multiples(p(1), RatLiteral(a(2)))
         [] rule.form = "product" -> Sums(p(1), p(2))
         [] OTHER -> IF HeadName(a(3)) \in LINEAR_BUNDLES THEN Sums(p(1), p(2)) ELSE p(1)

Everything == [rules |-> FAMILIES]
Possible(e, env) ==
    LET s == Spine(e)
        n == ConstName(s.head)
        p(k) == Possible(FromEnd(s.args, k), env)
        v == RatLiteral(e)
        k == RatLiteral(FromEnd(s.args, 1))
    IN CASE v # NoNumeral -> IF v \in {Zero, One} THEN Dimensions ELSE {Origin}
         [] n \in DOMAIN Truth -> {Truth[n]}
         [] Tag(s.head) = "b" -> {env[s.head[2] + 1]}
         [] n \in ADD -> p(2) \cap p(1)
         [] n \in MUL -> Sums(p(2), p(1))
         [] n \in DIV -> Differences(p(2), p(1))
         [] n \in INV -> Differences({Origin}, p(1))
         [] n \in NEG \/ n \in CAST -> p(1)
         [] n \in POW /\ k # NoNumeral -> Multiples(p(2), k)
         [] Fires(ValueRules, n, s.args, Everything) -> Ruled(ValueRules[n], s.args, env)
         [] OTHER -> Dimensions

(* A statement is consistent when its binders can be given dimensions that *)
(* make both sides of every equation agree.                                *)
Carried(A) == IF HeadName(A) \in DOMAIN Truth THEN {Truth[HeadName(A)]} ELSE Dimensions

RECURSIVE Consistent(_, _)
Consistent(e, env) ==
    LET s == Spine(e)
        n == ConstName(s.head)
    IN CASE n = "Eq" -> Possible(s.args[2], env) \cap Possible(s.args[3], env) # {}
         [] Fires(PropRules, n, s.args, Everything) ->
                LET r == PropRules[n]
                IN Possible(Arg(r, s.args, 3), env) \cap Ruled(r, s.args, env) # {}
         [] Tag(e) \in {"p", "l"} ->
                Consistent(e[2], env) /\ \E d \in Carried(e[2]) : Consistent(e[3], <<d>> \o env)
         [] OTHER -> \A i \in DOMAIN Branches(e) : Consistent(Branches(e)[i], env)

(***************************************************************************)
(* Which binder every bound variable refers to.  Two of them may share an  *)
(* absolute index; a statement keeps its binders apart when those that do  *)
(* and are used have a key of their own.                                   *)
(***************************************************************************)
RECURSIVE Referred(_, _, _)
Referred(e, env, at) ==
    IF Tag(e) = "b" THEN {<<Len(env) - 1 - e[2], env[e[2] + 1]>>}
    ELSE UNION {Referred(Parts(e)[i], IF Under(e, i) = 1 THEN <<at>> \o env ELSE env,
                         Append(at, i)) : i \in DOMAIN Parts(e)}

BindersApart(tree, options) ==
    \A r, q \in Referred(tree, <<>>, <<>>) :
        r[1] = q[1] /\ r[2] # q[2] => r[1] \in DOMAIN Domains(tree, options)

(* A row weighs nothing under the truth. *)
Known(atom) == (atom[1] = "spine" \/ atom[1] = "bvar") /\
               (IF atom[1] = "spine" THEN atom[2] ELSE atom[2][1]) \in DOMAIN Truth
Dimension(atom) == Truth[IF atom[1] = "spine" THEN atom[2] ELSE atom[2][1]]
Holds(row) ==
    \A i \in DOMAIN Origin :
        FoldSet(LAMBDA c, sum : Plus(sum, Times(row[c], Whole(Dimension(c)[i]))),
                Zero, DOMAIN row) = Zero

(***************************************************************************)
(* scripts/dim-k-attribution.py: how many declarations a recovered relation *)
(* needs.  A corpus here is a sequence grows of global rows [row, decl]; a *)
(* relation is a row the corpus implies.                                   *)
(***************************************************************************)
CONSTANT PAIR_BUDGET

ASSUME PairBudgetAssumption == PAIR_BUDGET \in Nat

DeclRows(grows, d) ==
    LET own == SelectSeq(grows, LAMBDA g : g.decl = d)
    IN [i \in DOMAIN own |-> own[i].row]
Decls(grows) == {grows[i].decl : i \in DOMAIN grows}
DeclAtoms(grows, d) == UNION {DOMAIN grows[i].row : i \in {i \in DOMAIN grows : grows[i].decl = d}}
Postings(grows, a) == {d \in Decls(grows) : a \in DeclAtoms(grows, d)}

(* Membership in the row space of some declarations. *)
Entails(grows, decls, row, order) ==
    LET own == SelectSeq(grows, LAMBDA g : g.decl \in decls)
    IN Implies(Span([i \in DOMAIN own |-> own[i].row], order), row)

(* The declarations that mention every one of some atoms; none for no atom. *)
Covering(grows, atoms) ==
    IF atoms = {} THEN {} ELSE {d \in Decls(grows) : atoms \subseteq DeclAtoms(grows, d)}

Singles(grows, row, order) ==
    {d \in Covering(grows, DOMAIN row) : Entails(grows, {d}, row, order)}

CandidatesCovering(grows, row) ==
    LET A == DOMAIN row
        scarce == CHOOSE a \in A : \A b \in A :
                      Cardinality(Postings(grows, a)) <= Cardinality(Postings(grows, b))
    IN UNION {{{d1, d2} : d2 \in Covering(grows, A \ DeclAtoms(grows, d1)) \ {d1}} :
              d1 \in Postings(grows, scarce)}

(* The pairs that pass the necessary conditions, through the atom that the *)
(* fewest declarations mention: one of them mentions it, and the other     *)
(* what the first lacks or, where it lacks nothing, any of their atoms.    *)
Candidates(grows, row) ==
    LET A == DOMAIN row
        scarce == CHOOSE a \in A : \A b \in A :
                      Cardinality(Postings(grows, a)) <= Cardinality(Postings(grows, b))
        second(d1) ==
            LET miss == A \ DeclAtoms(grows, d1)
            IN IF miss # {} THEN Covering(grows, miss)
               ELSE UNION {Postings(grows, a) : a \in A \cup DeclAtoms(grows, d1)}
    IN UNION {{{d1, d2} : d2 \in second(d1) \ {d1}} : d1 \in Postings(grows, scarce)}

(***************************************************************************)
(* The pairs are tried until one entails the relation or the budget is     *)
(* spent.  The order they are tried in (by size, then name) is left open:  *)
(* the outcomes are those some order has.                                  *)
(***************************************************************************)
PairOutcomes(grows, row, order) ==
    LET pairs == Candidates(grows, row)
        good == {p \in pairs : Entails(grows, p, row, order)}
    IN {[pair |-> p, complete |-> TRUE] : p \in IF PAIR_BUDGET = 0 THEN {} ELSE good}
       \cup (IF Cardinality(pairs \ good) >= PAIR_BUDGET /\ Cardinality(pairs) > PAIR_BUDGET
             THEN {[pair |-> {}, complete |-> FALSE]} ELSE {})
       \cup (IF good = {} /\ Cardinality(pairs) <= PAIR_BUDGET
             THEN {[pair |-> {}, complete |-> TRUE]} ELSE {})

(***************************************************************************)
(* The certificate: the rows a tracked elimination combines into the       *)
(* relation, and the declarations they come from, pruned until no one of   *)
(* them can be dropped.                                                    *)
(***************************************************************************)
Certificate(tracked, row) == ReduceTracked(tracked, row, NoRow)
Provenance(grows, combo) == {grows[i].decl : i \in DOMAIN combo}

RECURSIVE Pruned(_, _, _, _, _)
Pruned(grows, row, order, wit, round) ==
    IF round = {} THEN wit
    ELSE LET size(d) == Len(DeclRows(grows, d))
             d == CHOOSE d \in round : \A x \in round : size(d) >= size(x)
             keep == wit = {d} \/ ~Entails(grows, wit \ {d}, row, order)
         IN Pruned(grows, row, order, IF keep THEN wit ELSE wit \ {d}, round \ {d})

RECURSIVE WitnessSet(_, _, _, _)
WitnessSet(grows, row, order, wit) ==
    LET less == Pruned(grows, row, order, wit, wit)
    IN IF less = wit THEN wit ELSE WitnessSet(grows, row, order, less)

KClass(singles, outcome) ==
    CASE singles # {} -> "1"
      [] singles = {} /\ outcome.pair # {} -> "2"
      [] singles = {} /\ outcome.pair = {} /\ outcome.complete -> ">=3"
      [] OTHER -> ">=2_incomplete"

(***************************************************************************)
(* The run                                                                 *)
(***************************************************************************)


CONSTANTS Statements,   \* the declarations' trees, by name
          Corpora,      \* sequences of declarations, as a slice lists them
          Options       \* rules, bvar, keying, literals

VARIABLES
    corpus, options, descending,
    read,         \* how many declarations were read
    table,        \* the interned atoms, in order
    grows,        \* the global rows, with their declarations (prov)
    inserted,     \* how many of them were inserted
    ech, tracked,
    relations     \* what was recorded of each relation

dimVars == <<corpus, options, descending, read, table, grows, inserted, ech, tracked, relations>>

DimInit ==
    /\ corpus \in Corpora
    /\ options \in Options
    /\ descending \in BOOLEAN
    /\ read = 0 /\ table = <<>> /\ grows = <<>>
    /\ inserted = 0 /\ ech = Echelon /\ tracked = TrackedEch
    /\ relations = {}

(* Atoms are numbered as they are met; those of one row in any order. *)
Listed(S) == FoldSet(LAMBDA a, seq : Append(seq, a), <<>>, S)
Atoms(rows) == UNION {DOMAIN rows[i] : i \in DOMAIN rows}
Interned(known, rows) == known \o Listed(Atoms(rows) \ Range(known))
Ids(t) == FoldLeftDomain(LAMBDA ids, i : ids @@ (t[i] :> i), <<>>, t)

(* The order of the atoms' keys: in which direction is immaterial. *)
KeyOrder == FoldLeftDomain(LAMBDA o, i : o @@ (table[i] :> IF descending THEN -i ELSE i),
                           <<>>, table)

ReadDecl ==
    /\ read < Len(corpus)
    /\ LET name == corpus[read + 1]
       IN \E rows \in {Rows(name, Statements[name], options)} :
            /\ table' = Interned(table, rows)
            /\ LET locals == {a \in Atoms(rows) : IsLocal(a)}
                   out == EliminateLocals(rows, locals, Ids(table'))
               IN grows' = grows \o [i \in DOMAIN out |-> [row |-> out[i], decl |-> name]]
    /\ read' = read + 1
    /\ UNCHANGED <<corpus, options, descending, inserted, ech, tracked, relations>>

Insert ==
    /\ read = Len(corpus)
    /\ inserted < Len(grows)
    /\ LET row == grows[inserted + 1].row
       IN /\ ech' = AddRow(ech, row, Range(table), KeyOrder)
          /\ tracked' = AddTracked(tracked, row, inserted + 1, Ids(table))
    /\ inserted' = inserted + 1
    /\ UNCHANGED <<corpus, options, descending, read, table, grows, relations>>

Solved == read = Len(corpus) /\ inserted = Len(grows)
Rich == {c \in DOMAIN ech.pivots : Cardinality(DOMAIN ech.pivots[c]) >= 3}
Powered == {c \in Rich : \E a \in DOMAIN ech.pivots[c] : ech.pivots[c][a] \notin {One, Minus(One)}}

Attribute ==
    /\ Solved
    /\ \E c \in Rich :
         /\ \A r \in relations : r.pivot # c
         /\ LET row == ech.pivots[c]
                order == Ids(table)
                singles == Singles(grows, row, order)
                combo == Certificate(tracked, row).combo
                wit == WitnessSet(grows, row, order, Provenance(grows, combo))
            IN \E o \in IF singles # {} THEN {[pair |-> {}, complete |-> TRUE]}
                                        ELSE PairOutcomes(grows, row, order) :
                 relations' = relations \cup
                    {[pivot |-> c, powered |-> c \in Powered,
                      k_class |-> KClass(singles, o), k1 |-> singles, k2 |-> o.pair,
                      witness |-> IF singles = {} /\ o.pair = {} THEN wit ELSE {}]}
    /\ UNCHANGED <<corpus, options, descending, read, table, grows, inserted, ech, tracked>>

DimNext == ReadDecl \/ Insert \/ Attribute

(***************************************************************************)
(* Properties                                                              *)
(***************************************************************************)
Trees == [i \in 1 .. read |-> Statements[corpus[i]]]

Homogeneous == {n \in DOMAIN Statements : Consistent(Statements[n], <<>>)}
Physical == \A i \in 1 .. read : corpus[i] \in Homogeneous

(* "A rule may lose information; it may never invent a constraint": over   *)
(* physically consistent statements, read with their binders apart and all *)
(* their heads understood or quantities, every extracted row holds of the  *)
(* real dimensions - through binders, derivatives, integrals, powers,      *)
(* casts and the elimination of local atoms.                               *)
NothingInvented ==
    /\ grows # <<>> /\ Physical
    /\ \A i \in DOMAIN Trees : BindersApart(Trees[i], options)
    /\ \A i \in DOMAIN table : Known(table[i]) \/ IsLocal(table[i])
    => \A i \in DOMAIN grows : Holds(grows[i].row)

(* The echelon form is reduced, its occurrence index exact and its rows    *)
(* the canonical basis of what was inserted: the pivot is the first column *)
(* of its row whatever order the rows came in, and the tracked             *)
(* elimination derives every pivot row from the rows its combination names.*)
Canonical ==
    LET of(i) == grows[i].row
        sum(combo) == FoldSet(LAMBDA i, row : Combine(row, combo[i], of(i)),
                              NoRow, DOMAIN combo)
    IN /\ \A c \in DOMAIN ech.pivots :
            LET row == ech.pivots[c]
                t == Certificate(tracked, row)
            IN /\ DOMAIN row \cap DOMAIN ech.pivots = {c}
               /\ c = Least(DOMAIN row, KeyOrder) /\ row[c] = One
               /\ t.row = NoRow
               /\ sum(t.combo) = Scale(row, Minus(One))
       /\ \A i \in 1 .. inserted : Implies(ech, of(i))
       /\ \A a \in Range(table) :
            Occ(ech, a) = {c \in DOMAIN ech.pivots : a \in DOMAIN ech.pivots[c]}

(* Eliminating each declaration's locals on its own leaves the same global *)
(* constraints as eliminating all of them from the whole system at once,   *)
(* when no local atom is of two declarations.  That one of a binder is not,*)
(* by its name; a projection of a bound variable is one key wherever it    *)
(* occurs, so that a system with one is left out.                          *)
SameSpan(R, S, order) ==
    /\ \A i \in DOMAIN R : Implies(Span(S, order), R[i])
    /\ \A i \in DOMAIN S : Implies(Span(R, order), S[i])
OneBlock(rows, locals, order) ==
    (\A a \in locals : a[1] # "proj")
        => SameSpan(EliminateLocals(rows, locals, order), [i \in DOMAIN grows |-> grows[i].row], order)
AllRows(rows) == OneBlock(rows, {a \in Atoms(rows) : IsLocal(a)}, Ids(table))
Blockwise ==
    Solved => AllRows(FlattenSeq([i \in DOMAIN Trees |-> Rows(corpus[i], Trees[i], options)]))

(* A relation's class is the least number of declarations that entail it,  *)
(* found by trying every subset, or says that the pairs were not all tried;*)
(* a witness set entails the relation and none of it can be dropped.       *)
AttributionExact ==
    \A r \in relations :
        LET row == ech.pivots[r.pivot]
            entail(D) == Entails(grows, D, row, Ids(table))
            of(k) == {D \in kSubset(k, Decls(grows)) : entail(D)}
        IN /\ (r.k_class = "1") <=> (of(1) # {})
           /\ r.k_class = "2" => r.k2 \in of(2)
           /\ r.k_class = ">=3" => of(1) \cup of(2) = {}
           /\ r.k_class \in {">=3", ">=2_incomplete"} =>
                entail(r.witness) /\ \A d \in r.witness : ~entail(r.witness \ {d})

\* Elimination is exact, in whatever order and blocks rows are inserted.
EliminationExact == Canonical /\ Blockwise
=============================================================================
