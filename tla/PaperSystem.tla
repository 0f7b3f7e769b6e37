---------------------------- MODULE PaperSystem ----------------------------
(***************************************************************************)
(* scripts/paper-dim.py: from a LaTeX source to a solved system.  The      *)
(* displays of a paper are expanded, cut into equations and mended; every  *)
(* equation that parses gives rows over the atoms its symbols name; and    *)
(* the system is solved, shuffled and asked whether a further equation is  *)
(* dimensionally wrong.                                                    *)
(***************************************************************************)
EXTENDS LatexEquations

CONSTANTS
    Papers,     \* [displays, macros, rows, exact]: rows are what its author meant
    Extras,     \* equations the detector is asked about
    Reading,    \* the options --paren and --delta
    MaxEdits,   \* how often a source is respelt
    MaxShuffled \* systems of at most so many rows are shuffled

VARIABLES
    paper, reading,
    source,     \* its displays, as they are spelt now
    edits,
    eqs,        \* the pieces extracted and, repaired, the equations
    added,      \* how many of them were added
    system,     \* [rows, parsed, with_rows, failures]
    shuffled,   \* the rows rewired so far
    verdict     \* the detector's last answer

paperVars == <<paper, reading, source, edits, eqs, added, system, shuffled, verdict>>

(***************************************************************************)
(* Walker: one equation's tree as rows.  at is the node's place, which     *)
(* names the fresh local atoms the code numbers in order.                  *)
(***************************************************************************)
DIMENSIONLESS == {"\\pi", "\\Pi"}
Atom(name) == <<"sym", name>>
Fresh_(eq, at) == <<"local", eq, at>>
Local(a) == a[1] = "local"
Dimmed(dim, rows) == [dim |-> dim, rows |-> rows]
Emit(row) == IF row = NoRow THEN <<>> ELSE <<row>>

RECURSIVE DimOf(_, _, _)
(* The dimensions of several nodes, in order. *)
Each(es, eq, at) ==
    FoldLeftDomain(LAMBDA ds, i : Append(ds, DimOf(es[i], eq, Append(at, i))), <<>>, es)
RowsOf(ds) == FoldLeft(LAMBDA rows, d : rows \o d.rows, <<>>, ds)

Sum_(ds) ==
    Dimmed(ds[1].dim, FoldLeft(LAMBDA rows, d : rows \o d.rows \o Emit(Sub(ds[1].dim, d.dim)),
                               ds[1].rows, Tail(ds)))
Product_(ds) == Dimmed(FoldLeft(LAMBDA acc, d : Add(acc, d.dim), NoRow, ds), RowsOf(ds))
Vanishes(d) == Dimmed(NoRow, d.rows \o Emit(d.dim))

(* d: the operand, then the variables it is differentiated by. *)
Derivative_(ds, wrt) ==
    Dimmed(FoldLeftDomain(LAMBDA acc, i : Sub(acc, Scale(ds[i + 1].dim, wrt[i][2])), ds[1].dim, wrt),
           RowsOf(ds))

(* A limit has the dimension of the measure's variable, where there is one. *)
Integral_(d, measure, order, limits, free) ==
    IF measure = <<>> THEN Dimmed(Add(d.dim, free), d.rows \o RowsOf(limits))
    ELSE LET m == measure[1]
             ends == FoldLeft(LAMBDA rows, l : rows \o l.rows \o Emit(Sub(l.dim, m.dim)), <<>>, limits)
         IN Dimmed(Add(d.dim, Scale(m.dim, order)), d.rows \o m.rows \o ends)

DimOf(e, eq, at) ==
    LET free == Unit(Fresh_(eq, at))
        below(x) == DimOf(x, eq, Append(at, 0))
    IN CASE e[1] = "sym" -> Dimmed(IF e[2] \in DIMENSIONLESS THEN NoRow ELSE Unit(Atom(e[2])), <<>>)
         [] e[1] = "num" -> Dimmed(IF e[2] = Zero THEN free ELSE NoRow, <<>>)
         [] e[1] = "free" -> Dimmed(free, <<>>)
         [] e[1] = "add" -> Sum_(Each(e[2], eq, at))
         [] e[1] = "mul" -> Product_(Each(e[2], eq, at))
         [] e[1] = "div" -> LET ds == Each(<<e[2], e[3]>>, eq, at)
                            IN Dimmed(Sub(ds[1].dim, ds[2].dim), RowsOf(ds))
         [] e[1] \in {"neg", "magnitude"} -> below(e[2])
         [] e[1] = "pow" -> LET d == below(e[2]) IN Dimmed(Scale(d.dim, e[3]), d.rows)
         [] e[1] \in {"trans", "dimensionless"} -> Vanishes(below(e[2]))
         [] e[1] = "app" -> LET f == below(e[2]) IN Dimmed(f.dim, RowsOf(Each(e[3], eq, at)) \o f.rows)
         [] e[1] = "deriv" ->
                Derivative_(Each(<<e[2]>> \o [i \in DOMAIN e[3] |-> e[3][i][1]], eq, at), e[3])
         [] e[1] = "integral" ->
                Integral_(below(e[2]), Each([i \in DOMAIN e[3] |-> e[3][i][1]], eq, Append(at, 1)),
                          IF e[3] = <<>> THEN One ELSE e[3][1][2],
                          Each(e[4] \o e[5], eq, Append(at, 2)), free)
         [] e[1] = "opaque" -> Dimmed(free, below(e[2]).rows)

(* A bare literal alone on one side is a choice of units, not a claim. *)
IsLiteral(e) == e[1] = "num" \/ (e[1] = "neg" /\ e[2][1] = "num")
Side(e, eq, at) == IF IsLiteral(e) THEN Dimmed(Unit(Fresh_(eq, at)), <<>>) ELSE DimOf(e, eq, at)
Relation(rel, eq, i) ==
    LET l == Side(rel[1], eq, <<i, 1>>)
        r == Side(rel[2], eq, <<i, 2>>)
    IN l.rows \o r.rows \o Emit(Sub(l.dim, r.dim))

AtomsOf(rows) == UNION {DOMAIN rows[i] : i \in DOMAIN rows}
SomeOrder(S) == FoldSet(LAMBDA a, o : (a :> Cardinality(DOMAIN o)) @@ o, <<>>, S)
RowsIn(rels, eq) == FoldLeftDomain(LAMBDA rows, i : rows \o Relation(rels[i], eq, i), <<>>, rels)
Globals(rows, atoms) == EliminateLocals(rows, {a \in atoms : Local(a)}, SomeOrder(atoms))

(* System.add; the new system is the member of a singleton. *)
EmptySystem == [rows |-> <<>>, parsed |-> 0, with_rows |-> 0, failures |-> <<>>]
Enlarged(sys, rows) ==
    [sys EXCEPT !.parsed = @ + 1, !.rows = @ \o rows,
                !.with_rows = IF rows # <<>> THEN @ + 1 ELSE @]
Outcome(sys, r, eq) ==
    IF r.err # "" THEN {[sys EXCEPT !.failures = Append(@, r.err)]}
    ELSE UNION {{Enlarged(sys, rows) : rows \in {Globals(raw, AtomsOf(raw))}} : raw \in {RowsIn(r.ast, eq)}}
Added(sys, src, o, eq) == UNION {Outcome(sys, r, eq) : r \in ParseEquation(src, o)}

SpanOf(rows) == Span(rows, SomeOrder(AtomsOf(rows)))
\* Faulty variant: the atoms an equation brings along are not counted
GradingDimOfRank(rows) == 0 - Rank(SpanOf(rows))
GradingDim(rows) == Cardinality(AtomsOf(rows)) - Rank(SpanOf(rows))

(***************************************************************************)
(* From a source to its equations                                          *)
(***************************************************************************)
(* expand_macros: a definition is [args, body], a body's "#1" its argument. *)
MacroArgs(src, i, n) ==
    FoldLeft(LAMBDA acc, k :
                LET arg == ArgText(src, acc.next)
                IN IF acc.err # "" THEN acc
                   ELSE [err |-> arg.err, next |-> arg.next, bodies |-> Append(acc.bodies, arg.body)],
             [err |-> "", next |-> i, bodies |-> <<>>], [k \in 1 .. n |-> k])
Filled(body, args) ==
    FoldLeft(LAMBDA out, x :
                LET k == CASE x = "#1" -> 1 [] x = "#2" -> 2 [] OTHER -> 0
                IN IF k \in DOMAIN args THEN out \o <<"{">> \o args[k] \o <<"}">> ELSE Append(out, x),
             <<>>, body)
RECURSIVE ExpandOnce(_, _, _)
ExpandOnce(src, i, macros) ==
    IF i > Len(src) THEN <<>>
    ELSE IF src[i] \notin DOMAIN macros THEN <<src[i]>> \o ExpandOnce(src, i + 1, macros)
    ELSE LET m == macros[src[i]]
             got == MacroArgs(src, i + 1, m.args)
         IN IF got.err # "" THEN <<src[i]>> \o ExpandOnce(src, i + 1, macros)
            ELSE Filled(m.body, got.bodies) \o ExpandOnce(src, got.next, macros)
ROUNDS == 6
Expanded(src, macros) ==
    FoldLeft(LAMBDA s, k : ExpandOnce(s, 1, macros), src, [k \in 1 .. ROUNDS |-> k])

(* collect_macros: what a package supplies, operators, \newcommand, \def:  *)
(* of one name the later in this order, and of two alike the later one.    *)
PACKAGE == "\\qty" :> [args |-> 1, body |-> <<"\\left", "(", "#1", "\\right", ")">>]
    @@ "\\vb" :> [args |-> 1, body |-> <<"\\mathbf", "{", "#1", "}">>]
    @@ "\\dv" :> [args |-> 2, body |-> <<"\\frac", "{", "d", "#1", "}", "{", "d", "#2", "}">>]
    @@ "\\ket" :> [args |-> 1, body |-> <<"|", "#1", "\\rangle">>]
Collect(defs) ==
    LET of(kind) == SelectSeq(defs, LAMBDA d : d.kind = kind)
    IN FoldLeft(LAMBDA m, d : (d.name :> [args |-> d.args, body |-> d.body]) @@ m, PACKAGE,
                of("operator") \o of("newcommand") \o of("def"))

SPLIT_ENVS == {"\\begin{split}", "\\end{split}", "\\begin{aligned}", "\\end{aligned}"}
CONTINUES == {"=", "<", ">", "+", "-", "\\equiv", "\\approx", "\\simeq", "\\le", "\\ge", "\\ll",
              "\\gg", "\\times", "\\cdot", "\\pm", "\\mp", "\\propto", "\\sim"}
PROSE_WORDS == {"where", "and"}

(* The stretches between the separators. *)
Cut(src, seps) ==
    FoldLeft(LAMBDA out, x : IF x \in seps THEN Append(out, <<>>)
                             ELSE Append(Front(out), Append(Last(out), x)), <<<<>>>>, src)

Blank(line) == \A i \in DOMAIN line : line[i] = " "
(* `\\[-2mm]` is vertical spacing. *)
Unspaced(line) ==
    LET a == SkipBlanks(line, 1)
        c == Least0({j \in a .. Len(line) : line[j] = "]"}, 0)
    IN IF a <= Len(line) /\ line[a] = "[" /\ c \in a .. a + 13 THEN Upto(line, c + 1, Len(line)) ELSE line
Continues(line) ==
    LET a == SkipBlanks(line, 1)
        b == IF a <= Len(line) /\ line[a] = "&" THEN SkipBlanks(line, a + 1) ELSE a
    IN b <= Len(line) /\ line[b] \in CONTINUES
JoinLine(lines, line) ==
    IF Blank(line) THEN lines
    ELSE IF lines # <<>> /\ Continues(line)
    THEN Append(Front(lines), Last(lines) \o <<" ">> \o Trim(line, {" "}))
    ELSE Append(lines, Trim(line, {" "}))
Lines(body) == FoldLeft(LAMBDA ls, l : JoinLine(ls, Unspaced(l)), <<>>, Cut(body, {"\\\\"}))

Prose(line) ==
    {i \in DOMAIN line : /\ line[i] = "\\text"
                         /\ LET a == SkipBlanks(line, i + 1)
                                b == SkipBlanks(line, a + 1)
                            IN b <= Len(line) /\ line[a] = "{" /\ line[b] \in PROSE_WORDS}
BeforeProse(line) == Upto(line, 1, Least0(Prose(line), Len(line) + 1) - 1)
Stripped(piece) == Trim(Trim(Trim(piece, {" "}), {",", ".", ";"}), {" "})

(* Every display's relations, one piece each.  *)
PiecesOf(line) == SelectSeq([i \in DOMAIN Cut(line, {"\\quad", "\\qquad"}) |->
                                Stripped(Cut(line, {"\\quad", "\\qquad"})[i])], LAMBDA p : p # <<>>)
Body(display, macros) == SelectSeq(Expanded(display, macros), LAMBDA x : x \notin SPLIT_ENVS)
Pieces(display, macros) ==
    FoldLeft(LAMBDA out, l : out \o PiecesOf(BeforeProse(l)), <<>>, Lines(Body(display, macros)))

(* A piece that does not parse is joined to the one before if together     *)
(* they do.                                                                *)
ParsesEquation(src) == \A r \in ParseEquation(src, DefaultOpts) : r.err = ""
Mended(out, p) ==
    LET joined == Last(out) \o <<" ">> \o p
    IN IF out # <<>> /\ {s \in {p, joined} : ParsesEquation(s)} = {joined}
       THEN Append(Front(out), joined) ELSE Append(out, p)
Repair(pieces) == FoldLeft(Mended, <<>>, pieces)

(* A lexeme the tokenizer drops, put anywhere but between a macro and its  *)
(* arguments: the same source to a reader.                                 *)
NEUTRAL == {" ", "\\displaystyle", "\\bm"}
TakesText == ARG_EATING \cup TEXT_CMDS \cup NAME_CMDS
InsertAt_(src, p, x) == Upto(src, 1, p - 1) \o <<x>> \o Upto(src, p, Len(src))
Inside(src, p, macros) ==
    \/ src[p - 1] \in {"\\begin", "\\end", "\\\\"} \cup TakesText \cup DOMAIN macros
    \/ p > 2 /\ src[p - 2] \in TakesText
Respelt(src, macros) ==
    {InsertAt_(src, p, x) : p \in {p \in 2 .. Len(src) : ~Inside(src, p, macros)},
        x \in IF \E m \in Range(src) \cap DOMAIN macros : macros[m].args > 1 THEN {" "} ELSE NEUTRAL}

(***************************************************************************)
(* The run                                                                 *)
(***************************************************************************)
NoVerdict == [asked |-> <<>>, fired |-> FALSE]
PaperInit ==
    /\ paper \in Papers /\ reading \in Reading
    /\ source = paper.displays /\ edits = 0
    /\ eqs = <<>> /\ added = -1
    /\ system = EmptySystem /\ shuffled = <<>> /\ verdict = NoVerdict

Respell ==
    /\ added = -1 /\ edits < MaxEdits
    /\ \E i \in DOMAIN source : \E s \in Respelt(source[i], Collect(paper.macros)) :
         source' = [source EXCEPT ![i] = s]
    /\ edits' = edits + 1
    /\ UNCHANGED <<paper, reading, eqs, added, system, shuffled, verdict>>

(* extract_display repairs each display by itself. *)
Extract ==
    /\ added = -1
    /\ \E m \in {Collect(paper.macros)} :
         eqs' = FoldLeft(LAMBDA out, d : out \o Repair(Pieces(d, m)), <<>>, source)
    /\ added' = 0
    /\ UNCHANGED <<paper, reading, source, edits, system, shuffled, verdict>>

AddEquation ==
    /\ added \in 0 .. Len(eqs) - 1
    /\ system' \in Added(system, eqs[added + 1], reading, added + 1)
    /\ added' = added + 1
    /\ UNCHANGED <<paper, reading, source, edits, eqs, shuffled, verdict>>

Complete == added = Len(eqs)

(* detect: does the grading's dimension strictly drop? *)
Detect ==
    /\ Complete /\ edits = 0 /\ shuffled = <<>>
    /\ \E x \in Extras : \E sys \in Added(system, x, reading, Len(eqs) + 1) :
         verdict' = [asked |-> x, fired |-> GradingDim(sys.rows) < GradingDim(system.rows)]
    /\ UNCHANGED <<paper, reading, source, edits, eqs, added, system, shuffled>>

(* shuffle_rows: a bijection onto the pool of atoms for every row. *)
Rewired(row, pool) ==
    {FoldSet(LAMBDA c, r : (f[c] :> row[c]) @@ r, <<>>, DOMAIN row) :
        f \in {f \in [DOMAIN row -> pool] : IsInjective(f)}}
ShuffleRow ==
    /\ Complete /\ edits = 0 /\ verdict = NoVerdict /\ Len(system.rows) <= MaxShuffled
    /\ Len(shuffled) < Len(system.rows)
    /\ \E r \in Rewired(system.rows[Len(shuffled) + 1], AtomsOf(system.rows)) :
         shuffled' = Append(shuffled, r)
    /\ UNCHANGED <<paper, reading, source, edits, eqs, added, system, verdict>>

PaperNext == Respell \/ Extract \/ AddEquation \/ Detect \/ ShuffleRow

(***************************************************************************)
(* Properties                                                              *)
(***************************************************************************)
WithinSpan(R, S) == LET ech == SpanOf(S) IN \A i \in DOMAIN R : Implies(ech, R[i])

(* "Losing a constraint is recoverable; inventing one is not"              *)
(* (paper-dim.py:75): whatever the source's spelling, line breaks, macros  *)
(* and prose, each row follows from what the author meant.                 *)
InventsNothing == reading = DefaultOpts => WithinSpan(system.rows, paper.rows)

(* A bracket that begins a line is stripped as the spacing of the break    *)
(* before it.  In these papers all such brackets hold lengths.             *)
LENGTHS == DOMAIN NumberOf \cup {" ", "-", "c", "e", "m", "p", "t", "x"}
StrippedOf(line) == Range(Upto(line, 1, Len(line) - Len(Unspaced(line)))) \ {"[", "]"}
BracketsSpace ==
    \A d \in Range(paper.displays) :
        \A l \in Range(Cut(Body(d, Collect(paper.macros)), {"\\\\"})) : StrippedOf(l) \subseteq LENGTHS

(* Of such papers nothing is invented; and from one that is written        *)
(* without any of the forms the rules give up on all of it is recovered,   *)
(* so that the grading has exactly the dimension it should.                *)
RowsMeant ==
    BracketsSpace =>
        /\ InventsNothing
        /\ reading = DefaultOpts /\ Complete /\ paper.exact => WithinSpan(paper.rows, system.rows)

(* Repairing loses no equation: what was cut is kept in its order, and no  *)
(* fewer pieces parse than did before.                                     *)
Unblanked(pieces) == SelectSeq(FlattenSeq(pieces), LAMBDA x : x # " ")
NoneLost(before, after) ==
    LET parsing == [ps \in {before, after} |-> Len(SelectSeq(ps, ParsesEquation))]
    IN Unblanked(after) = Unblanked(before) /\ parsing[after] >= parsing[before]
RepairKeeps ==
    added = 0 =>
        \A pieces \in {[i \in DOMAIN source |-> Pieces(source[i], Collect(paper.macros))]} :
            NoneLost(FlattenSeq(pieces), eqs)

\* A paper is read as it was meant, and mending its equations loses none.
ReadingSound == RowsMeant /\ RepairKeeps

(* "'Detected' means wrong, not new": the detector fires only on an        *)
(* equation that some grading of the system cannot satisfy, whatever it is *)
(* given for the symbols the system does not know; and it fires on every   *)
(* such equation that leaves none of its new symbols open.                 *)
Onto(rows, new) == EliminateLocals(rows, new, SomeOrder(AtomsOf(rows)))
Judged_(rows, new, old) ==
    LET wrong == ~WithinSpan(old, system.rows)
        settled == Rank(SpanOf(rows)) - Rank(SpanOf(old)) = Cardinality(new)
    IN /\ verdict.fired => wrong
       /\ wrong /\ settled => verdict.fired
DetectedWrong ==
    verdict # NoVerdict =>
        \A extra \in Added(EmptySystem, verdict.asked, reading, 0) :
            \A new \in {AtomsOf(extra.rows) \ AtomsOf(system.rows)} :
                \A old \in {Onto(extra.rows, new)} : Judged_(extra.rows, new, old)

\* A shuffled row keeps its coefficients: the control loses no row and no entry.
ShuffleFair ==
    \A i \in DOMAIN shuffled :
        \A q \in Range(system.rows[i]) :
            Cardinality({c \in DOMAIN shuffled[i] : shuffled[i][c] = q})
                = Cardinality({c \in DOMAIN system.rows[i] : system.rows[i][c] = q})

\* The detector fires on what is wrong, and its control keeps every row.
DetectorExact == DetectedWrong /\ ShuffleFair
=============================================================================
