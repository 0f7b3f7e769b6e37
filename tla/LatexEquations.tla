--------------------------- MODULE LatexEquations ---------------------------
(***************************************************************************)
(* scripts/paper-dim.py (Parser): a recursive descent over the tokens of   *)
(* one equation.  A cursor s has the tokens t, the position i and the      *)
(* options o; a result has the category of the error raised (err, empty    *)
(* where none is), the tree, the name the tree still goes by (empty where  *)
(* it has none) and the cursor behind it, and is the member of a singleton *)
(* for Then to bind.  Trees are tagged tuples:                             *)
(*   <<"sym", name>>  <<"num", q>>  <<"free">>  <<"neg" | "trans" |        *)
(*   "dimensionless" | "magnitude" | "opaque", e>>  <<"add" | "mul", es>>  *)
(*   <<"div", a, b>>  <<"pow", e, q>>  <<"app", f, args>>                  *)
(*   <<"deriv", e, << <<variable, order>>, ... >> >>                       *)
(*   <<"integral", e, measure, lower, upper>>, each of these a sequence    *)
(*   of at most one.                                                       *)
(* The notes that are only counted and reported are left out.              *)
(***************************************************************************)
EXTENDS Echelons

(***************************************************************************)
(* The tokens.  A source is a sequence of lexemes: commands with their     *)
(* backslash, letters, numerals, the words a \text holds, punctuation, and *)
(* " " for white space.  A token is <<kind, value>> of kind sym, num, cmd  *)
(* or op, or <<"bad", category>> where the tokenizer raises.  Sizes, tags  *)
(* and fonts are a sample of the commands the code lists.                  *)
(***************************************************************************)
SKIP_CMDS == {"\\left", "\\right", "\\bigl", "\\displaystyle", "\\limits", "\\nonumber", "\\quad", "\\qquad"}
ARG_EATING == {"\\label", "\\tag", "\\color", "\\intertext", "\\ref"}
DECOR_CMDS == {"\\vec", "\\hat", "\\bar", "\\mathbf", "\\bm"}
NAME_CMDS == {"\\mathcal", "\\mathbb"}
TEXT_CMDS == {"\\mathrm", "\\text", "\\operatorname"}
THIN_SPACE == {"\\,", "\\;", "\\!"}
IGNORED == {" ", "&", ".", ";", ":"}
MARKS == {"{", "}", "(", ")", "[", "]", "_", "^", "|", "+", "-", "*", "/", "=", "<", ">", ",", "!", "'"}
WORDS == {"where", "and", "kg", "sgn"}
LETTERS == {"A", "B", "D", "E", "F", "G", "I", "J", "K", "L", "M", "N", "P", "Q", "R", "S", "T", "V",
            "W", "a", "b", "c", "d", "e", "f", "g", "h", "i", "k", "m", "n", "p", "q", "r", "s", "t",
            "u", "v", "w", "x", "y", "z"}
NumberOf == "0" :> Zero @@ "1" :> One @@ "2" :> Whole(2) @@ "3" :> Whole(3)
            @@ "4" :> Whole(4) @@ "0.5" :> <<1, 2>>

Tok(kind, v) == <<kind, v>>
Op(v) == Tok("op", v)
Cmd(v) == Tok("cmd", v)
Sym(v) == Tok("sym", v)

ALIAS == "\\lvert" :> Op("|") @@ "\\rvert" :> Op("|") @@ "\\lVert" :> Cmd("\\|")
         @@ "\\rVert" :> Cmd("\\|") @@ "\\lbrace" :> Op("(") @@ "\\rbrace" :> Op(")")
         @@ "\\{" :> Op("(") @@ "\\}" :> Op(")")
         @@ "\\cross" :> Cmd("\\times") @@ "\\vdot" :> Cmd("\\cdot") @@ "\\grad" :> Cmd("\\nabla")
         @@ "\\dd" :> Sym("d")

(***************************************************************************)
(* Balanced stretches.  Level: how many openers of a stretch stay open.    *)
(***************************************************************************)
Upto(seq, a, b) == IF a > b THEN <<>> ELSE SubSeq(seq, a, b)
Least0(S, default) == IF S = {} THEN default ELSE Min(S)
Level(t, opens, closes, a, b) ==
    Cardinality({j \in a .. b : t[j] \in opens}) - Cardinality({j \in a .. b : t[j] \in closes})

(* The first unmatched closer at or after a; past the end if there is none. *)
CloseAt(t, opens, closes, a) ==
    Least0({j \in a .. Len(t) : t[j] \in closes /\ Level(t, opens, closes, a, j) < 0}, Len(t) + 1)

(* The group at i, braced or a single element, and what follows it. *)
Stretch(t, i, open, close, none, torn) ==
    IF i > Len(t) THEN [err |-> none, body |-> <<>>, next |-> i]
    ELSE IF t[i] # open THEN [err |-> "", body |-> <<t[i]>>, next |-> i + 1]
    ELSE LET c == CloseAt(t, {open}, {close}, i + 1)
         IN [err |-> IF c > Len(t) THEN torn ELSE "", body |-> Upto(t, i + 1, c - 1), next |-> c + 1]

SkipBlanks(src, i) == Least0({j \in i .. Len(src) : src[j] # " "}, Len(src) + 1)
ArgText(src, i) ==
    Stretch(src, SkipBlanks(src, i), "{", "}", "truncated-macro", "unbalanced-brace")

RECURSIVE Trim(_, _)
Trim(src, S) ==
    IF src = <<>> THEN src
    ELSE IF src[1] \in S THEN Trim(Tail(src), S)
    ELSE IF Last(src) \in S THEN Trim(Front(src), S) ELSE src

Joined(src) == FoldLeft(LAMBDA s, x : s \o x, "", src)
Alphanumeric(body) ==
    body # <<>> /\ \A i \in DOMAIN body : body[i] \in (LETTERS \cup WORDS \cup DOMAIN NumberOf) \ {"0.5"}

PlainToken(c) ==
    CASE c \in LETTERS \cup WORDS -> Sym(c)
      [] c \in DOMAIN NumberOf -> Tok("num", c)
      [] c \in MARKS -> Op(c)
      [] c \in THIN_SPACE -> Op("~")
      [] c = "\\\\" -> Op(c)
      [] c \in DOMAIN ALIAS -> ALIAS[c]
      [] OTHER -> Cmd(c)

(* A comment runs to the end of its line. *)
RECURSIVE Tokens(_, _), TextTokens(_, _, _)
Tokens(src, i) ==
    IF i > Len(src) THEN <<>>
    ELSE CASE src[i] \in IGNORED \cup SKIP_CMDS \cup DECOR_CMDS -> Tokens(src, i + 1)
           [] src[i] = "%" -> Tokens(src, Least0({j \in i .. Len(src) : src[j] = "\n"}, Len(src)) + 1)
           [] src[i] \in ARG_EATING ->
                LET arg == ArgText(src, i + 1)
                IN Tokens(src, IF arg.err = "" THEN arg.next ELSE i + 1)
           [] src[i] \in TEXT_CMDS \cup NAME_CMDS -> TextTokens(src, src[i], ArgText(src, i + 1))
           [] src[i] \in {"\\begin", "\\end"} ->
                LET arg == ArgText(src, i + 1)
                IN <<Tok("bad", IF arg.err = "" THEN "environment" ELSE arg.err)>>
           [] OTHER -> <<PlainToken(src[i])>> \o Tokens(src, i + 1)
TextTokens(src, name, arg) ==
    IF arg.err # "" THEN <<Tok("bad", arg.err)>>
    ELSE LET body == Trim(arg.body, {" "})
         IN (CASE name \in NAME_CMDS -> <<Sym(name \o "{" \o Joined(body) \o "}")>>
               [] name \in TEXT_CMDS /\ Alphanumeric(body) -> <<Sym(Joined(body))>>
               [] OTHER -> Tokens(body, 1))
            \o Tokens(src, arg.next)

(***************************************************************************)
(* Relations and operators                                                 *)
(***************************************************************************)
EQ_RELS == {"=", "\\equiv", "\\approx", "\\simeq"}
ORD_RELS == {"<", ">", "\\le", "\\ge", "\\ll", "\\gg"}
SILENT_RELS == {"\\propto", "\\sim", "\\in", "\\to", "\\ne", "\\Rightarrow"}
ADD_OPS == {Op("+"), Op("-"), Cmd("\\pm"), Cmd("\\mp")}
MUL_CMDS == {Cmd(v) : v \in {"\\cdot", "\\times", "\\otimes", "\\wedge", "\\circ"}}
RELATIONS == {Op(v) : v \in {"=", "<", ">"}} \cup {Cmd(v) : v \in EQ_RELS \cup ORD_RELS \cup SILENT_RELS}

\* `\bm{\cdot}` leaves a braced operator; an equation ends in punctuation.
RECURSIVE Unbraced(_, _)
Unbraced(t, i) ==
    IF i > Len(t) THEN <<>>
    ELSE IF /\ t[i] = Op("{") /\ i + 2 <= Len(t) /\ t[i + 2] = Op("}")
            /\ t[i + 1][1] = "cmd" /\ t[i + 1] \in MUL_CMDS \cup ADD_OPS \cup RELATIONS
         THEN <<t[i + 1]>> \o Unbraced(t, i + 3)
         ELSE <<t[i]>> \o Unbraced(t, i + 1)

RECURSIVE DropLast(_), DropFirst(_)
DropLast(t) ==
    IF t # <<>> /\ Last(t) \in {Op(","), Op("~"), Cmd("\\qedhere")} THEN DropLast(Front(t)) ELSE t
DropFirst(t) == IF t # <<>> /\ t[1] \in {Op(","), Op("~")} THEN DropFirst(Tail(t)) ELSE t
Cleanup(t) == DropFirst(DropLast(Unbraced(t, 1)))

RenderTokens(t) == FoldLeft(LAMBDA s, k : IF k = Op("~") THEN s ELSE s \o k[2], "", t)

TRANS_FUNCS == {"\\exp", "\\log", "\\ln", "\\sin", "\\cos", "\\tan"}
DIFFS == {Sym("d"), Cmd("\\partial"), Sym("D")}
FRACTIONS == {"\\frac", "\\dfrac", "\\tfrac"}
OVERDOTS == "\\dot" :> One @@ "\\ddot" :> Whole(2) @@ "\\dddot" :> Whole(3)
LIMITS == {"\\lim", "\\max", "\\min", "\\sup"}
DOTS == {"\\cdots", "\\ldots", "\\dots"}
EULER == {"e"}
DOT_ATOM == "<dot>"
NABLA_ATOM == "<nabla>"
PARTIAL_ATOM == "<partial>"

OPENS == {Op("("), Op("["), Op("{")}
CLOSES == {Op(")"), Op("]"), Op("}")}
STARTS == OPENS \cup {Op("|")}

(***************************************************************************)
(* The cursor                                                              *)
(***************************************************************************)
End == Tok("end", "")
At(s, k) == IF s.i + k <= Len(s.t) THEN s.t[s.i + k] ELSE End
Peek(s) == At(s, 0)
Skip(s, n) == [s EXCEPT !.i = @ + n]
Cursor(t, o) == [t |-> t, i |-> 1, o |-> o]

Ok(ast, name, s) == {[err |-> "", ast |-> ast, name |-> name, s |-> s]}
Fail(kind) == {[err |-> kind, ast |-> <<"free">>, name |-> "", s |-> Cursor(<<>>, {})]}
Then(R, F(_)) == UNION {IF r.err # "" THEN {r} ELSE F(r) : r \in R}

TakeGroup(s) == Stretch(s.t, s.i, Op("{"), Op("}"), "truncated-group", "unbalanced-brace")
Take(s, F(_, _)) ==
    UNION {IF g.err # "" THEN Fail(g.err) ELSE F(g.body, [s EXCEPT !.i = g.next]) : g \in {TakeGroup(s)}}

SameName(e) == IF e[1] = "sym" THEN e[2] ELSE ""
Level0(t, a, b) == Level(t, OPENS, CLOSES, a, b) = 0
CloseOf(t, a) == CloseAt(t, OPENS, CLOSES, a)

StartsFactor(t) ==
    CASE t[1] \in {"sym", "num"} -> TRUE
      [] t[1] = "op" -> t \in STARTS
      [] t[1] = "cmd" -> t \notin MUL_CMDS \cup ADD_OPS \cup RELATIONS
      [] OTHER -> FALSE

(***************************************************************************)
(* const_fold: the rational a tree denotes, as a set of at most one.       *)
(***************************************************************************)
Power(b, n) == FoldLeft(Times, One, [i \in 1 .. Abs(n) |-> b])
RECURSIVE ConstFold(_)
ConstFold(e) ==
    CASE e[1] = "num" -> {e[2]}
      [] e[1] = "neg" -> {Minus(v) : v \in ConstFold(e[2])}
      [] e[1] = "div" -> {Over(p[1], p[2]) : p \in ConstFold(e[2]) \X (ConstFold(e[3]) \ {Zero})}
      [] e[1] = "mul" -> FoldLeft(LAMBDA acc, x : {Times(p[1], p[2]) : p \in acc \X ConstFold(x)},
                                  {One}, e[2])
      [] e[1] = "add" -> FoldLeft(LAMBDA acc, x : {Plus(p[1], p[2]) : p \in acc \X ConstFold(x)},
                                  {Zero}, e[2])
      [] e[1] = "pow" ->
            {IF e[3][1] < 0 THEN Over(One, Power(b, e[3][1])) ELSE Power(b, e[3][1]) :
                b \in {b \in ConstFold(e[2]) : e[3][2] = 1 /\ (e[3][1] >= 0 \/ b # Zero)}}
      [] OTHER -> {}

OneOf(q, default) == IF q = {} THEN default ELSE CHOOSE v \in q : TRUE

(***************************************************************************)
(* The grammar                                                             *)
(***************************************************************************)
RECURSIVE Parse(_, _), ExprRest(_, _), TermRest(_, _, _), FactorRest(_, _, _)
RECURSIVE ListRest(_, _, _), Wrt(_, _, _, _), Limits(_, _, _), AllOf(_, _, _), EatLimits(_)
RECURSIVE Super(_, _, _, _)

(* The nonterminals the grammar recurs through; a bare term stops at an    *)
(* explicit space.                                                         *)
Expr(s) == Parse("expr", s)
Term(s) == Parse("term", s)
BareTerm(s) == Parse("bare", s)
Factor(s) == Parse("factor", s)

Sub_(t, o) ==
    Then(Expr(Cursor(t, o)),
         LAMBDA r : IF Peek(r.s) # End THEN Fail("trailing-tokens") ELSE {r})
(* A group parsed on its own; its tree goes on with the cursor behind it. *)
Nested(g, s, F(_)) == Then(Sub_(g, s.o), LAMBDA r : F(r.ast))
GroupThen(s, F(_, _)) == Take(s, LAMBDA g, s2 : Nested(g, s2, LAMBDA e : F(e, s2)))

(* const_fold_tokens: of a prefix of the tokens, under the default options *)
DefaultOpts == [paren |-> "apply", delta |-> "transparent"]
Folded(R) == UNION {IF r.err # "" THEN {} ELSE ConstFold(r.ast) : r \in R}
FoldTokens(g) == Folded(Expr(Cursor(g, DefaultOpts)))

ExprRest(s, terms) ==
    IF Peek(s) \in ADD_OPS
    THEN Then(Term(Skip(s, 1)), LAMBDA r : ExprRest(r.s, Append(terms, r.ast)))
    ELSE Ok(IF Len(terms) = 1 THEN terms[1] ELSE <<"add", terms>>, "", s)

TermRest(s, node, stop) ==
    LET t == Peek(s)
    IN CASE t = Op("~") /\ ~stop -> TermRest(Skip(s, 1), node, stop)
         [] t \in {Op("/"), Cmd("\\div")} ->
                Then(Factor(Skip(s, 1)), LAMBDA r : TermRest(r.s, <<"div", node, r.ast>>, stop))
         [] t = Op("*") \/ t \in MUL_CMDS ->
                Then(Factor(Skip(s, 1)), LAMBDA r : TermRest(r.s, <<"mul", <<node, r.ast>>>>, stop))
         [] StartsFactor(t) /\ t # Cmd("\\div") ->
                Then(Factor(s), LAMBDA r : TermRest(r.s, <<"mul", <<node, r.ast>>>>, stop))
         [] OTHER -> Ok(node, "", s)

(* The arguments between s and the closer, split at their own commas.      *)
Arguments(t, a, c) ==
    LET cuts == {j \in a .. c - 1 : t[j] = Op(",") /\ Level0(t, a, j)} \cup {c}
        from(j) == Max({a} \cup {k + 1 : k \in {k \in cuts : k < j}})
    IN [i \in 1 .. Cardinality(cuts) |->
          LET j == CHOOSE j \in cuts : Cardinality({k \in cuts : k <= j}) = i
          IN Upto(t, from(j), j - 1)]
AllOf(groups, o, asts) ==
    IF groups = <<>> THEN Ok(asts, "", Cursor(<<>>, o))
    ELSE IF groups[1] = <<>> THEN AllOf(Tail(groups), o, asts)
    ELSE Then(Sub_(groups[1], o), LAMBDA r : AllOf(Tail(groups), o, Append(asts, r.ast)))

Application(s, node, c) ==
    IF c > Len(s.t) THEN Fail("unbalanced-paren")
    ELSE Then(AllOf(Arguments(s.t, s.i + 1, c), s.o, <<>>),
              LAMBDA r : FactorRest([s EXCEPT !.i = c + 1], <<"app", node, r.ast>>, ""))

Named(name, s) == FactorRest(s, <<"sym", name>>, name)
FactorRest(s, node, name) ==
    LET t == Peek(s)
    IN CASE t = Op("_") ->
              Take(Skip(s, 1), LAMBDA g, s2 :
                  IF name = "" THEN FactorRest(s2, node, name)
                  ELSE Named(name \o "_{" \o RenderTokens(g) \o "}", s2))
         [] t = Op("'") -> IF name = "" THEN FactorRest(Skip(s, 1), node, name)
                           ELSE Named(name \o "'", Skip(s, 1))
         [] t = Op("^") -> Take(Skip(s, 1), LAMBDA g, s2 : Super(s2, node, name, g))
         [] t = Op("!") -> FactorRest(Skip(s, 1), <<"dimensionless", node>>, "")
         [] t = Op("|") /\ At(s, 1) = Op("_") ->
              Take(Skip(s, 2), LAMBDA g, s2 : FactorRest(s2, node, name))
         [] t = Op("(") /\ name # "" /\ s.o.paren # "product" ->
              Application(s, node, CloseOf(s.t, s.i + 1))
         [] OTHER -> Ok(node, "", s)

(* A rational superscript is a power, letters on a symbol an index, and    *)
(* anything else an exponent of which nothing is known.                    *)
IsIndex(g) == g # <<>> /\ \A i \in DOMAIN g : g[i][1] = "sym" \/ (g[i][1] = "cmd" /\ g[i] # Cmd("\\|"))
Superscript(s, node, name, g, q, parse) ==
    CASE q # {} -> FactorRest(s, <<"pow", node, CHOOSE v \in q : TRUE>>, "")
      [] name \notin EULER /\ q = {} /\ IsIndex(g) /\ name # "" ->
             Named(name \o "^{" \o RenderTokens(g) \o "}", s)
      [] OTHER -> Then(parse, LAMBDA r :
             FactorRest(s, <<IF name \in EULER THEN "trans" ELSE "opaque", r.ast>>, ""))
Super(s, node, name, g) ==
    UNION {Superscript(s, node, name, g, Folded({r}), {r}) : r \in Sub_(g, s.o)}

(***************************************************************************)
(* Primaries                                                               *)
(***************************************************************************)
ListRest(s, parts, close) ==
    CASE Peek(s) = Op(",") ->
            Then(Expr(Skip(s, 1)), LAMBDA r : ListRest(r.s, Append(parts, r.ast), close))
      [] Peek(s) = Op(close) ->
            IF Len(parts) = 1 THEN Ok(parts[1], SameName(parts[1]), Skip(s, 1))
                              ELSE Ok(<<"mul", parts>>, "", Skip(s, 1))
      [] OTHER -> Fail("unbalanced-paren")

(* `|n\rangle` is a ket if that is the first bar or angle to close it, and *)
(* everything else a magnitude.                                            *)
Closing(t, a) ==
    Least0({j \in a .. Len(t) : Level0(t, a, j - 1) /\ t[j] \in CLOSES \cup {Op("|"), Cmd("\\rangle")}},
           Len(t) + 1)
Between(s, bar, err) ==
    Then(Expr(Skip(s, 1)),
         LAMBDA r : IF Peek(r.s) # bar THEN Fail(err)
                    ELSE Ok(<<"magnitude", r.ast>>, "", Skip(r.s, 1)))
Bar(s, c) ==
    IF c <= Len(s.t) /\ s.t[c] = Cmd("\\rangle")
    THEN LET name == "|" \o RenderTokens(Upto(s.t, s.i + 1, c - 1)) \o "\\rangle"
         IN Ok(<<"sym", name>>, name, [s EXCEPT !.i = c + 1])
    ELSE Between(s, Op("|"), "unbalanced-bar")

(***************************************************************************)
(* Derivatives written as fractions                                        *)
(***************************************************************************)
(* d with an optional order, and the rest: a set of at most one. *)
SplitDifferential(t) ==
    IF t = <<>> \/ t[1] \notin DIFFS THEN {}
    ELSE IF Len(t) < 2 \/ t[2] # Op("^") THEN {[order |-> One, body |-> Tail(t)]}
    ELSE LET g == Stretch(t, 3, Op("{"), Op("}"), "truncated-group", "unbalanced-brace")
         IN IF g.err # "" THEN {}
            ELSE {[order |-> q, body |-> Upto(t, g.next, Len(t))] : q \in FoldTokens(g.body)}

(* One segment of a denominator: its last `^`, if it ends the segment, is  *)
(* the order.                                                              *)
Segment(body) ==
    LET p == Max({0} \cup {p \in DOMAIN body : body[p] = Op("^")})
        g == Stretch(body, p + 1, Op("{"), Op("}"), "truncated-group", "unbalanced-brace")
        q == IF p = 0 \/ g.err # "" \/ g.next # Len(body) + 1 THEN {} ELSE FoldTokens(g.body)
    IN IF q = {} THEN [var |-> body, order |-> One]
       ELSE [var |-> Upto(body, 1, p - 1), order |-> CHOOSE v \in q : TRUE]

SplitDenominator(t) ==
    LET at == {i \in DOMAIN t : t[i] \in DIFFS}
        next(i) == Least0({j \in at : j > i}, Len(t) + 1)
        nth(k) == CHOOSE i \in at : Cardinality({j \in at : j <= i}) = k
    IN IF t = <<>> \/ 1 \notin at THEN <<>>
       ELSE [k \in 1 .. Cardinality(at) |-> Segment(Upto(t, nth(k) + 1, next(nth(k)) - 1))]

(* The variables with their orders; <<>> where a segment names no variable. *)
(* The numerator's order is the total one: it goes to a single factor only. *)
Wrt(segs, total, o, done) ==
    IF Len(done) = Len(segs) THEN Ok(done, "", Cursor(<<>>, o))
    ELSE LET seg == segs[Len(done) + 1]
             order == IF seg.order # One \/ Len(segs) > 1 THEN seg.order ELSE total
         IN IF seg.var = <<>> THEN Ok(<<>>, "", Cursor(<<>>, o))
            ELSE Then(Sub_(seg.var, o), LAMBDA r : Wrt(segs, total, o, Append(done, <<r.ast, order>>)))

PlainFraction(num, den, s) ==
    Nested(num, s, LAMBDA a : Nested(den, s, LAMBDA b : Ok(<<"div", a, b>>, "", s)))
(* In `\frac{d}{dt} m v` the operand is the product that follows. *)
Derived(body, wrt, s) ==
    IF body # <<>> THEN Nested(body, s, LAMBDA e : Ok(<<"deriv", e, wrt>>, "", s))
    ELSE Then(Term(s), LAMBDA r : Ok(<<"deriv", r.ast, wrt>>, "", r.s))
AsDerivative(top, num, den, segs, s) ==
    IF top = {} \/ segs = <<>> THEN PlainFraction(num, den, s)
    ELSE LET d == CHOOSE d \in top : TRUE
         IN Then(Wrt(segs, d.order, s.o, <<>>),
                 LAMBDA w : IF w.ast = <<>> THEN PlainFraction(num, den, s) ELSE Derived(d.body, w.ast, s))
FractionOf(s) ==
    Take(s, LAMBDA num, s1 : Take(s1, LAMBDA den, s2 :
        AsDerivative(SplitDifferential(num), num, den, SplitDenominator(den), s2)))

(***************************************************************************)
(* Integrals                                                               *)
(***************************************************************************)
(* Limits in either order, each parsed on its own; then(lower, upper, s).  *)
Limits(s, lo, hi) ==
    IF Peek(s) \notin {Op("_"), Op("^")} THEN Ok(<<lo, hi>>, "", s)
    ELSE LET low == Peek(s) = Op("_")
         IN Take(Skip(s, 1), LAMBDA g, s2 :
                IF g = <<>> THEN Limits(s2, IF low THEN <<>> ELSE lo, IF low THEN hi ELSE <<>>)
                ELSE Nested(g, s2, LAMBDA e :
                        Limits(s2, IF low THEN <<e>> ELSE lo, IF low THEN hi ELSE <<e>>)))

BodyEnd(t, start) ==
    Least0({j \in start .. Len(t) :
              \/ t[j] \in CLOSES /\ Level(t, OPENS, CLOSES, start, j) < 0
              \/ /\ Level0(t, start, j) /\ t[j] \notin CLOSES
                 /\ \/ t[j] \in RELATIONS
                    \/ t[j] \in ADD_OPS /\ (t[j][1] = "cmd" \/ j > start)},
           Len(t) + 1)

(* One differential `d^k x_a` at j: where it ends, its order and variable. *)
Subscripted(t, m, end) ==
    LET RECURSIVE past(_)
        past(k) == IF k + 1 < end /\ t[k] = Op("_")
                   THEN LET g == Stretch(t, k + 1, Op("{"), Op("}"), "truncated-group", "unbalanced-brace")
                        IN IF g.err # "" THEN -1 ELSE past(g.next)
                   ELSE k
    IN past(m + 1)
VarFrom(t, j, m, end, order) ==
    LET past == Subscripted(t, m, end)
    IN IF ~(m < end /\ t[m][1] \in {"sym", "cmd"}) THEN {}
       ELSE {[at |-> j, past |-> past, order |-> order, err |-> IF past = -1 THEN "unbalanced-brace" ELSE "",
              var |-> Upto(t, m, past - 1)]}
Powered_(t, j, end, g, r) ==
    IF r.err # "" THEN {[at |-> j, past |-> j, order |-> One, var |-> <<>>, err |-> r.err]}
    ELSE UNION {VarFrom(t, j, IF q = {} THEN j + 1 ELSE g.next, end, OneOf(q, One)) :
                  q \in {ConstFold(r.ast)}}
Differential(t, j, end, o) ==
    IF ~(j + 1 < end /\ t[j + 1] = Op("^")) THEN VarFrom(t, j, j + 1, end, One)
    ELSE UNION {IF g.err # "" THEN VarFrom(t, j, j + 1, end, One)
                ELSE UNION {Powered_(t, j, end, g, r) : r \in Sub_(g.body, o)} :
                  g \in {Stretch(t, j + 2, Op("{"), Op("}"), "truncated-group", "unbalanced-brace")}}

Measures(t, start, end, o) ==
    UNION {Differential(t, j, end, o) :
             j \in {j \in start .. end - 1 : Level0(t, start, j) /\ t[j] \in DIFFS \ {Sym("D")}}}

Integrand(s, body, measure, lims) ==
    IF body = <<>> THEN Fail("empty-integrand")
    ELSE Nested(body, s, LAMBDA e : Ok(<<"integral", e, measure, lims[1], lims[2]>>, "", s))

(* The measure that opens the integrand, or else the last one. *)
Measured(s, end, found, lims) ==
    LET torn == {h \in found : h.err # ""}
        of == IF \E h \in found : h.at = s.i THEN s.i ELSE Max({h.at : h \in found})
        h == CHOOSE h \in found : h.at = of
        after == [s EXCEPT !.i = end]
    IN CASE torn # {} -> Fail((CHOOSE h2 \in torn : \A k \in torn : h2.at <= k.at).err)
         [] found = {} -> Integrand(after, Upto(s.t, s.i, end - 1), <<>>, lims)
         [] OTHER -> Nested(h.var, after, LAMBDA v :
                Integrand(after, Upto(s.t, s.i, h.at - 1) \o Upto(s.t, h.past, end - 1),
                          <<<<v, h.order>>>>, lims))
Integral(s) ==
    Then(Limits(s, <<>>, <<>>), LAMBDA r :
        UNION {Measured(r.s, end, Measures(r.s.t, r.s.i, end, r.s.o), r.ast) :
                 end \in {BodyEnd(r.s.t, r.s.i)}})

(***************************************************************************)
(* Commands                                                                *)
(***************************************************************************)
EatLimits(s) ==
    IF Peek(s) \in {Op("_"), Op("^")} THEN Take(Skip(s, 1), LAMBDA g, s2 : EatLimits(s2))
    ELSE Ok(<<"free">>, "", s)
Over_(s, F(_)) == Then(EatLimits(s), LAMBDA r : Then(Term(r.s), LAMBDA x : Ok(F(x.ast), "", x.s)))

(* The optional index of a root. *)
IndexOf(g, o, after) ==
    IF g = <<>> THEN Fail("symbolic-root")
    ELSE Then(Sub_(g, o), LAMBDA r :
            IF ConstFold(r.ast) \subseteq {Zero} THEN Fail("symbolic-root")
            ELSE Ok(Over(One, OneOf(ConstFold(r.ast), One)), "", after))
Root(s) ==
    LET end == Least0({j \in s.i + 1 .. Len(s.t) : s.t[j] = Op("]") /\ Level0(s.t, s.i + 1, j - 1)},
                      Len(s.t) + 1)
    IN CASE Peek(s) # Op("[") -> Ok(Fraction(1, 2), "", s)
         [] Peek(s) = Op("[") /\ end > Len(s.t) -> Fail("unbalanced-bracket")
         [] OTHER -> IndexOf(Upto(s.t, s.i + 1, end - 1), s.o, [s EXCEPT !.i = end + 1])

(* The order a superscript gives an operator; an index gives it none. *)
OrderThen(s, F(_, _)) ==
    IF Peek(s) # Op("^") THEN F(One, s)
    ELSE Take(Skip(s, 1), LAMBDA g, s2 : F(OneOf(FoldTokens(g), One), s2))
SubscriptThen(s, F(_)) ==
    IF Peek(s) # Op("_") THEN F(s) ELSE Take(Skip(s, 1), LAMBDA g, s2 : F(s2))
(* An operator in front of a factor differentiates it; alone it is a symbol. *)
Operator(v, atom, order, s) ==
    IF ~StartsFactor(Peek(s)) THEN Ok(<<"sym", v>>, v, s)
    ELSE Then(Factor(s), LAMBDA r : Ok(<<"deriv", r.ast, <<<<<<"sym", atom>>, order>>>>>>, "", r.s))

(* A bare argument is the rest of the product up to an explicit thin space. *)
\* Faulty variant: \sin k x is \sin k, times x
TransArgFactor(s) == Factor(s)
TransArg(s) == IF Peek(s) \in STARTS \cup {Cmd("\\|")} THEN Factor(s) ELSE BareTerm(s)

(* `\langle` closes at the first `\rangle` before which none was opened    *)
(* again; bars split it into parts.                                        *)
Angle(s) ==
    LET end == Least0({j \in s.i .. Len(s.t) : s.t[j] = Cmd("\\rangle")}, Len(s.t) + 1)
        reopened == \E j \in s.i .. end - 1 : s.t[j] = Cmd("\\langle")
        bars == {j \in s.i .. end - 1 : s.t[j] = Op("|")} \cup {end}
        from(j) == Max({s.i} \cup {k + 1 : k \in {k \in bars : k < j}})
        nth(i) == CHOOSE j \in bars : Cardinality({k \in bars : k <= j}) = i
        parts == [i \in 1 .. Cardinality(bars) |-> Upto(s.t, from(nth(i)), nth(i) - 1)]
    IN CASE end > Len(s.t) \/ reopened -> Fail("unbalanced-angle")
         [] ~(end > Len(s.t) \/ reopened) /\ (\A i \in DOMAIN parts : parts[i] = <<>>) -> Fail("empty-bracket")
         [] OTHER -> Then(AllOf(parts, s.o, <<>>), LAMBDA r :
                Ok(IF Len(r.ast) = 1 THEN r.ast[1] ELSE <<"mul", r.ast>>, "", [s EXCEPT !.i = end + 1]))

DeltaOf(s) ==
    IF Peek(s) = Op("^") THEN Fail("delta-power")
    ELSE IF ~StartsFactor(Peek(s)) THEN Ok(<<"sym", "\\Delta">>, "\\Delta", s)
    ELSE Then(Factor(s), LAMBDA r : Ok(r.ast, SameName(r.ast), r.s))

Nabla(order, s) ==
    LET s1 == IF Peek(s) \in {Cmd("\\cdot"), Cmd("\\times")} THEN Skip(s, 1) ELSE s
    IN SubscriptThen(s1, LAMBDA s2 : Operator("\\nabla", NABLA_ATOM, order, s2))

Command(s, v) ==
    LET s1 == Skip(s, 1)
    IN CASE v \in FRACTIONS -> FractionOf(s1)
         [] v = "\\sqrt" -> Then(Root(s1), LAMBDA q :
                GroupThen(q.s, LAMBDA e, s2 : Ok(<<"pow", e, q.ast>>, "", s2)))
         [] v \in TRANS_FUNCS ->
                IF Peek(s1) = Op("^")
                THEN Take(Skip(s1, 1), LAMBDA g, s2 :
                        Then(TransArg(s2), LAMBDA r : Ok(<<"trans", r.ast>>, "", r.s)))
                ELSE Then(TransArg(s1), LAMBDA r : Ok(<<"trans", r.ast>>, "", r.s))
         [] v \in DOMAIN OVERDOTS -> GroupThen(s1, LAMBDA e, s2 :
                Ok(<<"deriv", e, <<<<<<"sym", DOT_ATOM>>, OVERDOTS[v]>>>>>>, "", s2))
         [] v = "\\nabla" -> OrderThen(s1, Nabla)
         [] v = "\\Box" ->
                OrderThen(s1, LAMBDA q, s2 : Operator(v, PARTIAL_ATOM, Whole(2), s2))
         [] v = "\\partial" -> SubscriptThen(s1, LAMBDA s2 :
                OrderThen(s2, LAMBDA q, s3 : Operator(v, PARTIAL_ATOM, q, s3)))
         [] v \in {"\\int", "\\oint"} -> Integral(s1)
         [] v = "\\sum" \/ v \in LIMITS -> Over_(s1, LAMBDA e : e)
         [] v = "\\prod" -> Over_(s1, LAMBDA e : <<"opaque", e>>)
         [] v = "\\Delta" /\ s.o.delta # "opaque" -> DeltaOf(s1)
         [] v = "\\langle" -> Angle(s1)
         [] v \in {"\\abs", "\\norm"} ->
                GroupThen(s1, LAMBDA e, s2 : Ok(<<"magnitude", e>>, "", s2))
         [] v = "\\|" -> Between(s, Cmd("\\|"), "unbalanced-norm")
         [] v = "\\infty" -> Ok(<<"free">>, "", s1)
         [] v \in DOTS -> Fail("ellipsis")
         [] Cmd(v) \in MUL_CMDS \cup ADD_OPS \cup RELATIONS -> Fail("dangling-operator")
         [] OTHER -> IF v \in {"\\#", "\\$"} THEN Fail("unknown-symbol") ELSE Ok(<<"sym", v>>, v, s1)

Primary(s) ==
    LET t == Peek(s)
    IN CASE t = End -> Fail("truncated")
         [] t[1] = "num" -> Ok(<<"num", NumberOf[t[2]]>>, "", Skip(s, 1))
         [] t[1] = "sym" -> Ok(t, t[2], Skip(s, 1))
         [] t \in {Op("("), Op("[")} ->
                Then(Expr(Skip(s, 1)),
                     LAMBDA r : ListRest(r.s, <<r.ast>>, IF t = Op("(") THEN ")" ELSE "]"))
         [] t = Op("{") -> GroupThen(s, LAMBDA e, s2 : Ok(e, SameName(e), s2))
         [] t = Op("|") -> Bar(s, Closing(s.t, s.i + 1))
         [] t[1] = "op" /\ t \notin STARTS -> Fail("unexpected-op")
         [] t[1] = "cmd" -> Command(s, t[2])

SignedFactor(s) ==
    IF Peek(s) \in ADD_OPS
    THEN Then(Factor(Skip(s, 1)), LAMBDA r : Ok(<<"neg", r.ast>>, "", r.s))
    ELSE Then(Primary(s), LAMBDA r : FactorRest(r.s, r.ast, r.name))
Parse(rule, s) ==
    CASE rule = "expr" -> Then(Term(s), LAMBDA r : ExprRest(r.s, <<r.ast>>))
      [] rule \in {"term", "bare"} ->
            Then(Factor(s), LAMBDA r : TermRest(r.s, r.ast, rule = "bare"))
      [] rule = "factor" -> SignedFactor(s)

(***************************************************************************)
(* p_document: a chain a = b = c is two relations; a silent relation ends  *)
(* a pair without asserting anything of it.                                *)
(***************************************************************************)
RECURSIVE Chain(_, _)
Chain(R, rels) ==
    Then(R, LAMBDA l :
        IF Peek(l.s) \in RELATIONS
        THEN Then(Expr(Skip(l.s, 1)), LAMBDA r :
                Chain({r}, IF Peek(l.s)[2] \in SILENT_RELS THEN rels ELSE Append(rels, <<l.ast, r.ast>>)))
        ELSE IF Peek(l.s) # End THEN Fail("trailing-tokens") ELSE Ok(rels, "", l.s))

ParseTokens(t, o) ==
    LET bad == {i \in DOMAIN t : t[i][1] = "bad"}
        kept == Cleanup(SelectSeq(t, LAMBDA k : k # Op("\\\\")))
    IN CASE bad # {} -> Fail(t[Min(bad)][2])
         [] bad = {} /\ kept = <<>> -> Fail("empty")
         [] OTHER -> Chain(Expr(Cursor(kept, o)), <<>>)
ParseEquation(src, o) == UNION {ParseTokens(t, o) : t \in {Tokens(src, 1)}}
=============================================================================
