---------------------------- MODULE DimExtractor ----------------------------
(***************************************************************************)
(* scripts/phys_dimlib.py (Extractor) and scripts/phys-calculus.py          *)
(* (CalcExtractor): the rows over atoms that a statement asserts about     *)
(* physical dimensions.                                                    *)
(*                                                                         *)
(* cx is the extractor's configuration while it reads one declaration:     *)
(* decl, its name; doms, the keys of its binders' domains; rules, the      *)
(* families of calculus rules in force; bvar, keying and literals, the     *)
(* options of those names.  at is the place of a visit in the walk: it     *)
(* names the fresh local atoms that the code numbers in order.             *)
(*                                                                         *)
(* An atom is <<"local", decl, kind, id>>, <<"bvar", key>>,                *)
(* <<"spine", head, keys>> or <<"proj", structure, index, key>>.  Keys are *)
(* not cut to a length.                                                    *)
(***************************************************************************)
EXTENDS Terms, Echelons

ADD == {"HAdd.hAdd", "Add.add", "HSub.hSub", "Sub.sub"}
MUL == {"HMul.hMul", "Mul.mul", "HSMul.hSMul", "SMul.smul"}
DIV == {"HDiv.hDiv", "Div.div"}
POW == {"HPow.hPow", "Pow.pow", "Monoid.npow", "Monoid.zpow", "DivisionRing.zpow"}
NEG == {"Neg.neg"}
INV == {"Inv.inv"}
CAST == {"Nat.cast", "Int.cast", "Rat.cast", "NNRat.cast", "IntCast.intCast",
         "NatCast.natCast", "RatCast.ratCast", "NNReal.toReal", "Real.toNNReal",
         "Complex.ofReal", "algebraMap", "ENNReal.toReal", "ENNReal.ofReal",
         "Subtype.val"}
LITERAL == {"OfNat.ofNat", "OfScientific.ofScientific", "Zero.zero", "One.one"}

(***************************************************************************)
(* Numerals.  NoNumeral where the term is not one.                         *)
(***************************************************************************)
NoNumeral == <<>>
FirstOf(vs) == LET is == {i \in DOMAIN vs : vs[i] # NoNumeral}
               IN IF is = {} THEN NoNumeral ELSE vs[Min(is)]

RECURSIVE NatLiteral(_)
NatLiteral(e) ==
    LET s == Spine(e)
    IN IF Tag(e) = "n" THEN Whole(e[2])
       ELSE IF ConstName(s.head) \in {"OfNat.ofNat", "Nat.cast", "Int.cast"}
       THEN FirstOf([i \in DOMAIN s.args |-> NatLiteral(s.args[i])])
       ELSE NoNumeral

(* last and prev are the values of the last two arguments. *)
RatApplied(name, n, last, prev) ==
    CASE name = "Zero.zero" -> Zero
      [] name = "One.one" -> One
      [] name \in CAST /\ n >= 1 -> last
      [] name \in NEG /\ n >= 1 /\ last # NoNumeral -> Minus(last)
      [] name \in INV /\ n >= 1 /\ last \notin {NoNumeral, Zero} -> Over(One, last)
      [] name \in DIV /\ n >= 2 /\ prev # NoNumeral /\ last \notin {NoNumeral, Zero} ->
             Over(prev, last)
      [] name \in MUL /\ n >= 2 /\ NoNumeral \notin {prev, last} -> Times(prev, last)
      [] OTHER -> NoNumeral

RECURSIVE RatLiteral(_)
RatLiteral(e) ==
    LET s == Spine(e)
        name == ConstName(s.head)
        v(i) == RatLiteral(s.args[i])
        n == Len(s.args)
    IN CASE Tag(e) = "n" -> Whole(e[2])
         [] name \in {"OfNat.ofNat", "OfScientific.ofScientific"} ->
                FirstOf([i \in DOMAIN s.args |-> v(i)])
         [] OTHER -> RatApplied(name, n, v(n), v(n - 1))

(***************************************************************************)
(* The rules: family, arity of the fully applied spine, what the head does *)
(* and which arguments it does it with, counted from the end.              *)
(***************************************************************************)
Rule(family, arity, form, at) ==
    [family |-> family, arity |-> arity, form |-> form, at |-> at]

ValueRules ==
    "deriv" :> Rule("deriv", 8, "derivative", <<2, 1>>)
    @@ "derivWithin" :> Rule("deriv", 9, "derivative", <<3, 1>>)
    @@ "fderiv" :> Rule("deriv", 12, "derivative", <<2, 1>>)
    @@ "fderivWithin" :> Rule("deriv", 13, "derivative", <<3, 1>>)
    @@ "iteratedDeriv" :> Rule("deriv", 8, "iterated", <<2, 1, 3>>)
    @@ "iteratedFDeriv" :> Rule("deriv", 11, "iterated", <<2, 1, 3>>)
    @@ "gradient" :> Rule("deriv", 8, "derivative", <<2, 1>>)
    @@ "MeasureTheory.integral" :> Rule("integral", 7, "integral", <<2, 1>>)
    @@ "MeasureTheory.lintegral" :> Rule("integral", 4, "integral", <<2, 1>>)
    @@ "intervalIntegral" :> Rule("integral", 7, "interval", <<4, 3, 2>>)
    @@ "Time.deriv" :> Rule("physlib", 6, "derivative", <<2, 1>>)
    @@ "Space.deriv" :> Rule("physlib", 8, "derivative", <<2, 1>>)
    @@ "Finset.sum" :> Rule("sum", 5, "values", <<1>>)
    @@ "tsum" :> Rule("sum", 6, "values", <<2>>)
    @@ "Matrix.trace" :> Rule("sum", 5, "same", <<1>>)
    @@ "Norm.norm" :> Rule("norm", 3, "same", <<1>>)
    @@ "NNNorm.nnnorm" :> Rule("norm", 3, "same", <<1>>)
    @@ "ENorm.enorm" :> Rule("norm", 3, "same", <<1>>)
    @@ "abs" :> Rule("norm", 4, "same", <<1>>)
    @@ "Dist.dist" :> Rule("norm", 4, "alike", <<2, 1>>)
    @@ "EDist.edist" :> Rule("norm", 4, "alike", <<2, 1>>)
    @@ "Real.sqrt" :> Rule("power", 1, "root", <<1>>)
    @@ "Real.rpow" :> Rule("power", 2, "power", <<2, 1>>)
    @@ "HPow.hPow" :> Rule("power", 6, "power", <<2, 1>>)
    @@ "Inner.inner" :> Rule("bilinear", 5, "product", <<2, 1>>)
    @@ "Matrix.mulVec" :> Rule("bilinear", 7, "product", <<2, 1>>)
    @@ "DFunLike.coe" :> Rule("bilinear", 6, "bundle", <<2, 1, 6>>)
    @@ "Complex.ofReal" :> Rule("cast", 1, "same", <<1>>)
    @@ "NNReal.toReal" :> Rule("cast", 1, "same", <<1>>)
    @@ "ENNReal.toReal" :> Rule("cast", 1, "same", <<1>>)
    @@ "Real.toNNReal" :> Rule("cast", 1, "same", <<1>>)
    @@ "ENNReal.ofReal" :> Rule("cast", 1, "same", <<1>>)
    @@ "WithLp.ofLp" :> Rule("cast", 3, "same", <<1>>)
    @@ "WithLp.toLp" :> Rule("cast", 3, "same", <<1>>)
    @@ "Subtype.mk" :> Rule("cast", 4, "same", <<2>>)
    @@ "ite" :> Rule("branch", 5, "alike", <<2, 1>>)
    @@ "Max.max" :> Rule("branch", 4, "alike", <<2, 1>>)
    @@ "Min.min" :> Rule("branch", 4, "alike", <<2, 1>>)

PropRules ==
    "HasDerivAt" :> Rule("deriv", 10, "derivative", <<3, 1, 2>>)
    @@ "HasDerivWithinAt" :> Rule("deriv", 11, "derivative", <<4, 1, 3>>)
    @@ "HasFDerivAt" :> Rule("deriv", 13, "derivative", <<3, 1, 2>>)
    @@ "HasSum" :> Rule("sum", 7, "values", <<3, 3, 2>>)

FAMILIES == {ValueRules[n].family : n \in DOMAIN ValueRules}
LINEAR_BUNDLES == {"LinearMap", "ContinuousLinearMap", "LinearEquiv",
    "ContinuousLinearEquiv", "LinearIsometry", "LinearIsometryEquiv",
    "AddMonoidHom", "AddEquiv", "LinearPMap", "Matrix"}
VALUE_BUNDLES == {"Module.Basis", "OrthonormalBasis", "Equiv", "Finsupp",
    "SchwartzMap", "ContinuousMap", "Homeomorph", "Function.Embedding",
    "ProbDistribution", "MeasureTheory.SimpleFunc",
    "Representation.IntertwiningMap"}
SCALARS == {"Real", "Complex", "NNReal", "ENNReal", "EReal", "Rat", "NNRat", "Int",
    "Nat", "PNat", "Fin", "ZMod", "Bool", "Float", "UInt8", "UInt16", "UInt32",
    "UInt64", "USize", "Quaternion", "RCLike", "Polynomial", "Prop"}

(* An argument of a rule, of the spine cut to the rule's arity. *)
Arg(rule, args, i) == args[rule.arity + 1 - rule.at[i]]

(* The rule's own reasons to return None: an exponent or an order that is  *)
(* not a numeral, one the base solver reads, an unknown bundle.            *)
Bounded(v) == v # NoNumeral /\ Abs(v[1]) <= 64 * v[2]
Usable(rule, name, args) ==
    CASE rule.form = "iterated" ->
            LET k == RatLiteral(Arg(rule, args, 3)) IN Bounded(k) /\ k[1] >= 0
      [] rule.form = "power" ->
            /\ Bounded(RatLiteral(Arg(rule, args, 2)))
            /\ name = "HPow.hPow" => NatLiteral(Arg(rule, args, 2)) = NoNumeral
      [] rule.form = "bundle" ->
            HeadName(Arg(rule, args, 3)) \in LINEAR_BUNDLES \cup VALUE_BUNDLES
      [] OTHER -> TRUE

Fires(rules, name, args, cx) ==
    /\ name \in DOMAIN rules
    /\ rules[name].family \in cx.rules
    /\ Len(args) >= rules[name].arity
    /\ Usable(rules[name], name, args)

(***************************************************************************)
(* Atoms                                                                   *)
(***************************************************************************)
Key(e) == IF Open(e) THEN <<"_">> ELSE Render(e)
Keys(args) == [i \in DOMAIN args |-> Key(args[i])]
Fresh(at, cx) == <<"local", cx.decl, "f", at>>
IsLocal(atom) == atom[1] = "local" \/ (atom[1] = "proj" /\ atom[4] = <<"_">>)

(* The key of a binder's domain, None where it must not be used. *)
TypeKey(ty, cx) ==
    LET s == Spine(ty)
        n == ConstName(s.head)
    IN IF \/ n = "none"
          \/ n \in SCALARS /\ cx.bvar \in {"type-nonscalar", "type-nonscalar-closed"}
          \/ Open(ty) /\ cx.bvar = "type-nonscalar-closed"
       THEN None ELSE <<n, Keys(s.args)>>

(* The binders of a statement: absolute index and key of the domain. *)
RECURSIVE Binders(_, _, _)
Binders(e, d, cx) ==
    (IF Tag(e) \in {"p", "l", "e"} THEN {<<d, TypeKey(e[2], cx)>>} ELSE {})
    \cup UNION {Binders(Parts(e)[i], d + Under(e, i), cx) : i \in DOMAIN Parts(e)}

(* An index whose binders disagree, or have no key, is not usable. *)
Domains(tree, cx) ==
    LET bs == IF cx.bvar = "local" THEN {} ELSE Binders(tree, 0, cx)
        keys(d) == {b[2] : b \in {b \in bs : b[1] = d}}
        sure == {d \in {b[1] : b \in bs} : Cardinality(keys(d)) = 1 /\ keys(d) # {None}}
    IN [d \in sure |-> CHOOSE k \in keys(d) : TRUE]

BvarAtom(i, depth, cx) ==
    LET abs == depth - 1 - i
    IN IF abs \in DOMAIN cx.doms THEN <<"bvar", cx.doms[abs]>>
                                 ELSE <<"local", cx.decl, "b", abs>>

SpineAtom(h, args, depth, at, cx) ==
    CASE Tag(h) = "c" -> <<"spine", h[2], IF cx.keying = "coarse" THEN <<>> ELSE Keys(args)>>
      [] Tag(h) = "b" -> BvarAtom(h[2], depth, cx)
      [] Tag(h) = "j" -> <<"proj", h[2], h[3], Key(h[4])>>
      [] OTHER -> Fresh(at, cx)

(***************************************************************************)
(* The dimension of a term, with the rows met on the way.                  *)
(***************************************************************************)
Found(dim, rows) == [dim |-> dim, rows |-> rows]
Emitted(row) == IF row = NoRow THEN <<>> ELSE <<row>>
Literal(e, at, cx) ==
    Found(IF cx.literals = "free" \/ NatLiteral(e) \in {Zero, One}
          THEN Unit(Fresh(at, cx)) ELSE NoRow, <<>>)

(* What is visited of a term, in order: a subterm, or the values of a      *)
(* function, which for a lambda are those of its body under the binder.  A *)
(* form says what becomes of the dimensions found.                         *)
Visit(e, depth, at) == [e |-> e, depth |-> depth, at |-> at]
FunVisit(f, depth, at) == IF Tag(f) = "l" THEN Visit(f[3], depth + 1, at) ELSE Visit(f, depth, at)

RuleVisits(rule, args, depth, at) ==
    LET of(i) == Visit(Arg(rule, args, i), depth, Append(at, i))
        fun(i) == FunVisit(Arg(rule, args, i), depth, Append(at, 4))
    IN CASE rule.form \in {"derivative", "iterated"} -> <<of(2), fun(1)>>
         [] rule.form = "integral" -> <<of(1), fun(2)>>
         [] rule.form = "interval" -> <<of(2), of(3), fun(1)>>
         [] rule.form = "values" -> <<fun(1)>>
         [] rule.form \in {"alike", "product"}
            \/ (rule.form = "bundle" /\ HeadName(Arg(rule, args, 3)) \in LINEAR_BUNDLES) ->
                <<of(1), of(2)>>
         [] OTHER -> <<of(1)>>

BaseVisits(name, args, depth, at) ==
    LET n == Len(args)
        last == Visit(FromEnd(args, 1), depth, Append(at, 1))
        prev == Visit(FromEnd(args, 2), depth, Append(at, 2))
    IN CASE name \in ADD \cup MUL \cup DIV /\ n >= 2 -> <<prev, last>>
         [] name \in POW /\ n >= 2 /\ Bounded(NatLiteral(FromEnd(args, 1))) -> <<prev>>
         [] (name \in CAST /\ n >= 2) \/ (name \in INV \cup NEG /\ n >= 1) -> <<last>>
         [] OTHER -> <<>>

(* A lambda's binder is identified with what it is applied to.             *)
Applied(f, dim, depth, cx) ==
    IF Tag(f) = "l" THEN Emitted(Sub(Unit(BvarAtom(0, depth + 1, cx)), dim)) ELSE <<>>

DerivAtTimes(fdim, xdim, order) == Add(fdim, Scale(xdim, order))
DerivAt(fdim, xdim, order) == Sub(fdim, Scale(xdim, order))

(* sub: what the visits found, with the rows of each. *)
RuleDim(rule, args, sub, depth, cx) ==
    LET arg(i) == Arg(rule, args, i)
        d(i) == sub[i].dim
        first == sub[1].rows
        both == first \o sub[2].rows
    IN CASE rule.form = "derivative" ->
                Found(DerivAt(d(2), d(1), One), first \o Applied(arg(1), d(1), depth, cx) \o sub[2].rows)
         [] rule.form = "iterated" ->
                Found(DerivAt(d(2), d(1), RatLiteral(arg(3))),
                      first \o Applied(arg(1), d(1), depth, cx) \o sub[2].rows)
         [] rule.form = "integral" ->
                Found(Add(d(2), d(1)), first \o Applied(arg(2), d(1), depth, cx) \o sub[2].rows)
         [] rule.form = "interval" ->
                Found(Add(d(3), d(1)), both \o Emitted(Sub(d(1), d(2)))
                          \o Applied(arg(1), d(1), depth, cx) \o sub[3].rows)
         [] rule.form = "alike" -> Found(d(1), both \o Emitted(Sub(d(1), d(2))))
         [] rule.form = "root" -> Found(Scale(d(1), Fraction(1, 2)), first)
         [] rule.form = "power" -> Found(Scale(d(1), RatLiteral(arg(2))), first)
         [] Len(sub) = 2 -> Found(Add(d(1), d(2)), both)
         [] OTHER -> sub[1]

(* Extractor.dim: arithmetic, and everything else an atom. *)
BaseDim(e, s, sub, depth, at, cx) ==
    LET name == ConstName(s.head)
        d(i) == sub[i].dim
        both == sub[1].rows \o sub[2].rows
    IN CASE Len(sub) = 2 /\ name \in ADD -> Found(d(1), both \o Emitted(Sub(d(1), d(2))))
         [] Len(sub) = 2 /\ name \in MUL -> Found(Add(d(1), d(2)), both)
         [] Len(sub) = 2 /\ name \in DIV -> Found(Sub(d(1), d(2)), both)
         [] Len(sub) = 1 /\ name \in POW ->
                Found(Scale(d(1), NatLiteral(FromEnd(s.args, 1))), sub[1].rows)
         [] Len(sub) = 1 /\ name \in INV -> Found(Scale(d(1), Minus(One)), sub[1].rows)
         [] Len(sub) = 1 /\ name \in CAST \cup NEG -> sub[1]
         [] sub = <<>> /\ (name \in LITERAL \/ Tag(e) = "n") -> Literal(e, at, cx)
         [] sub = <<>> /\ Tag(e) \in {"l", "p", "s", "e"} -> Found(Unit(Fresh(at, cx)), <<>>)
         [] OTHER -> Found(Unit(SpineAtom(s.head, s.args, depth, at, cx)), <<>>)

(* CalcExtractor.dim: a rule where one fires. *)
RECURSIVE Dim(_, _, _, _)
Dim(e, depth, at, cx) ==
    LET s == Spine(e)
        name == ConstName(s.head)
        ruled == Fires(ValueRules, name, s.args, cx)
        visits == IF ruled THEN RuleVisits(ValueRules[name], s.args, depth, at)
                           ELSE BaseVisits(name, s.args, depth, at)
        found == FoldLeft(LAMBDA subs, v : Append(subs, Dim(v.e, v.depth, v.at, cx)),
                          <<>>, visits)
    IN Only({IF ruled THEN RuleDim(ValueRules[name], s.args, sub, depth, cx)
                      ELSE BaseDim(e, s, sub, depth, at, cx) : sub \in {found}})

(***************************************************************************)
(* The rows of a statement                                                 *)
(***************************************************************************)
Equation(u, v) == u.rows \o v.rows \o Emitted(Sub(u.dim, v.dim))

Dims(visits, cx) ==
    [i \in DOMAIN visits |-> Dim(visits[i].e, visits[i].depth, visits[i].at, cx)]

(* Eq nodes and additive nodes, at any depth. *)
RECURSIVE Scan(_, _, _, _)
Scan(e, depth, at, cx) ==
    LET s == Spine(e)
        name == IF Tag(e) = "a" THEN ConstName(s.head) ELSE "none"
        n == Len(s.args)
        sides == CASE name = "Eq" /\ n = 3 -> <<s.args[2], s.args[3]>>
                   [] name \in ADD /\ n >= 2 -> <<FromEnd(s.args, 2), FromEnd(s.args, 1)>>
                   [] OTHER -> <<>>
        visits == CASE sides = <<>> -> <<>>
                    [] name = "Eq" -> <<Visit(sides[1], depth, at \o <<0, 1>>),
                                        Visit(sides[2], depth, at \o <<0, 2>>)>>
                    [] OTHER -> <<Visit(e, depth, Append(at, 0))>>
        here == IF sides = <<>> THEN <<>>
                ELSE Only({IF name = "Eq" THEN Equation(dims[1], dims[2]) ELSE dims[1].rows :
                              dims \in {Dims(visits, cx)}})
        below == IF sides = <<>> THEN Branches(e) ELSE sides
        under(i) == IF sides = <<>> THEN Deeper(e, i) ELSE 0
    IN here \o FlattenSeq([i \in DOMAIN below |->
                             Scan(below[i], depth + under(i), Append(at, i), cx)])

(* The propositions that are equations about dimensions without being Eq. *)
PropDim(rule, args, x, f, depth, cx) ==
    IF rule.form = "derivative"
    THEN Found(DerivAt(f.dim, x.dim, One), x.rows \o Applied(Arg(rule, args, 1), x.dim, depth, cx) \o f.rows)
    ELSE f
PropRows(rule, args, depth, at, cx) ==
    LET of(i) == Visit(Arg(rule, args, i), depth, at \o <<0, i>>)
        fun == FunVisit(Arg(rule, args, 1), depth, at \o <<0, 1>>)
    IN Only({Equation(dims[3], PropDim(rule, args, dims[2], dims[1], depth, cx)) :
                dims \in {Dims(<<fun, of(2), of(3)>>, cx)}})

RECURSIVE PropScan(_, _, _, _)
PropScan(e, depth, at, cx) ==
    LET s == Spine(e)
        name == IF Tag(e) = "a" THEN ConstName(s.head) ELSE "none"
    IN (IF Fires(PropRules, name, s.args, cx) THEN PropRows(PropRules[name], s.args, depth, at, cx)
        ELSE <<>>)
       \o FlattenSeq([i \in DOMAIN Branches(e) |->
              PropScan(Branches(e)[i], depth + Deeper(e, i), Append(at, i), cx)])

Rows(decl, tree, options) ==
    LET cx == [decl |-> decl, doms |-> Domains(tree, options)] @@ options
    IN (IF cx.rules = {} THEN <<>> ELSE PropScan(tree, 0, <<1>>, cx))
       \o Scan(tree, 0, <<2>>, cx)
=============================================================================
