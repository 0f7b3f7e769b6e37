---------------------------- MODULE MCDimensions ----------------------------
(***************************************************************************)
(* The two self-test corpora of phys-calculus.py and phys-dimensional.py,  *)
(* with the dimensions their authors fixed for them, cut into slices, and  *)
(* a travelling wave over scalar coordinates; slices for the corpus        *)
(* queries and the symmetry motifs; and papers.                            *)
(***************************************************************************)
EXTENDS GradingStudy, CorpusQueries, MotifSymmetry, PaperSystem

C(n) == Const(n)
R == C("Real")
TIME == C("Time")
I == C("i")
B == Bvar(0)
Of(n, x) == App(C(n), <<x>>)
Eq(l, r) == App(C("Eq"), <<R, l, r>>)
Mul(a, b) == App(C("HMul.hMul"), <<R, R, R, I, a, b>>)
Div_(a, b) == App(C("HDiv.hDiv"), <<R, R, R, I, a, b>>)
Plus_(a, b) == App(C("HAdd.hAdd"), <<R, R, R, I, a, b>>)
Pw(a, k) == App(C("HPow.hPow"), <<R, C("Nat"), R, I, a, k>>)
Fa(body) == Pi(TIME, body)
L(body) == Lam(TIME, body)
Drv(f, x) == App(C("deriv"), <<TIME, I, R, I, I, I, f, x>>)
IDrv(k, f, x) == App(C("iteratedDeriv"), <<TIME, I, R, I, I, Lit(k), f, x>>)
Ii(f, a, b) == App(C("intervalIntegral"), <<R, I, I, f, a, b, C("volume")>>)
Mi(f) == App(C("MeasureTheory.integral"), <<TIME, R, I, I, I, C("volume"), f>>)
Hda(f, fp, x) == App(C("HasDerivAt"), <<TIME, I, R, I, I, I, I, f, fp, x>>)

MCStatements ==
    "vel_def" :> Fa(Eq(Of("vel", B), Drv(L(Of("pos", B)), B)))
    @@ "acc_def" :> Fa(Eq(Of("acc", B), Drv(L(Of("vel", B)), B)))
    @@ "mom_def" :> Fa(Eq(Of("mom", B), Mul(C("mass"), Of("vel", B))))
    @@ "newton2" :> Fa(Eq(Of("force", B), Drv(L(Of("mom", B)), B)))
    @@ "work" :> Fa(Eq(Of("energy", B), Mul(Of("force", B), Of("pos", B))))
    @@ "impulse" :> Fa(Eq(Of("mom", B), Mi(L(Of("force", B)))))
    @@ "speed" :> Fa(Eq(Of("spd", B), App(C("Norm.norm"), <<R, I, Of("vel", B)>>)))
    @@ "speed_sq" :> Fa(Eq(Of("spd", B), App(C("Real.sqrt"), <<Of("spd2", B)>>)))
    @@ "energy_parts" :> Fa(Eq(Of("energy", B),
            App(C("Finset.sum"), <<R, C("Idx"), I, C("s"), Lam(C("Idx"), Of("epart", B))>>)))
    @@ "ftc" :> Fa(Fa(Eq(Of("pos", B), Ii(L(Of("vel", B)), Bvar(1), B))))
    @@ "acc_alt" :> Fa(Eq(Of("acc", B), IDrv(2, L(Of("pos", B)), B)))
    @@ "hyp" :> Fa(Pi(Hda(L(Of("pos", B)), Of("vel", B), B), C("True")))
    @@ "s_def" :> Eq(C("speed"), Div_(C("len"), C("time")))
    @@ "p_def" :> Eq(C("mom"), Mul(C("mass"), C("speed")))
    @@ "e_def" :> Eq(C("energy"), Mul(C("mom"), C("speed")))
    @@ "e_alt" :> Eq(C("energy"), Mul(C("mass"), Pw(C("speed"), Lit(2))))
    @@ "twice" :> Eq(Mul(C("two"), C("energy")), Mul(C("mom"), C("speed")))
    @@ "algebra" :> Pi(R, Eq(Plus_(B, B), Mul(C("two"), B)))
    \* du/dx at x is slowness times du/dt at t
    @@ "wave" :> Pi(R, Pi(R, Eq(
            App(C("deriv"), <<R, I, R, I, I, I, Lam(R, App(C("u"), <<B, Bvar(1)>>)), Bvar(1)>>),
            Mul(C("slow"), App(C("deriv"), <<R, I, R, I, I, I,
                                            Lam(R, App(C("u"), <<Bvar(2), B>>)), B>>)))))

D(l, t, m) == <<l, t, m>>
MCTruth ==
    "pos" :> D(1, 0, 0) @@ "vel" :> D(1, -1, 0) @@ "acc" :> D(1, -2, 0)
    @@ "mass" :> D(0, 0, 1) @@ "mom" :> D(1, -1, 1) @@ "force" :> D(1, -2, 1)
    @@ "energy" :> D(2, -2, 1) @@ "epart" :> D(2, -2, 1) @@ "spd" :> D(1, -1, 0)
    @@ "spd2" :> D(2, -2, 0) @@ "volume" :> D(0, 1, 0) @@ "Time" :> D(0, 1, 0)
    @@ "len" :> D(1, 0, 0) @@ "time" :> D(0, 1, 0) @@ "speed" :> D(1, -1, 0)
    @@ "two" :> D(0, 0, 0) @@ "area" :> D(2, -1, 0) @@ "u" :> D(1, 0, 0)
    @@ "slow" :> D(-1, 1, 0)
    @@ "LD" :> D(1, 0, 0) @@ "TD" :> D(0, 1, 0) @@ "wide" :> D(1, 0, 0) @@ "dist" :> D(1, 0, 0)
    @@ "bend" :> D(-1, 0, 0) @@ "per" :> D(-1, 0, 0) @@ "sq" :> D(2, -2, 0)
MCDimensionSet == Range(MCTruth) \cup {D(0, 2, 0), D(-1, 0, 0)}

MCCorpora == {
    <<"vel_def", "acc_def", "acc_alt">>,
    <<"mom_def", "newton2", "impulse", "hyp">>,
    <<"work", "newton2", "mom_def", "vel_def">>,
    <<"vel_def", "speed", "speed_sq", "energy_parts">>,
    <<"ftc", "hyp", "wave">>,
    <<"s_def", "p_def", "e_def", "e_alt", "algebra">>,
    <<"e_alt", "e_def", "p_def">>,
    <<"twice", "algebra">>,
    <<"vel_def", "acc_def", "mom_def", "newton2", "work", "impulse", "speed", "ftc">> }

Option(rules, bvar) ==
    [rules |-> rules, bvar |-> bvar, keying |-> "fine", literals |-> "dimensionless"]
MCOptions == {
    Option(FAMILIES, "type-nonscalar"),
    Option(FAMILIES \ {"physlib"}, "local"),
    Option({}, "type") }

-----------------------------------------------------------------------------
(* Slices of claims for the corpus queries. *)

K(x) == <<"c", x, <<>>>>
U(x) == <<"c", x, <<<<"u", 1>>>>>>
Bind(info, A, b) == <<"p", A, b, info>>
Ty == <<"s", <<"+", Zero_>>>>
PropS == <<"s", Zero_>>
X == Bvar(0)
Rel(r, T, i, x, y) == App(U(r), <<K(T), K(i), x, y>>)
Decl(n, k, m, s, c) == [name |-> n, kind |-> k, module |-> m, stmt |-> s, cites |-> c]
RelSig == Bind("i", Ty, Bind("t", App(U("Ord"), <<X>>), Bind("d", Bvar(1), Bind("d", Bvar(2), PropS))))
Refl(r, T, i) == Bind("d", K(T), Rel(r, T, i, X, X))
Tot(r, T, i) == Bind("d", K(T), Bind("d", K(T), Rel(r, T, i, Bvar(1), X)))
Con(r, T, i, c, d) == Rel(r, T, i, K(c), K(d))
Defs == << Decl("N", "inductive", "A", Ty, <<>>), Decl("Z", "inductive", "A", Ty, <<>>),
           Decl("le", "definition", "A", RelSig, <<>>), Decl("lt", "definition", "A", RelSig, <<>>),
           Decl("N.mk", "constructor", "A", K("N"), <<>>),
           Decl("nothing", "opaque", "A", None, <<>>),
           Decl("Ord", "class", "A", Bind("d", Ty, Ty), <<>>),
           Decl("iN", "instance", "A", App(U("Ord"), <<K("N")>>), <<>>) >>
OrderSlice == [decls |-> Defs \o <<
        Decl("r1", "theorem", "A", Refl("le", "N", "iN"), <<"r2", "r3">>),
        Decl("r2", "theorem", "B", Refl("lt", "N", "iN"), <<"r3", "r1", "N.mk">>),
        Decl("r3", "theorem", "C", Refl("le", "Z", "iZ"), <<"r1", "r2">>),
        Decl("r4", "theorem", "C", Refl("le", "N", "iZ"), <<"t1", "t1">>),
        Decl("t1", "theorem", "B", Tot("le", "N", "iN"), <<"r2", "r4">>),
        Decl("t2", "theorem", "C", Tot("lt", "N", "iN"), <<"gone", "r1">>),
        Decl("t3", "theorem", "C", Tot("lt", "N", "iZ"), <<"r1", "gone">>),
        Decl("r5", "theorem", "B", Refl("eq", "N", "iN"), <<>>),
        Decl("t4", "theorem", "A", Tot("eq", "N", "iN"), <<"r1", "r2", "r3">>),
        Decl("inst", "theorem", "B", App(U("Ord"), <<K("N")>>), <<>>) >>, closure |-> 98]
ConstantSlice == [decls |-> Defs \o <<
        Decl("c1", "theorem", "A", Con("le", "N", "iN", "o", "o"), <<"c2", "c2", "c3">>),
        Decl("c2", "theorem", "B", Con("le", "N", "iN", "o", "u"), <<"c1", "r">>),
        Decl("c3", "theorem", "A", Con("le", "N", "iN", "u", "u"), <<"c3", "c1", "c2">>),
        Decl("c4", "theorem", "B", Con("lt", "N", "iN", "u", "u"), <<"r", "s">>),
        Decl("p1", "theorem", "C", Bind("d", <<"j", "Ord", 0, K("o")>>, K("o")), <<>>),
        Decl("p2", "theorem", "C", Bind("d", <<"j", "Ord", 0, K("u")>>, K("u")), <<>>),
        Decl("p3", "lemma", "C", Bind("d", <<"j", "Ord", 0, K("u")>>, K("o")), <<>>) >>, closure |-> 96]
TextSlice == [decls |-> Defs \o <<
        Decl("h1", "theorem", "A", App(U("le"), <<K("N"), K("iN"), <<"t", 1>>, K("o")>>), <<"h2", "h3">>),
        Decl("h2", "theorem", "B", App(U("le"), <<K("N"), K("iN"), <<"t", 1>>, K("u")>>), <<"h3", "h1">>),
        Decl("h3", "theorem", "A", Bind("s", K("o"), Rel("le", "Z", "iN", X, K("o"))), <<>>),
        Decl("h4", "theorem", "A", Bind("s", K("u"), Rel("le", "Z", "iN", X, K("u"))), <<>>) >>, closure |-> 90]
DeepSlice == [decls |-> <<Defs[3], Defs[4],
        Decl("x1", "theorem", "A", App(U("le"), <<K("o"), K("u")>>), <<>>),
        Decl("x2", "theorem", "B", Bind("d", K("o"), App(U("le"), <<X, K("u")>>)), <<>>),
        Decl("x3", "theorem", "A", App(U("le"), <<K("o"), K("o")>>), <<>>) >>, closure |-> 99]
MCSlices == {OrderSlice, DeepSlice, ConstantSlice, TextSlice, [TextSlice EXCEPT !.closure = 95]}
MCWanted == {{"m1", "m2", "m6"}, {"m3", "m4", "m5"}}
MCDigest == [x \in {"N","Z","le","lt","eq","iN","iZ","Ord","o","u"} |->
   CASE x = "N" -> 1 [] x = "Z" -> 4 [] x = "le" -> 2 [] x = "lt" -> 5 [] x="iN" -> 3 [] x="iZ" -> 6 [] x="o" -> 0 [] x="u" -> 1 [] x="Ord" -> 2 [] x = "eq" -> 3]

-----------------------------------------------------------------------------
(* Slices of statements with and without a motif. *)

Re == K("R")
Bv(i) == <<"b", i>>
Fe(A, b) == <<"p", A, b, "d">>
Fi(A, b) == <<"p", A, b, "i">>
La(A, b) == <<"l", A, b, "d">>
F1(f, x) == App(K(f), <<x>>)
F2(f, x, y) == App(K(f), <<x, y>>)
EqR(l, r) == App(<<"c", "Eq", <<<<"u", 1>>>>>>, <<Re, l, r>>)
All(n, e) == FoldLeft(LAMBDA t, k : Fe(Re, t), e, [k \in 1 .. n |-> k])
abs_neg == All(1, EqR(F1("abs", F1("neg", Bv(0))), F1("abs", Bv(0))))
neg_neg == All(1, EqR(F1("neg", F1("neg", Bv(0))), Bv(0)))
unitary == All(2, EqR(F2("inn", Bv(1), Bv(0)), F2("inn", F1("U", Bv(1)), F1("U", Bv(0)))))
same2 == All(1, EqR(F2("inn", Bv(0), Bv(0)), F2("inn", F1("U", Bv(0)), F1("U", Bv(0)))))
mixed == All(2, EqR(F2("f", F1("g", Bv(1)), Bv(0)), F2("f", Bv(1), F1("h", Bv(0)))))
comm == All(2, EqR(F2("add", Bv(1), Bv(0)), F2("add", Bv(0), Bv(1))))
subself == All(1, EqR(F2("sub", Bv(0), Bv(0)), K("zero")))
drop == Fi(Re, All(1, EqR(F2("f", Bv(0), Bv(1)), F1("g", Bv(1)))))
dropI == Fe(Re, Fi(Re, EqR(F2("f", Bv(0), Bv(1)), F1("g", Bv(1)))))
dropR == All(1, EqR(F1("f", K("zero")), F1("g", Bv(0))))
proj == All(1, EqR(<<"j", "S", 0, Bv(0)>>, <<"j", "S", 1, Bv(0)>>))
projw == All(1, EqR(<<"j", "S", 0, <<"j", "T", 1, Bv(0)>>>>, Bv(0)))
imp == Fe(Re, Fe(F1("P", F1("s", Bv(0))), F1("P", F1("s", F1("t", Bv(1))))))
impdep == Fe(Re, Fe(F2("le", Bv(0), K("one")), Fe(F2("Rel", Bv(0), Bv(1)), F2("Rel", Bv(1), Bv(2)))))
swapimp == All(2, Fe(F2("le", Bv(1), Bv(0)), F2("le", Bv(1), Bv(2))))
bind == All(1, EqR(F1("sum", La(Re, F2("h", Bv(0), Bv(1)))), F1("sum", La(Re, F2("h", Bv(0), F1("s", Bv(1)))))))
depth == All(1, EqR(F2("k", Bv(0), La(Re, Bv(0))), F2("k", F1("s", Bv(0)), La(Re, F1("s", Bv(0))))))
many == All(3, EqR(App(K("f3"), <<Bv(2), Bv(1), Bv(0)>>), App(K("f3"), <<F1("s", Bv(2)), F1("s", Bv(1)), F1("s", Bv(0))>>)))
cyc == All(3, EqR(App(K("f3"), <<Bv(2), Bv(1), Bv(0)>>), App(K("f3"), <<Bv(1), Bv(0), Bv(2)>>)))
hide == All(1, EqR(La(Re, Bv(1)), Bv(0)))
lets == All(1, EqR(<<"e", Re, Bv(0), Bv(0)>>, <<"e", Re, F1("s", Bv(0)), Bv(0)>>))
sqneg == All(1, EqR(F1("sq", F1("neg", Bv(0))), F1("sq", Bv(0))))
two == All(2, EqR(F2("f", F1("g", Bv(1)), F1("h", Bv(0))), F2("f", Bv(1), Bv(0))))
big == All(4, EqR(App(K("f4"), <<Bv(3), Bv(2), Bv(1), Bv(0)>>), App(K("f4"), <<Bv(3), Bv(2), Bv(1), Bv(0)>>)))
nonrel == F1("P", K("zero"))
apps == All(1, EqR(F1("sin", Bv(0)), F1("abs", F1("sin", Bv(0)))))
Row(n, m, s, us, up) == [name |-> n, kind |-> "theorem", module |-> m, stmt |-> s, us |-> us, up |-> up]
PhysA == <<"Phys", "A">>
PhysB == <<"Phys", "B", "X">>
Math == <<"Math">>
MotifSlice1 == << Row("abs_neg", PhysA, abs_neg, <<"f">>, <<"neg_neg", "unitary">>),
         Row("neg_neg", PhysB, neg_neg, <<>>, <<"abs_neg", "neg_neg">>),
         Row("unitary", PhysB, unitary, <<"same2">>, <<"neg_neg">>),
         Row("subself", PhysA, subself, <<"abs_neg">>, <<"comm", "abs_neg">>),
         Row("comm", PhysA, comm, <<>>, <<"unitary">>),
         Row("sqneg", Math, sqneg, <<>>, <<"subself">>),
         [Row("ax", PhysA, unitary, <<>>, <<>>) EXCEPT !.kind = "axiom"],
         Row("none", PhysA, None, <<>>, <<>>) >>
MotifSlice2 == << Row("imp", PhysA, imp, <<>>, <<"dropR">>), Row("swapimp", PhysB, swapimp, <<>>, <<"imp">>),
         Row("bind", PhysB, bind, <<>>, <<"dropR", "imp">>), Row("dropR", PhysB, dropR, <<>>, <<"bind">>),
         Row("same2", PhysA, same2, <<"bind">>, <<>>), Row("broken", PhysA, Garbled, <<>>, <<>>),
         Row("many", PhysA, many, <<"same2">>, <<"bind">>), Row("hide", Math, hide, <<>>, <<>>) >>
MotifSlice3 == << Row("mixed", PhysA, mixed, <<>>, <<>>), Row("proj", PhysA, proj, <<>>, <<>>), Row("projw", PhysA, projw, <<>>, <<"apps">>),
         Row("depth", PhysB, depth, <<>>, <<"projw">>), Row("cyc", PhysB, cyc, <<>>, <<>>),
         Row("comm", PhysB, comm, <<>>, <<>>), Row("mulcomm", PhysB, comm, <<"projw">>, <<"depth">>), Row("apps", Math, apps, <<>>, <<>>) >>
MotifSlice4 == << Row("impdep", PhysA, impdep, <<>>, <<>>), Row("dropI", PhysA, dropI, <<>>, <<"impdep">>), Row("nonrel", PhysA, nonrel, <<>>, <<>>),
         Row("drop", PhysB, drop, <<>>, <<"unitary">>), Row("unitary", PhysB, unitary, <<"drop">>, <<"drop">>),
         Row("two", Math, two, <<>>, <<>>), Row("big", Math, big, <<>>, <<>>), Row("subself", Math, subself, <<>>, <<>>) >>
MCSymmetrySlices == {MotifSlice1, MotifSlice2, MotifSlice3, MotifSlice4}
MCScopes == {{}, {<<"Phys">>}}
MCSelf == "abs_neg" :> "INV" @@ "comm" :> "SWAP" @@ "subself" :> "CONS" @@ "imp" :> "INV_IMP" @@ "mixed" :> "none"
   @@ "broken" :> "none" @@ "hide" :> "none" @@ "lets" :> "INV"

-----------------------------------------------------------------------------
(* Papers in the forms the corpora and the unit tests of paper-dim.py use, *)
(* each with the rows its author meant.                                    *)

M1 == Minus(One)
MeansRow(f) == FoldSet(LAMBDA n, r : (Atom(n) :> f[n]) @@ r, <<>>, DOMAIN f)
Rows_(fs) == [i \in DOMAIN fs |-> MeansRow(fs[i])]
Def(kind, name, args, body) == [kind |-> kind, name |-> name, args |-> args, body |-> body]
Paper(displays, macros, rows, exact) ==
    [displays |-> displays, macros |-> macros, rows |-> Rows_(rows), exact |-> exact]

\* F&= m a,\\&=\frac{dp}{dt}
\* W=\int_0^x F\,dx\quad p=m v
Mechanics == Paper(
    <<<<"F", "&", "=", " ", "m", " ", "a", "\\\\", "&", "=", "\\frac", "{", "d", "p", "}", "{", "d", "t", "}">>,
      <<"W", "=", "\\int", "_", "0", "^", "x", " ", "F", "\\,", "d", "x", "\\quad", " ", "p", "=", "m", " ", "v">>>>,
    <<>>,
    <<("F" :> One @@ "m" :> M1 @@ "a" :> M1),
      ("m" :> One @@ "a" :> One @@ "p" :> M1 @@ "t" :> One),
      ("W" :> One @@ "F" :> M1 @@ "x" :> M1),
      ("p" :> One @@ "m" :> M1 @@ "v" :> M1)>>, TRUE)

\* E=\frac{1}{2}m v^2+m g h
\* \omega=\sqrt{\frac{k}{m}}
\* \ddot{x}=a\quad y=A\sin\omega t
Oscillator == Paper(
    <<<<"E", "=", "\\frac", "{", "1", "}", "{", "2", "}", "m", " ", "v", "^", "2", "+", "m", " ", "g", " ", "h">>,
      <<"\\omega", "=", "\\sqrt", "{", "\\frac", "{", "k", "}", "{", "m", "}", "}">>,
      <<"\\ddot", "{", "x", "}", "=", "a", "\\quad", " ", "y", "=", "A", "\\sin", "\\omega", " ", "t">>>>,
    <<>>,
    <<("E" :> One @@ "m" :> M1 @@ "v" :> Whole(-2)),
      ("v" :> Whole(2) @@ "g" :> M1 @@ "h" :> M1),
      ("\\omega" :> One @@ "k" :> <<-1, 2>> @@ "m" :> <<1, 2>>),
      ("x" :> One @@ "<dot>" :> Whole(-2) @@ "a" :> M1),
      ("\\omega" :> One @@ "t" :> One),
      ("y" :> One @@ "A" :> M1)>>, TRUE)

\* N=N_0e^{-t/\tau}\cos(\omega t+\phi)
\* y=f(x)\\+k z
\* E=0\quad V\propto r
Decay == Paper(
    <<<<"N", "=", "N", "_", "0", "e", "^", "{", "-", "t", "/", "\\tau", "}", "\\cos", "(", "\\omega", " ", "t", "+", "\\phi", ")">>,
      <<"y", "=", "f", "(", "x", ")", "\\\\", "+", "k", " ", "z">>,
      <<"E", "=", "0", "\\quad", " ", "V", "\\propto", " ", "r">>>>,
    <<>>,
    <<("N" :> One @@ "N_{0}" :> M1),
      ("t" :> One @@ "\\tau" :> M1),
      ("\\omega" :> One @@ "t" :> One),
      ("\\phi" :> One),
      ("y" :> One @@ "f" :> M1),
      ("y" :> One @@ "k" :> M1 @@ "z" :> M1)>>, FALSE)

\* \vb{F}=q\rpd{v},\text{where}B=y
\* \dv{p}{t}=\mathcal{L}
Fields == Paper(
    <<<<"\\vb", "{", "F", "}", "=", "q", "\\rpd", "{", "v", "}", ",", "\\text", "{", "where", "}", "B", "=", "y">>,
      <<"\\dv", "{", "p", "}", "{", "t", "}", "=", "\\mathcal", "{", "L", "}">>>>,
    <<Def("newcommand", "\\rpd", 1, <<"\\frac", "{", "\\partial", "#1", "}", "{", "\\partial", " ", "t", "}">>),
      Def("def", "\\rpd", 1, <<"\\frac", "{", "#1", "}", "{", "t", "}">>),
      Def("newcommand", "\\vb", 1, <<"\\mathbf", "{", "#1", "}">>)>>,
    <<("F" :> One @@ "q" :> M1 @@ "v" :> M1 @@ "t" :> One),
      ("p" :> One @@ "t" :> M1 @@ "\\mathcal{L}" :> M1)>>, TRUE)

\* \nabla\cdot\vec{g}=-4\pi G\rho
\* \frac{d}{dt}m v=F
\* \frac{\partial^2u}{\partial x\partial y}=w
\* \Delta t=\abs{t_1-t_2}
Operators == Paper(
    <<<<"\\nabla", "\\cdot", "\\vec", "{", "g", "}", "=", "-", "4", "\\pi", " ", "G", "\\rho">>,
      <<"\\frac", "{", "d", "}", "{", "d", "t", "}", "m", " ", "v", "=", "F">>,
      <<"\\frac", "{", "\\partial", "^", "2", "u", "}", "{", "\\partial", " ", "x", "\\partial", " ", "y", "}", "=", "w">>,
      <<"\\Delta", " ", "t", "=", "\\abs", "{", "t", "_", "1", "-", "t", "_", "2", "}">>>>,
    <<>>,
    <<("g" :> One @@ "<nabla>" :> M1 @@ "G" :> M1 @@ "\\rho" :> M1),
      ("m" :> One @@ "v" :> One @@ "t" :> M1 @@ "F" :> M1),
      ("u" :> One @@ "x" :> M1 @@ "y" :> M1 @@ "w" :> M1),
      ("t" :> One @@ "t_{1}" :> M1),
      ("t_{1}" :> One @@ "t_{2}" :> M1)>>, TRUE)

\* E=(m+\\M)c^2
\* F=(m\qquad a=b
\* x=\cdots
Broken == Paper(
    <<<<"E", "=", "(", "m", "+", "\\\\", "M", ")", "c", "^", "2">>,
      <<"F", "=", "(", "m", "\\qquad", " ", "a", "=", "b">>,
      <<"x", "=", "\\cdots">>>>,
    <<>>,
    <<("m" :> One @@ "M" :> M1),
      ("E" :> One @@ "m" :> M1 @@ "c" :> Whole(-2)),
      ("a" :> One @@ "b" :> M1)>>, TRUE)

\* A^{\mu}=j^{\mu}r
\* e^2=q\hbar c
\* \lim_{n\to\infty}\sum_i x_i=\bar{x}
\* \hbar=[x,p]
\* \sqrt[3]{V}=r
Waves == Paper(
    <<<<"A", "^", "{", "\\mu", "}", "=", "j", "^", "{", "\\mu", "}", "r">>,
      <<"e", "^", "2", "=", "q", "\\hbar", " ", "c">>,
      <<"\\lim", "_", "{", "n", "\\to", "\\infty", "}", "\\sum", "_", "i", " ", "x", "_", "i", "=", "\\bar", "{", "x", "}">>,
      <<"\\hbar", "=", "[", "x", ",", "p", "]">>,
      <<"\\sqrt", "[", "3", "]", "{", "V", "}", "=", "r">>>>,
    <<>>,
    <<("A^{\\mu}" :> One @@ "j^{\\mu}" :> M1 @@ "r" :> M1),
      ("e" :> Whole(2) @@ "q" :> M1 @@ "\\hbar" :> M1 @@ "c" :> M1),
      ("x_{i}" :> One @@ "x" :> M1),
      ("x" :> One @@ "p" :> One @@ "\\hbar" :> M1),
      ("V" :> <<1, 3>> @@ "r" :> M1)>>, TRUE)

\* |n\rangle=\prod_k a_k
\* \Box u=f'
\* m!=k^{n+1}
\* \langle x|p\rangle=\frac{D u}{D t}|_{x=0}
\* \int d^3x\,\rho=m
Kets == Paper(
    <<<<"|", "n", "\\rangle", "=", "\\prod", "_", "k", " ", "a", "_", "k">>,
      <<"\\Box", " ", "u", "=", "f", "'">>,
      <<"m", "!", "=", "k", "^", "{", "n", "+", "1", "}">>,
      <<"\\langle", " ", "x", "|", "p", "\\rangle", "=", "\\frac", "{", "D", " ", "u", "}", "{", "D", " ", "t", "}", "|", "_", "{", "x", "=", "0", "}">>,
      <<"\\int", " ", "d", "^", "3", "x", "\\,", "\\rho", "=", "m">>>>,
    <<>>,
    <<("u" :> One @@ "<partial>" :> Whole(-2) @@ "f'" :> M1),
      ("m" :> One),
      ("n" :> One),
      ("x" :> One @@ "p" :> One @@ "u" :> M1 @@ "t" :> One),
      ("\\rho" :> One @@ "x" :> Whole(3) @@ "m" :> M1)>>, FALSE)

\* F=m a\\[2mm]p=m v\\[-2mm]&=q
\* E=[m+\\[2mm]M]c
Spaced == Paper(
    <<<<"F", "=", "m", " ", "a", "\\\\", "[", "2", "m", "m", "]", "p", "=", "m", " ", "v",
         "\\\\", "[", "-", "2", "m", "m", "]", "&", "=", "q">>,
      <<"E", "=", "[", "m", "+", "\\\\", "[", "2", "m", "m", "]", "M", "]", "c">>>>,
    <<>>,
    <<("F" :> One @@ "m" :> M1 @@ "a" :> M1),
      ("p" :> One @@ "m" :> M1 @@ "v" :> M1),
      ("m" :> One @@ "v" :> One @@ "q" :> M1),
      ("m" :> One @@ "M" :> M1),
      ("E" :> One @@ "m" :> M1 @@ "c" :> M1)>>, TRUE)

\* F=m a\\[x,p]=\hbar
Commutator == Paper(
    <<<<"F", "=", "m", " ", "a", "\\\\", "[", "x", ",", "p", "]", "=", "\\hbar">>>>,
    <<>>,
    <<("F" :> One @@ "m" :> M1 @@ "a" :> M1),
      ("x" :> One @@ "p" :> One @@ "\\hbar" :> M1)>>, FALSE)

MCPapers == {Mechanics, Oscillator, Decay, Fields, Operators, Broken, Waves, Kets, Spaced, Commutator}
MCExtras == {
    <<"F", "=", "m", " ", "v">>,
    <<"W", "=", "F", " ", "x">>,
    <<"J", "=", "F", " ", "t">>,
    <<"\\theta", "=", "\\sin", "(", "t", ")">>,
    <<"m", " ", "v", "=", "F", "=", "q", " ", "s">>,
    <<"F", "=", "\\infty">>,
    <<"|", "x", "|", "=", "y">>}
MCReading == {DefaultOpts, [paren |-> "product", delta |-> "opaque"]}

-----------------------------------------------------------------------------
(* Command lines of the grading experiments, over small slices: the laws of *)
(* a motion whose quantities carry their dimensions in their types, laws of *)
(* which one is false, quantities tied to each other, and laws of units.    *)

Line(path, kind, stmt) ==
    [name |-> FoldLeft(LAMBDA s, p : s \o "." \o p, path[1], Tail(path)), path |-> path,
     module |-> <<"Physlib">>, kind |-> kind, stmt |-> stmt, size |-> 1, parses |-> TRUE]
Signed(name, stmt) == Line(<<name>>, "definition", stmt)
Bare(names) == [i \in DOMAIN names |-> Signed(names[i], None)]
Law(path, l, r) == Line(path, "theorem", Eq(l, r))

WithDim(d) == App(C("WithDim"), <<d, R>>)
Operators_ == Bare(<<"Eq", "HMul.hMul", "HDiv.hDiv", "HPow.hPow", "HAdd.hAdd",
                     "CommGroup", "Monoid", "Inv.inv">>)
Types == <<
    Signed("Real", Ty), Signed("Dimension", Ty), Signed("Nat", Ty),
    Signed("WithDim", Pi(C("Dimension"), Pi(Ty, Ty))),
    Signed("Fin", Pi(C("Nat"), Ty)), Signed("Vector", Pi(C("Nat"), Ty)),
    Signed("le", Pi(R, Pi(R, PropS))),
    Signed("Dimension.group", App(C("CommGroup"), <<C("Dimension")>>)),
    Signed("Nat.monoid", App(C("Monoid"), <<C("Nat")>>)),
    Signed("LD", C("Dimension")), Signed("TD", C("Dimension")), Signed("three", C("Nat")),
    Signed("space", App(C("Fin"), <<C("three")>>)), Signed("vec", App(C("Vector"), <<C("three")>>)) >>
Quantities == <<
    Signed("len", WithDim(C("LD"))), Signed("time", WithDim(C("TD"))),
    Signed("speed", WithDim(Div_(C("LD"), C("TD")))),
    Signed("sq", Pi(WithDim(Div_(C("LD"), C("TD"))), WithDim(Pw(Div_(C("LD"), C("TD")), Lit(2))))),
    Signed("bend", WithDim(App(C("Inv.inv"), <<R, I, C("LD")>>))) >>
Motion == <<
    Law(<<"Phys", "A", "speed_eq">>, C("speed"), Div_(C("len"), C("time"))),
    Law(<<"Phys", "A", "sq_eq">>, Of("sq", C("speed")), Pw(C("speed"), Lit(2))),
    Law(<<"Phys", "B", "slid">>, Mul(Of("sq", C("speed")), C("time")), Mul(C("speed"), C("len"))),
    Law(<<"top">>, Mul(C("bend"), C("speed")), Div_(C("two"), C("time"))) >>
False_ == <<
    Law(<<"Phys", "A", "speed_eq">>, C("speed"), Div_(C("len"), C("time"))),
    Law(<<"Phys", "A", "bent">>, C("two"), Mul(C("len"), C("bend"))),
    Law(<<"Phys", "B", "bad">>, C("speed"), Mul(C("len"), C("time"))) >>
Ties == <<
    Law(<<"Phys", "A", "a">>, C("wide"), C("len")),
    Law(<<"Phys", "A", "b">>, C("dist"), C("len")),
    Law(<<"Phys", "B", "c">>, C("two"), Mul(C("bend"), C("len"))),
    Law(<<"Phys", "B", "d">>, C("per"), C("bend")),
    Law(<<"Phys", "B", "e">>, Of("single", C("len")), Of("single", C("time"))),
    Line(<<"Phys", "C", "f">>, "theorem", Pi(R, Eq(Plus_(B, B), Mul(C("two"), B)))) >>
Units == <<
    Law(<<"LengthUnit", "half">>, C("len"), Mul(C("two"), C("wide"))),
    Law(<<"TimeUnit", "half">>, C("time"), Mul(C("two"), C("tick"))),
    Law(<<"MassUnit", "div">>, C("mass"), Div_(C("mass"), C("two"))),
    Line(<<"MassUnit", "half">>, "definition", Eq(C("mass"), Mul(C("two"), C("gram")))) >>

Experiment(rows, wants) ==
    [selftest |-> FALSE, rows |-> rows, control |-> <<>>, want |-> wants, skip |-> FALSE,
     prefixes |-> {}, modules |-> {}, keying |-> "fine", literals |-> "dimensionless",
     carrier |-> "none"]
MCCommands ==
    LET physics == Operators_ \o Types \o Quantities
        single == Operators_ \o Ties \o Bare(<<"single">>)
        ruled(c) == [c EXCEPT !.carrier = "Dimension"]
        skipping(c) == [c EXCEPT !.skip = TRUE]
    IN { [Experiment(<<>>, {}) EXCEPT !.selftest = TRUE],
         ruled(Experiment(physics \o Motion, 1 .. 6)),
         ruled([Experiment(physics \o False_, {1, 4}) EXCEPT !.modules = {<<"Physlib">>}]),
         skipping([Experiment(Operators_ \o Ties \o Motion, {2, 3, 6}) EXCEPT !.control = Ties]),
         skipping([Experiment(Operators_ \o Ties, {2, 4}) EXCEPT !.keying = "coarse"]),
         skipping([Experiment(Operators_ \o Ties, {3, 6}) EXCEPT
             !.literals = "free", !.prefixes = {<<"Phys", "A">>, <<"Phys", "C">>}]),
         Experiment(Ties, {2}),
         [Experiment(single, {4}) EXCEPT !.prefixes = {<<"Phys", "C">>}],
         [Experiment(single, {6}) EXCEPT !.prefixes = {<<"Phys", "C">>}],
         skipping(Experiment(Operators_ \o Units, {5})),
         skipping(Experiment(Operators_ \o SubSeq(Units, 1, 2), {5})) }
MCStreams == {<<0, 1, 2, 3, 4>>, <<3, 0, 5>>, <<0>>}
MCRetention(a, b) == IF a.kind # b.kind THEN Unrelated ELSE IF a.path[2] = b.path[2] THEN 90 ELSE 40
MCSelfCorpus == <<
    Signed("s_def", MCStatements["s_def"]), Signed("p_def", MCStatements["p_def"]),
    Signed("e_def", MCStatements["e_def"]), Signed("e_alt", MCStatements["e_alt"]),
    Signed("algebra", MCStatements["algebra"]) >>

-----------------------------------------------------------------------------
(***************************************************************************)
(* The studies of the physics corpora only read what the extraction wrote, *)
(* and share no file they write, so that a behaviour is one of any of      *)
(* them: the grading of Lean statements and its experiments, the corpus    *)
(* queries, the symmetry motifs, and the grading of papers.                *)
(***************************************************************************)
VARIABLE study

vars == <<dimVars, gradingVars, queryVars, symmetryVars, paperVars, study>>

(* A study that does not run stands at one of its initial states. *)
Idle(x) == study # x
Init ==
    /\ study \in {"statements", "grading", "queries", "motifs", "papers"}
    /\ DimInit
    /\ Idle("statements") => <<corpus, options, descending>>
                                = CHOOSE s \in Corpora \X Options \X BOOLEAN : TRUE
    /\ GradingInit
    /\ Idle("grading") => command.selftest
    /\ QueryInit
    /\ Idle("queries") => want = (CHOOSE m \in Wanted : TRUE) /\ queried.closure = 90 /\ skip
    /\ SymmetryInit
    /\ Idle("motifs") => <<slice, scope, selftest>>
                            = CHOOSE s \in SymmetrySlices \X Scopes \X BOOLEAN : TRUE
    /\ PaperInit
    /\ Idle("papers") => <<paper, reading>> = CHOOSE s \in Papers \X Reading : TRUE

Next ==
    \/ /\ study = "statements" /\ DimNext
       /\ UNCHANGED <<gradingVars, queryVars, symmetryVars, paperVars, study>>
    \/ /\ study = "grading" /\ GradingNext
       /\ UNCHANGED <<dimVars, queryVars, symmetryVars, paperVars, study>>
    \/ /\ study = "queries" /\ QueryNext
       /\ UNCHANGED <<dimVars, gradingVars, symmetryVars, paperVars, study>>
    \/ /\ study = "motifs" /\ SymmetryNext
       /\ UNCHANGED <<dimVars, gradingVars, queryVars, paperVars, study>>
    \/ /\ study = "papers" /\ PaperNext
       /\ UNCHANGED <<dimVars, gradingVars, queryVars, symmetryVars, study>>

Spec == Init /\ [][Next]_vars
=============================================================================
