------------------------------ MODULE MCReferee ------------------------------
(* Invocations of the referee's scripts: worked and planted bundles, for the *)
(* run of MCKuna.                                                            *)
EXTENDS Referee

Fine == [schema |-> TRUE, model |-> TRUE]
Item(kind, body) == [head |-> Fine, kind |-> kind, body |-> body]
Alone(script, kind, bodies) ==
    {[script |-> script, mode |-> "one", items |-> <<Item(kind, b)>>] : b \in bodies}

Vec(a, b, c) == <<Q(a), Q(b), Q(c)>>
Cpl(a, b, c, d, cos, sin) == [a |-> a, b |-> b, c |-> c, d |-> d, cos |-> cos, sin |-> sin]
None3 == Vec(0, 0, 0)
Ones == Vec(1, 1, 1)

-----------------------------------------------------------------------------
(* Counterexamples: an irrational phase, directions off the neutral slice *)

Real2(x, y) == << <<Q(x), Zero>>, <<Q(y), Zero>> >>
Directions == {
    <<Real2(0, 0), Real2(0, 1), Real2(0, 1)>>,
    <<Real2(0, 0), Real2(0, 1), Real2(1, 0)>>,
    <<Real2(0, 0), Real2(0, 0), Real2(0, 0)>>,
    <<Real2(1, 0), << <<Zero, One>>, <<Zero, Zero>> >>, << <<One, Q(-1)>>, <<Zero, One>> >> >> }

Quartics == {Cpl(Ones, b, c, d, p[1], p[2]) :
    b \in {None3, Vec(-2, 1, 0)}, c \in {None3, Vec(-1, 0, 1)},
    d \in {None3, Vec(2, -1, 0)},
    p \in {<<One, Zero>>, <<<<3, 5>>, <<-4, 5>>>>, <<One, One>>}}

Counterexamples ==
    {[couplings |-> q, phi |-> phi, asserted |-> Add(V4(q, phi), off), strict |-> strict] :
       q \in Quartics, phi \in Directions, off \in {Zero, Q(-1)}, strict \in BOOLEAN}

-----------------------------------------------------------------------------
(* Sums of squares over x, y and z, the target made to fit or not *)

Term(coeff, exps) == [coeff |-> coeff, exps |-> exps]
Sos(names, target, constraints, multipliers, basis, gram, slice) ==
    [vars |-> names, target |-> target, constraints |-> constraints, multipliers |-> multipliers,
     basis |-> basis, gram |-> gram, slice |-> slice]

Units == << <<1, 0, 0>>, <<0, 1, 0>>, <<0, 0, 1>> >>
Symmetric(p, q, r, u, v, w) ==
    << <<Q(p), Q(u), Q(v)>>, <<Q(u), Q(q), Q(w)>>, <<Q(v), Q(w), Q(r)>> >>
Grams == {Symmetric(p, q, r, u, v, w) :
            p \in {0, 1, 2}, q \in {-1, 0, 1}, r \in {0, 2}, u, v \in {-1, 0, 1}, w \in {0, 1}}
Expanded(gram) ==
    [i \in 1 .. 9 |->
       LET r == 1 + ((i - 1) \div 3)
           c == 1 + ((i - 1) % 3)
       IN Term(gram[r][c], Product(Units[r], Units[c]))]

Squared == {Sos(3, Expanded(g), <<>>, <<>>, Units, g, Absent) : g \in Grams}

\* x^2 + t * x + t + lambda * y, where y >= 0.
Farkas ==
    {Sos(2, <<Term(One, <<2, 0>>), Term(Q(lambda), <<0, 1>>), Term(Q(t), <<1, 0>>),
              Term(Q(t), <<0, 0>>)>>,
         <<con>>, <<Q(lambda)>>, << <<0, 0>>, <<1, 0>> >>,
         SubSeq(<< <<Q(t), split[1]>>, <<split[2], One>> >>, 1, rows), Absent) :
       lambda \in {-1, 0, 2}, t \in {1, 5}, rows \in {1, 2},
       con \in {<<Term(One, <<0, 1>>)>>, Absent},
       split \in {<<<<1, 2>>, <<1, 2>>>>, <<<<5, 2>>, <<5, 2>>>>, <<One, Zero>>}}

\* (z1 - z2)^2 / 2 + z3^2 / 2, on the slice of couplings that give it or not.
Sliced ==
    {Sos(3, <<Term(<<1, 2>>, <<2, 0, 0>>), Term(<<1, 2>>, <<0, 2, 0>>), Term(<<1, 2>>, <<0, 0, 2>>),
              Term(Q(-1), <<1, 1, 0>>)>>, <<>>, <<>>, Units,
         << <<<<1, 2>>, <<-1, 2>>, Zero>>, <<<<-1, 2>>, <<1, 2>>, Zero>>, <<Zero, Zero, <<1, 2>>>> >>,
         [named |-> named, couplings |-> cpl]) :
       named \in BOOLEAN,
       cpl \in {Absent, Cpl(Ones, Vec(0, 0, -1), None3, None3, One, Zero),
                Cpl(Ones, Vec(0, 0, -2), Vec(1, 0, 0), Vec(1, 0, 1), Q(-1), Zero),
                Cpl(Ones, Vec(0, 0, -2), Vec(1, 0, 0), Vec(1, 0, 1), One, Zero),
                Cpl(Ones, Vec(0, 0, -1), None3, None3, One, One)}}

-----------------------------------------------------------------------------
(* Dominations, on the spine and off it, on the boundary and inside *)

Dominating(corner, spine, dominates, ncl2, ncl3) ==
    [corner |-> corner, spine |-> spine, dominates |-> dominates, ncl2 |-> ncl2, ncl3 |-> ncl3]

Points3 ==
    {Cpl(a, b, c, d, p[1], p[2]) :
       a \in {Ones, Vec(1, 4, 1)}, b \in {None3, Vec(0, -1, 1)},
       c \in {None3, Vec(1, -1, 1)}, d \in {None3, Vec(1, 0, 0)},
       p \in {<<One, Zero>>, <<Zero, One>>}}
      \cup {Cpl(Vec(1, 2, 1), Vec(0, -1, 0), Vec(1, 0, 0), None3, One, Zero),
            Cpl(Vec(2, 1, 2), Vec(-1, -1, 0), None3, None3, One, Zero),
            Cpl(Vec(4, 4, 4), Vec(-2, -2, -2), None3, None3, One, Zero),
            Cpl(Vec(2, 2, 2), Vec(-1, -1, -1), Vec(1, 0, -1), Vec(0, 1, 0), One, Zero),
            Cpl(Vec(0, 1, 1), None3, None3, None3, One, Zero),
            Cpl(Ones, None3, None3, None3, One, One), Absent}

Dominations ==
    {[couplings |-> cpl, claim |-> claim] : cpl \in Points3,
       claim \in {Dominating(1, TRUE, Absent, Absent, Absent), Dominating(2, FALSE, TRUE, Absent, Absent),
                  Dominating(1, FALSE, Absent, TRUE, TRUE), Dominating(4, FALSE, Absent, Absent, Absent)}}

-----------------------------------------------------------------------------
(* Witnesses over proper and over degenerate roots, some of nothing: 2 and 3   *)
(* over 6, 2 times 2 over 8, 1 over itself.  Margins below, at and above zero. *)

Element8(e) == [s \in 1 .. 8 |-> IF s \in DOMAIN e THEN Q(e[s]) ELSE Zero]
Elements ==
    {Element8(e) :
       e \in {(s :> x) @@ (t :> y) @@ (u :> z) :
                s \in {1, 2}, t \in {3, 4}, u \in {5, 6, 7, 8}, x, y \in {1, -2}, z \in {-1, 1}}
             \cup {(4 :> 1) @@ (5 :> -1), (3 :> -2) @@ (5 :> 1), (1 :> 1) @@ (2 :> -1)}}

Witness0(rad, kind, elem, cpl, k, x, sign) ==
    [rad |-> rad, kind |-> kind, elem |-> elem, couplings |-> cpl, k |-> k, x |-> x, sign |-> sign]

Cited == {Cpl(Vec(1, 2, 1), Vec(0, -1, -2), None3, None3, One, Zero),
          Cpl(Vec(1, 2, 1), Vec(0, -1, 1), None3, None3, One, One),
          Cpl(Vec(1, 2, 1), Vec(0, -1, 1), None3, None3, One, Zero),
          Cpl(Vec(1, 2, 2), Vec(0, -1, 1), None3, None3, One, Zero)}
Margins ==
    {Witness0(a, "jdp_margin", Absent, Cpl(a, Vec(-1, 0, 0), None3, None3, One, Zero), 1,
              Vec(x1, x2, x3), sign) :
       a \in {Vec(4, 4, 4), Vec(2, 8, 2)}, x1 \in -2 .. 0, x2 \in -2 .. 0, x3 \in {-3, -2},
       sign \in {-1, 0, 1}}

Witnesses ==
    {Witness0(rad, "coeffs", e, Absent, 1, Absent, sign) :
       rad \in {Vec(2, 3, 6), Vec(1, 2, 8), Vec(3, 1, 5)}, e \in Elements, sign \in {0, 1}}
      \cup {Witness0(rad, kind, Absent, cpl, k, x, sign) :
             rad \in {Vec(1, 2, 1), Vec(1, 2, 0)}, kind \in {"a_bar", "b_bar", "jdp_margin", "other"},
             cpl \in Cited, k \in {1, 4}, x \in {Absent, Vec(1, 0, 2)}, sign \in {-1, 0, 1, 2}}
      \cup Margins
      \cup {Witness0(Absent, "coeffs", Absent, Absent, 1, Absent, 0),
            Witness0(Ones, "coeffs", Absent, Absent, 1, Absent, 0)}

-----------------------------------------------------------------------------
(* The kit of the GAP differential *)

Case(p, m, n, q, lagrangians, isotropics, orbits, sizes) ==
    [p |-> p, m |-> m, n |-> n, q |-> q, lagrangians |-> lagrangians,
     isotropics |-> isotropics, orbits |-> orbits, sizes |-> sizes]

NoSizes == [s \in {} |-> 0]
Cases == <<Case(2, 1, 1, 2, 3, <<3>>, 3, NoSizes), Case(3, 1, 1, 3, 4, <<4>>, 4, 1 :> 4),
           Case(2, 1, 2, 2, 15, <<15, 15>>, 15, NoSizes),
           Case(2, 2, 1, 4, 5, <<5>>, 4, (1 :> 3) @@ (2 :> 1)),
           Case(2, 3, 1, 8, 9, <<9>>, 5, (1 :> 3) @@ (3 :> 2))>>
WrongCases == {Case(2, 1, 2, 2, 15, <<15, 14>>, 15, NoSizes), Case(2, 2, 1, 4, 5, <<5>>, 5, NoSizes),
               Case(2, 2, 1, 4, 5, <<5>>, 4, (1 :> 1) @@ (2 :> 2)),
               Case(2, 2, 1, 4, 5, <<5>>, 4, (1 :> 3) @@ (3 :> 1)),
               Case(3, 1, 1, 9, 4, <<4>>, 4, NoSizes), Case(3, 1, 1, 3, 5, <<4>>, 4, NoSizes)}

Matrix0(p, rows, cols, entries) ==
    [p |-> p, rows |-> rows, cols |-> cols, declared |-> Len(entries), entries |-> entries]
Lines3 == <<Matrix0(3, 1, 2, << <<1, 1, 1>> >>), Matrix0(3, 1, 2, << <<1, 2, 2>> >>),
            Matrix0(3, 1, 2, << <<1, 1, 1>>, <<1, 2, 1>> >>),
            Matrix0(3, 1, 2, << <<1, 1, 1>>, <<1, 2, 2>> >>)>>
Plane3(x, y, u, v) == Matrix0(3, 2, 4,
    << <<1, 1, x>>, <<1, 4, y>>, <<2, 2, u>>, <<2, 3, v>> >>)
Planes3 == {Plane3(x, y, u, v) : x, y \in {0, 1, 2}, u \in {1, 2}, v \in {0, 1, 2}}
BadMatrices == {Matrix0(3, 1, 2, <<>>), Matrix0(3, 1, 2, << <<1, 1, 3>> >>), Matrix0(0, 1, 2, <<>>),
                Matrix0(3, 1, 3, << <<1, 1, 1>> >>), Matrix0(3, 2, 2, << <<1, 1, 1>> >>)}

Field(p, m, modulus) == [p |-> p, m |-> m, modulus |-> modulus]
Sub0(basis, orbit) == [basis |-> basis, orbit |-> orbit]
Orbit0(members) == [size |-> Cardinality(members), members |-> SetToSeq(members)]
Record(gf, q, n, subs, orbits) == [gf |-> gf, q |-> q, n |-> n, subs |-> subs, orbits |-> orbits]

GF4 == Field(2, 2, <<1, 1, 1>>)
Labels == {<<1, 2, 3, 4, 4>>, <<1, 1, 1, 1, 1>>, <<1, 2, 3, 4, 5>>, <<1, 2, 4, 4, 3>>}
Lines4 == {<< <<0, 1>>, <<1, 0>>, <<1, 1>>, <<1, 2>>, <<1, 3>> >>,
           << <<0, 2>>, <<3, 0>>, <<2, 2>>, <<3, 1>>, <<2, 1>> >>,
           << <<0, 1>>, <<1, 0>>, <<1, 1>>, <<1, 2>>, <<1, 2>> >>,
           << <<0, 1>>, <<0, 0>>, <<1, 1>>, <<1, 2>>, <<1, 3>> >>}
Record4(gf, q, n, bases, labels, orbits) ==
    Record(gf, q, n, [i \in 1 .. 5 |-> Sub0(bases[i], labels[i])],
           [i \in DOMAIN orbits |-> Orbit0(orbits[i])])
Orbits4 ==
    {Record4(GF4, 4, 1, bases, labels, orbits) : labels \in Labels, bases \in Lines4,
       orbits \in {<<{1}, {2}, {3}, {4, 5}>>, <<{1}, {2}, {4}, {3, 5}>>, <<{1}, {2}, {3, 4, 5}>>}}
      \cup {Record4(w[1], w[2], w[3], bases, <<1, 2, 3, 4, 4>>, <<{1}, {2}, {3}, {4, 5}>>) :
              bases \in Lines4,
              w \in {<<Field(2, 2, <<0, 0, 1>>), 4, 1>>, <<GF4, 3, 1>>, <<GF4, 4, 2>>}}
Orbits8 ==
    {Record(Field(2, 3, <<1, 1, 0, 1>>), 8, 1,
            [i \in 1 .. 9 |-> Sub0(IF i = 9 THEN <<0, 1>> ELSE <<1, i - 1>>, labels[i])],
            [i \in 1 .. 5 |-> Orbit0(<<{1}, {2}, {9}, {3, 5, 7}, {4, 6, 8}>>[i])]) :
       labels \in {<<1, 2, 3, 4, 3, 4, 3, 4, 5>>, <<1, 2, 3, 4, 3, 3, 4, 4, 5>>}}

Kit(manifest, cases, files, corrupted, orbits) ==
    [script |-> "gap", mode |-> "one",
     items |-> <<Item("manifest", manifest)>>
        \o [i \in DOMAIN cases |-> Item("case", cases[i])]
        \o [i \in DOMAIN files |-> Item("lagrangian", files[i])]
        \o <<IF files = <<>> THEN Item("none", files)
             ELSE Item("files", [files |-> files, cases |-> cases])>>
        \o (IF corrupted = <<>> THEN <<Item("none", corrupted)>>
            ELSE [i \in DOMAIN corrupted |-> Item("corrupted", corrupted[i])])
        \o [i \in DOMAIN orbits |-> Item("orbits", orbits[i])]]

Planted == <<Matrix0(3, 2, 4, << <<1, 1, 1>>, <<2, 3, 1>> >>)>>
LineCase == <<Cases[2]>>
Kits ==
    {Kit("ours", LineCase, Lines3, Planted, <<o>>) : o \in Orbits4 \cup Orbits8}
      \cup {Kit("ours", Cases, Lines3, Planted, <<>>)}
      \cup {Kit("ours", <<c>>, <<>>, <<>>, <<>>) : c \in WrongCases}
      \cup {Kit("ours", <<Cases[1]>>, <<f>>, Planted, <<>>) : f \in Planes3 \cup BadMatrices}
      \cup {Kit("ours", LineCase, files, corrupted, <<>>) :
              files \in {Lines3, <<>>, SubSeq(Lines3, 1, 3), [i \in 1 .. 4 |-> Lines3[1]]},
              corrupted \in {Planted, <<>>, <<Lines3[1]>>, <<Matrix0(3, 1, 3, <<>>)>>}}
      \cup {Kit("theirs", LineCase, Lines3, Planted, <<>>)}

-----------------------------------------------------------------------------
(* The pinned kit with and without a file, the wall and fathom's candidates *)

Pinned == <<"PASS", "PASS", "GRAM_NOT_PSD">>
Worked == CHOOSE b \in Counterexamples : CheckCounterexample(b) = "PASS"
Gram2(u) == Sos(3, Expanded(Symmetric(1, 1, 1, u, 0, 0)), <<>>, <<>>, Units,
                Symmetric(1, 1, 1, u, 0, 0), Absent)
SelfTests ==
    {[script |-> "certificate", mode |-> "selftest", pinned |-> Pinned,
      items |-> <<first, Item("sos", Gram2(1)), third>>] :
       first \in {Item("counterexample", Worked), Absent},
       third \in {Item("sos", Gram2(2)), Item("sos", Gram2(1)), Absent}}

Headers ==
    {[script |-> script, mode |-> "one", items |-> <<[head |-> head, kind |-> "sos", body |-> Gram2(1)]>>] :
       script \in {"certificate", "radical"},
       head \in {Absent, Fine, [schema |-> FALSE, model |-> TRUE], [schema |-> TRUE, model |-> FALSE]}}

Scans ==
    {[script |-> "scan", mode |-> "one",
      items |-> <<[field |-> {Zero, One, Q(2)}, doublets |-> Directions,
                   base |-> {One, Q(2), <<1, 2>>}, delta |-> delta]>>] : delta \in {<<1, 7>>, One}}

Candidate(cpl, bbar, strict, false2, gbar) ==
    [couplings |-> cpl, recorded |-> [bbar |-> bbar, strict |-> strict, false2 |-> false2, gbar |-> gbar]]
WallPoint == Cpl(Ones, Vec(-1, 1, 1), None3, None3, One, Zero)
Candidates ==
    {Candidate(WallPoint, 0, FALSE, Absent, 0), Candidate(WallPoint, 1, Absent, TRUE, Absent),
     Candidate(Absent, 0, FALSE, Absent, Absent), Candidate(WallPoint, Absent, Absent, Absent, Absent)}
Document == [couplings |-> Cpl(Ones, None3, <<One, <<-1, 2>>, <<-1, 2>>>>, Vec(1, 0, 0), One, Zero),
             recorded |-> [ncl1 |-> TRUE, ncl2 |-> TRUE, ncl3 |-> FALSE]]
Crosschecks == {[script |-> "crosscheck", mode |-> "one", items |-> items] :
                  items \in {<<c, Document>> : c \in Candidates} \cup {<<c>> : c \in Candidates}}

MCTasks ==
    Alone("certificate", "counterexample", Counterexamples)
      \cup Alone("certificate", "sos", Squared \cup Farkas \cup Sliced)
      \cup Alone("radical", "domination", Dominations)
      \cup Alone("radical", "witness", Witnesses)
      \cup Kits \cup SelfTests \cup Headers \cup Scans \cup Crosschecks
=============================================================================
