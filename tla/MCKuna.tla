-------------------------------- MODULE MCKuna --------------------------------
(***************************************************************************)
(* A history of thirteen commits and a slice of eleven classes, for TLC, and    *)
(* the two studies and the referee's scripts together: they share no file, *)
(* so that a behaviour is one of either.                                   *)
(***************************************************************************)
EXTENDS ExpertStudy, ProposalStudy, MCReferee

alpha == 31
beta == 32
Has(class, carrier) == [opener |-> "[", names |-> <<>>, type |-> <<class, carrier>>]
Kind(name) == [opener |-> "{", names |-> <<name>>, type |-> <<99>>]
Value(carrier) == [opener |-> "(", names |-> <<41>>, type |-> <<carrier>>]

Cmd(cmd, name, groups, type) == [cmd |-> cmd, name |-> name, groups |-> groups, type |-> type]
Scoped(commands) == <<Cmd("namespace", 50, <<>>, <<>>)>> \o commands \o <<Cmd("end", 0, <<>>, <<>>)>>
Variable(class) == Cmd("variable", 0, <<Kind(alpha), Has(class, alpha)>>, <<>>)
Theorem(name, groups) == Cmd("theorem", name, groups, <<41>>)
Definition(name, groups) == Cmd("def", name, groups, <<41>>)

\* Over alpha of a variable and beta of its own.
Mixed(name, class) == Theorem(name, <<Kind(beta), Has(class, beta), Value(alpha)>>)
Own(name, class) == Theorem(name, <<Kind(beta), Has(class, beta)>>)
Both(name, c1, c2) == Theorem(name, <<Kind(alpha), Kind(beta), Has(c1, alpha), Has(c2, beta)>>)

Edit(old, new, before, after) ==
    [old |-> old, new |-> new, status |-> IF old = new THEN "M" ELSE "R",
     before |-> Scoped(before), after |-> Scoped(after)]

Row(sha, time, leanFiles, churn, claimed, files) ==
    [sha |-> sha, time |-> time, leanFiles |-> leanFiles, churn |-> churn,
     claimed |-> claimed, files |-> files]

\* The binder of one theorem, and a definition.
Weakened == Edit(1, 1, <<Variable(3), Mixed(12, 1), Definition(13, <<Has(1, beta)>>)>>,
                       <<Variable(3), Mixed(12, 2), Definition(13, <<Has(2, beta)>>)>>)

MCUpcoming == Row(30, 9, 1, 2, TRUE, {Weakened})

\* Only one carrier, and a file that is renamed.
Lone == Edit(2, 1, <<Own(12, 1)>>, <<Own(12, 3)>>)

MCPast == <<
    \* large: no commit that claims nothing is of its size
    Row(18, 9, 1, 9, TRUE, {Lone}),
    Row(21, 8, 1, 1, TRUE, {Weakened}),
    \* the variable of two theorems; one does not mention it
    Row(22, 7, 1, 1, FALSE, {Edit(1, 1, <<Variable(1), Mixed(11, 2), Own(12, 2), Own(14, 2)>>,
                                        <<Variable(3), Mixed(11, 2), Own(12, 3), Own(14, 2)>>)}),
    \* a second change of the same theorem, which is no weakening
    Row(23, 6, 2, 1, TRUE, {Edit(1, 1, <<Variable(2), Mixed(11, 1)>>,
                                       <<Variable(1), Mixed(11, 2)>>),
                            Edit(2, 2, <<Own(12, 4), Own(14, 3)>>, <<Own(12, 5), Own(14, 2)>>)}),
    Row(24, 6, 1, 4, TRUE, {Lone}),
    \* two classes, and the brackets, change places
    Row(25, 5, 1, 2, TRUE, {Edit(1, 1, <<Both(11, 1, 2)>>,
        <<Theorem(11, <<Kind(alpha), Kind(beta), Has(1, beta), Has(2, alpha)>>)>>)}),
    Row(26, 5, 1, 4, FALSE, {Edit(1, 1, <<Own(12, 2)>>, <<Own(12, 1)>>)}),
    \* one pair of classes over two carriers, and a declaration in two files
    Row(17, 4, 2, 4, TRUE, {Edit(1, 1, <<Both(11, 1, 1)>>, <<Both(11, 2, 2)>>),
                            Edit(2, 2, <<Both(11, 1, 1)>>, <<Both(11, 2, 1)>>)}),
    Row(28, 3, 3, 4, FALSE, {Edit(1, 1, <<Own(12, 1)>>, <<>>)}),
    Row(16, 3, 1, 1, FALSE, {}),
    \* used by an earlier replay
    Row(29, 2, 1, 9, TRUE, {Weakened}),
    Row(15, 2, 1, 1, FALSE, {}),
    Row(20, 1, 2, 1, FALSE, {})>>

Class(owner, concl) == [owner |-> owner, concl |-> concl, instances |-> {owner, concl}]
MCCorpus == {Class(1, 2), Class(2, 3), Class(4, 5), Class(5, 4),
             [Class(3, 6) EXCEPT !.instances = {3}]}
MCReplayed == {29}
-----------------------------------------------------------------------------
(* The closure: 1 -> 2 -> 3, 4 -> 5, 6 -> 7 -> 9, 10 -> 11, and 8, which   *)
(* claims conclude.                                                        *)

Entry(name, kind, binders, concl) ==
    [name |-> name, kind |-> kind, owner |-> 0, namespace |-> 0, telescoped |-> TRUE,
     binders |-> binders, concl |-> concl, usesStatement |-> {}, usesProof |-> {},
     isInstance |-> "no", attached |-> FALSE, requirements |-> {}]

Over(class, k) == [info |-> "t", head |-> class, args |-> <<k>>]
Type == [info |-> "d", head |-> 0, args |-> <<>>]
Anonymous == [info |-> "t", head |-> 0, args |-> <<>>]

Projection(name, class, parent) ==
    [Entry(name, "def", <<Type, Over(class, 0)>>, parent) EXCEPT
       !.owner = class, !.namespace = class, !.isInstance = "yes"]
About(name, class) == Entry(name, "theorem", <<Type, Over(class, 0)>>, 0)

\* A theorem that concludes a class and uses a lemma about another one.
Claim(name, binders, class, carrier, projection) ==
    [Entry(name, "theorem", binders, 8) EXCEPT
       !.attached = TRUE, !.requirements = {[source |-> 120 + class, class |-> class, carrier |-> carrier]},
       !.namespace = IF projection THEN 1 ELSE 0,
       !.usesProof = IF projection THEN {1} ELSE {}]

SliceOf(rows) == FoldSet(LAMBDA r, s : (r.name :> r) @@ s, <<>>, rows)

Offset(projection) == IF projection THEN 50 ELSE 30

\* Five, two, one and one that declare 1, 4, 6 and 10; of the two one has an
\* anonymous instance before, and another carrier of the same class.
ClaimsOf(projection) ==
    {Claim(Offset(projection) + i, <<Type, Over(1, 0)>>, 3, 0, projection) : i \in 1..5}
    \cup {Claim(Offset(projection) + 6, <<Type, Over(4, 0)>>, 5, 0, projection),
          Claim(Offset(projection) + 7, <<Type, Anonymous, Type, Over(4, 2), Over(4, 1)>>,
                5, 2, projection),
          Claim(Offset(projection) + 8, <<Type, Over(6, 0)>>, 9, 0, projection),
          Claim(Offset(projection) + 9, <<Type, Over(10, 0)>>, 11, 0, projection)}

Structure ==
    {Projection(101, 1, 2), Projection(102, 2, 3), Projection(103, 4, 5), Projection(104, 6, 7),
     Projection(105, 7, 9), Projection(106, 10, 11)}
    \cup {About(120 + c, c) : c \in 1..11}

MCClosures ==
    {SliceOf(Structure \cup ClaimsOf(FALSE) \cup ClaimsOf(TRUE)),
     SliceOf(Structure \cup ClaimsOf(FALSE))}

MCExpected == [declarations |-> 18, proposals |-> 30]
MCRank(seed, key) == IF seed = 1 THEN 0 ELSE 0 - (100 * key[1] + key[2])

\* Statements that fail, theorems that are proved, and the rest.
MCLean(decl, i, target) ==
    IF target = 7 \/ i = 5 THEN "no_statement" ELSE IF decl < 36 THEN "proved" ELSE "not_proved"

-----------------------------------------------------------------------------
(* Either study, or a referee *)

VARIABLE study

vars == <<expertVars, proposalVars, refereeVars, study>>

Init ==
    /\ study \in {"expert", "proposal", "referee"}
    /\ ExpertInit /\ ProposalInit
    /\ study # "proposal" => index = HomeIndexOf(CHOOSE s \in Closures : TRUE)
    /\ IF study = "referee" THEN RefereeInit
       ELSE task = Absent /\ judged = <<>> /\ exit = Absent

Next ==
    \/ study = "expert" /\ ExpertNext /\ UNCHANGED <<proposalVars, refereeVars, study>>
    \/ study = "proposal" /\ ProposalNext /\ UNCHANGED <<expertVars, refereeVars, study>>
    \/ study = "referee" /\ RefereeNext /\ UNCHANGED <<expertVars, proposalVars, study>>

Spec == Init /\ [][Next]_vars

\* Nothing is picked: what is sampled for audit is fixed by declarations and
\* class pairs, and the population of the replays is what its rules select
\* (kuna-truth.py, kuna-multicarrier-population.py).
PopulationSound == SamplesFixed /\ PopulationAccounted
===============================================================================
