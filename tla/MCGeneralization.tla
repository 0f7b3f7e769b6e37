---------------------------- MODULE MCGeneralization ---------------------------
(***************************************************************************)
(* Slices over four classes, 1 to 4, and two rounds over one scratch       *)
(* directory, for TLC.  The loop of probes and the rounds share no file,   *)
(* so that a behaviour is one of either.                                   *)
(***************************************************************************)
EXTENDS ProbeLoop, DiscoveryRound

CONSTANTS r1, r2
-----------------------------------------------------------------------------
(* The loop *)

Row(name, kind, binders, concl) ==
    [name |-> name, kind |-> kind, owner |-> 0, namespace |-> 0, telescoped |-> TRUE,
     binders |-> binders, concl |-> concl, usesStatement |-> {}, usesProof |-> {},
     isInstance |-> "no", attached |-> FALSE, requirements |-> {}]

SliceOf(rows) == FoldSet(LAMBDA r, s : (r.name :> r) @@ s, <<>>, rows)

Type == [info |-> "d", head |-> 0, args |-> <<>>]
On(class, args) == [info |-> "t", head |-> class, args |-> args]

\* Class.toParent, from one structure to the next.
Projection(name, class, parent) ==
    [Row(name, "def", <<Type, On(class, <<0>>)>>, parent) EXCEPT
       !.owner = class, !.namespace = class]

Lemma(name, class) == Row(name, "theorem", <<Type, On(class, <<0>>)>>, 0)

\* 1 -> 2 -> 3, and 4 with two arguments below 1; lemmas about 2, 3 and 4.
Lattice == SliceOf(
    {Projection(11, 1, 2), Projection(12, 2, 3), Projection(13, 1, 4),
     Lemma(22, 2), Lemma(23, 3),
     Row(24, "theorem", <<Type, On(4, <<0, Other>>)>>, 0)})

Claim(name, binders, statement, proof) ==
    [Row(name, "theorem", binders, 0) EXCEPT !.usesStatement = statement, !.usesProof = proof]

One(class) == <<Type, On(class, <<0>>)>>
Two(c1, c2) == <<Type, On(c1, <<0>>), On(c2, <<1>>)>>
Apart(c1, c2) == <<Type, Type, On(c1, <<1>>), On(c2, <<1>>)>>

Evidences == {11, 22, 23, 24}

\* One declaration, all the evidence there may be.
Single ==
    {Lattice @@ SliceOf({Claim(31, binders, s, {u})}) :
       binders \in {One(1), Two(1, 2)}, s \in {T \in SUBSET Evidences : Cardinality(T) <= 2},
       u \in Evidences}
      \cup {Lattice @@ SliceOf({[Claim(31, One(1), {}, {1, 23}) EXCEPT !.namespace = n]}) : n \in {0, 1}}

\* Two carriers, with the requirements an extractor attached to them.
Attached ==
    {Lattice @@ SliceOf({[Claim(31, Apart(1, 2), {23}, {}) EXCEPT
                      !.attached = TRUE, !.requirements = Q]}) :
       Q \in SUBSET {[source |-> 23, class |-> 3, carrier |-> 0],
                     [source |-> 22, class |-> 2, carrier |-> 0],
                     [source |-> 24, class |-> 4, carrier |-> 1],
                     [source |-> 11, class |-> 1, carrier |-> 0]}}

\* Two families, of three and of two candidates.
Crowd ==
    Lattice @@ SliceOf({Claim(31, One(1), {23}, {}), Claim(32, One(2), {}, {23}),
                        Claim(33, One(1), {}, {23}), Claim(34, One(2), {23}, {}),
                        Claim(35, One(1), {23}, {23})})

\* A declaration with two binders, and an equivalent one that declares less.
Pair == Lattice @@ SliceOf({Claim(31, Two(1, 2), {23}, {}), Claim(32, One(2), {22}, {})})

Empty == [rows |-> <<>>, groups |-> {}]

MCSlices ==
    {Empty} \cup {[rows |-> s, groups |-> {}] : s \in Single \cup Attached \cup {Crowd}}
      \cup {[rows |-> Pair, groups |-> {{31, 32}}]}

\* Sweeps everywhere; either loop on the slices with more than one claim, on
\* the one with two families only transcripts of whole plans, all confirmed.
LoopBounded ==
    \/ index = None /\ strata = None
    \/ /\ 32 \in DOMAIN idx.rows
       /\ index = None \/ strata = None
       /\ 34 \in DOMAIN idx.rows =>
            /\ Len(log) \in {0, Budget}
            /\ \A i \in DOMAIN log : log[i].verdict = "confirmed"

-----------------------------------------------------------------------------
(* The rounds *)

MCSymmetry == Permutations(Rounds)

MCPrefix == [r \in Rounds |-> "Round"]

MCRefuted == {Triple(31, 1, 4), Triple(32, 1, 3)}

Parent(owner, concl, instances, explicit, forgets) ==
    [owner |-> owner, concl |-> concl, instances |-> instances, explicit |-> explicit,
     forgets |-> forgets]

\* 1 -> 2 -> 3 -> 4, and constructions of 5 and of 1 that ask for more.
MCCorpus ==
    [projections |-> {Parent(1, 2, <<1>>, FALSE, TRUE), Parent(2, 3, <<2>>, FALSE, TRUE),
                      Parent(3, 4, <<3>>, FALSE, TRUE), Parent(3, 1, <<3>>, TRUE, FALSE),
                      Parent(1, 5, <<1, 2>>, FALSE, FALSE), Parent(5, 4, <<5>>, FALSE, TRUE)},
     equivalent |-> (31 :> {41}) @@ (32 :> {31, 42}),
     requires |-> (41 :> {3}) @@ (31 :> {1}) @@ (42 :> {4}),
     fails |-> {}]

May(verdict, plants, exit) == [verdict |-> verdict, plants |-> plants, exit |-> exit]

MCLeanMay ==
    {May("proved", "right", "zero"), May("no_statement", "right", "zero"),
     May("not_proved", "right", "zero"),
     May("proved", "wrong", "zero"), May("missing", "right", "nonzero")}

\* The third invocation is alone, and scores again what is there.
RoundsBounded ==
    started = MaxInvocations =>
      workers = {} /\ \A r \in Rounds : job[r] = Nothing \/ job[r].from = "score"

-----------------------------------------------------------------------------
(* Either of them *)

VARIABLE study

vars == <<loopVars, roundVars, study>>

Init ==
    /\ study \in {"loop", "rounds"}
    /\ LoopInit /\ RoundInit
    /\ study = "rounds" => DOMAIN idx.rows = {}

Next ==
    \/ study = "loop" /\ LoopNext /\ UNCHANGED <<roundVars, study>>
    \/ study = "rounds" /\ RoundNext /\ UNCHANGED <<loopVars, study>>

Spec == Init /\ [][Next]_vars

Bounded == LoopBounded /\ RoundsBounded
=============================================================================
