------------------------------ MODULE MCFactStore ------------------------------
(* Instances of FactStore for TLC. *)
EXTENDS FactStore, TLC

CONSTANTS c1, c2, r1, r2, a1

MCSymmetry == Permutations(Connections)

MCArgLists == {<<>>, <<a1>>}

FactOf(id, relation, warrant, provenance) ==
    [id |-> id, relation |-> relation, args |-> <<a1>>, warrant |-> warrant,
     provenance |-> provenance]

Source(evidence) == [kind |-> "Source", evidence |-> evidence]
Derived(derivations) == [kind |-> "Derived", derivations |-> derivations]

\* Two versions of fact 1, strong and weak; fact 2 of its own or derived;
\* fact 3 by conjunction, by alternatives, and in a circle with fact 2.
MCOffered ==
    {FactOf(1, r1, "Proved", Source("Formal")),
     FactOf(1, r1, "Heuristic", Source("Numerical")),
     FactOf(1, r1, "Asserted", [kind |-> "Candidate"]),
     FactOf(2, r1, "Structural", Source("Structural")),
     FactOf(2, r1, "Structural", Derived({{1}, {3}})),
     FactOf(3, r2, "Structural", Derived({{1, 2}})),
     FactOf(3, r2, "Structural", Derived({{1}, {2}})),
     FactOf(3, r2, "Asserted", Derived({{2}, {3}}))}
=============================================================================
