------------------------------- MODULE Warrants -------------------------------
(***************************************************************************)
(* The trust calculus of facts (crates/atlas-schema/src/fact.rs): warrants *)
(* ordered by strength, and the two ways they combine.  Inputs of one      *)
(* derivation are required together, so the weakest bounds it; derivations *)
(* are alternatives, so the strongest counts.                              *)
(***************************************************************************)
EXTENDS Integers

FactWarrant == {"Proved", "Structural", "Asserted", "Heuristic"}

Strength ==
    [Proved |-> 3, Structural |-> 2, Asserted |-> 1, Heuristic |-> 0]

IsStrongerThan(w, supported) == Strength[w] > Strength[supported]

\* The faulty variant forgets what it accumulated: the last input decides.
WeakerLast(w, other) == other

Weaker(w, other) == IF Strength[w] <= Strength[other] THEN w ELSE other

\* The strongest of a set of warrants, from the heuristic bottom up.
Strongest(ws) ==
    CHOOSE w \in ws \cup {"Heuristic"} :
        \A v \in ws \cup {"Heuristic"} : ~IsStrongerThan(v, w)

SourceEvidence ==
    {"Formal", "Structural", "Assertion", "Empirical", "Numerical",
     "Heuristic", "Unclassified"}

StrongestWarrant(evidence) ==
    CASE evidence = "Formal" -> "Proved"
      [] evidence = "Structural" -> "Structural"
      [] evidence \in {"Assertion", "Empirical"} -> "Asserted"
      [] OTHER -> "Heuristic"
=============================================================================
