--------------------------------- MODULE Facts ---------------------------------
(***************************************************************************)
(* Facts (crates/atlas-schema/src/fact.rs): what a provenance supports by  *)
(* its kind alone, and what may enter a log of facts.                      *)
(*                                                                         *)
(* A derivation is the set of its inputs: rule names and the order of      *)
(* inputs identify a derivation and have no part in its warrant.           *)
(***************************************************************************)
EXTENDS Warrants

CONSTANTS FactIds,    \* FactId
          Relations,  \* RelationTypeId
          ArgLists,   \* argument vectors of facts
          Offered,    \* the facts that callers may try to insert
          None

-----------------------------------------------------------------------------

Provenances ==
       [kind : {"Source"}, evidence : SourceEvidence]
  \cup [kind : {"Derived"}, derivations : (SUBSET SUBSET FactIds) \ {{}}]
  \cup [kind : {"Oracle", "Candidate"}]

Derivations(p) == IF p.kind = "Derived" THEN p.derivations ELSE {}

StrongestIntrinsicWarrant(p) ==
    CASE p.kind = "Source" -> StrongestWarrant(p.evidence)
      [] p.kind = "Derived" -> "Structural"
      [] p.kind = "Oracle" -> "Proved"
      [] OTHER -> "Heuristic"

FactRows ==
    [id : FactIds, relation : Relations, args : ArgLists,
     warrant : FactWarrant, provenance : Provenances]

ASSUME NoneIsNoRow == None \notin FactRows

ASSUME OfferedAreRows == Offered \subseteq FactRows

IntrinsicallyValid(row) ==
    ~IsStrongerThan(row.warrant, StrongestIntrinsicWarrant(row.provenance))

\* Inputs that support a warrant: each is as strong as what it supports.
Supports(log, derivation, warrant) ==
    \A i \in derivation : log[i] # None /\ ~IsStrongerThan(warrant, log[i].warrant)

\* What may enter a log of facts: nothing stronger than its evidence, and a
\* derived fact only beside all its inputs, supported by one derivation.
Admissible(log, row) ==
    /\ IntrinsicallyValid(row)
    /\ \A d \in Derivations(row.provenance) : \A i \in d : log[i] # None
    /\ row.provenance.kind = "Derived" =>
         \E d \in Derivations(row.provenance) : Supports(log, d, row.warrant)
=============================================================================
