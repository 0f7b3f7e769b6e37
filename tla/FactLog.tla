-------------------------------- MODULE FactLog --------------------------------
(***************************************************************************)
(* What a fact store promises its callers: a log of facts that only grows. *)
(* A fact enters under an id that is free, no stronger than its evidence,  *)
(* and, when it is derived, after all inputs of all its derivations and no *)
(* stronger than the weakest input of one of them.                         *)
(***************************************************************************)
EXTENDS Facts

VARIABLE log    \* the fact stored under each id, or None

Init == log = [id \in FactIds |-> None]

Append(row) ==
    /\ log[row.id] = None
    /\ Admissible(log, row)
    /\ log' = [log EXCEPT ![row.id] = row]

Next == \E row \in Offered : Append(row)

Spec == Init /\ [][Next]_log

-----------------------------------------------------------------------------

LogType == log \in [FactIds -> FactRows \cup {None}]

StoredIds == {id \in FactIds : log[id] # None}

\* A set of facts that holds all evidence of warrant w and is closed under
\* derivation contains whatever evidence of that warrant can justify.
ClosedFor(facts, w) ==
    \A id \in StoredIds :
        \/ IsStrongerThan(w, log[id].warrant)
        \/ id \in facts
        \/ /\ log[id].provenance.kind = "Derived"
           /\ \A d \in log[id].provenance.derivations : ~(d \subseteq facts)

\* Every warrant is grounded: a fact of warrant w follows from facts of
\* warrant w that rest on evidence of their own, by derivations alone.  In
\* particular no circle of derivations supports itself.
Grounded ==
    \A w \in FactWarrant : \A facts \in SUBSET FactIds :
        ClosedFor(facts, w) =>
            \A id \in StoredIds : ~IsStrongerThan(w, log[id].warrant) => id \in facts

\* The inductive invariant.
LogInv == LogType /\ Grounded
=============================================================================
