------------------------------- MODULE MCDatalog -------------------------------
(* Instances of Datalog for TLC. *)
EXTENDS Datalog

CONSTANTS x, y, z, Edge, Path, Mark, base, step, other

Pos(relation, terms) == [kind |-> "Pos", relation |-> relation, terms |-> terms]
Neg(relation, terms) == [kind |-> "Neg", relation |-> relation, terms |-> terms]
Eq(left, right) == [kind |-> "Eq", left |-> left, right |-> right]
Rule(id, relation, terms, body) ==
    [id |-> id, head |-> [relation |-> relation, terms |-> terms], body |-> body]

Base == Rule(base, Path, <<x, y>>, <<Pos(Edge, <<x, y>>)>>)

Linear == <<Base, Rule(step, Path, <<x, z>>, <<Pos(Path, <<x, y>>), Pos(Edge, <<y, z>>)>>)>>

\* Two recursive literals, after a rule that depends on the first one.
Nonlinear ==
    <<Rule(other, Mark, <<x, x>>, <<Pos(Path, <<x, y>>), Eq(y, 1)>>),
      Base,
      Rule(step, Path, <<x, z>>, <<Pos(Path, <<x, y>>), Pos(Path, <<y, z>>)>>)>>

\* Marks where no path leads back, and a path along marks that are edges.
Negative ==
    <<Rule(other, Mark, <<x, y>>, <<Pos(Edge, <<x, y>>), Neg(Path, <<y, x>>)>>),
      Base,
      Rule(step, Path, <<x, z>>, <<Pos(Path, <<x, y>>), Pos(Edge, <<y, z>>)>>)>>

\* Two relations that follow from one another.
Circular ==
    <<Rule(base, Mark, <<x, y>>, <<Pos(Path, <<x, y>>)>>),
      Rule(step, Path, <<x, y>>, <<Pos(Mark, <<x, y>>)>>),
      Rule(other, Path, <<1, y>>, <<Pos(Edge, <<y, 1>>)>>)>>

Unsafe == <<Rule(base, Path, <<x, z>>, <<Pos(Edge, <<x, y>>), Eq(y, z)>>)>>
Unstratified ==
    <<Rule(base, Path, <<x, y>>, <<Pos(Edge, <<x, y>>), Neg(Mark, <<x, y>>)>>),
      Rule(step, Mark, <<x, y>>, <<Pos(Path, <<x, y>>)>>)>>

Row(id, relation, args, warrant, derivations) ==
    [id |-> id, relation |-> relation, args |-> args, warrant |-> warrant,
     derivations |-> derivations]
By(rule, inputs) == [rule |-> rule, inputs |-> inputs]

MCEdges ==
    {Row(1, Edge, <<1, 2>>, "Structural", {}), Row(3, Edge, <<1, 2>>, "Heuristic", {}),
     Row(4, Edge, <<2, 1>>, "Asserted", {}), Row(6, Edge, <<2, 3>>, "Proved", {})}

\* Derived facts stored earlier: from an edge, from a mark stored before, and
\* from one whose id is the next one of those that do not load it.
MCDerived ==
    {{}, {Row(2, Path, <<1, 2>>, "Structural", {By(base, <<1>>)})}}
    \cup {{Row(m, Mark, <<2, 1>>, w, {}), Row(12 - m, Path, <<2, 1>>, w, {By(step, <<m>>)})} :
            m \in {5, 7}, w \in {"Structural", "Heuristic"}}

\* A store holds the inputs of what it holds.
MCSources ==
    {source \in {edges \cup derived : edges \in SUBSET MCEdges, derived \in MCDerived} :
        \A f \in source : \A d \in f.derivations : \A i \in DOMAIN d.inputs :
            \E g \in source : g.id = d.inputs[i]}

MCTask(source, rules, max, limit) ==
    [source |-> source, rules |-> rules, maxRounds |-> max, limit |-> limit,
     query |-> <<Pos(Path, <<x, y>>)>>, project |-> <<x>>]

MCTasks ==
    {MCTask(source, rules, max, 3) :
        source \in MCSources,
        rules \in {Linear, Nonlinear, Negative, Circular, Unsafe, Unstratified},
        max \in {0, 2, 9}}
=============================================================================
