-------------------------------- MODULE Datalog --------------------------------
(***************************************************************************)
(* The two evaluators of crates/atlas-logic on one task: the reference     *)
(* evaluator (reference.rs) and then the semi-naive one (optimized.rs),    *)
(* with the matching of rule bodies and the warrants they share (eval.rs). *)
(*                                                                         *)
(* A round takes one job after another, a rule and, after the first round  *)
(* of the semi-naive evaluator, the literal that has to match a fact of    *)
(* the last round.  A job matches its body literal by literal and then     *)
(* concludes its matches, first facts first: every relation is ordered by  *)
(* id, since what is loaded is sorted and a new id is above all others.    *)
(***************************************************************************)
EXTENDS Warrants, Sequences, FiniteSets

CONSTANTS Vars,       \* variables of rules and queries
          Values,     \* values, numbers since they are ordered
          Relations,  \* RelationTypeId
          RuleIds,
          Tasks,      \* what is evaluated
          None

Terms == Vars \cup Values
Atoms == [relation : Relations, terms : Seq(Terms)]

Literals ==
         [kind : {"Pos", "Neg"}, relation : Relations, terms : Seq(Terms)]
    \cup [kind : {"Eq"}, left : Terms, right : Terms]

Rules == [id : RuleIds, head : Atoms, body : Seq(Literals)]

Derivations == [rule : RuleIds, inputs : Seq(Nat)]

\* A fact with derivations is a derived one.
FactRows ==
    [id : Nat, relation : Relations, args : Seq(Values), warrant : FactWarrant,
     derivations : SUBSET Derivations]

TaskType ==
    [source : SUBSET FactRows,   \* what the fact source holds
     rules : Seq(Rules), query : Seq(Literals), project : Seq(Vars),
     maxRounds : Nat, limit : Nat]

NameFacts(facts) == \A f, g \in facts : f.id = g.id => f = g

ASSUME TasksAreTyped ==
    Tasks \subseteq TaskType /\ \A t \in Tasks : NameFacts(t.source) /\ IsFiniteSet(t.source)

ASSUME RelationsAreFinite == IsFiniteSet(Relations)

ASSUME TermsAreDistinct == Vars \cap Values = {} /\ None \notin Values /\ Values \subseteq Int

Codes == {"Ok", "UnsafeRule", "UnstratifiedNegation", "RecursionLimit", "Cancelled"}

VARIABLES task,
          evaluator,     \* "reference" or "optimized", the one that runs
          phase,         \* "start", "round", "rules", "warrants" or "done"
          strata,        \* of relations
          stratum, round,
          work,          \* jobs of the round
          literal,       \* of the current job, that is matched next
          states,        \* bindings and supports so far
          db,            \* facts before this round
          produced,      \* facts of this round
          delta,         \* facts of the last round
          next,          \* id of the next fact
          passes,        \* over the warrants, that are left
          cancelled,     \* CancellationToken
          outcome        \* of each evaluator, or None

facts == <<db, produced, delta, next>>
rounds == <<strata, stratum, round>>
matching == <<work, literal, states>>
vars == <<task, evaluator, phase, rounds, matching, facts, passes, cancelled, outcome>>

-----------------------------------------------------------------------------
(* Matching *)

EvalTerm(t, bindings) ==
    IF t \in DOMAIN bindings THEN bindings[t] ELSE IF t \in Values THEN t ELSE None

Binds(terms, args, bindings) ==
    /\ Len(terms) = Len(args)
    /\ \A i \in DOMAIN terms :
         /\ EvalTerm(terms[i], bindings) \in {None, args[i]}
         /\ \A j \in DOMAIN terms : terms[i] = terms[j] => args[i] = args[j]

BindAtom(terms, args, bindings) ==
    [v \in DOMAIN bindings \cup ({terms[i] : i \in DOMAIN terms} \ Values) |->
        IF v \in DOMAIN bindings THEN bindings[v]
        ELSE args[CHOOSE i \in DOMAIN terms : terms[i] = v]]

RowsOf(relation, rows) == {f \in rows : f.relation = relation}

MatchPos(found, l, rows) ==
    {[bindings |-> BindAtom(l.terms, m[2].args, m[1].bindings),
      support |-> Append(m[1].support, m[2].id)] :
        m \in {n \in found \X RowsOf(l.relation, rows) :
                 Binds(l.terms, n[2].args, n[1].bindings)}}

MatchNeg(found, l, rows) ==
    {s \in found : \A f \in RowsOf(l.relation, rows) : ~Binds(l.terms, f.args, s.bindings)}

\* An equation compares two values, or gives one to an unbound variable.
MatchEq(found, l) ==
    LET Left(s) == EvalTerm(l.left, s.bindings)
        Right(s) == EvalTerm(l.right, s.bindings)
        Bound(s, v, value) ==
            [s EXCEPT !.bindings =
                [w \in DOMAIN @ \cup {v} |-> IF w = v THEN value ELSE @[w]]]
    IN   {s \in found : Left(s) = Right(s) /\ (Left(s) = None => l.left = l.right)}
    \cup {Bound(s, l.left, Right(s)) : s \in {t \in found : Left(t) = None /\ Right(t) # None}}
    \cup {Bound(s, l.right, Left(s)) : s \in {t \in found : Left(t) # None /\ Right(t) = None}}

Match(found, l, positive, negative) ==
    CASE l.kind = "Pos" -> MatchPos(found, l, positive)
      [] l.kind = "Neg" -> MatchNeg(found, l, negative)
      [] l.kind = "Eq" -> MatchEq(found, l)

Unmatched == {[bindings |-> <<>>, support |-> <<>>]}

\* Sequences of numbers as BTreeMaps and vectors are ordered.
Before(u, v) ==
    \E k \in DOMAIN u : u[k] < v[k] /\ \A j \in 1 .. k - 1 : u[j] = v[j]

-----------------------------------------------------------------------------
(* Programs *)

Atomic(body) == {i \in DOMAIN body : body[i].kind # "Eq"}
Positives(body) == {i \in DOMAIN body : body[i].kind = "Pos"}

\* The faulty variant joins the last round at one place only.
FirstPositive(body) ==
    {i \in Positives(body) : \A j \in Positives(body) : i <= j}
DeltaPositions(body) == Positives(body)

Safe(rule) ==
    \A v \in {rule.head.terms[k] : k \in DOMAIN rule.head.terms} \cap Vars :
        \E i \in Positives(rule.body) :
            \E k \in DOMAIN rule.body[i].terms : rule.body[i].terms[k] = v

Mentioned(t) ==
    UNION {{t.rules[k].head.relation} \cup
           {t.rules[k].body[i].relation : i \in Atomic(t.rules[k].body)} : k \in DOMAIN t.rules}
    \cup {t.query[i].relation : i \in Atomic(t.query)}

\* A relation is above those its rules deny and not below those they use.
Stratifications(rules) ==
    {s \in [Relations -> 0 .. Cardinality(Relations)] :
        \A k \in DOMAIN rules : \A i \in Atomic(rules[k].body) :
            s[rules[k].head.relation] >=
                s[rules[k].body[i].relation] + (IF rules[k].body[i].kind = "Neg" THEN 1 ELSE 0)}

Strata(rules) ==
    [r \in Relations |->
        CHOOSE n \in 0 .. Cardinality(Relations) :
            /\ \E s \in Stratifications(rules) : s[r] = n
            /\ \A s \in Stratifications(rules) : s[r] >= n]

LastStratum == CHOOSE n \in {strata[r] : r \in Relations} : \A r \in Relations : strata[r] <= n

-----------------------------------------------------------------------------
(* Warrants *)

\* What is missing supports nothing.
WarrantOf(id, rows) ==
    IF \E f \in rows : f.id = id THEN (CHOOSE f \in rows : f.id = id).warrant ELSE "Heuristic"

\* The weakest input, below the ceiling of inference.
DerivationWarrant(d, rows) ==
    LET ws == {WarrantOf(d.inputs[i], rows) : i \in DOMAIN d.inputs} \cup {"Structural"}
    IN  CHOOSE w \in ws : \A v \in ws : Weaker(w, v) = w

Justified(f, rows) == Strongest({DerivationWarrant(d, rows) : d \in f.derivations})

ResetWarrants(rows) ==
    {IF f.derivations # {} THEN [f EXCEPT !.warrant = "Heuristic"] ELSE f : f \in rows}

Improves(f, rows) ==
    f.derivations # {} /\ IsStrongerThan(Justified(f, rows), f.warrant)

\* One pass reads all warrants before it raises any.
Raised(rows) ==
    {IF Improves(f, rows) THEN [f EXCEPT !.warrant = Justified(f, rows)] ELSE f : f \in rows}

-----------------------------------------------------------------------------
(* Evaluation *)

Init ==
    /\ task \in Tasks
    /\ evaluator = "reference" /\ phase = "start"
    /\ strata = [r \in Relations |-> 0] /\ stratum = 0 /\ round = 0
    /\ work = {} /\ literal = 1 /\ states = Unmatched
    /\ db = {} /\ produced = {} /\ delta = {} /\ next = 0
    /\ passes = 0 /\ cancelled = FALSE
    /\ outcome = [e \in {"reference", "optimized"} |-> None]

\* An evaluation forgets everything but what it returns.
Return(code, rows, answers) ==
    /\ outcome' = [outcome EXCEPT ![evaluator] =
                     [code |-> code, facts |-> rows, rows |-> answers]]
    /\ phase' = "done"
    /\ strata' = [r \in Relations |-> 0] /\ stratum' = 0 /\ round' = 0
    /\ work' = {} /\ literal' = 1 /\ states' = Unmatched
    /\ db' = {} /\ produced' = {} /\ delta' = {} /\ next' = 0
    /\ passes' = 0
    /\ UNCHANGED <<task, evaluator, cancelled>>

Err(code) == Return(code, {}, {})

HighestId(rows) ==
    CHOOSE m \in {0} \cup {f.id : f \in rows} : \A f \in rows : f.id <= m

FirstFreeId(rows) == HighestId(rows) + 1

Load ==
    /\ phase = "start"
    /\ LET rules == task.rules
           loaded == {f \in task.source : f.relation \in Mentioned(task)} IN
         IF \E k \in DOMAIN rules : ~Safe(rules[k]) THEN Err("UnsafeRule")
         ELSE IF Stratifications(rules) = {} THEN Err("UnstratifiedNegation")
         ELSE /\ phase' = "round"
              /\ strata' = Strata(rules)
              /\ db' = loaded /\ next' = FirstFreeId(loaded)
              /\ UNCHANGED <<task, evaluator, stratum, round, matching, produced, delta,
                             passes, cancelled, outcome>>

\* Jobs of a round: a rule, and the place of the last round's fact or 0.
Jobs ==
    LET rules == {k \in DOMAIN task.rules : strata[task.rules[k].head.relation] = stratum} IN
    IF evaluator = "reference" \/ round = 0
    THEN {<<k, 0>> : k \in rules}
    ELSE UNION {{<<k, i>> : i \in DeltaPositions(task.rules[k].body)} : k \in rules}

BeginRound ==
    /\ phase = "round" /\ round < task.maxRounds
    /\ IF evaluator = "optimized" /\ cancelled THEN Err("Cancelled")
       ELSE /\ phase' = "rules" /\ work' = Jobs
            /\ UNCHANGED <<task, evaluator, rounds, literal, states, facts, passes,
                           cancelled, outcome>>

Current(job) == job \in work /\ \A j \in work : j # job => Before(job, j)

Body(job) == task.rules[job[1]].body

\* The reference evaluator adds to the database at once.
Visible == IF evaluator = "reference" THEN db \cup produced ELSE db

MatchLiteral ==
    /\ phase = "rules"
    /\ \E job \in work :
         /\ Current(job) /\ literal <= Len(Body(job))
         /\ states' = Match(states, Body(job)[literal],
                            IF job[2] = literal THEN delta ELSE Visible, Visible)
    /\ literal' = literal + 1
    /\ UNCHANGED <<task, evaluator, phase, rounds, work, facts, passes, cancelled, outcome>>

First(s) == \A t \in states : t # s => Before(s.support, t.support)

\* The last one that was loaded with these arguments, or the one derived.
Known(relation, args) ==
    {f \in db \cup produced : f.relation = relation /\ f.args = args}
DerivedId(known) == HighestId({f \in known : f.derivations # {}})

Attach(rows, id, derivation) ==
    {IF f.id = id THEN [f EXCEPT !.derivations = @ \cup {derivation}] ELSE f : f \in rows}

\* The faulty variants keep the newest derivation, and look among the facts
\* of earlier rounds only.
Replace(rows, id, derivation) ==
    {IF f.id = id THEN [f EXCEPT !.derivations = {derivation}] ELSE f : f \in rows}
AttachEarlier(rows, id, derivation) ==
    IF rows = db THEN Attach(rows, id, derivation) ELSE rows

AttachDerivation(rows, id, derivation) == Attach(rows, id, derivation)

Concluded(rule, s) ==
    LET args == [i \in DOMAIN rule.head.terms |-> EvalTerm(rule.head.terms[i], s.bindings)]
        derivation == [rule |-> rule.id, inputs |-> s.support]
        known == Known(rule.head.relation, args) IN
    IF \E f \in known : f.derivations # {}
    THEN /\ produced' = AttachDerivation(produced, DerivedId(known), derivation)
         /\ db' = AttachDerivation(db, DerivedId(known), derivation)
         /\ UNCHANGED next
    ELSE IF known # {} THEN UNCHANGED <<produced, db, next>>
    ELSE /\ produced' = produced \cup
              {[id |-> next, relation |-> rule.head.relation, args |-> args,
                warrant |-> "Heuristic", derivations |-> {derivation}]}
         /\ next' = next + 1
         /\ UNCHANGED db

Conclude ==
    /\ phase = "rules"
    /\ \E job \in work :
         /\ Current(job) /\ literal > Len(Body(job))
         /\ \E s \in states :
              /\ First(s)
              /\ Concluded(task.rules[job[1]], s)
              /\ states' = states \ {s}
    /\ UNCHANGED <<task, evaluator, phase, rounds, work, literal, delta, passes,
                   cancelled, outcome>>

EndJob ==
    /\ phase = "rules"
    /\ \E job \in work :
         /\ Current(job) /\ literal > Len(Body(job)) /\ states = {}
         /\ work' = work \ {job}
    /\ literal' = 1 /\ states' = Unmatched
    /\ UNCHANGED <<task, evaluator, phase, rounds, facts, passes, cancelled, outcome>>

\* A round that produced something is an error if it was the last one.
EndRound ==
    /\ phase = "rules" /\ work = {} /\ produced # {}
    /\ IF round + 1 = task.maxRounds THEN Err("RecursionLimit")
       ELSE /\ db' = db \cup produced /\ delta' = produced /\ produced' = {}
            /\ round' = round + 1 /\ phase' = "round"
            /\ UNCHANGED <<task, evaluator, strata, stratum, matching, next, passes,
                           cancelled, outcome>>

\* fact_count * 4 + 1; the faulty variant does not repeat.
OnePass(rows) == 1
MaxPasses(rows) == 4 * Cardinality(rows) + 1

EndStratum ==
    /\ \/ phase = "rules" /\ work = {} /\ produced = {}
       \/ phase = "round" /\ round = task.maxRounds
    /\ round' = 0 /\ delta' = {}
    /\ IF stratum < LastStratum
       THEN /\ stratum' = stratum + 1 /\ phase' = "round"
            /\ UNCHANGED <<db, passes>>
       ELSE /\ phase' = "warrants" /\ db' = ResetWarrants(db) /\ passes' = MaxPasses(db)
            /\ UNCHANGED stratum
    /\ UNCHANGED <<task, evaluator, strata, matching, produced, next, cancelled, outcome>>

RecomputeWarrants ==
    /\ phase = "warrants" /\ passes > 0
    /\ \E f \in db : Improves(f, db)
    /\ db' = Raised(db) /\ passes' = passes - 1
    /\ UNCHANGED <<task, evaluator, phase, rounds, matching, produced, delta, next,
                   cancelled, outcome>>

\* The query, matched in one step.
MatchBody(body, rows) ==
    LET found[i \in 0 .. Len(body)] ==
          IF i = 0 THEN Unmatched ELSE Match(found[i - 1], body[i], rows, rows)
    IN  found[Len(body)]

Answers(rows) ==
    {[values |-> [i \in DOMAIN task.project |-> s.bindings[task.project[i]]],
      support |-> s.support] : s \in MatchBody(task.query, rows)}

\* Sorted by values, then as found, and cut.
Limited(answers) ==
    {a \in answers :
        Cardinality({b \in answers : Before(b.values \o b.support, a.values \o a.support)})
            < task.limit}

Answer ==
    /\ phase = "warrants"
    /\ passes = 0 \/ \A f \in db : ~Improves(f, db)
    /\ Return("Ok", db, Limited(Answers(db)))

RunOptimized ==
    /\ phase = "done" /\ evaluator = "reference"
    /\ evaluator' = "optimized" /\ phase' = "start"
    /\ UNCHANGED <<task, rounds, matching, facts, passes, cancelled, outcome>>

Cancel ==
    /\ evaluator = "optimized" /\ phase # "done" /\ ~cancelled
    /\ cancelled' = TRUE
    /\ UNCHANGED <<task, evaluator, phase, rounds, matching, facts, passes, outcome>>

Evaluated == phase = "done" /\ evaluator = "optimized" /\ UNCHANGED vars

Next ==
    \/ Load \/ BeginRound \/ MatchLiteral \/ Conclude \/ EndJob \/ EndRound \/ EndStratum
    \/ RecomputeWarrants \/ Answer \/ RunOptimized \/ Cancel \/ Evaluated

Spec == Init /\ [][Next]_vars

-----------------------------------------------------------------------------
(* Properties *)

Loaded == {f \in task.source : f.relation \in Mentioned(task)}
LoadedIds == {f.id : f \in Loaded}

\* What was not loaded follows from facts found before it, whatever circles
\* the derivations found later close.
Founded ==
    \A f \in db \cup produced :
        \/ f.id \in LoadedIds
        \/ \E d \in f.derivations : \A i \in DOMAIN d.inputs :
             /\ d.inputs[i] < f.id
             /\ \E g \in db \cup produced : g.id = d.inputs[i]

\* An evaluation just returned a result.
Succeeded == phase = "done" /\ outcome[evaluator].code = "Ok"
Result == outcome[evaluator].facts

\* What rule k derives from a set of facts.
Inferences(k, rows) ==
    LET rule == task.rules[k] IN
    {[relation |-> rule.head.relation,
      args |-> [i \in DOMAIN rule.head.terms |-> EvalTerm(rule.head.terms[i], s.bindings)],
      derivation |-> [rule |-> rule.id, inputs |-> s.support]] : s \in MatchBody(rule.body, rows)}

InferencesOf(rows) == UNION {Inferences(k, rows) : k \in DOMAIN task.rules}

\* Every derivation that was added holds in the result, negations included.
Sound ==
    Succeeded =>
        LET inferences == InferencesOf(Result) IN
        \A f \in Result : \A d \in f.derivations :
            \/ \E g \in Loaded : g.id = f.id /\ d \in g.derivations
            \/ [relation |-> f.relation, args |-> f.args, derivation |-> d] \in inferences

\* Nothing that follows is missing, and no way in which a derived fact does;
\* an evaluation without rounds evaluates no rules.
Complete ==
    Succeeded /\ task.maxRounds > 0 =>
        \A inference \in InferencesOf(Result) :
            LET same == {f \in Result :
                            f.relation = inference.relation /\ f.args = inference.args} IN
            /\ same # {}
            /\ \/ \A f \in same : f.derivations = {}
               \/ \E f \in same : inference.derivation \in f.derivations

\* A result holds what follows, with every way it follows, and nothing else.
ConsequencesExact == Sound /\ Complete

\* A derivation that was stored cites stored facts: what of them was not loaded
\* supports nothing.
StoredWith(f) == UNION {g.derivations : g \in {h \in Loaded : h.id = f.id}}
Supplied(f, d, i) == d \in StoredWith(f) => d.inputs[i] \in LoadedIds

Worth(f, d, rows) ==
    LET ws == {IF Supplied(f, d, i) THEN WarrantOf(d.inputs[i], rows) ELSE "Heuristic" :
                 i \in DOMAIN d.inputs} \cup {"Structural"}
    IN  CHOOSE w \in ws : \A v \in ws : Weaker(w, v) = w

\* New ids start above the loaded facts only.  What these cite beyond them
\* would be mistaken for a new fact.
NumbersApart ==
    \A f \in Loaded : \A d \in f.derivations : \A i \in DOMAIN d.inputs :
        d.inputs[i] \in LoadedIds \/ d.inputs[i] < FirstFreeId(Loaded)

\* The warrants of a result are the strongest that its derivations ground:
\* none is weaker than a derivation supports, and a fact of warrant w is in
\* every set that holds the evidence of warrant w and what follows from it.
WarrantsExact ==
    Succeeded /\ NumbersApart =>
        LET rows == Result
            derived == {f \in rows : f.derivations # {}} IN
        /\ \A f \in derived : Strongest({Worth(f, d, rows) : d \in f.derivations}) = f.warrant
        /\ \A w \in FactWarrant \ {"Heuristic"} : \A unjustified \in SUBSET {f.id : f \in derived} :
             (\A f \in derived :
                f.id \in unjustified =>
                  \A d \in f.derivations :
                    \/ IsStrongerThan(w, Worth(f, d, rows))
                    \/ \E i \in DOMAIN d.inputs :
                         Supplied(f, d, i) /\ d.inputs[i] \in unjustified)
             => \A f \in derived : f.id \in unjustified => IsStrongerThan(w, f.warrant)

\* "heuristic_support_cannot_be_upgraded_by_derivation" (differential.rs:69),
\* a derivation being "bounded by its weakest input" (eval.rs:83): a fact
\* that was stored with derivations each of which needs a heuristic source
\* fact, and gets no other by the rules, is heuristic.
HeuristicNotUpgraded ==
    Succeeded =>
        \A f \in Result : \A g \in Loaded :
            /\ g.id = f.id /\ g.derivations = f.derivations /\ g.derivations # {}
            /\ \A d \in g.derivations : \E i \in DOMAIN d.inputs : \E h \in task.source :
                 h.id = d.inputs[i] /\ h.derivations = {} /\ h.warrant = "Heuristic"
            => f.warrant = "Heuristic"

\* No warrant rests on a circle of derivations, while it is evaluated or
\* after, and none is weaker than the evidence below it allows.
WarrantsEarned == Founded /\ WarrantsExact

\* An evaluation yields the consequences, all of them, each for what it is worth.
EvaluationExact == ConsequencesExact /\ WarrantsEarned

\* A result up to the ids of the facts that were not loaded.
Content(e) ==
    LET rows == outcome[e].facts
        Name(id) == IF id \in LoadedIds \/ ~\E f \in rows : f.id = id THEN <<id>>
                    ELSE LET f == CHOOSE f \in rows : f.id = id IN <<f.relation, f.args>>
        Named(d) == [rule |-> d.rule, inputs |-> [i \in DOMAIN d.inputs |-> Name(d.inputs[i])]]
    IN  {[name |-> Name(f.id), relation |-> f.relation, args |-> f.args, warrant |-> f.warrant,
          derivations |-> {Named(d) : d \in f.derivations}] : f \in rows}

\* How often each combination of values is among the answers.
ValueCounts(e) ==
    LET values == {a.values : a \in outcome[e].rows} IN
    {<<v, Cardinality({a \in outcome[e].rows : a.values = v})>> : v \in values}

\* The reference evaluator is the specification of the other.
EvaluatorsAgree ==
    Succeeded /\ evaluator = "optimized" /\ outcome["reference"].code = "Ok" =>
        /\ Content("reference") = Content("optimized")
        /\ ValueCounts("reference") = ValueCounts("optimized")
=============================================================================
