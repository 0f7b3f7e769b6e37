------------------------------- MODULE HomeIndex -------------------------------
(***************************************************************************)
(* Bound minimization over a slice: scripts/atlas_home.py, and             *)
(* scripts/atlas_home_stream.py, the same rule over a file.                *)
(*                                                                         *)
(* A slice maps names to rows.  Names of declarations and                   *)
(* classes are numbers in the order in which they sort, 0 is none.  A row  *)
(* says what is before the last ".to" of its name (owner) and before its   *)
(* last dot (namespace).  A binder has its info, "t" for instance-implicit, the *)
(* head of its domain and, of the head's arguments, the de Bruijn index of *)
(* those that are variables and Other for the rest.                        *)
(***************************************************************************)
EXTENDS Integers, Sequences, FiniteSets, SequencesExt, FiniteSetsExt

Other == -1

NoCarrier == -1

\* A statement that is not there, or cannot be read, has no binders.
BindersOf(slice, n) == IF slice[n].telescoped THEN slice[n].binders ELSE <<>>

IsInstance(b) == b.info = "t" /\ b.head # 0

-----------------------------------------------------------------------------
(* The lattice *)

\* A class is whatever heads an instance binder.
Classes(slice) ==
    {b.head : b \in {c \in UNION {ToSet(BindersOf(slice, n)) : n \in DOMAIN slice} :
                       IsInstance(c)}}

\* Parent projections from a class to a class.
Parents(slice) ==
    LET classes == Classes(slice)
        projections == {r \in Range(slice) : r.telescoped /\ r.owner \in classes
                                      /\ r.concl \in classes \ {r.owner}}
    IN {<<r.owner, r.concl>> : r \in projections}

\* What can be reached from a class over at most n + 1 edges.
Reach(edges, from, n) ==
    LET step[k \in 0..n] ==
          LET last == IF k = 0 THEN {} ELSE step[k-1]
          IN {e[2] : e \in {f \in edges : f[1] \in {from} \cup last}}
    IN step[n]

\* Strict ancestors, toward the weaker end.
Ancestors(edges, class) == Reach(edges, class, Cardinality(edges)) \ {class}

\* What is read off the rows once, before a declaration is judged.
HomeIndexOf(slice) ==
    LET classes == Classes(slice)
        edges == Parents(slice)
    IN [rows     |-> slice,
        binders  |-> [n \in DOMAIN slice |-> BindersOf(slice, n)],
        classes  |-> classes,
        above    |-> [c \in classes |-> Ancestors(edges, c)],
        produces |-> {n \in DOMAIN slice : slice[n].telescoped /\ slice[n].concl \in classes}]

-----------------------------------------------------------------------------
(* Instance binders and their carriers *)

\* Inside the domain of the binder at this depth, variable i is the binder
\* at depth - 1 - i.
CarrierAt(depth, args) ==
    LET variables == SelectSeq(args, LAMBDA a : a # Other)
    IN IF variables = <<>> THEN NoCarrier
       ELSE depth - 1 - variables[Len(variables)]

InstanceBinders(idx, n) ==
    LET binders == idx.binders[n]
    IN {[class |-> binders[i].head, carrier |-> CarrierAt(i - 1, binders[i].args)] :
          i \in {j \in DOMAIN binders : IsInstance(binders[j])}}

\* Arguments that stand for structural parameters of the class; all of them
\* if there are none or the class is not in the slice.
StructuralArgs(binders, b) ==
    LET params == IF b.head \in DOMAIN binders THEN binders[b.head] ELSE <<>>
        kept == {k \in 1..Min({Len(b.args), Len(params)}) : params[k].info # "t"}
        order == SetToSortSeq(kept, <)
    IN IF kept = {} THEN b.args ELSE [k \in DOMAIN order |-> b.args[order[k]]]

ParameterAwareInstanceBinders(idx, n) ==
    LET binders == idx.binders[n]
    IN {[class |-> binders[i].head,
         carrier |-> CarrierAt(i - 1, StructuralArgs(idx.binders, binders[i]))] :
          i \in {j \in DOMAIN binders : IsInstance(binders[j])}}

Carriers(binders) == {b.carrier : b \in binders}

-----------------------------------------------------------------------------
(* Evidence *)

\* Instances that only walk down the lattice they are asked about.
Forgetful(idx) ==
    {n \in idx.produces :
       \E b \in InstanceBinders(idx, n) :
          idx.rows[n].concl \in {b.class} \cup idx.above[b.class]}

Required(idx, uses) ==
    {b.class : b \in UNION {InstanceBinders(idx, u) : u \in (uses \cap DOMAIN idx.rows) \ Forgetful(idx)}}

Evidence(idx, row) == Required(idx, row.usesStatement \cup row.usesProof)

\* Fields of a class, read off the structure.
ProjectionLike(idx, n) ==
    LET r == idx.rows[n] IN r.namespace \in idx.classes /\ r.namespace \in r.usesProof

\* Candidates that provide all that is required.
Covering(idx, candidates, required) ==
    {c \in candidates : \A r \in required : r \in {c} \cup idx.above[c]}

-----------------------------------------------------------------------------
(* Verdicts, per instance binder *)

Verdict(idx, class, reached) ==
    LET hit == idx.above[class] \cap reached
        covering == Covering(idx, hit, hit)
    IN IF class \in reached THEN [class |-> class, verdict |-> "at-home", home |-> 0]
       ELSE IF hit = {} THEN [class |-> class, verdict |-> "unused", home |-> 0]
       ELSE IF covering = {} THEN [class |-> class, verdict |-> "no-single-home", home |-> 0]
       ELSE [class |-> class, verdict |-> "over-hypothesis", home |-> Min(covering)]

Skipped(why) == [skipped |-> why, verdicts |-> {}]
Judged(verdicts) == [skipped |-> "no", verdicts |-> verdicts]

\* home: only declarations whose instance binders constrain one carrier.
Home(idx, n) ==
    LET binders == InstanceBinders(idx, n)
        reached == Evidence(idx, idx.rows[n])
    IN IF binders = {} THEN Skipped("no-instance-binder")
       ELSE IF Cardinality(Carriers(binders)) > 1 THEN Skipped("multi-carrier")
       ELSE IF n \in idx.produces THEN Skipped("produces-a-class")
       ELSE Judged({Verdict(idx, b.class, reached) : b \in binders})

\* The search verdict of one binder, with all classes that cover the
\* requirements, and what to say if there are none or nothing covers them.
SearchVerdict(idx, b, reached, none, uncovered) ==
    LET requirements == idx.above[b.class] \cap reached
        candidates == Covering(idx, idx.above[b.class], requirements)
    IN IF b.class \in reached
       THEN [class |-> b.class, carrier |-> b.carrier, verdict |-> "at-home", candidates |-> {}]
       ELSE IF requirements = {}
       THEN [class |-> b.class, carrier |-> b.carrier, verdict |-> none, candidates |-> {}]
       ELSE [class |-> b.class, carrier |-> b.carrier,
             verdict |-> IF candidates = {} THEN uncovered ELSE "candidates",
             candidates |-> candidates]

StatementCandidates(idx, n) ==
    LET binders == ParameterAwareInstanceBinders(idx, n)
        reached == Required(idx, idx.rows[n].usesStatement)
    IN IF binders = {} THEN Skipped("no-instance-binder")
       ELSE IF Cardinality(Carriers(binders)) > 1 THEN Skipped("multi-carrier")
       ELSE IF n \in idx.produces THEN Skipped("produces-a-class")
       ELSE Judged({SearchVerdict(idx, b, reached, "unused", "no-single-home") : b \in binders})

\* The faulty variant moves evidence between carriers.
ReachedAtAny(idx, row, carrier) ==
    {q.class : q \in {p \in row.requirements :
        p.source \notin Forgetful(idx) /\ p.class # 0 /\ p.carrier # NoCarrier}}

\* What the statement requires of a carrier, from rows that say so.
ReachedAt(idx, row, carrier) ==
    {q.class : q \in {p \in row.requirements :
        p.source \notin Forgetful(idx) /\ p.class # 0 /\ p.carrier = carrier}}

\* Rows that are not from an extractor that attaches carriers have no
\* requirements at all, which is not the same as an empty set of them.
CarrierStatementCandidates(idx, n) ==
    LET row == idx.rows[n]
        classClaim == row.kind = "theorem" /\ row.isInstance = "no"
        binders == ParameterAwareInstanceBinders(idx, n)
    IN IF n \in idx.produces /\ ~classClaim THEN Skipped("produces-a-class")
       ELSE IF ~row.attached THEN Skipped("no-carrier-evidence")
       ELSE IF binders = {} THEN Skipped("no-instance-binder")
       ELSE Judged({IF b.carrier = NoCarrier
                    THEN [class |-> b.class, carrier |-> NoCarrier,
                          verdict |-> "unknown-carrier", candidates |-> {}]
                    ELSE SearchVerdict(idx, b, ReachedAt(idx, row, b.carrier),
                                       "no-attached-requirement",
                                       "no-attached-requirement") : b \in binders})

-----------------------------------------------------------------------------
(* The sweeps *)

Theorems(idx) ==
    {n \in DOMAIN idx.rows : idx.rows[n].telescoped /\ idx.rows[n].kind = "theorem"}

\* Declaration, declared class and proposed class.
Triple(decl, declared, target) == [decl |-> decl, declared |-> declared, target |-> target]

\* generalization-run.py
InMemoryCandidates(idx) ==
    UNION {{Triple(n, v.class, v.home) :
              v \in {w \in Home(idx, n).verdicts : w.verdict = "over-hypothesis"}} :
           n \in {m \in Theorems(idx) : ~ProjectionLike(idx, m)}}

\* atlas_home_stream.py judges a row while it streams by, and tells a
\* projection by the row.
StreamVerdicts(idx, row) ==
    LET binders == InstanceBinders(idx, row.name)
    IN IF \/ row.kind # "theorem" \/ ~row.telescoped \/ binders = {}
          \/ Cardinality(Carriers(binders)) > 1
          \/ row.name \in idx.produces
          \/ row.namespace \in idx.classes /\ row.namespace \in row.usesProof
       THEN {}
       ELSE {Verdict(idx, b.class, Evidence(idx, row)) : b \in binders}

StreamedCandidates(idx) ==
    UNION {{Triple(n, v.class, v.home) :
              v \in {w \in StreamVerdicts(idx, idx.rows[n]) : w.verdict = "over-hypothesis"}} :
           n \in DOMAIN idx.rows}

(***************************************************************************)
(* Weakenings by family: the order in which the planners of both lanes     *)
(* (scripts/probe-plan.py, scripts/attempt-plan.py) take them.             *)
(***************************************************************************)
Family(t) == <<t.declared, t.target>>

Precedes(a, b) ==
    \E i \in DOMAIN a : a[i] < b[i] /\ \A j \in 1..(i - 1) : a[j] = b[j]

\* The elements that come first by their keys, which are distinct.
FirstBy(S, Key(_), n) ==
    {s \in S : Cardinality({r \in S : Precedes(Key(r), Key(s))}) < n}

SortedBy(S, Key(_)) ==
    [i \in 1..Cardinality(S) |->
       CHOOSE s \in S : Cardinality({r \in S : Precedes(Key(r), Key(s))}) = i - 1]

Place(rows, t) == Cardinality({u \in rows : Family(u) = Family(t) /\ u.decl < t.decl})
=============================================================================
