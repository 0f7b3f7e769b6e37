------------------------------- MODULE ProbeLoop -------------------------------
(***************************************************************************)
(* The generalization loop over one slice: candidates from HomeIndex       *)
(* (scripts/generalization-run.py, generalization-full.py), probes chosen  *)
(* by family (probe-plan.py) or by detector (crossing-lattice-shape.py,    *)
(* make-confirm-file.py), #atlas_home_refute, and the two scorers          *)
(* (score-probes.py, score-confirmations.py).                              *)
(*                                                                         *)
(* A variable is a file one script writes and another reads.  The operator *)
(* may run the scripts in any order, so that a transcript may be older     *)
(* than the index it is scored against.                                    *)
(***************************************************************************)
EXTENDS HomeIndex

CONSTANTS Slices,      \* the slices there may be, each with its groups of
                       \* equivalent statements: [rows, groups]
          MaxProbes,   \* --max-probes
          Budget,      \* --budget
          PerFamily,   \* --per-family
          Saturated,   \* --saturated
          PerStratum,  \* --per-stratum
          MaxRuns,     \* bounds the scored runs
          None         \* no such file yet

\* A plan asks of each family once at least.
ASSUME OptionsAreNumbers ==
    /\ Budget \in Nat /\ PerFamily \in Nat \ {0} /\ Saturated \in Nat
    /\ MaxRuns \in Nat

\* A slice is a file of rows, each under its name.
ASSUME SlicesAreRead ==
    \A slice \in Slices :
      /\ IsFiniteSet(DOMAIN slice.rows) /\ DOMAIN slice.rows \subseteq Nat
      /\ slice.rows \in [DOMAIN slice.rows ->
           [name : Nat, kind : STRING, owner : Nat, namespace : Nat, telescoped : BOOLEAN,
            binders : Seq([info : STRING, head : Nat, args : Seq(Int)]), concl : Nat,
            usesStatement : SUBSET Nat, usesProof : SUBSET Nat,
            isInstance : STRING, attached : BOOLEAN,
            requirements : SUBSET [source : Nat, class : Nat, carrier : Int]]]
      /\ \A n \in DOMAIN slice.rows : slice.rows[n].name = n

VARIABLES idx,         \* what the scripts read off the slice
          candidates,  \* of the sweep
          index,       \* the probes planned last
          strata,      \* the index of make-confirm-file.py
          log,         \* Lean's transcript: lines in order of appearance
          runs,        \* scored runs
          report,      \* of score-confirmations.py
          accepted     \* ghost: weakenings the kernel accepted

loopVars == <<idx, candidates, index, strata, log, runs, report, accepted>>

-----------------------------------------------------------------------------
(* Planning *)

\* Arguments a class is seen with most often, NoCarrier if it is not seen.
\* The least of several stands for the one seen first.
ArityIn(rows, class) ==
    LET seen == UNION {{<<n, i>> : i \in {j \in DOMAIN rows.binders[n] :
                          IsInstance(rows.binders[n][j]) /\ rows.binders[n][j].head = class}} :
                       n \in DOMAIN rows.binders}
        arity(s) == Len(rows.binders[s[1]][s[2]].args)
        count(k) == Cardinality({s \in seen : arity(s) = k})
        arities == {arity(s) : s \in seen}
    IN Min({k \in arities : \A j \in arities : count(j) <= count(k)})

ClassArity(class) == IF class \in idx.classes THEN idx.arity[class] ELSE NoCarrier

Askable(t) ==
    LET a == ClassArity(t.declared)
        b == ClassArity(t.target)
    IN a = NoCarrier \/ b = NoCarrier \/ a = b

Scored(run) == run.confirmed \cup run.refuted \cup run.inconclusive \cup run.unaskable

Rate(known, f) == Cardinality({t \in known : Family(t) = f})

\* Families by how little is known about them, then by size.
Turn(rows, known, f) ==
    LET size(g) == Cardinality({t \in rows : Family(t) = g})
        key(g) == <<Rate(known, g), 0 - size(g)>> \o g
    IN Cardinality({g \in {Family(t) : t \in rows} : Precedes(key(g), key(f))})

\* Faulty variant: a family that is measured is probed like any other.
RoundRobinUnsaturated(rows, known) ==
    LET key(t) == <<Place(rows, t), Turn(rows, known, Family(t))>>
    IN FirstBy({t \in rows : Place(rows, t) < PerFamily}, key, Budget)

\* One probe of each family, then a second of each, and so on.
RoundRobin(rows, known) ==
    LET eligible == {t \in rows :
          /\ Place(rows, t) < PerFamily
          /\ Rate(known, Family(t)) >= Saturated => Place(rows, t) = 0}
        key(t) == <<Place(rows, t), Turn(rows, known, Family(t))>>
    IN FirstBy(eligible, key, Budget)

\* --all-remaining: whole families.
Census(rows, known) ==
    LET key(t) == <<Turn(rows, known, Family(t)), Place(rows, t)>>
    IN FirstBy(rows, key, Budget)

-----------------------------------------------------------------------------
(* Lean *)

\* A forced class is tried on every instance binder of the declaration.
LinesOf(probes) ==
    UNION {{[at |-> i, line |-> Triple(p.decl, idx.binders[p.decl][i].head, p.target)] :
              i \in {j \in DOMAIN idx.binders[p.decl] : IsInstance(idx.binders[p.decl][j])}} :
           p \in probes}

Outcomes(line) ==
    (IF Askable(line) THEN {"confirmed", "refuted", "inconclusive"} ELSE {})
      \cup (IF Askable(line) /\ NoCarrier \notin {ClassArity(line.declared), ClassArity(line.target)}
            THEN {} ELSE {"unaskable"})

-----------------------------------------------------------------------------
(* Scoring *)

\* Faulty variant: any line of the declaration with the proposed target.
MatchesTarget(line, t) == line.decl = t.decl /\ line.target = t.target

\* Which lines are evidence about a proposal.
Matches(line, t) == line = t

\* The last of the lines for a proposal is its verdict.
VerdictOf(t) ==
    LET lines == {i \in DOMAIN log : Matches(log[i].line, t)}
    IN IF lines = {} THEN "missing" ELSE log[Max(lines)].verdict

ScoredRun(proposed) ==
    LET judged(v) == {t \in proposed : VerdictOf(t) = v}
        matched == {t \in proposed : VerdictOf(t) # "missing"}
    IN [confirmed |-> judged("confirmed"), refuted |-> judged("refuted"),
        inconclusive |-> judged("inconclusive"), unaskable |-> judged("unaskable"),
        missing |-> judged("missing"),
        spurious |-> Cardinality({log[i].line : i \in DOMAIN log}) - Cardinality(matched)]

-----------------------------------------------------------------------------
(* The crossing of the two detectors *)

\* Signal L: declarations whose citations reach less than they declare.
FlaggedByLattice ==
    {n \in Theorems(idx) :
       ~ProjectionLike(idx, n) /\ \E v \in Home(idx, n).verdicts : v.verdict \in {"over-hypothesis", "unused"}}

Declares(n) == {b.class : b \in InstanceBinders(idx, n)}

\* A group of equivalent statements, one of which declares less.
Weaker(o, n) ==
    /\ Declares(o) \notin {{}, Declares(n)}
    /\ \A t \in Declares(o) : \E s \in Declares(n) :
          t = s \/ t \in idx.above[s]

WeakerSiblings(n) ==
    {o \in (UNION {g \in idx.groups : n \in g}) \cap DOMAIN idx.rows :
       Declares(n) # {} /\ o # n /\ Weaker(o, n)}

\* Signal S.
FlaggedByShape == {n \in (UNION idx.groups) \cap DOMAIN idx.rows : WeakerSiblings(n) # {}}

Homes(n) == {v \in Home(idx, n).verdicts : v.verdict = "over-hypothesis"}

Pick(stratum, decl, forced) == [stratum |-> stratum, decl |-> decl, forced |-> forced]

\* One class to force per declaration: a home the citations propose, or a
\* class of a weaker sibling.
LatticePicks(stratum, names) ==
    {P \in SUBSET UNION {{Pick(stratum, n, v.home) : v \in Homes(n)} : n \in names} :
       {p.decl : p \in P} = {n \in names : Homes(n) # {}} /\
       Cardinality(P) = Cardinality({p.decl : p \in P})}

ShapePicks(names) ==
    UNION {{Pick("S_ONLY", n, c) : c \in
              {e \in idx.classes :
                 \E o \in WeakerSiblings(n) :
                    e \in Declares(o) \ Declares(n) /\
                    \A d \in Declares(o) \ Declares(n) : e <= d}} : n \in names}

AtMost(S, n) == {T \in SUBSET S : Cardinality(T) <= n /\ Cardinality({p.decl : p \in T}) = Cardinality(T)}

\* In the strata of the lattice only lines about a proposed weakening count,
\* in the other one all lines about the forced class; the report does not read
\* a line that is inconclusive.
Evident(pick) ==
    {i \in DOMAIN log :
       /\ log[i].line.decl = pick.decl
       /\ log[i].verdict # "inconclusive"
       /\ IF pick.stratum = "S_ONLY" THEN log[i].line.target = pick.forced
          ELSE \E v \in Homes(pick.decl) : Matches(log[i].line, Triple(pick.decl, v.class, v.home))}

StratumVerdict(pick) ==
    IF Evident(pick) = {} THEN "no-verdict"
    ELSE IF \E i \in Evident(pick) : log[i].verdict = "confirmed" THEN "confirmed"
    ELSE log[Min(Evident(pick))].verdict

-----------------------------------------------------------------------------
LoopInit ==
    /\ \E slice \in Slices :
         LET home == HomeIndexOf(slice.rows)
         IN idx = [rows |-> home.rows, binders |-> home.binders, classes |-> home.classes,
                   above |-> home.above, produces |-> home.produces,
                   arity |-> [c \in home.classes |-> ArityIn(home, c)],
                   groups |-> slice.groups]
    /\ candidates = None /\ index = None /\ strata = None /\ report = None
    /\ log = <<>> /\ runs = <<>> /\ accepted = {}

\* generalization-full.py
Sweep ==
    /\ candidates = None
    /\ candidates' = StreamedCandidates(idx)
    /\ UNCHANGED <<idx, index, strata, log, runs, report, accepted>>

\* generalization-run.py: what has an equivalent is a rediscovery, except
\* where the engine fails or the screen is skipped.
SweepAndProbe ==
    LET equivalent == UNION {g \in idx.groups : Cardinality(g) > 1}
        found == InMemoryCandidates(idx)
    IN \E passed \in SUBSET (equivalent \cap {t.decl : t \in found}) :
         LET novel == {t \in found : t.decl \notin equivalent \/ t.decl \in passed}
         IN \E probes \in SUBSET novel :
              /\ Cardinality(probes) = Min({MaxProbes, Cardinality(novel)})
              /\ index' = [probes |-> probes, plan |-> "first", rows |-> novel, known |-> {}]
    /\ UNCHANGED <<idx, candidates, strata, log, runs, report, accepted>>

\* probe-plan.py, with any of the earlier runs excluded.  A sample of nothing
\* has no median: the script raises and leaves the older index.
Plan ==
    /\ candidates # None
    /\ \E known \in {{}} \cup {runs[i].confirmed \cup runs[i].refuted : i \in DOMAIN runs},
          excluded \in SUBSET DOMAIN runs, census \in BOOLEAN :
         LET done == UNION {Scored(runs[i]) : i \in excluded}
             rows == {t \in candidates \ done : Askable(t)}
             chosen == IF census THEN Census(rows, known) ELSE RoundRobin(rows, known)
         IN /\ census \/ chosen # {}
            /\ index' = [probes |-> chosen, plan |-> IF census THEN "census" ELSE "families",
                         rows |-> rows, known |-> known]
    /\ UNCHANGED <<idx, candidates, strata, log, runs, report, accepted>>

\* crossing-lattice-shape.py and make-confirm-file.py
Cross ==
    /\ strata = None
    /\ LET both == FlaggedByLattice \cap FlaggedByShape
           latticeOnly == FlaggedByLattice \ FlaggedByShape
           shapeOnly == FlaggedByShape \ FlaggedByLattice
       IN \E agree \in LatticePicks("BOTH", both),
             lattice \in UNION {AtMost(P, PerStratum) : P \in LatticePicks("L_ONLY", latticeOnly)},
             shape \in AtMost(ShapePicks(shapeOnly), PerStratum) :
            strata' = agree \cup lattice \cup shape
    /\ UNCHANGED <<idx, candidates, index, log, runs, report, accepted>>

\* By declaration and target, and then by the place of the binder.
TranscriptOrder(printed) == SortedBy(printed, LAMBDA l : <<l.line.decl, l.line.target, l.at>>)

\* Lean runs a generated file and replaces the transcript.  Any line may be
\* missing: the command fails on the declaration, or the run is cut short.
Elaborate(probes) ==
    \E printed \in SUBSET LinesOf(probes) :
      \E verdict \in [printed -> UNION {Outcomes(l.line) : l \in printed}] :
        /\ \A l \in printed : verdict[l] \in Outcomes(l.line)
        /\ LET order == TranscriptOrder(printed)
           IN log' = [i \in DOMAIN order |-> [line |-> order[i].line, verdict |-> verdict[order[i]]]]
        /\ accepted' = accepted \cup {l.line : l \in {m \in printed : verdict[m] = "confirmed"}}

RunLean ==
    /\ Len(runs) < MaxRuns
    /\ \/ index # None /\ Elaborate(index.probes)
       \/ strata # None /\ Elaborate({Triple(p.decl, 0, p.forced) : p \in strata})
    /\ UNCHANGED <<idx, candidates, index, strata, runs, report>>

\* score-probes.py
Score ==
    /\ index # None /\ log # <<>> /\ Len(runs) < MaxRuns
    /\ runs' = Append(runs, ScoredRun(index.probes))
    /\ UNCHANGED <<idx, candidates, index, strata, log, report, accepted>>

\* score-confirmations.py
ScoreStrata ==
    /\ strata # None /\ log # <<>>
    /\ report' = {[pick |-> p, verdict |-> StratumVerdict(p)] : p \in strata}
    /\ UNCHANGED <<idx, candidates, index, strata, log, runs, accepted>>

LoopNext == Sweep \/ SweepAndProbe \/ Plan \/ Cross \/ RunLean \/ Score \/ ScoreStrata

LoopSpec == LoopInit /\ [][LoopNext]_loopVars

-----------------------------------------------------------------------------
(* Correctness *)

\* The pass that streams a slice and judges a row as it goes by proposes what
\* the one with all rows in memory proposes (generalization-full.py --verify).
StreamingAgrees == candidates # None => candidates = InMemoryCandidates(idx)

\* Reading less evidence never loses a weakening: the home that statement and
\* proof together admit is among the candidates the statement alone admits,
\* and no class of the slice is proposed that is not strictly weaker.
SearchesAgree ==
    candidates # None =>
      \A t \in candidates :
        LET found == StatementCandidates(idx, t.decl)
        IN /\ t.target \in idx.above[t.declared]
           /\ \A v \in found.verdicts :
                v.class = t.declared /\ v.verdict # "unused" => t.target \in v.candidates

\* The carrier-aware search judges a binder by what is attached to its own
\* carrier: requirements of other carriers change nothing.
CarriersApart ==
    candidates = None /\ index = None /\ strata = None =>
      \A n \in Theorems(idx) :
        LET row == idx.rows[n]
            only(k) == [idx EXCEPT !.rows[n].requirements = {q \in row.requirements : q.carrier = k}]
            verdicts(i, k) == {v \in CarrierStatementCandidates(i, n).verdicts : v.carrier = k}
        IN \A k \in Carriers(ParameterAwareInstanceBinders(idx, n)) :
             verdicts(idx, k) = verdicts(only(k), k)

\* Whatever the scripts score, in whatever order they are run, a weakening is
\* reported as confirmed only if the kernel accepted it for this declaration,
\* this declared class and this target.
ConfirmedEarned ==
    /\ \A i \in DOMAIN runs : runs[i].confirmed \subseteq accepted
    /\ report # None =>
         \A r \in report : r.verdict = "confirmed" =>
           \E t \in accepted :
             /\ t.decl = r.pick.decl
             /\ IF r.pick.stratum = "S_ONLY" THEN t.target = r.pick.forced
                ELSE \E v \in Homes(t.decl) : t.declared = v.class /\ t.target = v.home

\* "Every askable family gets up to --per-family probes before any family
\* gets more" (probe-plan.py:9): a family is at most one probe ahead of one
\* that could still use the budget, families nothing is known about come
\* first, what is measured gets one probe, and no probe is left unspent.
BreadthFirst ==
    index # None /\ index.plan = "families" =>
      LET planned(f) == Cardinality({t \in index.probes : Family(t) = f})
          known(f) == Cardinality({t \in index.known : Family(t) = f})
          quota(f) == Min({Cardinality({t \in index.rows : Family(t) = f}),
                           IF known(f) >= Saturated THEN 1 ELSE PerFamily})
          families == {Family(t) : t \in index.rows}
      IN /\ \A f \in families : planned(f) <= quota(f)
         /\ \A f, g \in families :
              /\ planned(f) > planned(g) + 1 => planned(g) = quota(g)
              /\ planned(f) > 0 /\ planned(g) = 0 => known(f) <= known(g)
         /\ Cardinality(index.probes) < Budget => \A f \in families : planned(f) = quota(f)

\* "An interrupted run still leaves whole families measured"
\* (probe-plan.py:160): a census leaves at most one family in part.
CensusIsWhole ==
    index # None /\ index.plan = "census" =>
      Cardinality({f \in {Family(t) : t \in index.rows} :
        LET left == {t \in index.rows \ index.probes : Family(t) = f}
        IN left # {} /\ left # {t \in index.rows : Family(t) = f}}) <= 1

\* What is proposed does not depend on how it is searched for: all rows in
\* memory or streamed, statement and proof or statement alone, one carrier
\* or several.
LanesAgree == StreamingAgrees /\ SearchesAgree /\ CarriersApart

\* A plan and a census are fair to families: breadth first, whole families.
PlansFair == BreadthFirst /\ CensusIsWhole

\* What the loop asks is fair, and what it confirms was proved.
ProbesEarned == ConfirmedEarned /\ PlansFair
=============================================================================
