----------------------------- MODULE ProposalStudy -----------------------------
(***************************************************************************)
(* The proposal study on a frozen closure.  kuna-produces-class-audit.py   *)
(* counts what the carrier-aware search proposes for class-producing       *)
(* declarations; kuna-proposal-sample.py freezes a sample of it, balanced  *)
(* over families; kuna-proposal-probes.py writes shards for Lean;          *)
(* kuna-proposal-score.py reads the logs; kuna-proposal-result.py persists *)
(* the measurement.                                                        *)
(*                                                                         *)
(* Every program is started by hand, with its own arguments, and reads the *)
(* files that happen to be there.  A file's hash stands for its content,   *)
(* and hashes have the order that Rank gives their seeds.                  *)
(***************************************************************************)
EXTENDS HomeIndex

CONSTANTS
    Closures,        \* slices the closure file may hold
    Expected,        \* the counts of MC1
    Seeds, Rank(_, _),
    PerCells,        \* values of --families-per-cell
    FrozenSample,    \* the size every later program insists on
    ShardSizes,      \* values of --shard-size
    Lean(_, _, _),   \* what becomes of a declaration whose binder gets a class
    ProposalRuns,    \* how many programs are run, a bound
    Unwritten        \* a file that is not there

ASSUME StudyAssumption == ProposalRuns \in Nat /\ PerCells \cup ShardSizes \subseteq Nat \ {0}

\* A closure is a file of rows, each under its name.
ASSUME ClosuresAreRead ==
    \A slice \in Closures :
      /\ IsFiniteSet(DOMAIN slice) /\ DOMAIN slice \subseteq Nat
      /\ slice \in [DOMAIN slice ->
           [name : Nat, kind : STRING, owner : Nat, namespace : Nat, telescoped : BOOLEAN,
            binders : Seq([info : STRING, head : Nat, args : Seq(Int)]), concl : Nat,
            usesStatement : SUBSET Nat, usesProof : SUBSET Nat,
            isInstance : STRING, attached : BOOLEAN,
            requirements : SUBSET [source : Nat, class : Nat, carrier : Int]]]

VARIABLES index, audit, manifest, probes, logs, scored, result, ran

proposalVars == <<index, audit, manifest, probes, logs, scored, result, ran>>

ProposalInit ==
    /\ index \in {HomeIndexOf(s) : s \in Closures}
    /\ audit = Unwritten /\ manifest = Unwritten /\ probes = Unwritten
    /\ logs = <<>> /\ scored = Unwritten /\ result = Unwritten
    /\ ran = 0

-----------------------------------------------------------------------------
(* Proposals *)

Before(binders, i, Is(_)) == Cardinality({j \in 1 .. i - 1 : Is(binders[j])})
Implicit(b) == b.info = "t"

\* What the search found for the binder at this place of the telescope.
CandidatesAt(idx, n, i) ==
    LET b == idx.binders[n][i]
        carrier == CarrierAt(i - 1, StructuralArgs(idx.binders, b))
        search == CarrierStatementCandidates(idx, n)
    IN UNION {v.candidates : v \in {w \in search.verdicts :
                                      w.class = b.head /\ w.carrier = carrier}}

\* A binder has its index among those with a class, which the detector
\* numbers, and among all instance binders, which Lean numbers.
ProposalsOf(idx, n) ==
    LET binders == idx.binders[n]
    IN UNION {{[decl |-> n, projection |-> ProjectionLike(idx, n),
                index |-> Before(binders, i, IsInstance),
                raw |-> Before(binders, i, Implicit),
                source |-> binders[i].head, target |-> c] :
                   c \in CandidatesAt(idx, n, i)} :
              i \in {j \in DOMAIN binders : IsInstance(binders[j])}}

Proposals(idx) == UNION {ProposalsOf(idx, n) : n \in idx.produces}

CountsOf(proposals) ==
    [declarations |-> Cardinality({p.decl : p \in proposals}),
     proposals |-> Cardinality(proposals)]

\* What a proposal is about.  A probe names its binder by its place among the
\* instance binders.
KeyByIndex(p) == <<p.decl, p.index, p.source, p.target>>
Key(p) == <<p.decl, p.raw, p.source, p.target>>

\* Outcomes of the search over the population, and registered instances
\* that it judged all the same.
Audited(idx) ==
    LET outcome(n) == CarrierStatementCandidates(idx, n).skipped
        proposals == Proposals(idx)
    IN [outcomes |-> [o \in {outcome(n) : n \in idx.produces} |->
                        Cardinality({n \in idx.produces : outcome(n) = o})],
        leaks |-> {n \in idx.produces : outcome(n) = "no" /\ idx.rows[n].isInstance = "yes"},
        counts |-> CountsOf(proposals),
        families |-> {<<p.source, p.target>> : p \in proposals}]

-----------------------------------------------------------------------------
(* The sample *)

Bins == {"singleton", "small-2-4", "recurrent-5-plus"}

FrequencyBin(events) ==
    IF events = 1 THEN "singleton" ELSE IF events <= 4 THEN "small-2-4" ELSE "recurrent-5-plus"

\* Their lexical order, in which shards are filled.
BinOrder(bin) == IF bin = "recurrent-5-plus" THEN 1 ELSE IF bin = "singleton" THEN 2 ELSE 3
Flag(b) == IF b THEN 1 ELSE 0

FamilyOf(p) == <<Flag(p.projection), p.source, p.target>>

\* What the worker prints of a proposal, and hashes with their order.
ASSUME StudyIsTyped ==
    \A slice \in Closures : LET idx == HomeIndexOf(slice) IN
      \A p \in Proposals(idx) :
        /\ \A i \in DOMAIN idx.binders[p.decl] :
             Lean(p.decl, i, p.target) \in {"proved", "not_proved", "no_statement"}
        /\ \A seed \in Seeds : {Rank(seed, FamilyOf(p)), Rank(seed, KeyByIndex(p))} \subseteq Int

Cells == BOOLEAN \X Bins

\* The families of a cell, with their proposals.
FamiliesIn(byFamily, cell) ==
    {f \in DOMAIN byFamily : /\ Flag(cell[1]) = f[1]
                             /\ FrequencyBin(Cardinality(byFamily[f])) = cell[2]}

ProbeOrder(p) == <<Flag(p.projection), BinOrder(p.bin), p.source, p.target, p.decl, p.index>>

\* The first families of a cell by their hashes, and the first proposal of a
\* family by its hash.
Drawn(byFamily, cell, seed, perCell) ==
    FirstBy(FamiliesIn(byFamily, cell), LAMBDA f : <<Rank(seed, f)>> \o f, perCell)

First(proposals, seed) ==
    CHOOSE p \in FirstBy(proposals, LAMBDA q : <<Rank(seed, KeyByIndex(q)), q.decl, q.index>>, 1) :
        TRUE

Binned(p, bin) ==
    [decl |-> p.decl, projection |-> p.projection, index |-> p.index, raw |-> p.raw,
     source |-> p.source, target |-> p.target, bin |-> bin]

\* One proposal of each family that is drawn.
Selected(byFamily, seed, perCell) ==
    UNION {{Binned(First(byFamily[f], seed), cell[2]) : f \in Drawn(byFamily, cell, seed, perCell)} :
           cell \in Cells}

Sampled(byFamily, seed, perCell) == SortedBy(Selected(byFamily, seed, perCell), ProbeOrder)

ByFamily(proposals) ==
    [f \in {FamilyOf(p) : p \in proposals} |-> {p \in proposals : FamilyOf(p) = f}]

\* What makes the selector stop without a manifest: the closure is not that
\* of MC1, or a cell has too few families.
Drifted(proposals, byFamily, perCell) ==
    \/ CountsOf(proposals) # Expected
    \/ \E cell \in Cells : Cardinality(FamiliesIn(byFamily, cell)) < perCell

Run == ran < ProposalRuns /\ ran' = ran + 1

AuditClosure ==
    /\ Run
    /\ \E a \in {Audited(index)} : audit' = a
    /\ UNCHANGED <<index, manifest, probes, logs, scored, result>>

Sample(seed, perCell) ==
    /\ Run
    /\ \E proposals \in {Proposals(index)} : \E byFamily \in {ByFamily(proposals)} :
         IF Drifted(proposals, byFamily, perCell) THEN UNCHANGED manifest
         ELSE \E s \in {Sampled(byFamily, seed, perCell)} :
                manifest' = [seed |-> seed, counts |-> CountsOf(proposals), proposals |-> s]
    /\ UNCHANGED <<index, audit, probes, logs, scored, result>>

-----------------------------------------------------------------------------
(* Probing *)

Shards(s, size) ==
    [k \in 1 .. (Len(s) + size - 1) \div size |->
       SubSeq(s, (k - 1) * size + 1, Min({k * size, Len(s)}))]

Generate(size) ==
    /\ Run
    /\ manifest # Unwritten
    /\ probes' = IF Len(manifest.proposals) # FrozenSample THEN probes
                 ELSE [manifest |-> manifest, shards |-> Shards(manifest.proposals, size)]
    /\ UNCHANGED <<index, audit, manifest, logs, scored, result>>

\* The binder that is named, which has to be of the class that is named.
Named(key) ==
    LET binders == index.binders[key[1]]
    IN {i \in DOMAIN binders : /\ Implicit(binders[i]) /\ binders[i].head = key[3]
                               /\ Before(binders, i, Implicit) = key[2]}

Tried(key) ==
    IF Named(key) = {} THEN "no_statement"
    ELSE Lean(key[1], CHOOSE i \in Named(key) : TRUE, key[4])

LogOf(shard, answers, exit, controls) ==
    [exit |-> exit, controls |-> controls,
     verdicts |-> {<<Key(p), answers[p]>> : p \in DOMAIN answers}]

\* The worker answers the shard, is interrupted in the middle of it, or is
\* so broken that it accepts everything: the plant no ladder proves as well.
Probe(k) ==
    /\ probes # Unwritten /\ k \in DOMAIN probes.shards
    /\ \E shard \in {probes.shards[k]} :
         \E log \in
             {LogOf(shard, [p \in ToSet(shard) |-> Tried(Key(p))], TRUE, TRUE),
              LogOf(shard, [p \in {shard[1]} |-> Tried(Key(p))], FALSE, TRUE),
              LogOf(shard, [p \in ToSet(shard) |-> "proved"], TRUE, FALSE)} :
           logs' = [j \in DOMAIN logs \cup {k} |-> IF j = k THEN log ELSE logs[j]]
    /\ Run /\ UNCHANGED <<index, audit, manifest, probes, scored, result>>

-----------------------------------------------------------------------------
(* Scoring *)

\* The logs that count: those whose controls came out as they have to.
Trusted == {k \in DOMAIN probes.shards : k \in DOMAIN logs /\ logs[k].controls}
Finished == {k \in DOMAIN probes.shards : k \in DOMAIN logs /\ logs[k].exit}

Answered(p, verdict) ==
    [decl |-> p.decl, projection |-> p.projection, index |-> p.index, raw |-> p.raw,
     source |-> p.source, target |-> p.target, bin |-> p.bin, verdict |-> verdict]

RowsOf(k) ==
    UNION {{Answered(p, v[2]) : v \in {w \in logs[k].verdicts : w[1] = Key(p)}} :
           p \in ToSet(probes.shards[k])}

Statable(rows) == {r \in rows : r.verdict # "no_statement"}
Rate(rows, tenths) == 10 * Cardinality(Statable(rows)) >= tenths * Cardinality(rows)
Having(rows, projection) == {r \in rows : r.projection = projection}

\* The faulty variant scores without the controls.
ScoredUngated ==
    LET rows == UNION {RowsOf(k) : k \in DOMAIN logs \cap DOMAIN probes.shards}
    IN [rows |-> rows, valid |-> Cardinality(rows) = Len(probes.manifest.proposals),
        statementGood |-> Rate(rows, 9), proofGood |-> TRUE]

\* Every shard has to be finished and controlled, and every proposal to
\* have its verdict; a score is written in any case.
Scored ==
    LET rows == UNION {RowsOf(k) : k \in Trusted}
        valid == /\ Trusted = DOMAIN probes.shards /\ Finished = DOMAIN probes.shards
                 /\ Cardinality(rows) = Len(probes.manifest.proposals)
    IN [rows |-> rows, valid |-> valid,
        statementGood |-> valid /\ Rate(rows, 9) /\ \A b \in BOOLEAN : Rate(Having(rows, b), 8),
        proofGood |-> valid /\ \A b \in BOOLEAN : \E r \in Having(rows, b) : r.verdict = "proved"]

Score ==
    /\ Run
    /\ probes # Unwritten
    /\ \E s \in {Scored} : scored' = s
    /\ UNCHANGED <<index, audit, manifest, probes, logs, result>>

\* Refuses an index of other manifest bytes, an invalid score and a log that
\* does not end cleanly.
Persist ==
    /\ Run
    /\ Unwritten \notin {manifest, probes, scored}
    /\ \A k \in DOMAIN probes.shards : k \in DOMAIN logs
    /\ result' = IF \/ probes.manifest # manifest \/ ~scored.valid
                    \/ Cardinality(scored.rows) # FrozenSample
                    \/ Finished # DOMAIN probes.shards
                 THEN result
                 ELSE [manifest |-> manifest, rows |-> scored.rows,
                       statementGood |-> scored.statementGood, proofGood |-> scored.proofGood]
    /\ UNCHANGED <<index, audit, manifest, probes, logs, scored>>

ProposalNext ==
    \/ AuditClosure \/ Score \/ Persist
    \/ \E s \in Seeds, n \in PerCells : Sample(s, n)
    \/ \E n \in ShardSizes : Generate(n)
    \/ \E k \in 1 .. FrozenSample : Probe(k)

ProposalSpec == ProposalInit /\ [][ProposalNext]_proposalVars

-----------------------------------------------------------------------------
(* What the study promises *)

\* The sample is balanced and of the audited population: of each status and
\* frequency as many families, one proposal of each, under the frequency
\* its family has in the status, for a class above the one declared and on
\* what the declaration requires of that carrier.
SampleBalanced ==
    manifest # Unwritten =>
      LET sample == ToSet(manifest.proposals)
          all == Proposals(index)
          alike(p) == {q \in all : /\ <<q.source, q.target>> = <<p.source, p.target>>
                                   /\ q.projection = p.projection}
      IN /\ audit # Unwritten => audit.counts = manifest.counts /\ audit.leaks = {}
         /\ \A p, q \in sample :
               /\ Cardinality({r \in sample : r.projection = p.projection /\ r.bin = p.bin})
                   = Cardinality({r \in sample : r.projection = q.projection /\ r.bin = q.bin})
               /\ <<p.source, p.target, p.projection>> = <<q.source, q.target, q.projection>>
                  => p = q
         /\ {<<p.projection, p.bin>> : p \in sample} = Cells
         /\ \A p \in sample :
               /\ p.bin = "singleton" <=> Cardinality(alike(p)) = 1
               /\ p.bin = "recurrent-5-plus" <=> Cardinality(alike(p)) > 4
               /\ p.target \in index.above[p.source]
               /\ index.rows[p.decl].isInstance = "no"

\* What is published is measured: of a whole frozen sample, each verdict
\* what Lean says of that very binder, the gates as they were registered;
\* whatever was run again in between, interrupted or broken.
MeasurementEarned ==
    result # Unwritten =>
      LET rows == result.rows
          at(r) == {i \in DOMAIN index.binders[r.decl] :
                      IsInstance(index.binders[r.decl][i])
                      /\ Before(index.binders[r.decl], i, IsInstance) = r.index}
          share(S) == <<Cardinality({r \in S : r.verdict \in {"proved", "not_proved"}}),
                        Cardinality(S)>>
      IN /\ Cardinality(rows) = FrozenSample
         /\ \A r \in rows : \E i \in at(r) : r.verdict = Lean(r.decl, i, r.target)
         /\ \A r, q \in rows : KeyByIndex(r) = KeyByIndex(q) => r = q
         /\ result.statementGood <=>
              /\ 10 * share(rows)[1] >= 9 * share(rows)[2]
              /\ \A b \in BOOLEAN : LET s == share({r \in rows : r.projection = b})
                                    IN 10 * s[1] >= 8 * s[2]
         /\ result.proofGood <=>
              \A b \in BOOLEAN : \E r \in rows : r.projection = b /\ r.verdict = "proved"

\* Whatever is run, in whatever order and however often, what is frozen and
\* what is published is sound (kuna-proposal-*.py).
ProposalMeasured == SampleBalanced /\ MeasurementEarned
=============================================================================
