----------------------------- MODULE DiscoveryRound ----------------------------
(***************************************************************************)
(* scripts/discovery-round.py: invocations that take a round through some  *)
(* of plan, run, score and screen, and the scripts they run as functions   *)
(* of the files these read: attempt-plan.py, score-attempts.py,            *)
(* recovery-triples.py and novelty-rescreen.py.                            *)
(*                                                                         *)
(* A triple has a declaration, a declared class and a target, a log the    *)
(* verdicts of a shard in order, what its planted controls answered, and   *)
(* the exit status, "none" while the worker writes it.                     *)
(*                                                                         *)
(* Rounds have directories of their own but write the shards of all plans  *)
(* to one scratch directory, by prefix and number.  An invocation is one   *)
(* process; its workers are processes too, which outlive it when it is     *)
(* killed and die with it when it is interrupted.                          *)
(***************************************************************************)
EXTENDS HomeIndex

CONSTANTS Rounds,
          Prefix,          \* of the shards of a round
          Refuted,         \* triples of the scored probe runs
          Corpus,          \* of the closure, see novelty-rescreen.py
          Covered,         \* its coverage is enough
          RoundBudget, ShardSize, Workers,
          LeanMay,         \* what may come of a shard: [verdict, plants, exit]
          MaxInvocations,  \* bounds the invocations
          Nothing

Verdicts == {"proved", "not_proved", "no_statement"}

\* Names are numbers, and what is answered is what atlas_batch prints.
ASSUME RoundAssumption ==
    /\ Workers \in Nat \ {0} /\ ShardSize \in Nat \ {0} /\ RoundBudget \in Nat
    /\ MaxInvocations \in Nat
    /\ IsFiniteSet(Refuted)
    /\ \A t \in Refuted :
         /\ t = Triple(t.decl, t.declared, t.target)
         /\ {t.decl, t.declared, t.target} \subseteq Int
    /\ LeanMay \subseteq [verdict : Verdicts \cup {"unrecognised", "missing"},
                          plants : {"right", "wrong"}, exit : {"zero", "nonzero"}]

\* A parent projection whose only instance is its own structure and that takes
\* nothing else forgets, as recovery-triples.py supposes.
ASSUME CorpusAssumption ==
    /\ IsFiniteSet(Corpus.projections)
    /\ \A p \in Corpus.projections :
         /\ p.concl \in Int
         /\ p.concl \notin {0, p.owner} /\ ~p.explicit /\ p.instances = <<p.owner>> => p.forgets

-----------------------------------------------------------------------------
(* attempt-plan.py *)

\* Triples that were answered before.
Asked(scored) == UNION {scored[v] : v \in Verdicts}

\* Whole families, the largest first.  No budget is a census.
AttemptOrder(population) ==
    LET size(f) == Cardinality({t \in population : Family(t) = f})
    IN SortedBy(population, LAMBDA t : <<0 - size(Family(t)), t.declared, t.target, t.decl>>)

Chosen(population, budget) ==
    LET order == AttemptOrder(population)
    IN IF budget = 0 THEN order ELSE SubSeq(order, 1, Min({budget, Len(order)}))

\* Shard k of so many, as a set of probes.
Shards(chosen, size) ==
    [k \in 1..((Len(chosen) + size - 1) \div size) |->
       ToSet(SubSeq(chosen, (k - 1) * size + 1, Min({k * size, Len(chosen)})))]

-----------------------------------------------------------------------------
(* score-attempts.py *)

\* Faulty variant: a log without an exit status is judged.
FinishedAnyway(log) == TRUE

\* Every planted control answered as required.
PlantsHold(log) == log.plants = "right"

Finished(log) == log.exit # "none"

\* Faulty variant: any line of the declaration.
AttemptVerdictOfDecl(log, probe) ==
    LET lines == {i \in DOMAIN log.lines : log.lines[i].probe.decl = probe.decl}
    IN IF lines = {} THEN "missing" ELSE log.lines[Max(lines)].verdict

\* The last line for a probe.
AttemptVerdict(log, probe) ==
    LET lines == {i \in DOMAIN log.lines : log.lines[i].probe = probe}
    IN IF lines = {} THEN "missing" ELSE log.lines[Max(lines)].verdict

\* Shards by what their logs are good for.
Pending(shards, logs) == {k \in DOMAIN shards : k \notin DOMAIN logs \/ ~Finished(logs[k])}
Invalid(shards, logs) == {k \in DOMAIN shards \ Pending(shards, logs) : ~PlantsHold(logs[k])}

Rows(shards, logs, v) ==
    UNION {{p \in shards[k] : AttemptVerdict(logs[k], p) = v} :
           k \in DOMAIN shards \ (Pending(shards, logs) \cup Invalid(shards, logs))}

Missing(shards, logs) ==
    Rows(shards, logs, "missing") \cup UNION {shards[k] : k \in Pending(shards, logs)}

ScoredAttempts(shards, logs) ==
    LET judged == DOMAIN shards \ (Pending(shards, logs) \cup Invalid(shards, logs))
        rows(v) == Rows(shards, logs, v)
    IN [proved       |-> rows("proved"),
        not_proved   |-> rows("not_proved"),
        no_statement |-> rows("no_statement"),
        unrecognised |-> rows("unrecognised"),
        missing      |-> Missing(shards, logs),
        invalid      |-> Invalid(shards, logs),
        incomplete   |-> {k \in judged : logs[k].exit # "zero"}]

\* The exit status of the script.
RedGate(scored) == scored.invalid # {}

-----------------------------------------------------------------------------
(* The lattice, read off declarations named X.toY: novelty-rescreen.py takes
   all of them, recovery-triples.py those that forget and ask nothing. *)

LooseLattice(projections) ==
    {<<p.owner, p.concl>> : p \in {q \in projections : q.concl \notin {0, q.owner}}}

StrictLattice(projections) ==
    {<<p.owner, p.concl>> : p \in {q \in projections :
        q.concl \notin {0, q.owner} /\ ~q.explicit /\ q.instances = <<q.owner>>}}

\* Strictly weaker than declared and strictly stronger than the target.
Between(edges, t) ==
    {c \in Ancestors(edges, t.declared) \ {t.target} : t.target \in Ancestors(edges, c)}

\* In the order the code sorts them: by the number of ancestors, most first.
BetweenOrder(edges, t) ==
    SortedBy(Between(edges, t), LAMBDA c : <<0 - Cardinality(Ancestors(edges, c)), c>>)

\* The first two and the last two.
Bracket(edges, t) ==
    LET order == BetweenOrder(edges, t)
    IN {order[i] : i \in {j \in DOMAIN order : j <= 2 \/ j > Len(order) - 2}}

\* What is asked again of the refusals, one level of generality at a time.
RecoveryTriples(projections, refusals) ==
    LET edges == StrictLattice(projections)
    IN UNION {{[t EXCEPT !.target = c] : c \in Bracket(edges, t)} : t \in refusals}

-----------------------------------------------------------------------------
(* novelty-rescreen.py.  A corpus has its projections, for a declaration the
   statements equivalent to it, for a statement the classes it requires, the
   declarations the engine fails on, and whether its coverage is enough. *)

\* The statement is taken for the general form that was proposed.
PriorArt(corpus, t, other) ==
    LET need == corpus.requires[other]
    IN /\ t.declared \notin need
       /\ need = {} \/ \E r \in need :
            r = t.target \/ t.target \in Ancestors(LooseLattice(corpus.projections), r)

Screened(corpus, proved) ==
    LET screenable == {t \in proved : t.decl \in DOMAIN corpus.equivalent /\ t.decl \notin corpus.fails}
        found == {t \in screenable : \E o \in corpus.equivalent[t.decl] : PriorArt(corpus, t, o)}
    IN [novel |-> screenable \ found, rediscovery |-> found, unscreenable |-> proved \ screenable]

-----------------------------------------------------------------------------
(* The rounds *)

VARIABLES scratch,   \* probes by prefix and number
          planned,     \* by round: the shards of its plan
          logs,      \* by round and number
          scored, triples, novelty, manifest,  \* by round, files
          job,       \* by round, the invocation that is running
          workers,   \* processes of atlas_batch
          started,   \* invocations so far
          spoken     \* ghost: verdicts of runs whose plants were right

files == <<scratch, planned, logs, scored, triples, novelty, manifest>>
roundVars == <<files, job, workers, started, spoken>>

STAGES == <<"plan", "run", "score", "screen">>
StageNumber(s) == CHOOSE i \in DOMAIN STAGES : STAGES[i] = s

RoundInit ==
    /\ scratch = <<>>
    /\ planned = [r \in Rounds |-> Nothing]
    /\ logs = [r \in Rounds |-> <<>>]
    /\ scored = [r \in Rounds |-> Nothing]
    /\ triples = [r \in Rounds |-> Nothing]
    /\ novelty = [r \in Rounds |-> Nothing]
    /\ manifest = [r \in Rounds |-> "no"]
    /\ job = [r \in Rounds |-> Nothing]
    /\ workers = {} /\ started = 0 /\ spoken = {}

-----------------------------------------------------------------------------
(* One invocation *)

\* The manifest is written however an invocation ends.
Leave(r, failed) ==
    /\ job' = [job EXCEPT ![r] = Nothing]
    /\ manifest' = [manifest EXCEPT ![r] = IF failed = "no" THEN job[r].failed ELSE failed]

\* A child exits nonzero: the round stops.
Stop(r, stage) == Leave(r, stage)

\* An exception of the script itself, which is not written to the manifest.
Raise(r) == Leave(r, "no")

Advance(r) ==
    IF job[r].at = job[r].until THEN Leave(r, "no")
    ELSE /\ job' = [job EXCEPT ![r].at = STAGES[StageNumber(@) + 1]]
         /\ UNCHANGED manifest

At(r, stage) == job[r] # Nothing /\ job[r].at = stage

Start(r) ==
    /\ job[r] = Nothing /\ started < MaxInvocations
    /\ \E from, until \in ToSet(STAGES) :
         /\ StageNumber(from) <= StageNumber(until)
         /\ job' = [job EXCEPT ![r] = [at |-> from, from |-> from, until |-> until,
                                       joining |-> FALSE, failed |-> manifest[r]]]
    /\ started' = started + 1
    /\ UNCHANGED <<files, workers, spoken>>

-----------------------------------------------------------------------------
(* plan *)

\* --scored, --from-attempts and --triples with recovery-triples.py
Populations ==
    {Refuted}
      \cup {scored[q].not_proved : q \in {p \in Rounds : scored[p] # Nothing}}
      \cup {RecoveryTriples(Corpus.projections, scored[q].no_statement) :
              q \in {p \in Rounds : scored[p] # Nothing}}

\* Files that are written over those that are there.
Over(written, there) ==
    [f \in DOMAIN written \cup DOMAIN there |->
       IF f \in DOMAIN written THEN written[f] ELSE there[f]]

\* Shards are written before the index; the child may fail between the two,
\* or before it writes anything.
PlanStage(r) ==
    /\ At(r, "plan")
    /\ \E population \in Populations, excluded \in SUBSET {q \in Rounds : scored[q] # Nothing} :
         LET asked == UNION {Asked(scored[q]) : q \in excluded}
             shards == Shards(Chosen(population \ asked, RoundBudget), ShardSize)
             written == [f \in {<<Prefix[r], k>> : k \in DOMAIN shards} |-> shards[f[2]]]
         IN \/ /\ scratch' = Over(written, scratch)
               /\ planned' = [planned EXCEPT ![r] = shards]
               /\ Advance(r)
            \/ /\ scratch' \in {scratch, Over(written, scratch)}
               /\ Stop(r, "plan")
               /\ UNCHANGED planned
    /\ UNCHANGED <<logs, scored, triples, novelty, workers, started, spoken>>

-----------------------------------------------------------------------------
(* run *)

\* The shards of a worker: one of so many as there are workers.
QueueOf(n, w) == [i \in 1..((n - w + Workers) \div Workers) |-> w + (i - 1) * Workers]

Own(r) == {w \in workers : w.round = r /\ ~w.orphan}

\* The build fails, or the index cannot be read, or workers start.
RunStage(r) ==
    /\ At(r, "run") /\ ~job[r].joining
    /\ \/ Stop(r, "run") /\ UNCHANGED workers
       \/ /\ planned[r] = Nothing
          /\ Raise(r) /\ UNCHANGED workers
       \/ /\ planned[r] # Nothing
          /\ workers' = workers \cup
               {[round |-> r, orphan |-> FALSE, id |-> w, reading |-> Nothing, failed |-> FALSE,
                 queue |-> QueueOf(Len(planned[r]), w)] :
                  w \in {v \in 1..Workers : QueueOf(Len(planned[r]), v) # <<>>}}
          /\ job' = [job EXCEPT ![r].joining = TRUE]
          /\ UNCHANGED manifest
    /\ UNCHANGED <<scratch, planned, logs, scored, triples, novelty, started, spoken>>

Replace(w, v) == workers' = (workers \ {w}) \cup {v}

WriteLog(r, k, log) == logs' = [logs EXCEPT ![r] = Over([f \in {k} |-> log], logs[r])]

\* A worker reads the next shard as it is now and truncates its log.
OpenShard(w) ==
    /\ w.queue # <<>> /\ w.reading = Nothing
    /\ LET k == Head(w.queue)
       IN /\ Replace(w, [w EXCEPT !.reading = scratch[<<Prefix[w.round], k>>]])
          /\ WriteLog(w.round, k, [lines |-> <<>>, plants |-> "absent", exit |-> "none"])
    /\ UNCHANGED <<scratch, planned, scored, triples, novelty, manifest, job, started, spoken>>

LogOrder(probes) == SortedBy(probes, LAMBDA p : <<p.decl, p.declared, p.target>>)

\* All that Lean says of a shard, and its exit status.
CloseShard(w) ==
    /\ w.reading # Nothing
    /\ \E outcome \in [w.reading -> LeanMay] :
         /\ \A p, q \in w.reading :
              outcome[p].plants = outcome[q].plants /\ outcome[p].exit = outcome[q].exit
         /\ LET order == LogOrder({p \in w.reading : outcome[p].verdict # "missing"})
                some == outcome[CHOOSE p \in w.reading : TRUE]
                log == [lines |-> [i \in DOMAIN order |->
                                     [probe |-> order[i], verdict |-> outcome[order[i]].verdict]],
                        plants |-> some.plants, exit |-> some.exit]
            IN /\ WriteLog(w.round, Head(w.queue), log)
               /\ spoken' = IF log.plants = "right" THEN spoken \cup ToSet(log.lines) ELSE spoken
    /\ Replace(w, [w EXCEPT !.reading = Nothing, !.queue = Tail(@)])
    /\ UNCHANGED <<scratch, planned, scored, triples, novelty, manifest, job, started>>

\* A worker exits nonzero, perhaps in the middle of a shard; one that nobody
\* waits for is gone when it ends.
WorkerFails(w) ==
    /\ w.queue # <<>>
    /\ IF w.orphan THEN workers' = workers \ {w}
       ELSE Replace(w, [w EXCEPT !.queue = <<>>, !.reading = Nothing, !.failed = TRUE])
    /\ UNCHANGED <<files, job, started, spoken>>

OrphanEnds(w) ==
    /\ w.orphan /\ w.queue = <<>>
    /\ workers' = workers \ {w}
    /\ UNCHANGED <<files, job, started, spoken>>

\* All workers are waited for, whether one failed or not.
Join(r) ==
    /\ At(r, "run") /\ job[r].joining
    /\ \A w \in Own(r) : w.queue = <<>>
    /\ IF \E w \in Own(r) : w.failed THEN Stop(r, "run")
       ELSE IF job[r].until = "run" THEN Leave(r, "no")
       ELSE /\ job' = [job EXCEPT ![r].at = "score", ![r].joining = FALSE]
            /\ UNCHANGED manifest
    /\ workers' = workers \ Own(r)
    /\ UNCHANGED <<scratch, planned, logs, scored, triples, novelty, started, spoken>>

-----------------------------------------------------------------------------
(* score and screen *)

\* A lying shard makes the scorer red, after it has written the rest.
ScoreStage(r) ==
    /\ At(r, "score")
    /\ IF planned[r] = Nothing
       THEN Stop(r, "score") /\ UNCHANGED scored
       ELSE LET result == ScoredAttempts(planned[r], logs[r])
            IN /\ scored' = [scored EXCEPT ![r] = result]
               /\ IF RedGate(result) THEN Stop(r, "score") ELSE Advance(r)
    /\ UNCHANGED <<scratch, planned, logs, triples, novelty, workers, started, spoken>>

\* With nothing proved, an older screen stays where it is.
ScreenStage(r) ==
    /\ At(r, "screen")
    /\ IF scored[r] = Nothing
       THEN Raise(r) /\ UNCHANGED <<triples, novelty>>
       ELSE /\ triples' = [triples EXCEPT ![r] = scored[r].proved]
            /\ IF scored[r].proved = {} THEN Advance(r) /\ UNCHANGED novelty
               ELSE IF ~Covered THEN Stop(r, "screen") /\ UNCHANGED novelty
               ELSE /\ novelty' = [novelty EXCEPT ![r] = Screened(Corpus, scored[r].proved)]
                    /\ Advance(r)
    /\ UNCHANGED <<scratch, planned, logs, scored, workers, started, spoken>>

-----------------------------------------------------------------------------
(* The operator and the machine *)

\* An interrupt reaches the workers and still writes the manifest.
Interrupt(r) ==
    /\ job[r] # Nothing
    /\ Leave(r, "no")
    /\ workers' = workers \ Own(r)
    /\ UNCHANGED <<scratch, planned, logs, scored, triples, novelty, started, spoken>>

\* A process that is killed writes nothing, and its workers go on.
Kill(r) ==
    /\ job[r] # Nothing
    /\ job' = [job EXCEPT ![r] = Nothing]
    /\ workers' = (workers \ Own(r)) \cup {[w EXCEPT !.orphan = TRUE] : w \in Own(r)}
    /\ UNCHANGED <<files, started, spoken>>

RoundNext ==
    \/ \E r \in Rounds :
         \/ Start(r) \/ PlanStage(r) \/ RunStage(r) \/ Join(r)
         \/ ScoreStage(r) \/ ScreenStage(r) \/ Interrupt(r) \/ Kill(r)
    \/ \E w \in workers : OpenShard(w) \/ CloseShard(w) \/ WorkerFails(w) \/ OrphanEnds(w)

RoundSpec == RoundInit /\ [][RoundNext]_roundVars

-----------------------------------------------------------------------------
(* Correctness *)

\* A verdict in a scored file was given by Lean for that very triple, in a
\* run whose planted controls answered as they must, whatever plans, rounds
\* and runs have gone over the shards and logs it was read from; and what is
\* screened for novelty was proved.
VerdictsEarned ==
    \A r \in Rounds :
      /\ scored[r] # Nothing =>
           \A v \in Verdicts : \A p \in scored[r][v] : [probe |-> p, verdict |-> v] \in spoken
      /\ novelty[r] # Nothing =>
           \A p \in novelty[r].novel \cup novelty[r].rediscovery :
             [probe |-> p, verdict |-> "proved"] \in spoken

\* "Judging its plants now would report a live run as a lying one"
\* (score-attempts.py:157): a shard is discarded only where a planted control
\* gave the wrong answer, or none in a log that has its exit status; never
\* because a worker is still at it or died.
OnlyLiarsDiscarded ==
    [][\A r \in Rounds : scored'[r] # scored[r] =>
         \A k \in scored'[r].invalid : logs[r][k].plants = "wrong"]_roundVars

\* Scoring accounts for every probe of the plan once: a verdict, a line that
\* is not understood, missing, or in a shard that is discarded.
Accounted ==
    [][\A r \in Rounds : scored'[r] # scored[r] =>
         LET s == scored'[r]
             discarded == UNION {planned[r][k] : k \in s.invalid}
             parts == <<s.proved, s.not_proved, s.no_statement, s.unrecognised, s.missing, discarded>>
         IN /\ UNION ToSet(parts) = UNION ToSet(planned[r])
            /\ \A i, j \in DOMAIN parts : i # j => parts[i] \cap parts[j] = {}]_roundVars

\* "nothing downstream ran on a partial artifact" (discovery-round.py:60): an
\* invocation that did not begin with the screen screens only what the plan as
\* it is was scored as, with no shard discarded; and where it ran the shards
\* itself, with none that was never run.
WholeRoundScreened ==
    [][\A r \in Rounds :
         At(r, "screen") /\ triples'[r] # triples[r] =>
           /\ job[r].from # "screen" =>
                /\ scored[r].invalid = {}
                /\ UNION {scored[r][v] : v \in Verdicts \cup {"unrecognised", "missing"}}
                     = UNION ToSet(planned[r])
           /\ job[r].from \in {"plan", "run"} => DOMAIN planned[r] \subseteq DOMAIN logs[r]]_roundVars

\* A triple that is asked again at another level is a weakening of what was
\* declared and a strengthening of what was refused, along parents that
\* forget: an instance that builds the stronger class is not one.
RecoveredBetween ==
    \A r \in Rounds : scored[r] # Nothing =>
      LET true == {<<p.owner, p.concl>> : p \in {q \in Corpus.projections : q.forgets}}
      IN \A refusal \in scored[r].no_statement :
           \A t \in RecoveryTriples(Corpus.projections, {refusal}) :
             /\ t.target \in Ancestors(true, t.declared)
             /\ refusal.target \in Ancestors(true, t.target)

\* What a round says Lean spoke: verdicts that were given, and asked again only
\* where the answer can be no and then yes.
VerdictsSpoken == VerdictsEarned /\ RecoveredBetween

\* A round loses nothing between its stages: what is discarded was lying,
\* what is scored is all that was planned, what is screened is a whole round.
RoundKept == OnlyLiarsDiscarded /\ Accounted /\ WholeRoundScreened
=============================================================================
