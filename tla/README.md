# Lean Atlas in TLA+

This directory is a verification development of Lean Atlas: TLA+ modules
translated from the source, TLC instances of them, and theorems checked by TLAPS.
It covers the live system (the `atlasd` daemon with the Lean child processes it owns,
the frontends that share it, the transport to one such child), the stores (facts with
their calculus of trust, research records), the two Datalog evaluators, and the Python
programs of `scripts/` whose results depend on the order in which they are run, on
what failed, or on exact algorithms: the generalization loop, the discovery rounds, the
retrospective and proposal studies, the grading, query and classification studies of the
physics corpora, and the referees of certificates.

## 1. The system

Lean Atlas indexes elaborated Lean environments. Its components:

| component | state | operations | talks to |
|---|---|---|---|
| `atlasd` (`crates/atlasd`) | project map behind one mutex; per project: overlays, optional Lean client, generation, state, last error | ping, open/close project, project status, open/change/close document, query, restart Lean; stop | frontends (one request per connection), Lean child (stdio) |
| Lean client (`crates/atlas-lean-client`) | child process and pipes, selected document, RPC session | spawn, didOpen/didChange/didClose, connect, call, keepAlive, shutdown | Lean server |
| frontend client (`crates/atlas-client`, `atlas-cli`, `atlas-mcp`) | the snapshot it read last | one command per connection; starts the daemon if none runs | `atlasd` through daemonkit |
| engine (`crates/atlas-engine`) | none between calls | goal match, why-not, instance path, minimal context, compose | Lean client as oracle |
| fact store (`crates/atlas-store`) | SQLite: facts, arguments | insert, read, scan | - |
| research store (`crates/atlas-store/src/research.rs`) | SQLite: claims, evidence, circuits, proposals, plans, runs | checked inserts, reads | - |
| logic (`crates/atlas-logic`) | database under evaluation | reference and semi-naive Datalog evaluation, warrants, explanation | fact source |
| static engine (`crates/atlas`) | a slice in memory | graph, equivalence, skeleton and intuition queries | - |
| extractor and server plugin (`lean`, `lean-server`) | Lean environment | batch extraction, RPC methods | - |
| generalization loop (`atlas_home*.py`, `generalization-*.py`, `probe-plan.py`, `crossing-*.py`, `make-confirm-file.py`, `score-*.py`) | index, plan, probe file, transcript, scores: files | search, plan, cross, confirm, score | Lean, run by hand on a probe file |
| refuter lane (`discovery-round.py`, `attempt-plan.py`, `score-attempts.py`, `recovery-triples.py`, `novelty-rescreen.py`) | plans, shards, logs, scores: files of a round and a scratch directory | plan, run, score, recover, screen | workers that run Lean |
| retrospective and proposal studies (`kuna-*.py`) | reports, samples, shards, logs, results: files | mine, control, validate, audit, freeze, probe, score, publish | git, Lean |
| physics studies (`phys-*.py`, `phys_*.py`, `dim-*.py`, `paper-dim.py`) | rows, echelon forms, tables | extract, solve, attribute, query, classify, grade | slices, LaTeX sources |
| certificate referees (`verify-*.py`, `strict-ncl1-band-scan.py`, `mtxe-check.py`) | one verdict per item | check | certificates |

What makes it hard:

- every command of the daemon runs under one mutex and holds it across awaits on
  a Lean child that may refuse, answer nonsense, exit or stay silent;
- a project's documents exist twice, in the daemon and in the child, and the
  child is replaced (shut down, spawned, replayed) whenever it fails;
- clients decide on what they read earlier and protect themselves by sending the
  Lean generation they saw;
- a stop cancels the execution that holds the mutex at whatever await it is at;
- the daemon may be lost and a frontend starts the next one;
- both stores validate outside the transaction in which they write;
- the scripts hand each other files. Any of them may be run again, killed, or run on
  files older than what they are read with, and workers outlive the program that
  started them;
- the physics studies are algorithms whose mistakes look like findings: an
  invented row, an attribution to too few declarations, a null that could not be drawn.

For each part, what makes it correct:

- *daemon*: the child a project owns holds exactly the recorded documents; an
  open document is selected; failures end in `ready` or `degraded`; at most one
  child per project; generations identify processes; every request is answered;
  a stop completes;
- *transport*: a request gets its own answer, whatever was cancelled before it, and
  Lean's own requests are acknowledged;
- *fact store*: facts never change, and no chain of inserts raises a warrant
  above its support;
- *research store*: a stored record refers to stored records that fit it, in spite of
  validation outside the transaction;
- *logic*: both evaluators compute the same facts, derivations and warrants;
- *engine*: a result that is not marked truncated is complete within its bounds;
- *loop, rounds and studies*: what is reported was answered by Lean, of a sample that
  was not picked, and nothing is lost between two stages;
- *physics studies*: no rule invents a row, elimination is exact, each relation
  is attributed to the right declarations, each query returns what its definition says;
- *referees*: what passes is true.

## 2. Modules

| module | role |
|---|---|
| `AtlasDaemon` | the daemon, the Lean clients it owns, frontends and environment |
| `LeanSession` | what a frontend may rely on of a project session (abstract) |
| `LeanTransport` | one client and one Lean child over two pipes |
| `Warrants`, `Facts` | warrants and the evidence they rest on; facts with their provenance and what a log may admit |
| `FactLog` | what a fact store promises: an append-only log of admissible facts (abstract) |
| `FactStore` | connections to one SQLite file, statement by statement |
| `ResearchRecords` | research records: what each kind refers to and has to fit |
| `ResearchLog` | what a research store promises (abstract) |
| `ResearchStore` | its checked inserts, statement by statement |
| `Datalog` | the reference evaluator and the semi-naive one on one task |
| `HomeIndex`, `ProbeLoop` | bound minimization over a slice; the loop of planning, probing and scoring |
| `DiscoveryRound` | the scripts of a round as functions of files; invocations, workers and files |
| `ExpertEvents`, `ExpertStudy` | weakenings made by experts, as functions; the retrospective study |
| `ProposalStudy` | the proposal study on a frozen closure |
| `Terms`, `Echelons` | statement terms; sparse rational linear algebra |
| `DimExtractor`, `DimensionalRun` | the rows a statement asserts; solving and attributing them |
| `GradingStudy` | the experiments on a corpus that may carry a grading |
| `CorpusQueries`, `MotifSymmetry` | exact queries over a slice; symmetry motifs, their citations and nulls |
| `LatexEquations`, `PaperSystem` | one equation of a paper; from a LaTeX source to a solved system |
| `Certificates`, `SymplecticTables`, `Referee` | what the referees check, and their invocations |
| `MC*` | definitions for the TLC instances (`MCGeneralization`, `MCKuna` and `MCDimensions` also compose programs that share no file; `MCReferee` holds the certificates for `MCKuna`) |
| `AtlasDaemonProofs`, `LeanTransportProofs`, `FactStoreProofs`, `ResearchStoreProofs`, `DatalogProofs`, `ProbeLoopProofs`, `DiscoveryRoundProofs`, `ProposalStudyProofs` | theorems |

`PROJECT.json` maps each definition to the lines it translates; a helper whose lines lie
within those of another definition of its module is listed with that definition.

Definitions whose name extends the one below them (`DeselectedKept` before
`Deselected`) are faulty variants. They are used by no specification; each shows
that a property notices the fault.

### AtlasDaemon

State and code correspond as follows.

| variable | code |
|---|---|
| `phase` | where `serve` is: accepting, asked to stop, draining, returned |
| `daemon` | `ServiceContext::generation`, one per daemon process |
| `connected`, `queue` | connection tasks: read their request, wait for the mutex (tokio's mutex is FIFO) |
| `job` | the execution that holds the mutex, at one of its awaits |
| `proj` | `ServiceState.projects` |
| `answer` | replies written, not yet read |
| `seen` | the last snapshot each frontend read of each project |
| `spawned`, `unreaped` | process ids, and children killed by drop that nobody waited for |

A command is cut where the code awaits Lean, and only there: `Begin` actions run
from the grant of the mutex to the first await or the reply, `Awaiting(pc)`
actions from there to the next. In between any other client may arrive, any child
may exit and the daemon may be told to stop. Everything an execution does to a
project between two awaits, recovery included, is one action.

Code shared by several commands is an operator with the execution as parameter:
`RestartLean`, `StartLean`, `Recover`, `ReplayFrom`, `StartSucceeded`,
`StartFailed`. A Lean child is part of its `LeanClients` record: the documents it
was told (`docs`), whether it runs (`alive`), the selected document and the
document text its RPC session was opened for. Text and version are one value.

The environment is controlled by `Faults`: Lean refuses an RPC (`refuse`), sends
what cannot be parsed or drops the session (`garble`), exits at any moment
(`exit`), cannot be spawned (`spawn`), outlives its bounded shutdown (`timeout`);
the project directory or store cannot be used (`environment`); the daemon process
is lost (`loss`).

A write to a running child is taken to succeed and a write to one that exited to
fail, since the pipe closes with the process. A dead child's failure is noticed by
the next use only, as in the code. `saturating_add` of generations is plain
addition: 2^64 restarts are out of reach.

### LeanSession

A session per open project: documents on record, generation, whether a process
served the generation, and the process that serves it now with the documents it
holds. A step edits one document, lets the process leave, lets the first process
of a generation come, begins the next generation, or closes the session. The
view always equals the record. `KeepsPromise` states that `AtlasDaemon`
implements it under the mapping `SessionOf`.

### LeanTransport

`crates/atlas-lean-client/src/transport.rs`, one await at a time, where `AtlasDaemon`
takes a call as one exchange.

| variable | code |
|---|---|
| `toLean`, `fromLean` | the child's stdin and stdout, each a queue of headers and bodies of bounded capacity |
| `nextId` | `Transport::next_id` |
| `transport` | who holds a `Transport`: nobody outside a call, a caller, or one that dropped a call |
| `call` | the `request`, `notify`, `spawn` or `shutdown` under way: what it waits for, has still to write, is in the middle of reading |
| `result` | what the last call returned |
| `child`, `lean` | the process, and what Lean has read, asked and answered |

`Write` puts a header or a body into the pipe if it has room, `ReadHeader` and
`ReadBody` take one from the other. `ReadBody` has the order of `request`: a message
with a method is a request, acknowledged before anything else is read, or a
notification; a response counts if its id matches; it is an error, the wrong type, or
the result. A `shutdown` owns its transport: its requests fail, succeed or run
into their timeout, and then the child is waited for or killed, in `Reap`.

`Cancel` drops a call at whichever await it is. A header written without
its body makes Lean read the next frame as the rest of this one (`deaf`), a header
read without its body makes the next read start in JSON (`Misaligned`). A line
or a body half transferred is taken as not transferred: either way the next read or
Lean's next read fails or is swallowed.

As in `atlasd`, nothing is called on a transport after a dropped call but `shutdown`.
In `atlasd` today it is not even that: a dropped execution drops the transport too,
`DropTransport`.

### Warrants, Facts, FactLog, FactStore

`Warrants` and `Facts` are `crates/atlas-schema/src/fact.rs`. Values, rule names and the order of
inputs have no part in a warrant, so a derivation is the set of its inputs and
argument vectors come from a set. A derived fact's inputs are required together
(`Weaker`), its derivations are alternatives (`Strongest`).

`FactStore` is the fact half of `crates/atlas-store/src/lib.rs`. A connection belongs
to one caller, and a step of it is one SQL statement.

| variable | code |
|---|---|
| `facts`, `factArgs` | the tables `facts` and `fact_args` |
| `tx` | the transaction that holds SQLite's write lock, with what it wrote so far |
| `job` | what `insert_fact`, `fact` or `scan` holds between two statements |
| `answer` | what the call returned |

`insert_fact` looks up every input of every derivation, then the id, and only then
begins its transaction; a fact is read in two statements, and a scan in one for the
headers and one per fact for the arguments. In between other connections commit,
any statement may fail, and a caller may be lost. The lookups go in any order,
since a derivation is a set.

`FactLog` appends one admissible fact at a time. `KeepsLog` states that
`FactStore` implements it under the mapping `Stored`, which reads the tables as rows:
a fact validated before its transaction is still admissible when it commits.
`Grounded` says what the calculus is for: a fact's warrant follows by derivations
from facts of at least that warrant which rest on evidence of their own.

### Datalog

`crates/atlas-logic`: a task is a program, a query, the limits and what the fact source
holds. The reference evaluator runs it first and then the semi-naive one, so that their
results can be compared.

| variable | code |
|---|---|
| `db`, `produced`, `delta` | the database before this round, and what this and the last round found; the reference evaluator has one database, `Visible` |
| `next` | the id of the next fact |
| `strata`, `stratum`, `round` | the loops |
| `work`, `literal`, `states` | the rules of this round not yet evaluated, where the body of the first of them is, and its matches so far |
| `passes` | passes over the warrants that are left |
| `outcome` | what each evaluator returned: an error, or facts and answers |

`MatchLiteral` extends the matches by one literal of a body, and `Conclude` takes the
first match: it attaches a derivation to a derived fact, finds a fact with evidence of
its own, or makes a new fact. The order is that of the code, rules as listed and facts by
id, since it decides the ids of new facts. `EndRound` and `EndStratum` are the ends of the
loops, `RecomputeWarrants` is one pass. Only `Cancel` interleaves, with the
semi-naive evaluator, which looks at the token once a round.

Values are numbers, so that answers have an order. Strata are computed by relaxation in
the code and are the least ones in the model; relaxation beyond its bound is the
absence of any. Of provenance, derivations matter and nothing else.

### ResearchRecords, ResearchLog, ResearchStore

`crates/atlas-store/src/research.rs`, with the validators of
`crates/atlas-schema/src/research.rs` and the tables of `migration.rs`. A record has a kind,
an id and the fields of its kind; what it says is left out.

| variable | code |
|---|---|
| `db` | the committed rows of the research tables |
| `tx` | the transaction that holds SQLite's write lock, with what it wrote so far |
| `job` | what an insert holds between two statements: what it found, what is still to be looked up |
| `answer` | what the call returned |

Every insert looks up what its record refers to, one `SELECT` at a time and outside any
transaction, then writes: one `INSERT`, or a transaction of several for evidence and
proposals. Keys, foreign keys and the triggers of the schema decide at the write. A
provisional row may be discarded by another caller as long as no row's columns refer to
it. Completeness witnesses, a table nothing refers to, and updates of provisional rows are
left out. `ResearchLog` lets a record enter whole, under free ids and keys, once everything it
refers to is stored and fits; `KeepsLog` states that the store implements it.

### HomeIndex, ProbeLoop

`HomeIndex` is the rule of `atlas_home.py` and of its streamed twin: which class
a theorem's evidence allows in place of the declared one, per carrier or for all. `ProbeLoop`
has one variable per file (`candidates`, `index`, `strata`, `log`, `runs`, `report`) and one
action per script; the operator runs them in any order, so a transcript may be
older than the index it is scored against. `accepted` is the history of what the
kernel accepted.

### DiscoveryRound

What attempt planning, scoring, recovery and novelty screening compute from the files they
read, as operators, and `discovery-round.py`, which runs them:

| variable | code |
|---|---|
| `scratch` | the probes of every plan, by prefix and number: rounds of one prefix share them |
| `planned`, `logs`, `scored`, `triples`, `novelty`, `manifest` | the files of a round's directory |
| `job` | the invocation of a round that is running: the stage it is at, from where and until where |
| `workers` | the processes that run Lean on one shard after another |
| `spoken` | verdicts of runs whose planted controls were right (history) |

An invocation may be interrupted (its workers die with it) or killed (they live on and
go on writing), and a stage fails if one of its children does. A log is
complete, ends in the middle, or belongs to a Lean whose planted controls answered
wrongly or not at all.

### ExpertEvents, ExpertStudy, ProposalStudy

`ExpertEvents` reads weakenings off two revisions of a tokenised source file,
matches controls to claims and draws the population of a replay. `ExpertStudy` runs
the stages of `kuna-truth.py` and `kuna-multicarrier-population.py` in any order on a
repository that moves on. `ProposalStudy` has the programs from the audit of a
closure to the published measurement, each started by hand with its own arguments on the files
that happen to be there; a file's hash stands for its content.

### Terms, Echelons, DimExtractor, DimensionalRun, GradingStudy

A term is a tuple tagged by its node kind. `DimExtractor` walks it as
`phys_dimlib.py` and `phys-calculus.py` do and returns rows over atoms, fresh local atoms
being named by their place in the walk. `DimensionalRun` reads declarations one
by one, projects local atoms out, inserts the rows into an echelon form and attributes
each relation to declarations.

`GradingStudy` is one command of `phys-dimensional.py`, from the slice it loads to the last
experiment it was asked for.

| variable | code |
|---|---|
| `command` | the arguments, with the rows of the slices they name |
| `phase` | the experiment `main` is at, or how it ended: done, refused, raised, the self-test's verdict |
| `decoded` | `annotated`, what E1 read in each declaration |
| `equations` | `table` and `grows`, of the slice, of the slice keyed coarsely and of the control |
| `rewired` | `grs`, the rows of the shuffled control |
| `drawn`, `looked` | the identities E4 injects; the pairs E5 draws and those it looked at |
| `measured` | what the last experiment found |

Every draw of `random` is any choice, but for the rewiring of atoms and the sampling of
labels, which follow a finite cycle of numbers. Retention comes from the static engine and
is a constant.

### CorpusQueries, MotifSymmetry

`CorpusQueries` is one run of `phys-newqueries.py`: variants, substitutions between
theories, transport, families of proofs, hole queries, adjacency and planted edits, one
after another. `MotifSymmetry` is `phys-symmetry.py`: the classifier with its arena, its
self-test, and the citation tests with their draws. A random sample is the set of all its
draws.

### LatexEquations, PaperSystem

`LatexEquations` is the recursive descent of `paper-dim.py` with every category of error it
raises. `PaperSystem` expands, cuts and mends the displays of a paper, emits the rows of
what parses, solves, shuffles, and asks of further equations whether they are wrong.
`ReadingSound` is about papers in which a bracket that begins a line holds a length
(`BracketsSpace`); what happens to the others is the run `paper_brackets`.

### Certificates, SymplecticTables, Referee

What the four checkers compute, and one invocation of any of them, an item a step.
Numbers are exact; what is missing or no number is `Absent`. What a certificate
means is stated apart from how it is checked, and `RefereesTrue` compares the two.

## 3. What is checked

Ten runs pass, and each of their properties has a faulty variant of the code that it
notices. Two (`datalog_stored`, `paper_brackets`) end in a violation: there the code does
not do what the repository says of it, and the property states what is said.

| run | instance | shows |
|---|---|---|
| `daemon_core` | 1 client, 1 project, 2 documents, 2 texts, 2 launch configurations, 3 spawns, 2 daemons, all faults | types; `LeanMirrorsOverlays`; `ProjectsCoherent` (`SelectedIsOpen`, `ReadyMeansLean`, `OneLeanPerProject`, `JobShape`); `AcknowledgedEditReachedLean`; `KeepsPromise`: refinement of `LeanSession` |
| `daemon_clients` | 2 clients, 2 documents, projects stay open, no refusals | `SessionsTruthful` (`GenerationNamesOneLean`, `FreshSession`), `FencedWorkReachesObservedLean` |
| `daemon_live` | 2 clients, 2 projects, a Lean that fails, leaves or is silent | `StopCompletes`; `EveryRequestAnswered` if Lean is fair |
| `lean_transport` | 1 request and any notifications between initialize and shutdown, 2 requests by Lean, pipes of 3 parts | `OwnAnswer`, `AcknowledgedBeforeReturn`, `NeverDetached`, `ShutdownReturns`; `CallsReturn` if Lean is fair |
| `fact_store` | 2 connections, 3 ids, 8 offered facts | `JobsSound`, `VerdictsHold`, `WarrantsGrounded`; `KeepsLog`: refinement of `FactLog` |
| `datalog` | 6 programs, 4 candidate edges over 3 values, stored derived facts, 0, 2 or 9 rounds, 3 answers | `EvaluationExact` (founded, sound, complete, warrants exact), `EvaluatorsAgree` |
| `datalog_stored` | the tasks of `datalog` | violates `HeuristicNotUpgraded` (differential.rs:69): a new fact is numbered above the scanned facts only (reference.rs:117) and may take the id that a stored heuristic fact cites for a support, which is then warranted by it |
| `research_store` | 2 connections, 15 offered records of all 11 kinds | `LinksSound`; `KeepsLog`: refinement of `ResearchLog` |
| `generalization_loop` | slices of a lattice of 4 classes, every set of at most two pieces of evidence, scripts in any order | `LanesAgree` (streamed and in memory, one carrier or several), `ProbesEarned` (what is confirmed was proved, plans are breadth first, censuses whole) |
| the same run | 2 rounds over one scratch directory, 3 invocations, 5 kinds of logs | `VerdictsSpoken` (what is scored was said by Lean; what is asked again lies between), `RoundKept` (only lying logs are discarded, every planned triple is accounted for, a whole round is screened) |
| `dimensions` | small corpora for each of the five physics studies | `NothingInvented`, `EliminationExact`, `AttributionExact`; `GradingHonest` (what is forced is what every grading left agrees on, controls are comparable, held-out rows and injected errors are accounted for, the carrier is found, clusters are counted); `EditsExact`, `RetrievalExact`; `MotifsHonest` (motifs exact, nulls fair); `ReadingSound`, `DetectorExact` |
| `paper_brackets` | the papers of `dimensions` | violates `InventsNothing` (paper-dim.py:75): of the lines F = m a and [x, p] = ħ the bracket is stripped as the spacing of the break (paper-dim.py:1451), and the rest is glued to the line before |
| `kuna_studies` | a history of thirteen commits that moves on once, a closure of eleven classes, programs in any order, killed and repeated | `ProposalMeasured` (samples balanced, measurements earned), `PopulationSound` (samples fixed, nobody picked), `EventsCompared` |
| the same run | worked and planted certificates of every kind, alone and as the pinned kit | `RefereesTrue`, `SignsExact` |

`daemon_clients` excludes what `GenerationNamesOneLean` and the fence do not survive:
a project closed and opened again counts from generation 1, and so does a
relaunched daemon, while a request names no daemon generation; and a refused connect
leaves the session of before the edit in use. The theorems about these properties
have the same hypotheses (section 4).

**Bounds of the daemon.** Frontends send nothing new once `MaxSpawns` Lean processes were
spawned or a project reached generation `MaxGens`; commands under way run to their
end, so recoveries beyond the bound do occur. Two documents make selection, replay order
and partial replay distinguishable; two clients make a stale fence possible; two
projects make one project's Lean stall another's clients; three spawns give a
child, its successor and the successor's successor. `MaxDaemons` bounds relaunches.

**Of the transport.** One request between initialize and shutdown is enough for the
answer to a dropped request to meet the shutdown's, and two requests by Lean to let
one be acknowledged and one be under way with the same number as a request of the
client's. A pipe of three parts fills in the middle of a frame, so a call can be
dropped, Lean can leave and the shutdown can time out with half a frame on its way.

**Of the stores.** The offered facts are two versions of one fact under one id (the
stronger and the weaker race), one that claims too much, a fact with evidence and a
derived one under a second id, and a third id by conjunction, by alternatives and in
a circle with the second. Three ids allow a chain, a circle and an alternative
beside it; two connections race for an id and for a support. The offered research
records have claims that race for one id and supersede each other, evidence of two
classes, a circuit and a challenge whose leaves are present, absent or malformed, and the
chain from proposal to run. Nothing else is bounded in either store; three connections have
been checked for facts as well and show nothing new.

**Of the evaluators.** The programs are the recursion the tests use, one with two recursive
literals (where the last round's facts have to be joined in both places) behind a rule
that needs its result, one with negation above a recursion, one whose relations follow from
one another (so that warrants support each other in a circle), and two that are refused. Two
edges have the same arguments and different warrants, the edges form a cycle, and ids have
gaps. Facts derived earlier may be among the stored ones, from an edge or
from a relation that only some of the programs mention. Two rounds are too few for some
tasks and enough for others, nine always suffice, and zero evaluate nothing, successfully:
completeness excepts it, since that is what the code does. Three answers cut some of the
results. `EvaluatorsAgree` compares results up to the ids of new facts, which the two
evaluators give in different orders when rules depend on one another within a round. The
differential tests compare for equality, with a program for which the orders agree.

**Of the scripts.** `MaxRuns`, `MaxInvocations`, `Invocations` and `ProposalRuns` bound how
often programs are started; within them any order, repetition, interrupt and kill
occurs. In `generalization_loop` three invocations let one round's plan overwrite
another's shards while an orphaned worker reads them, and the last only scores again
what is there. The corpora of `dimensions` are chosen so that each rule of either
extractor fires, a relation needs one, two or three declarations, each motif and each
near miss of one occurs, and the papers have fractions, roots, powers, sums and
products over indices, limits, derivatives in all notations, integrals, functions, kets and
commutators, macros with arguments, displays cut at breaks, prose and spaces, pieces that have to
be mended, breaks with a length in brackets and a line that begins with a commutator; not
every spelling the tokenizer knows occurs. The command
lines of the grading experiments ask for different experiments of slices that are closed or
not, filtered or not, with a control or without; their laws define quantities whose types
carry dimensions, tie quantities to each other and to each other's inverses, contain a false
one, or speak of units.
In the history of `kuna_studies` samples of four claims are drawn: there is a claim no
other commit matches in size and file count, so that its control is one of another
stratum; of the claims that do not fit one is as old as the oldest that is taken and others are
older; and the audit meets one pair of classes twice in a declaration. The certificates include for every check one that
passes and one that fails it. Sums of radicals are negative, zero (where a product of two
cancels a third) and positive, and so are the margins of the rational bounds.

**Deadlock** is not checked for the daemon, since a stopped daemon that is not
relaunched has no step, nor for the transport, since a reaped child has none, nor for
the scripts, which end.

**Fairness.** `DaemonFairness` asks that the runtime polls ready tasks: the mutex
is granted, bounded shutdowns return (both have timers: 1 s and 1 s inside 3 s),
and `serve` aborts and drains. `LeanFairness` asks that Lean answers a pending
request or leaves. Nothing in the code enforces the latter, requests have no
timeout; it is an assumption of `EveryRequestAnswered`. `StopCompletes` does without
it, because the stop path cancels the execution instead of waiting for it.

In `LeanTransport`, `ClientFairness` asks that a call whose pipe is ready is polled and
that timers fire; `ShutdownReturns` needs no more. `LeanFairness` is again an
assumption, of `CallsReturn` alone: Lean reads its stdin also when it
has something to write, and answers a request it has read at some moment when its
own requests are acknowledged. The first half matters. The transport does not read
while it writes, so a Lean that stops reading until its output is taken could hold
both sides forever; the bound on a shutdown is what frees them then.

The scripts have no fairness: the operator may stop at any time, and only safety is
stated.

**Where the code differs from what its documents say.** Met while modelling; the model
follows the code, and the properties state what the code does keep.

- *daemon*: a stop that cancels an execution holding a child leaves it killed and
  unreaped (main.rs:633; comment 630-632); a refused connect leaves the session of before
  the edit (atlas-lean-client lib.rs:96; 93-95); a query that finds no child starts a new
  generation and does not tell (main.rs:460; docs/adr/0006:19); generations restart when a
  project is reopened (main.rs:294; docs/architecture-v2.md:99).
- *logic*: the reference evaluator answers within a limit on rounds that stops the other
  (optimized.rs:132; architecture-v2.md:60); new ids start above the scanned facts only, so a
  new fact may take the number of a stored one (the run `datalog_stored`).
- *refuter lane*: `recovery-triples.py`:159-161 says weakest first and sorts strongest first;
  `novelty-rescreen.py`:172 against 169; a finished log whose Lean died before its plants
  gave a verdict is discarded as lying too.
- *studies*: `kuna-truth.py`:586 claims rare strata are kept and draws otherwise;
  `kuna-proposal-result.py` does not tie the scored file to the index it publishes; mine,
  control and validate run separately may pair claims that were not mined; `mutual ... end`
  pops an enclosing scope.
- *dimensions*: `Zero.zero` and `One.one` read as dimensionless (phys_dimlib.py:225-231, comment
  229); symbolic powers of one base share an atom; sibling lambdas at one absolute index
  share a variable (phys-calculus.py:718 against 136); a projection of a bound variable is
  local and yet the same atom in every declaration (phys_dimlib.py:403-404 says a local
  atom occurs in the rows of one), so `Blockwise` leaves systems with one out.
- *papers*: a short commutator that begins a line is taken for the spacing of a break (the run
  `paper_brackets`); the docstring's split at top-level commas is not implemented.
- *queries and motifs*: the chain of erasures is not idempotent on nested numerals
  (erase.rs:4-6); the classifier's arena drops projection indices and universe
  levels; the self-test passes when no control is in the slice.
- *referees*: the orbit labels that `mtxe-check.py` prints are not tied to the orbits it
  checks; the cross-check with fathom skips what it cannot parse and still reports that
  everything was reproduced.

## 4. What is proved

All theorems are for any values of the constants that satisfy the named assumptions of
the modules. Each proof is by one inductive invariant.

### AtlasDaemonProofs

For any sets of clients, projects, documents, texts, launch configurations and faults and
any bounds:

- `TypeCorrect`: `Spec => []TypeOK`
- `MirrorsOverlays`: `Spec => []LeanMirrorsOverlays`
- `ProjectsStayCoherent`: `Spec => []ProjectsCoherent`, from `SelectionIsOpen`,
  `RestsReadyOrDegraded`, `OneLean` and `AwaitsFindTheirShape`
- `DaemonKeepsPromise`: `Spec => KeepsPromise`, the refinement of `LeanSession`
- `EditsReachLean`: `Spec => AcknowledgedEditReachedLean`
- `SessionsStayTruthful`: `Spec => []SessionsTruthful`, if no project is closed and no
  connect is refused
- `FencesHold`: `Spec => FencedWorkReachesObservedLean`, if no project is closed and
  there is one daemon

The assumptions are those of the module: documents are numbered (their key
order), bounds are naturals, and `None` is none of the values it stands beside.

None of the safety properties is inductive: the child that will own the
documents is, during a replay, in the hands of an execution. The inductive
invariant `IInv` adds `JobShape` (at each await, where the child is, which
documents it holds and which are still to be sent) and `ProjectsInv` (a child that
a project owns serves its documents and is reported ready; a project that no
execution works on and that has no child is reported degraded; a stopped daemon
has no projects). Every step changes one project at most, so `Assemble` is proved
once: it takes the new record and the new execution and yields `IInv'`. The
pieces (`StartLeanPreserves`, `RestartLeanPreserves`, `RespondPreserves`,
`ReplayFromPreserves`, ...) reduce to it, and every action reduces to the pieces
it is built from.

What a step does is a second invariant's worth of facts, proved once and used four
times: every step that is not the environment's `Works` on one project (`Worked`). That
says that other projects stay (`Locally`), how the execution moves on and what becomes of the
child (`Moves`), what is told to whom (`Replies`), that the documents on record change
only as the execution's request says (`Edits`), and that a session is opened for the
document as it is (`Connects`). The refinement maps each case of `Moves` to an action of
`LeanSession` or to a stutter. `EditRecorded` (an edit under way is on record) gives
`EditsReachLean`. `GenerationsNamed` (snapshots of one generation and daemon name one
process, none is from the future, and the current generation's is the child)
with `QueueOffered` (queued requests are ones a client may send) gives the two last
theorems, and `SessionsFresh` with `QueryHasDocument` the rest of `SessionsTruthful`. Their
hypotheses are needed: a project that is closed and opened again, and a daemon that is
relaunched, start again at generation 1, and a refused connect leaves an old session.

### LeanTransportProofs

For any number of calls, any number of requests by Lean and pipes of any capacity:

- `TypesKept`: `Spec => []TypeOK`
- `AnswersAreOwn`: `Spec => []OwnAnswer`
- `ChildrenAreOwned`: `Spec => []NeverDetached`
- `AsksAcknowledged`: `Spec => []AcknowledgedBeforeReturn`

from bounds that are naturals and `None` being none of the values it stands beside.
The inductive invariant adds `Ownership` (which of the transport and the call holds
the child, so that the one that lets go of it kills it; a spawn is the first call,
and only a shutdown goes on after its requests) and `Numbers` (a call waits for
the number given last, and Lean has answered whatever is answered in the pipe). The
ends of a call, `Fail`, `Succeed` and `Respond`, have a lemma each for ownership,
cited by every action that ends one; what Lean does is reduced to `LeanKeeps`.

The acknowledgement needs a second one, `AckInv`, relative to the first: as long as
no call was dropped, frames are whole in both pipes (`WritesFramed`, `ReadsFramed`); every
request of Lean's is in the pipe, being read, or acknowledged (`AsksKept`); it stands
before the answer to the call under way (`AsksPrecede`); so nothing of Lean's is
unread when an answer is returned (`AsksReturned`).

### FactStoreProofs

For any sets of connections, ids, relations, argument vectors and offered facts:

- `StoreTypeCorrect`, `FindingsStay` (`JobsSound`), `VerdictsStay` (`VerdictsHold`, from
  `AnswersStay` and `RefusalsStay`)
- `StoredFactsStay`: `Spec => FactsImmutable`
- `StoreKeepsLog`: `Spec => KeepsLog`, the refinement of `FactLog`
- `LogGrounded`, and by refinement `StoreGrounded`: `Spec => []WarrantsGrounded`

from the assumptions that offered facts are rows of the types above, that no
arguments are an argument vector, and that `None` is none of the values it stands
beside. The inductive invariant says of each connection that what it found out and
what it returned hold of the tables as they are (`Sound`, `Told`), and that the write
lock is held by a connection that is inserting. A commit adds one fact under a free
id (`CommitStores`), so everything found out earlier survives it (`OthersKept`), and
each action is proved for the connection that takes it alone (`Assemble`).
Groundedness is proved where it belongs, of the abstract log (`LogGrounded`): a set
closed under derivations in the longer log is closed in the shorter one, so it holds
the inputs of the new fact and hence the new fact. It carries over by refinement.

### ResearchStoreProofs

For any sets of connections and offered records:

- `StoreKeepsLog`: `Spec => KeepsLog`, the refinement of `ResearchLog`
- `LinksStaySound`: `Spec => []LinksSound`

from the assumptions that what is offered are records of the eleven kinds
(`OfferedAreRecords`) and that `None` is nothing (`NoneIsNothing`). The invariant says of
every insert what its lookups have settled (`Settled`) and that it stays settled while
other connections commit or discard provisional rows (`Checked`): what is looked up is
either kept for good or held by the foreign keys at the write. At the write,
`CheckedAdmits` turns this into the guard of the log, so a commit is a step of the log. That
links are sound is then proved of the log's steps: a step adds whole records that refer
to stored ones, or removes a row nobody refers to (`ReferenceKinds` says which kinds may
refer to which).

### DatalogProofs

For any sets of relations, variables and values, any programs and stored facts, any
limits, and a cancellation at any time:

- `EvaluationsExact`: `Spec => []EvaluationExact`: during an evaluation every derived
  fact is founded; a result holds what follows from what was loaded, each way in which
  it follows and nothing else; and, if no fact
  that was loaded cites a number which a new fact may get (`NumbersApart`), its warrants are
  the strongest the derivations ground; without that they are not, see `datalog_stored`
- `PassesSuffice`: the bound on passes over the warrants never cuts them off
- `EvaluationInvariant`: the inductive invariant both rest on

from `TasksAreTyped` (tasks have their types, and the facts of a source are finitely many,
each named by its id), `RelationsAreFinite`, and `TermsAreDistinct` (values are integers,
and no variable is one).

A *trace* is one way through a body: a state for each literal, each matched from the one
before it in the rows the literal is matched against. `MatchBodyTraces` says that a match
of a body is exactly what ends a trace of its length, so that soundness and completeness
become statements about single traces. A trace through more rows is a trace again
if no negated relation has got more (`TraceTransfer`), and a trace through the rows of
this round either uses only rows of earlier rounds, or has a first literal that is matched
by a row of the last round (`TraceSplit`): that is why semi-naive evaluation misses
nothing. `StrataOfRules` gives what negation needs of strata, that a negated relation
lies strictly below the head: its rows stay as they are while the stratum is evaluated.

The invariant is a conjunction of

- `Numbered`: new facts have numbers that no loaded one has;
- `Control`: rows are finitely many with distinct ids below `next`, what is produced is of
  the current stratum, and nothing of an earlier loop is left behind;
- `Founded` and `Supports`: every support of a state is the ids of stored rows, so
  what a rule concludes rests on facts with smaller ids;
- `Traced` and `Accounted`: every state ends a trace of the rule under way, and every
  derivation was loaded or ends a full trace of a rule at or below this stratum;
- `Covered`: every full trace of a lower stratum is concluded, every one of this stratum
  that uses only earlier rounds is, every one of a rule whose turn is over is, and of the rule under way
  every trace so far is among its states or concluded;
- `Graded`: no warrant exceeds what the derivations are worth by then (`NotBeyond`); facts
  whose only derivations of some worth use one another are worth less (`Earned`); and the passes
  left exceed the degrees the warrants may still gain (`Marks`);
- and, of a result that was returned, `ConsequencesExact` and `WarrantsExact`.

`Covered` is the inductive half of completeness (`RoundDone` closes a round with it),
`Accounted` that of soundness. That warrants are the strongest the derivations ground has
two halves: every pass raises one of finitely many degrees, so the passes reach a fixed
point before they run out, and by `Earned` nothing there stands on a circle.

### ProbeLoopProofs

For any slices, budgets, quotas and numbers of runs, and whatever Lean may print:

- `LanesStayAgreed`: `Spec => []LanesAgree`
- `ProbesStayEarned`: `Spec => []ProbesEarned`
- `LoopInvariant`: the inductive invariant both rest on

from `OptionsAreNumbers` (budget, saturation and the number of runs are naturals, a family
gets at least one probe) and `SlicesAreRead` (a slice is finitely many rows, each under its
name and with the fields the extractor writes).

That the searches agree is a fact about operators. `WeakeningFound` says what a weakening
is in terms every search shares: the declared class is not used itself, and the home is
the least of the classes above it that are used and provide whatever is used of it.
`StreamingSame` finds this in the streamed sweep, `StatementAdmits` shows that fewer uses
admit no less, and `CarriersKept` that an index which differs in the requirements of one
row, on another carrier, has the same classes, ancestors and forgetful instances.

That plans are fair is counting. The planner sorts by tuples of keys, and the place of an
element is the number of those before it. `KeysOrder` gives a linear order for distinct keys,
`PlacesTaken` that its places are taken, once each, `FirstFew` and `CountPlaces` how many a
prefix holds. A family is placed in itself (`FamilyPlaced`), families in turns
(`TurnsTaken`), and the two together name a probe (`KeysName`). `FamilyEligible` says that of
a family as many are eligible as its quota, so that what the budget cuts off
(`RoundRobinTakes`) is fair (`RoundRobinBroad`); a census cuts within one turn at most
(`CensusWhole`).

That what is confirmed was accepted needs the invariant. A verdict is read from a
transcript, and a transcript may be of another plan, so it is not enough that runs
are earned. `LoopInv` says that the index is what was read of a slice (`IsIndex`), that candidates,
plans and strata are about it (`PlanKnown`, `StrataKnown`), within the finitely many triples
it can name (`Universe`), and that every line of the transcript that says `confirmed` was
accepted (`LogHonest`). A transcript lists the lines printed (`TranscriptListed`), which is the
order of places again; the verdict on a proposal is that of the last line that matches it
(`RunHonest`), and a pick of a stratum that is confirmed has a line of its own behind it
(`StratumHonest`). Nothing accepted is forgotten, so what was reported stays backed
(`BackedStays`).

### DiscoveryRoundProofs

For any sets of rounds, prefixes (shared or not), populations, corpora, budgets, shard
sizes, numbers of workers and invocations, and whatever Lean may say:

- `VerdictsStaySpoken`: `Spec => []VerdictsSpoken`
- `RoundsStayWhole`: `Spec => RoundKept`

from two assumptions. `RoundAssumption`: sizes and numbers of workers are positive, there
are finitely many refuted triples, names are numbers, and verdicts, plants and exit statuses
are those the scorer knows. `CorpusAssumption`: projections are finitely many, and one
that takes nothing explicit and whose only instance is its own structure forgets; that is
what `recovery-triples.py` supposes of Mathlib, and `RecoveredBetween` says no more of an edge
than this. Nothing is assumed of `Nothing`.

The first half is about the operators. The scripts sort by tuples of keys, and the
model takes the element at place i to be the one with i - 1 elements below it. That these
places are taken, once each (`PlacesTaken`), is proved for every linear order of a finite
set by counting: the map to places is injective into as many places as there are
elements, hence onto. `KeysOrder` gives the linear order for tuples of integers. So the
order of attempts, the order of a log and the order of a bracket each list their set
(`PopulationListed`, `LinesListed`, `BetweenListed`); what is chosen has no triple twice
(`ChosenDistinct`); slices of it are shards that are finite, not empty and disjoint
(`ShardsPlan`); and the interleaved queues of the workers hold all shards and no others
(`QueuesCover`, `QueuesOfShards`). The least number a set of naturals has comes from the
library's theorem on well-founded relations (`Least`), not from induction; by it, too, the
ancestors of a class are what the steps along the edges reach (`StepsExist`), and more
edges reach more (`AncestorsGrow`), so a class in a bracket of the strict lattice lies between
in the lattice of what forgets (`RecoveryBetween`). Of a score, `RowsSpoken` finds each verdict in a log, `PartsExact` puts every
probe in one part, and `OnlyWrongInvalid` says which shards are discarded.

The second half is the invariant, `Inductive`: what is on the scratch directory are
finite sets of triples (`Scratched`), and every plan's shards are there (`PlansWritten`, though
perhaps not as planned: another round may have replaced them); a log whose plants are right says
what Lean spoke (`LogsEarned`); a worker that reads has a shard in its queue and its queue is on
the scratch directory (`WorkersRead`); and an invocation knows, at each stage, that the shards
it waits for are in a log or will be unless it stops, that each has a log once it scores, and
that what it screens is its plan's score (`JobKnows`). `JobsKept` carries what the other
rounds know across a step, `ReplacedKnows` what a round knows across a step of its workers.

### ProposalStudyProofs

For any closures, expected counts, seeds, hashes, sizes of cells, samples and shards, any
outcomes of Lean and any number of runs:

- `ProposalsStayMeasured`: `ProposalSpec => []ProposalMeasured`, from
  `SamplesStayBalanced` (`SampleBalanced`) and `MeasurementsStayEarned` (`MeasurementEarned`)
- `StudyInvariant`: the inductive invariant both rest on

from `ClosuresAreRead` (a closure is finitely many rows with the fields the extractor
writes), `StudyIsTyped` (hashes are numbers, Lean's outcome is one of three) and
`StudyAssumption` (cells and shards are not empty). Nothing is assumed of hashes being
distinct: the program breaks ties by names, and so do the keys of `Drawn` and `First`.

The first half is what a closure yields. `ClosureIndexed` reads off it finitely many classes
with their ancestors among them; `ProposalIs` says where a proposal comes from, so that
there are finitely many (`ProposalsFinite`) and declaration, index and target name one
(`KeyNames`). That needs `BinderTold`: a binder is told by its place among the binders with a
class, and as well by its place among all instance binders, since a member of a set of
numbers is told by how many members are below it (`CountTells`). `KeyedPlaces` counts the places
of a finite set under distinct keys, so a cell has as many families drawn as asked for
(`DrawnAre`), a family has a first proposal (`FirstIs`), the selection is balanced
(`SelectedAre`), and sorting it into probe order loses nothing (`SampledAre`).

The second half is short, since the invariant says of each file only what it says of the
closure: a manifest is a sample that could have been drawn, shards hold probed
proposals, a log that counts says of each proposal it names what Lean says (`ProbeTells`,
by `TriedIs`: the raw index names the very binder the detector judged), and rows and
gates follow (`ScoreTells`, `PersistEarns`). It does not say that these files belong together, and
they need not: a score may be of other shards than those that are there when it is persisted.

### What stays with TLC

Liveness (`StopCompletes`, `EveryRequestAnswered`, `ShutdownReturns`, `CallsReturn`) is out
of the prover's reach. So is what a recursive definition computes: the properties of
`Certificates`, `CorpusQueries`, `DimExtractor`, `DimensionalRun`, `Echelons`, `ExpertEvents`,
`GradingStudy`, `LatexEquations`, `MotifSymmetry`, `PaperSystem`, `SymplecticTables` and
`Terms`, and of the modules above them, compare recursive algorithms with definitions and
are checked on their corpora. Of `Datalog`, `EvaluatorsAgree` is not proved: beyond
`EvaluationExact` for each evaluator it needs that what follows is unique, by induction over
strata and over the naming of derived facts, and that a cut result is the same cut.

## 5. What is not modelled

- the byte framing and authentication of connections, and frontends that give up
  before they are answered;
- the inside of a query: the engine's several calls are one await;
- the store that `open_project` opens: the daemon only keeps it open, so
  `AtlasDaemon` and `FactStore` do not meet;
- JSON and the width of ids in the stores: what cannot be encoded or bound is a
  failing statement;
- the static engine, the extractor and the bindings: pure functions over large data
  without interaction;
- of the scripts: printing, statistics, wall-clock figures and random draws (which are
  the set of possible draws), the lexing of Lean sources, the reading of JSON, and the
  experiments that only count: the census and the control experiments of
  `phys-calculus.py`, `phys-census.py`, `phys-provable.py`,
  `phys-frontier.py`, `phys-classical-quantum.py`.

`PROJECT.json` lists every component with its status, and the hazards with the
properties that would notice them.

## 6. Plan

1. `QueryEngine`: truncation flags and the minimal-context search of the engine.
