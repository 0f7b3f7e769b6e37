------------------------------ MODULE ExpertStudy ------------------------------
(***************************************************************************)
(* The retrospective study: scripts/kuna-truth.py looks for weakenings     *)
(* that experts made, in commits whose message claims one and in matched   *)
(* commits that claim none; scripts/kuna-multicarrier-population.py takes  *)
(* a population for replay out of its report.                              *)
(*                                                                         *)
(* The stages hand each other files, any stage may be run again alone, and *)
(* the repository they read moves on between them.                         *)
(***************************************************************************)
EXTENDS ExpertEvents, TLC

CONSTANTS
    Past, Upcoming,  \* the commits there are, newest first, and one more
    Corpus,          \* the rows of the closure
    Replayed,        \* commits that the earlier replays used
    Invocations,     \* how often a program is started, a bound
    Limits,          \* values of --limit and --control-limit, 0 for none
    SampleSize,      \* the 30 of the audit samples
    Counts,          \* values of --count
    None, Broken     \* a file that is not there, one that was not finished

ASSUME SizesAssumption ==
    Invocations \in Nat /\ SampleSize \in Nat \ {0} /\ Limits \subseteq Nat
    /\ Counts \subseteq Nat \ {0}

VARIABLES
    history,     \* what git log lists
    doing,       \* the stages the running invocation has left, its limits
    started,     \* invocations so far
    lattice, raw, rawControl, report, population   \* the files

expertVars == <<history, doing, started, lattice, raw, rawControl, report, population>>

Idle == [stages |-> <<>>, limit |-> 0, controlLimit |-> 0]

ExpertInit ==
    /\ history = Past
    /\ doing = Idle
    /\ started = 0
    /\ lattice = None /\ raw = None /\ rawControl = None
    /\ report = None /\ population = None

Commit(sha) == CHOOSE r \in ToSet(history) : r.sha = sha

-----------------------------------------------------------------------------
(* Running a stage *)

Commands == {<<"lattice">>, <<"mine">>, <<"control">>, <<"validate">>,
             <<"lattice", "mine", "control", "validate">>}

Invoke(stages, limit, controlLimit) ==
    /\ doing = Idle /\ started < Invocations
    /\ doing' = [stages |-> stages, limit |-> limit, controlLimit |-> controlLimit]
    /\ started' = started + 1
    /\ UNCHANGED <<history, lattice, raw, rawControl, report, population>>

At(stage) == doing.stages # <<>> /\ Head(doing.stages) = stage

Advance ==
    /\ doing' = IF Len(doing.stages) = 1 THEN Idle ELSE [doing EXCEPT !.stages = Tail(@)]
    /\ UNCHANGED <<history, started, population>>

Abandon == doing' = Idle /\ UNCHANGED <<history, started, population>>

BuildsLattice ==
    /\ At("lattice")
    /\ \E l \in {BuildLattice(Corpus)} : lattice' = l
    /\ Advance /\ UNCHANGED <<raw, rawControl, report>>

Commits(shas) == {Commit(s) : s \in shas}
Shas(rows) == {rows[i].sha : i \in DOMAIN rows}

MinesClaims ==
    /\ At("mine")
    /\ \E m \in {Mined(Commits(Shas(Claims(history, doing.limit))))} : raw' = m
    /\ Advance /\ UNCHANGED <<lattice, rawControl, report>>

\* The claims to be matched are those that are mined with the same limit.
\* Where the pool is used up, min() of nothing ends the program.
MinesControls ==
    /\ At("control")
    /\ \E s \in {MatchedControls(history,
                    Upto(Claims(history, doing.limit), doing.controlLimit))} :
         IF s.failed THEN Abandon /\ UNCHANGED rawControl
         ELSE /\ \E m \in {Mined(Commits({p.control : p \in s.pairs}))} :
                   rawControl' = m @@ [pairs |-> s.pairs]
              /\ Advance
    /\ UNCHANGED <<lattice, raw, report>>

-----------------------------------------------------------------------------
(* Validation *)

\* A raw file that is not there is left out of the report.
EventsOf(file) == IF file = None THEN {} ELSE Events(file.moves, lattice)

AuditSamples(events) ==
    LET hits == {e.commit : e \in events}
        without == IF raw = None THEN {} ELSE raw.commits \ hits
    IN [stratum \in Strata |->
          DeterministicSample({e \in events : e.stratum = stratum}, SampleSize)]
       @@ [without |-> FirstBy(without, LAMBDA s : <<s>>, SampleSize)]

Reported(claimEvents, controlEvents) ==
    LET pairs == IF rawControl = None THEN {} ELSE rawControl.pairs
    IN [claim |-> claimEvents, control |-> controlEvents,
        head |-> history[1].sha,
        paired |-> IF pairs = {} THEN None
                   ELSE Enrichment(pairs, {e.commit : e \in claimEvents},
                                          {e.commit : e \in controlEvents}),
        samples |-> AuditSamples(claimEvents)]

Validates ==
    /\ At("validate")
    /\ IF lattice \in {None, Broken} \/ Broken \in {raw, rawControl}
       THEN Abandon /\ UNCHANGED report
       ELSE /\ \E claimEvents \in {EventsOf(raw)}, controlEvents \in {EventsOf(rawControl)} :
                 \E r \in {Reported(claimEvents, controlEvents)} : report' = r
            /\ Advance
    /\ UNCHANGED <<lattice, raw, rawControl>>

\* Killed: at work, or while the result is written over the old file.
Killed ==
    /\ doing.stages # <<>>
    /\ Abandon
    /\ \/ UNCHANGED <<lattice, raw, rawControl, report>>
       \/ At("lattice") /\ lattice' = Broken /\ UNCHANGED <<raw, rawControl, report>>
       \/ At("mine") /\ raw' = Broken /\ UNCHANGED <<lattice, rawControl, report>>
       \/ At("control") /\ rawControl' = Broken /\ UNCHANGED <<lattice, raw, report>>
       \/ At("validate") /\ report' = Broken /\ UNCHANGED <<lattice, raw, rawControl>>

\* Somebody updates the checkout.
Pull ==
    /\ history = Past
    /\ history' = <<Upcoming>> \o Past
    /\ UNCHANGED <<doing, started, lattice, raw, rawControl, report, population>>

-----------------------------------------------------------------------------
(* The population *)

FoundIn(c, path, name, side) ==
    LET f == CHOOSE g \in c.files : g.new = path
        decls == ParseFile(f[side])
    IN IF name \in DOMAIN decls THEN <<decls[name]>> ELSE <<>>

Screen(e) ==
    LET c == Commit(e.commit)
    IN Judgement(e, FoundIn(c, e.file, e.decl, "before"), FoundIn(c, e.file, e.decl, "after"),
                 Replayed)

\* Newest first, and beside it what was screened since the oldest of them.
Population(events, count) ==
    LET time(e) == Commit(e.commit).time
        newest(e) == <<-time(e), e.commit>>
        judged == [e \in Eligible(events) |-> Screen(e)]
        accepted == {e \in DOMAIN judged : judged[e] = "accepted"}
        taken == FirstBy(accepted, newest, count)
    IN [events |-> events, count |-> count, taken |-> taken,
        screened |-> {e \in DOMAIN judged \ accepted :
                        taken = {} \/ \E u \in taken : time(e) >= time(u)}]

Select(count) ==
    /\ doing = Idle /\ started < Invocations
    /\ started' = started + 1
    /\ report \notin {None, Broken}
    /\ \E p \in {Population(report.claim, count)} : population' = p
    /\ UNCHANGED <<history, doing, lattice, raw, rawControl, report>>

ExpertNext ==
    \/ \E stages \in Commands, l \in Limits, c \in Limits : Invoke(stages, l, c)
    \/ BuildsLattice \/ MinesClaims \/ MinesControls \/ Validates \/ Killed \/ Pull
    \/ \E n \in Counts : Select(n)

-----------------------------------------------------------------------------
(* What the study promises *)

CorpusClasses == UNION {r.instances : r \in Corpus}

\* t is in every set of classes that has s's parents and, with a class, its
\* parents.
Reaches(s, t) ==
    LET edges == {r \in Corpus : r.owner # r.concl /\ {r.owner, r.concl} \subseteq CorpusClasses}
    IN \A S \in SUBSET CorpusClasses :
         (\A r \in edges : r.owner \in S \cup {s} => r.concl \in S) => t \in S

StrictlyWeaker(s, t) ==
    {s, t} \subseteq CorpusClasses /\ s # t /\ Reaches(s, t) /\ ~Reaches(t, s)

\* The classes that are asked of these arguments more often before than after.
Lost(old, new, args) ==
    {b[1] : b \in {x \in ToSet(old) : x[2] = args /\ Occurrences(old, x) > Occurrences(new, x)}}

\* Where a commit changes the brackets of a declaration.
Changes(sha) ==
    UNION {UNION {{[file |-> f.new, decl |-> n, stratum |-> s, kw |-> after[n].kw,
                    old |-> before[n][s], new |-> after[n][s]] :
                      n \in DOMAIN before \cap DOMAIN after, s \in Strata} :
                  before \in {ParseFile(f.before)}, after \in {ParseFile(f.after)}} :
           f \in {g \in Commit(sha).files : g.status \in {"M", "R"}}}

Warrants(c, e) ==
    /\ <<c.file, c.decl, c.stratum, c.kw>> = <<e.file, e.decl, e.stratum, e.kw>>
    /\ e.from \in Lost(c.old, c.new, e.args)
    /\ e.to \in Lost(c.new, c.old, e.args)

Sound(events, commits) ==
    \A e \in events :
       /\ e.commit \in commits /\ e.kw \in Primary /\ StrictlyWeaker(e.from, e.to)
       /\ \E c \in Changes(e.commit) : Warrants(c, e)
       /\ \A f \in events : Identity(f) = Identity(e) => f = e

\* Nothing is overlooked where it is plain what became of what.
Complete(events, commits) ==
    \A sha \in commits : \A c \in {d \in Changes(sha) : d.kw \in Primary} :
       \A args \in {b[2] : b \in ToSet(c.old)} :
          \A from \in Lost(c.old, c.new, args), to \in Lost(c.new, c.old, args) :
             /\ Lost(c.old, c.new, args) = {from}
             /\ Lost(c.new, c.old, args) = {to}
             /\ StrictlyWeaker(from, to)
             => \E e \in events :
                   Identity(e) = <<sha, c.decl, from, to, args, c.stratum>>

\* Whatever files the stages left to one another: a report that is written
\* has exactly the weakenings of the commits that were mined, each once, a
\* strict one, and made at the arguments it says.
EventsWarranted ==
    [][report' # report /\ report' \notin {None, Broken} =>
         /\ raw # None => /\ Sound(report'.claim, raw.commits)
                           /\ Complete(report'.claim, raw.commits)
         /\ rawControl # None => Sound(report'.control, rawControl.commits)]_report

\* In files, in the scale of the changed lines, in time.
Imbalance(r, c) == <<Apart(r.leanFiles, c.leanFiles),
                     Apart(ChurnBin(r.churn), ChurnBin(c.churn)), Apart(r.time, c.time)>>

\* Claims and controls are compared in pairs: no commit is a control twice,
\* none claims anything, and no commit that nobody took would have been a
\* closer control for a claim, of its size or of another.
ControlsMatched ==
    [][rawControl' # rawControl /\ rawControl' \notin {None, Broken} =>
         \A p \in rawControl'.pairs :
            /\ Commit(p.claim).claimed /\ ~Commit(p.control).claimed
            /\ \A q \in rawControl'.pairs : q.control = p.control => q = p
            /\ p.exact <=> Bin(Commit(p.claim)) = Bin(Commit(p.control))
            /\ \A r \in ToSet(history) :
                  /\ ~r.claimed
                  /\ \A q \in rawControl'.pairs : q.control # r.sha
                  => ~Precedes(Imbalance(r, Commit(p.claim)),
                               Imbalance(Commit(p.control), Commit(p.claim)))]_rawControl

\* The study compares what its commits say: events are theirs, and controls
\* are matched to claims one to one.
EventsCompared == EventsWarranted /\ ControlsMatched

\* What is sampled for audit is determined by the declarations and class
\* pairs alone, and no such pair takes two of the slots.
SamplesFixed ==
    report \notin {None, Broken} =>
      \A s \in Strata :
         LET keys == {AuditKey(e) : e \in {f \in report.claim : f.stratum = s}}
             drawn == report.samples[s]
         IN /\ {AuditKey(e) : e \in drawn} = FirstBy(keys, LAMBDA k : k, SampleSize)
            /\ Cardinality(drawn) = Min({SampleSize, Cardinality(keys)})

\* The telescope of a declaration, as often as each binder is in it.
Often(d, b) == Occurrences(Telescope(d), b)

OnlyReplaces(before, after, e) ==
    \A b \in ToSet(Telescope(before)) \cup ToSet(Telescope(after)) :
       Often(after, b) = Often(before, b)
                         + (IF b = <<"own", <<e.to, e.args>>>> THEN 1 ELSE 0)
                         - (IF b = <<"own", <<e.from, e.args>>>> THEN 1 ELSE 0)

\* The only change of its statement, over two carriers at least, and never
\* replayed before.
Fit(e) ==
    /\ e.commit \notin Replayed
    /\ \E before \in ToSet(FoundIn(Commit(e.commit), e.file, e.decl, "before")),
          after \in ToSet(FoundIn(Commit(e.commit), e.file, e.decl, "after")) :
          /\ OnlyReplaces(before, after, e)
          /\ \E b1, b2 \in ToSet(Telescope(before)) :
                /\ <<>> \notin {b1[2][2], b2[2][2]} /\ b1[2][2] # b2[2][2]

\* The frozen population is not picked: of the own events that are alone in
\* their commit all that fit are in it, from the newest on until it is full,
\* and beside it are listed those, and only those, that do not fit and are
\* not older than its oldest.
PopulationAccounted ==
    population # None =>
      LET sole == {e \in population.events :
                     /\ e.stratum = "own"
                     /\ \A f \in population.events : f.commit = e.commit => f = e}
          time(e) == Commit(e.commit).time
      IN /\ population.taken \subseteq {e \in sole : Fit(e)}
         /\ Cardinality(population.taken) <= population.count
         /\ \A e \in {f \in sole \ population.taken : Fit(f)} :
               /\ Cardinality(population.taken) = population.count
               /\ \A f \in population.taken : time(e) <= time(f)
         /\ population.screened =
               {e \in sole : ~Fit(e) /\ (\/ population.taken = {}
                                          \/ \E f \in population.taken : time(f) <= time(e))}
=============================================================================
