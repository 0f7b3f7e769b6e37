---------------------------- MODULE ExpertEvents ----------------------------
(***************************************************************************)
(* scripts/kuna-truth.py and scripts/kuna-multicarrier-population.py as    *)
(* functions: from two revisions of a source file to the class weakenings  *)
(* between them, from a history to the commits that are compared, and from *)
(* events to the population of a replay.                                   *)
(*                                                                         *)
(* A source file is a sequence of commands, its text being tokens.  A      *)
(* bracket group has its opener, the names before its colon (none where it *)
(* has no colon) and the tokens after.  Names, classes and tokens are      *)
(* numbers, 0 is no name.                                                  *)
(***************************************************************************)
EXTENDS HomeIndex

-----------------------------------------------------------------------------
(* Reading a file *)

\* The class and the arguments of an instance bracket.
ParseBracket(g) ==
    LET tokens == IF Len(g.names) = 1 THEN g.type ELSE g.names \o g.type
    IN IF tokens = <<>> THEN <<>> ELSE <<<<Head(tokens), Tail(tokens)>>>>

Brackets(groups) ==
    FlattenSeq([i \in DOMAIN groups |->
                  IF groups[i].opener = "[" THEN ParseBracket(groups[i]) ELSE <<>>])

BoundNames(g) ==
    IF g.names # <<>> THEN ToSet(g.names)
    ELSE IF g.opener = "[" THEN {} ELSE ToSet(g.type)

Tokens(groups) == UNION {ToSet(groups[i].names) \cup ToSet(groups[i].type) : i \in DOMAIN groups}

Scope(name) == [ns |-> name, binders |-> <<>>, vars |-> {}]
Nothing == [scopes |-> <<>>, decls |-> <<>>, dup |-> {}]

Push(p, name) == [p EXCEPT !.scopes = Append(@, Scope(name))]

Extended(scope, groups) ==
    [scope EXCEPT !.binders = @ \o Brackets(groups),
                  !.vars = @ \cup UNION {BoundNames(groups[i]) : i \in DOMAIN groups}]

\* The binders of every scope whose variables the statement mentions.
Inherited(scopes, mentioned) ==
    LET all == UNION {scopes[i].vars : i \in DOMAIN scopes}
        binders == FlattenSeq([i \in DOMAIN scopes |-> scopes[i].binders])
    IN SelectSeq(binders, LAMBDA b : (ToSet(b[2]) \cap all) \subseteq mentioned)

FullName(scopes, name) ==
    Append(SelectSeq([i \in DOMAIN scopes |-> scopes[i].ns], LAMBDA n : n # 0), name)

Declared(p, c) ==
    LET full == FullName(p.scopes, c.name)
        mentioned == Tokens(c.groups) \cup ToSet(c.type)
        decl == [kw |-> c.cmd, own |-> Brackets(c.groups),
                 inherited |-> Inherited(p.scopes, mentioned)]
    IN IF c.name = 0 THEN p
       ELSE IF full \in DOMAIN p.decls THEN [p EXCEPT !.dup = @ \cup {full}]
       ELSE [p EXCEPT !.decls = @ @@ (full :> decl)]

\* A variable outside every scope opens one that nothing closes; an end
\* closes whatever was opened last.
Read(p, c) ==
    CASE c.cmd = "namespace" -> Push(p, c.name)
      [] c.cmd = "section" -> Push(p, 0)
      [] c.cmd = "end" ->
            IF p.scopes = <<>> THEN p ELSE [p EXCEPT !.scopes = Front(@)]
      [] c.cmd = "variable" ->
            LET q == IF p.scopes = <<>> THEN Push(p, 0) ELSE p
            IN [q EXCEPT !.scopes[Len(q.scopes)] = Extended(@, c.groups)]
      [] c.cmd = "other" -> p
      [] OTHER -> Declared(p, c)

\* A name that is declared twice names nothing.
ParseFile(source) ==
    LET p == FoldLeft(Read, Nothing, source)
    IN [n \in DOMAIN p.decls \ p.dup |-> p.decls[n]]

-----------------------------------------------------------------------------
(* Comparing two revisions *)

Occurrences(s, x) == Cardinality({i \in DOMAIN s : s[i] = x})

\* What s has more often than t, like elements side by side.
Surplus(s, t) ==
    LET firsts == {i \in DOMAIN s : \A j \in 1 .. i - 1 : s[j] # s[i]}
        times(i) == Occurrences(s, s[i]) - Occurrences(t, s[i])
    IN FlattenSeq([i \in DOMAIN s |->
          IF i \in firsts /\ times(i) > 0 THEN [k \in 1 .. times(i) |-> s[i]] ELSE <<>>])

PairedInOrder(removed, added) ==
    {<<removed[i][1], added[i][1], removed[i][2]>> :
       i \in 1 .. Min({Len(removed), Len(added)})}

\* A weakening keeps the arguments and changes the class.
Paired(removed, added) ==
    FoldLeft(LAMBDA acc, b :
               LET same == {i \in DOMAIN acc.left : acc.left[i][2] = b[2]}
               IN IF same = {} THEN acc
                  ELSE [left |-> RemoveAt(acc.left, Min(same)),
                        moves |-> acc.moves \cup {<<b[1], acc.left[Min(same)][1], b[2]>>}],
             [left |-> added, moves |-> {}], removed).moves

Strata == {"own", "inherited"}

DiffDecls(before, after) ==
    UNION {{[decl |-> n, from |-> m[1], to |-> m[2], args |-> m[3],
             stratum |-> s, kw |-> after[n].kw] :
               m \in Paired(Surplus(before[n][s], after[n][s]),
                            Surplus(after[n][s], before[n][s]))} :
           n \in DOMAIN before \cap DOMAIN after, s \in Strata}

-----------------------------------------------------------------------------
(* The lattice *)

\* Rows give the classes whose names their terms write as the head of an
\* instance binder, at any depth, the owner before ".to" and the conclusion.
BuildLattice(rows) ==
    LET classes == UNION {r.instances : r \in rows}
    IN [classes |-> classes,
        edges |-> {<<r.owner, r.concl>> :
                     r \in {q \in rows : q.owner \in classes /\ q.concl \in classes
                                         /\ q.owner # q.concl}}]

RECURSIVE Up(_, _)
Up(edges, found) ==
    LET next == found \cup {e[2] : e \in {f \in edges : f[1] \in found}}
    IN IF next = found THEN found ELSE Up(edges, next)

LatticeAncestors(lat, class) ==
    Up(lat.edges, {e[2] : e \in {f \in lat.edges : f[1] = class}}) \ {class}

-----------------------------------------------------------------------------
(* Commits.  Newest first, as git log lists them. *)

RECURSIVE Log2(_)
Log2(n) == IF n < 2 THEN 0 ELSE 1 + Log2(n \div 2)
ChurnBin(n) == Log2(n + 1)

Bin(r) == <<r.leanFiles, ChurnBin(r.churn)>>
Apart(a, b) == IF a < b THEN b - a ELSE a - b
Upto(s, limit) == IF limit = 0 THEN s ELSE SubSeq(s, 1, Min({limit, Len(s)}))

Closest(pool, claim, Distance(_, _)) ==
    CHOOSE r \in pool : \A q \in pool : ~Precedes(Distance(q, claim), Distance(r, claim))

ExactDistance(r, c) == <<Apart(r.time, c.time), r.sha>>
AnyDistance(r, c) ==
    <<Apart(r.leanFiles, c.leanFiles), Apart(ChurnBin(r.churn), ChurnBin(c.churn)),
      Apart(r.time, c.time), r.sha>>

MatchReused(acc, pool, c) ==
    LET same == {r \in pool : Bin(r) = Bin(c)}
    IN [acc EXCEPT
          !.pairs = @ \cup {[claim |-> c.sha, exact |-> same # {},
                             control |-> IF same # {} THEN Closest(same, c, ExactDistance).sha
                                         ELSE Closest(pool, c, AnyDistance).sha]}]

\* Without replacement; nobody is left to take where the pool is used up.
Match(acc, pool, c) ==
    LET left == {r \in pool : \A p \in acc.pairs : p.control # r.sha}
        same == {r \in left : Bin(r) = Bin(c)}
    IN IF left = {} THEN [acc EXCEPT !.failed = TRUE]
       ELSE [acc EXCEPT
          !.pairs = @ \cup {[claim |-> c.sha, exact |-> same # {},
                             control |-> IF same # {} THEN Closest(same, c, ExactDistance).sha
                                         ELSE Closest(left, c, AnyDistance).sha]}]

\* Claims of rare strata first.
MatchedControls(history, claims) ==
    LET pool == {r \in ToSet(history) : ~r.claimed}
        rarity(i) == <<Cardinality({r \in pool : Bin(r) = Bin(claims[i])}), i>>
        ordered == SortedBy(DOMAIN claims, rarity)
    IN FoldLeft(LAMBDA acc, i : Match(acc, pool, claims[i]),
                [pairs |-> {}, failed |-> FALSE], ordered)

Claims(history, limit) == Upto(SelectSeq(history, LAMBDA r : r.claimed), limit)

-----------------------------------------------------------------------------
(* Mining and validation *)

\* The moves of one commit: files that are in both revisions.
CommitMoves(c) ==
    UNION {{m @@ [commit |-> c.sha, parentFile |-> f.old, file |-> f.new] :
              m \in DiffDecls(ParseFile(f.before), ParseFile(f.after))} :
           f \in {g \in c.files : g.status \in {"M", "R"}}}

Mined(commits) ==
    [commits |-> {c.sha : c \in commits}, moves |-> UNION {CommitMoves(c) : c \in commits}]

Primary == {"theorem", "lemma"}

\* Strictly weaker, not merely reachable.
Validated(moves, lat) ==
    {m \in moves : /\ m.from # m.to
                   /\ {m.from, m.to} \subseteq lat.classes
                   /\ m.to \in LatticeAncestors(lat, m.from)
                   /\ m.from \notin LatticeAncestors(lat, m.to)}

\* The carrier arguments are part of an event's identity, its file is not;
\* files are read in their order.
Identity(m) == <<m.commit, m.decl, m.from, m.to, m.args, m.stratum>>
Once(moves) ==
    {m \in moves : \A k \in moves : Identity(k) = Identity(m) => m.file <= k.file}

Events(moves, lat) == {m \in Once(Validated(moves, lat)) : m.kw \in Primary}

\* How pairs of commits differ in whether an event was found.
Enrichment(pairs, claimHits, controlHits) ==
    LET count(c, k) == Cardinality({p \in pairs : (p.claim \in claimHits) = c
                                                  /\ (p.control \in controlHits) = k})
    IN [claimOnly |-> count(TRUE, FALSE), controlOnly |-> count(FALSE, TRUE),
        both |-> count(TRUE, TRUE), neither |-> count(FALSE, FALSE)]

-----------------------------------------------------------------------------
(* Audit samples.  Hashes are injective; the order of hashes is taken to   *)
(* be that of the hashed numbers.                                          *)

AuditKey(m) == <<m.commit, m.from, m.to>> \o m.decl
RecordHash(m) == <<FoldLeft(LAMBDA v, a : 10 * v + a, 0, m.args), m.file>>

\* One representative of each key, then the first n keys.
DeterministicSample(items, n) ==
    LET of(k) == {m \in items : AuditKey(m) = k}
        representatives == {CHOOSE m \in of(k) : m \in FirstBy(of(k), RecordHash, 1) :
                              k \in {AuditKey(m) : m \in items}}
    IN FirstBy(representatives, AuditKey, n)

-----------------------------------------------------------------------------
(* The population of a replay *)

Telescope(d) == [i \in DOMAIN d.own |-> <<"own", d.own[i]>>]
                \o [i \in DOMAIN d.inherited |-> <<"inherited", d.inherited[i]>>]

ArgumentGroups(d) == {Telescope(d)[i][2][2] : i \in DOMAIN Telescope(d)} \ {<<>>}

OwnOnly(s) == SelectSeq(s, LAMBDA b : b[1] = "own")

\* The faulty variant looks at the brackets of the declaration itself.
JudgementOwn(e, before, after, replayed) ==
    LET old == OwnOnly(Telescope(before[1]))
        new == OwnOnly(Telescope(after[1]))
    IN IF e.commit \in replayed THEN "replayed"
       ELSE IF before = <<>> \/ after = <<>> THEN "missing"
       ELSE IF \/ Surplus(old, new) # <<<<"own", <<e.from, e.args>>>>>>
               \/ Surplus(new, old) # <<<<"own", <<e.to, e.args>>>>>>
       THEN "more-changes"
       ELSE IF Cardinality(ArgumentGroups(before[1])) < 2 THEN "one-group"
       ELSE "accepted"

\* Why an event is not taken; accepted where nothing speaks against it.
\* before and after are the declarations, <<>> where there is none.
Judgement(e, before, after, replayed) ==
    LET old == Telescope(before[1])
        new == Telescope(after[1])
    IN IF e.commit \in replayed THEN "replayed"
       ELSE IF before = <<>> \/ after = <<>> THEN "missing"
       ELSE IF \/ Surplus(old, new) # <<<<"own", <<e.from, e.args>>>>>>
               \/ Surplus(new, old) # <<<<"own", <<e.to, e.args>>>>>>
       THEN "more-changes"
       ELSE IF Cardinality(ArgumentGroups(before[1])) < 2 THEN "one-group"
       ELSE "accepted"

\* Commits with a single event, an own one.
Eligible(events) ==
    {e \in events : e.stratum = "own" /\ \A f \in events : f.commit = e.commit => f = e}

=============================================================================
