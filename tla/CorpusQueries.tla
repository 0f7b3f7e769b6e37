--------------------------- MODULE CorpusQueries ---------------------------
(***************************************************************************)
(* scripts/phys-newqueries.py: six exact queries over one slice, in the    *)
(* order in which its main runs them.  A declaration is a record of its    *)
(* name, kind, module (the theory it belongs to), statement (see Terms)  *)
(* and the names its proof cites.  Digests of skeletons are the skeletons, *)
(* byte offsets are paths, what a random sample is drawn from is taken     *)
(* whole, and the head-to-head against `similar` is left out, as are the   *)
(* random nulls of M2, M4 and M6.                                          *)
(***************************************************************************)
EXTENDS Terms, Folds

CONSTANTS Slices,        \* [decls, closure (in percent)]
          Wanted,        \* sets of methods a user may ask for
          MODULUS, BLANKH, Digest,   \* of the masked hash: _MOD, _BLANKH, _SYMH
          MaxBucket,     \* members of a bucket that is still compared pair by pair
          PerConstant, RewriteBudget, MaxNodes,  \* caps of transport_exact
          MinSlots, MaxSlots,   \* constants of a statement that takes part in an injection
          Probes         \* injections of each kind

VARIABLES
    queried,    \* the slice: declarations, injected ones included, and closure
    stage,      \* the method that is next
    want,       \* the methods asked for; skip says whether the self-test is skipped
    skip,
    pairs,      \* M1's pairs: <<i, j, a, b>>
    out         \* what each method reported
queryVars == <<queried, stage, want, skip, pairs, out>>

(***************************************************************************)
(* The constant-blank key                                                  *)
(***************************************************************************)
RECURSIVE Rigid(_)
Rigid(e) ==
    CASE Tag(e) = "c" -> <<"c", "#", e[3]>>
      [] Tag(e) = "j" -> <<"j", "#", e[3], Rigid(e[4])>>
      [] OTHER -> Rebuild(e, [i \in DOMAIN Parts(e) |-> Rigid(Parts(e)[i])])

RECURSIVE Names(_)
Names(e) ==
    (IF Tag(e) \in {"c", "j"} THEN <<e[2]>> ELSE <<>>)
        \o FlattenSeq([i \in DOMAIN Parts(e) |-> Names(Parts(e)[i])])

(* A blank is a byte: a string literal that holds k of them has k slots.   *)
RECURSIVE Slots(_)
Slots(e) ==
    (IF Tag(e) \in {"c", "j"} THEN 1 ELSE IF Tag(e) = "t" THEN e[2] ELSE 0)
        + FoldFunction(+, 0, [i \in DOMAIN Parts(e) |-> Slots(Parts(e)[i])])

RECURSIVE Refill(_, _)
Refill(e, names) ==
    LET before(i) == (IF Tag(e) = "j" THEN 1 ELSE 0)
                     + FoldFunction(+, 0, [k \in 1 .. i - 1 |-> Slots(Parts(e)[k])])
        part(i) == Refill(Parts(e)[i],
                          SubSeq(names, before(i) + 1, before(i) + Slots(Parts(e)[i])))
    IN CASE Tag(e) = "c" -> <<"c", names[1], e[3]>>
         [] Tag(e) = "j" -> <<"j", names[1], e[3], part(1)>>
         [] OTHER -> Rebuild(e, [i \in DOMAIN Parts(e) |-> part(i)])

(* Blanks and names that do not pair up raise an error nothing catches.    *)
Raises == <<"raises">>
Assemble(rigid, names) == IF Slots(rigid) = Len(names) THEN Refill(rigid, names) ELSE Raises

Renamed(names, a, b) == [k \in DOMAIN names |-> IF names[k] = a THEN b ELSE names[k]]
Rewrite(e, a, b) == Assemble(Rigid(e), Renamed(Names(e), a, b))

(***************************************************************************)
(* One-way matching                                                        *)
(***************************************************************************)
LevelParts(l) == Tail(l)
RECURSIVE MatchLevel(_, _)
MatchLevel(p, t) ==
    \/ p = Star
    \/ /\ p[1] = t[1] /\ Len(p) = Len(t)
       /\ IF p[1] = "u" THEN p = t
          ELSE \A i \in DOMAIN LevelParts(p) : MatchLevel(LevelParts(p)[i], LevelParts(t)[i])

SameNode(p, t) ==
    /\ Tag(p) = Tag(t)
    /\ CASE Tag(p) \in {"b", "n", "t"} -> p = t
         [] Tag(p) = "s" -> MatchLevel(p[2], t[2])
         [] Tag(p) = "c" -> /\ p[2] = t[2] /\ Len(p[3]) = Len(t[3])
                            /\ \A i \in DOMAIN p[3] : MatchLevel(p[3][i], t[3][i])
         [] Tag(p) \in {"l", "p"} -> p[4] = t[4]
         [] Tag(p) = "j" -> p[2] = t[2] /\ p[3] = t[3]
         [] OTHER -> TRUE

RECURSIVE Matches(_, _)
Matches(p, t) ==
    \/ p = Hole
    \/ SameNode(p, t) /\ \A i \in DOMAIN Parts(p) : Matches(Parts(p)[i], Parts(t)[i])

(* The place of every subterm, and the statement with one of them punched. *)
RECURSIVE Places(_)
Places(e) == {<<>>} \cup UNION {{<<i>> \o w : w \in Places(Parts(e)[i])} : i \in DOMAIN Parts(e)}
RECURSIVE Punch(_, _)
Punch(e, w) ==
    IF w = <<>> THEN Hole
    ELSE Rebuild(e, [Parts(e) EXCEPT ![w[1]] = Punch(@, Tail(w))])
RECURSIVE Subterm(_, _)
Subterm(e, w) == IF w = <<>> THEN e ELSE Subterm(Parts(e)[w[1]], Tail(w))

(***************************************************************************)
(* The view of a slice                                                     *)
(***************************************************************************)
View(decls) ==
    LET kept == SelectSeq(decls, LAMBDA d : d.stmt # None)
        row(d) == [name |-> d.name, kind |-> d.kind, module |-> d.module, stmt |-> d.stmt,
                   cites |-> d.cites, skel |-> Rigid(d.stmt), consts |-> Names(d.stmt)]
    IN FoldLeft(LAMBDA v, d : Append(v, row(d)), <<>>, kept)

Claims(v) == {i \in DOMAIN v : v[i].kind = "theorem"}
Bucket(v, s) == {i \in Claims(v) : v[i].skel = s}
Buckets(v) == {Bucket(v, v[i].skel) : i \in Claims(v)}
Vocab(v) == FoldLeft(LAMBDA known, x : IF x \in Range(known) THEN known ELSE Append(known, x),
                     <<>>, FlattenSeq([i \in DOMAIN v |-> v[i].consts]))
RowsNamed(v, name) == {i \in DOMAIN v : v[i].name = name}

(* Conclusions that are applications of a class, where a class is what     *)
(* heads the domain of some instance binder.                               *)
RECURSIVE ClassHeads(_)
ClassHeads(e) ==
    IF Tag(e) # "p" THEN {}
    ELSE (IF e[4] = "t" THEN {HeadName(e[2])} ELSE {}) \cup ClassHeads(e[3])
Plumbing(v) ==
    LET classes == UNION {ClassHeads(v[i].stmt) : i \in DOMAIN v} \ {"none"}
    IN {i \in DOMAIN v : HeadName(PiBody(v[i].stmt)) \in classes}

(* Three percentile ranks, ties in the order of the slice; the claims that *)
(* score at least what the claim a quarter down the list scores.           *)
Earlier(x, y, i, k) == x < y \/ (x = y /\ i < k)
Derivative(v) ==
    LET generated == {v[i].name : i \in {k \in DOMAIN v : v[k].kind \in {"constructor", "recursor"}}}
        len(i) == Len(v[i].cites)
        of(i) == IF len(i) = 0 THEN 1 ELSE Len(SelectSeq(v[i].cites, LAMBDA x : x \in generated))
        per(i) == IF len(i) = 0 THEN 1 ELSE len(i)
        degree(i) == FoldSet(LAMBDA k, n : n + Len(SelectSeq(v[k].cites, LAMBDA x : x = v[i].name)),
                             0, Claims(v))
        rank(i) == Cardinality({k \in Claims(v) : Earlier(len(i), len(k), k, i)})
                 + Cardinality({k \in Claims(v) : Earlier(of(k) * per(i), of(i) * per(k), k, i)})
                 + Cardinality({k \in Claims(v) : Earlier(degree(i), degree(k), k, i)})
        above(i) == {k \in Claims(v) : rank(k) > rank(i)}
    IN {i \in Claims(v) : Cardinality(above(i)) <= Cardinality(Claims(v)) \div 4}

(***************************************************************************)
(* M1 and M2: uniform substitutions of one constant for another            *)
(***************************************************************************)
RADIX == 3
Weight(cs, S) ==
    FoldLeftDomain(LAMBDA acc, k : [sum |-> IF cs[k] \in S THEN (acc.sum + acc.w) % MODULUS ELSE acc.sum,
                                    w |-> (acc.w * RADIX) % MODULUS],
                   [sum |-> 0, w |-> 1], cs).sum
BaseKey(cs) == FoldSet(LAMBDA x, base : base + Weight(cs, {x}) * Digest[x], 0, Range(cs))
MaskedKey(cs, x) == (BaseKey(cs) - Weight(cs, {x}) * (Digest[x] - BLANKH)) % MODULUS

(* A shared key may be a collision: the lists themselves are compared.     *)
\* Faulty variant: the rest is left to the hash
ConfirmedPlaces(ci, cj, a, b) == \A k \in DOMAIN ci : ci[k] = a <=> cj[k] = b
Confirmed(ci, cj, a, b) ==
    \A k \in DOMAIN ci : (ci[k] = a <=> cj[k] = b) /\ (ci[k] = a \/ ci[k] = cj[k])

SubstCandidates(v, i, j) ==
    {ab \in Range(v[i].consts) \X Range(v[j].consts) :
        ab[1] # ab[2] /\ MaskedKey(v[i].consts, ab[1]) = MaskedKey(v[j].consts, ab[2])}
SubstPairs(v) ==
    UNION {{<<i, j, ab[1], ab[2]>> : ab \in {ab \in SubstCandidates(v, i, j) :
                                      Confirmed(v[i].consts, v[j].consts, ab[1], ab[2])}} :
           <<i, j>> \in {ij \in Claims(v) \X Claims(v) :
                          ij[1] < ij[2] /\ v[ij[1]].skel = v[ij[2]].skel}}

Diff(v, i, j) == {<<v[i].consts[k], v[j].consts[k]>> : k \in DOMAIN v[i].consts} \ {<<x, x>> : x \in Range(v[i].consts)}

(* The distances within the buckets that are not too large.                *)
EditDistances(v) ==
    UNION {{[i |-> ij[1], j |-> ij[2], subs |-> Cardinality(Diff(v, ij[1], ij[2]))] :
            ij \in {ij \in ids \X ids : ij[1] < ij[2]}} :
           ids \in {ids \in Buckets(v) : Cardinality(ids) <= MaxBucket}}

(* A substitution is witnessed by skeletons, not by pairs, and either way. *)
Witnessed(v, ps) ==
    LET keys == {{p[3], p[4]} : p \in ps}
    IN [k \in keys |-> {v[p[1]].skel : p \in {p \in ps : {p[3], p[4]} = k}}]
Inventory(v, ps, least) ==
    LET w == Witnessed(v, ps) IN {k \in DOMAIN w : Cardinality(w[k]) >= least}

Variants(v, ps) == [pairs |-> ps, distances |-> EditDistances(v), witnesses |-> Witnessed(v, ps)]

Theories(v) == {v[i].module : i \in Claims(v)}
Within(v, ps, side) == {p \in ps : v[p[1]].module \in side /\ v[p[2]].module \in side}
(* What half of the theories teaches, held against the other half.         *)
Substitutions(v, ps, side) ==
    LET test == Within(v, ps, Theories(v) \ side)
        key(p) == {p[3], p[4]}
    IN [least \in 1 .. 3 |->
          LET known == Inventory(v, Within(v, ps, side), least)
          IN [inventory |-> known,
              distinct |-> {key(p) : p \in test} \cap known,
              found |-> {p \in test : key(p) \in known}]]

(***************************************************************************)
(* M6: a substitution applied to a statement, and the result looked up     *)
(***************************************************************************)
FirstWith(v, stmt) == {i \in DOMAIN v : v[i].stmt = stmt /\ \A k \in 1 .. i - 1 : v[k].stmt # stmt}

FirstN(s, n) == SubSeq(s, 1, IF Len(s) < n THEN Len(s) ELSE n)
Holding(v, x) ==
    FirstN(SelectSeq([i \in DOMAIN v |-> i],
                   LAMBDA i : i \in Claims(v) /\ x \in Range(v[i].consts)), PerConstant)
Subjects(v, src, dst) ==
    LET ids == SelectSeq(Holding(v, src), LAMBDA i : NodeCount(v[i].stmt) <= MaxNodes)
    IN FoldLeft(LAMBDA tasks, i : Append(tasks, <<i, src, dst>>), <<>>, ids)
Attempts(v, keys) ==
    LET both(ab) == Subjects(v, ab[1], ab[2]) \o Subjects(v, ab[2], ab[1])
    IN FirstN(FoldLeft(LAMBDA tasks, ab : tasks \o both(ab), <<>>, keys), RewriteBudget)

(* Constants connected by substitutions, merged as they are met.           *)
Components(keys) ==
    LET own(blocks, x) == UNION ({{x}} \cup {B \in blocks : x \in B})
        merge(blocks, ab) ==
            LET joined == own(blocks, ab[1]) \cup own(blocks, ab[2])
            IN {B \in blocks : B \cap joined = {}} \cup {joined}
    IN FoldLeft(merge, {}, keys)

TransportExact(v, keys) ==
    LET tried == Attempts(v, keys)
        image(t) == Rewrite(v[t[1]].stmt, t[2], t[3])
        got(t) == {v[k].name : k \in FirstWith(v, image(t))}
        opens == {t \in Range(tried) : got(t) = {}}
    IN [tried |-> Range(tried),
        raised |-> \E t \in Range(tried) : image(t) = Raises,
        hits |-> {t \in Range(tried) : got(t) \notin {{}, {v[t[1]].name}}},
        opens |-> opens,
        substantive |-> {t \in opens : t[1] \notin Derivative(v) \cup Plumbing(v)},
        components |-> Components(keys)]

(***************************************************************************)
(* M4: proofs with the same multiset of cited skeletons                    *)
(***************************************************************************)
KeyOf(v, name) ==
    IF RowsNamed(v, name) = {} THEN <<"?", name>> ELSE v[CHOOSE i \in RowsNamed(v, name) : TRUE].skel
\* Faulty variant: the set of cited skeletons
ProofShapeSet(v, i) == {KeyOf(v, x) : x \in Range(v[i].cites)}
ProofShape(v, i) ==
    LET keys == [k \in DOMAIN v[i].cites |-> KeyOf(v, v[i].cites[k])]
    IN [x \in Range(keys) |-> Cardinality({k \in DOMAIN keys : keys[k] = x})]
Families(v, ids) ==
    LET proved == {i \in ids : Len(v[i].cites) >= 2}
        shape == [i \in proved |-> ProofShape(v, i)]
    IN {F \in {{k \in proved : shape[k] = shape[i]} : i \in proved} : Cardinality(F) > 1}
ProofShapes(v) ==
    LET novel(fams) == {F \in fams : Cardinality({v[i].skel : i \in F}) > 1}
        report(ids) == [families |-> Families(v, ids), novel |-> novel(Families(v, ids))]
    IN [all |-> report(Claims(v)), substantive |-> report(Claims(v) \ Derivative(v))]

(***************************************************************************)
(* M5: retrieval by hole.  Equivalence and skeletons are the slice         *)
(* engine's.                                                               *)
(***************************************************************************)
SignaturesOf(v) ==
    LET names == {v[i].name : i \in DOMAIN v}
    IN Signatures([x \in names |-> v[CHOOSE i \in RowsNamed(v, x) : TRUE].stmt])
Proposition(d) == d.kind = "theorem" \/ PiBody(d.stmt) = <<"s", Zero_>>
Normal(v, sigs, level) == [i \in DOMAIN v |-> Erase(sigs, v[i].stmt, level)]
Equivalent(v, normal, i) == {j \in DOMAIN v \ {i} : Proposition(v[j]) /\ normal[j] = normal[i]}

Monotone(v) == \A i \in Claims(v) : \A w \in Places(v[i].stmt) : Matches(Punch(v[i].stmt, w), v[i].stmt)
HoleFree(v) ==
    \A ids \in Buckets(v) : \A i, j \in ids :
        Matches(v[i].stmt, v[j].stmt) <=> v[i].stmt = v[j].stmt
FalseNegatives(v, carriers, presentation) ==
    {ij \in Claims(v) \X DOMAIN v :
        /\ Equivalent(v, carriers, ij[1]) # {}
        /\ ij[2] = ij[1] \/ ij[2] \in Equivalent(v, carriers, ij[1])
        /\ ~Matches(carriers[ij[1]], presentation[ij[2]])}
(* A slot filled with a constant that nothing in the slice holds.          *)
Bogus(v, i) == Assemble(v[i].skel, <<"__no_such_constant__">> \o Tail(v[i].consts))
BogusHits(v) ==
    {ik \in Claims(v) \X Claims(v) :
        Len(v[ik[1]].consts) >= MinSlots /\ Matches(Bogus(v, ik[1]), v[ik[2]].stmt)}
(* How many claims a pattern retrieves with none, one and two holes more.  *)
Apart(w, u) == ~IsPrefix(w, u) /\ ~IsPrefix(u, w)
Curves(v, carriers, presentation) ==
    LET hits(p) == Cardinality({k \in Claims(v) : Matches(p, presentation[k])})
        concrete(i) == {w \in Places(carriers[i]) \ {<<>>} : Subterm(carriers[i], w) # Hole}
    IN UNION {{<<hits(carriers[i]), hits(Punch(carriers[i], wu[1])),
                 hits(Punch(Punch(carriers[i], wu[1]), wu[2]))>> :
               wu \in {wu \in concrete(i) \X concrete(i) : Apart(wu[1], wu[2])}} :
              i \in {i \in Claims(v) : Equivalent(v, carriers, i) # {}}}
HoleQuery(v, carriers, presentation) ==
    [monotone |-> Monotone(v), exact |-> HoleFree(v),
     missed |-> FalseNegatives(v, carriers, presentation),
     raised |-> \E i \in Claims(v) : Bogus(v, i) = Raises,
     bogus |-> BogusHits(v), curves |-> Curves(v, carriers, presentation)]

(***************************************************************************)
(* M3: what sits just outside an equivalence class                         *)
(***************************************************************************)
ClassesAt(v, normal) ==
    {K \in {{k \in Claims(v) : normal[k] = normal[i]} : i \in Claims(v)} : Cardinality(K) > 1}
TierOne(v, K) ==
    UNION {{[member |-> m, outside |-> k, subs |-> Diff(v, m, k)] :
            k \in Bucket(v, v[m].skel) \ K} : m \in K}
TierTwo(v, coarse, K) == UNION {C \in ClassesAt(v, coarse) : C \cap K # {}} \ K
Adjacent(v, fine, coarse) ==
    {[class |-> K, tier1 |-> TierOne(v, K), tier2 |-> TierTwo(v, coarse, K)] :
     K \in ClassesAt(v, fine)}

(* Near misses that are planted: a substitution nothing witnesses yet, and *)
(* the vocabulary of one claim in the skeleton of another.                 *)
Injectable(v) == {i \in Claims(v) : Len(v[i].consts) \in MinSlots .. MaxSlots}
Positives(v, ps) ==
    LET unseen(a, b) == a # b /\ \A p \in ps : {p[3], p[4]} # {a, b}
    IN {t \in {<<i, a, b>> : i \in Injectable(v), a \in Range(Vocab(v)), b \in Range(Vocab(v))} :
            t[2] \in Range(v[t[1]].consts) /\ unseen(t[2], t[3])}
Negatives(v) ==
    {ij \in Injectable(v) \X Claims(v) :
        v[ij[1]].skel # v[ij[2]].skel /\ Len(v[ij[1]].consts) = Len(v[ij[2]].consts)}

Injected(v, rows) ==
    v \o View([k \in DOMAIN rows |-> [name |-> "__inj", kind |-> "theorem",
                                      module |-> "Injected.Control", stmt |-> rows[k], cites |-> <<>>]])
(* What the query returns for a declaration of those planted after the nth.*)
Returned(v, i, n) == {k \in Bucket(v, v[i].skel) \ {i} : k > n}

(***************************************************************************)
(* The run                                                                 *)
(***************************************************************************)
QueryInit ==
    /\ queried \in {[decls |-> View(s.decls), closure |-> s.closure] : s \in Slices}
    /\ want \in Wanted /\ skip \in BOOLEAN
    /\ stage = "selftest" /\ pairs = {} /\ out = <<>>

v == queried.decls
Closed == queried.closure >= 95
Methods == IF Closed THEN want ELSE want \ {"m3", "m5"}
Report(m, r) == out' = out @@ (m :> r)

SelfTest ==
    /\ stage = "selftest"
    /\ LET again == [i \in DOMAIN v |-> Assemble(v[i].skel, v[i].consts)]
       IN stage' = CASE skip -> "m1"
                     [] ~skip /\ Raises \in Range(again) -> "raised"
                     [] ~skip /\ \A i \in DOMAIN v : again[i] = v[i].stmt -> "m1"
                     [] OTHER -> "aborted"
    /\ UNCHANGED <<queried, want, skip, pairs, out>>

(* The pairs are computed for whatever method needs them.                  *)
RunVariants ==
    /\ stage = "m1" /\ stage' = "m2"
    /\ \E ps \in {IF Methods \cap {"m1", "m2", "m3", "m6"} = {} THEN {} ELSE SubstPairs(v)} :
         /\ pairs' = ps
         /\ IF "m1" \in Methods THEN Report("m1", Variants(v, ps)) ELSE out' = out
    /\ UNCHANGED <<queried, want, skip>>

RunSubstitutions ==
    /\ stage = "m2" /\ stage' = "m6"
    /\ IF "m2" \notin Methods THEN out' = out
       ELSE \E side \in kSubset((Cardinality(Theories(v)) + 1) \div 2, Theories(v)) :
              Report("m2", [side |-> side, sweep |-> Substitutions(v, pairs, side)])
    /\ UNCHANGED <<queried, want, skip, pairs>>

Oriented(k) == CHOOSE ab \in SetToSeqs(k) : TRUE
RunTransport ==
    /\ stage = "m6"
    /\ IF "m6" \notin Methods THEN stage' = "m4" /\ out' = out
       ELSE \E keys \in SetToSeqs({Oriented(k) : k \in Inventory(v, pairs, 2)}) :
            \E r \in {TransportExact(v, keys)} :
              IF r.raised THEN stage' = "raised" /\ out' = out
              ELSE stage' = "m4" /\ Report("m6", r)
    /\ UNCHANGED <<queried, want, skip, pairs>>

RunProofShapes ==
    /\ stage = "m4" /\ stage' = "m5"
    /\ IF "m4" \in Methods THEN Report("m4", ProofShapes(v)) ELSE out' = out
    /\ UNCHANGED <<queried, want, skip, pairs>>

RunHoles ==
    /\ stage = "m5"
    /\ IF "m5" \notin Methods THEN stage' = "m3" /\ out' = out
       ELSE \E sigs \in {SignaturesOf(v)} :
            \E r \in {HoleQuery(v, Normal(v, sigs, CARRIERS), Normal(v, sigs, PRESENTATION))} :
              IF r.raised THEN stage' = "raised" /\ out' = out
              ELSE stage' = "m3" /\ Report("m5", r)
    /\ UNCHANGED <<queried, want, skip, pairs>>

RunAdjacent ==
    /\ stage = "m3"
    /\ IF "m3" \notin Methods THEN stage' = "done" /\ out' = out
       ELSE /\ stage' = "plant"
            /\ \E sigs \in {SignaturesOf(v)} :
                 Report("m3", Adjacent(v, Normal(v, sigs, INSTANCES), Normal(v, sigs, CARRIERS)))
    /\ UNCHANGED <<queried, want, skip, pairs>>

(* It comes last, since the rows it plants stay in the view.  A skeleton    *)
(* that does not take the names is no negative: its claim is passed over.   *)
Poured(t) == Assemble(v[t[2]].skel, v[t[1]].consts)
Chosen(S, passed) ==
    LET claims == {t[1] : t \in S}
        sizes == 0 .. (IF Cardinality(claims) < Probes THEN Cardinality(claims) ELSE Probes)
        one(c, Ts) == {T \cup {t} : T \in Ts, t \in {t \in S : t[1] = c}}
        enough == {C \in UNION {kSubset(k, claims) : k \in sizes} :
                      Cardinality(C) = Probes \/ claims \ C \subseteq passed}
    IN UNION {FoldSet(one, {{}}, C) : C \in enough}
ChosenNegatives ==
    LET refused == {t \in Negatives(v) : Poured(t) = Raises}
    IN Chosen(Negatives(v) \ refused, {t[1] : t \in refused})
Plant ==
    /\ stage = "plant"
    /\ \E P \in Chosen(Positives(v, pairs), {}), N \in ChosenNegatives :
       \E pos \in {SetToSeq(P)}, neg \in {SetToSeq(N)} :
         LET near == [k \in DOMAIN pos |-> Rewrite(v[pos[k][1]].stmt, pos[k][2], pos[k][3])]
             far == [k \in DOMAIN neg |-> Poured(neg[k])]
         IN IF Raises \in Range(near)
            THEN stage' = "raised" /\ UNCHANGED <<queried, out>>
            ELSE \E w1 \in {Injected(v, near)} : \E w2 \in {Injected(w1, far)} :
                  /\ stage' = "done"
                  /\ queried' = [queried EXCEPT !.decls = w2]
                  /\ Report("planted",
                        [before |-> Len(v), positives |-> pos, negatives |-> neg,
                         found |-> {k \in DOMAIN pos : Returned(w1, pos[k][1], Len(v)) # {}},
                         exact |-> {k \in DOMAIN pos : \E r \in Returned(w1, pos[k][1], Len(v)) :
                                        Diff(w1, pos[k][1], r) = {<<pos[k][2], pos[k][3]>>}},
                         returned |-> {k \in DOMAIN neg : Returned(w2, neg[k][1], Len(w1)) # {}}])
    /\ UNCHANGED <<want, skip, pairs>>

QueryNext ==
    \/ SelfTest \/ RunVariants \/ RunSubstitutions \/ RunTransport
    \/ RunProofShapes \/ RunHoles \/ RunAdjacent \/ Plant

(***************************************************************************)
(* Properties                                                              *)
(***************************************************************************)
RECURSIVE Substituted(_, _, _)
Substituted(e, a, b) ==
    LET name(x) == IF x = a THEN b ELSE x
        part(i) == Substituted(Parts(e)[i], a, b)
    IN CASE Tag(e) = "c" -> <<"c", name(e[2]), e[3]>>
         [] Tag(e) = "j" -> <<"j", name(e[2]), e[3], part(1)>>
         [] OTHER -> Rebuild(e, [i \in DOMAIN Parts(e) |-> part(i)])

(* Two claims are a pair when renaming one constant turns the one into the *)
(* other and renaming it back undoes that.                                 *)
IsPair(w, i, j, a, b) ==
    /\ w[i].stmt # w[j].stmt
    /\ Substituted(w[i].stmt, a, b) = w[j].stmt
    /\ Substituted(w[j].stmt, b, a) = w[i].stmt
PairsExact ==
    stage = "m2" /\ "m1" \in DOMAIN out =>
        LET at(i, j) == {ab \in Range(v[i].consts) \X Range(v[j].consts) : IsPair(v, i, j, ab[1], ab[2])}
        IN \A i, j \in Claims(v) : i < j =>
             /\ {<<p[3], p[4]>> : p \in {p \in pairs : p[1] = i /\ p[2] = j}} = at(i, j)
             /\ \A d \in out["m1"].distances : d.i = i /\ d.j = j =>
                    /\ at(i, j) # {} => d.subs = 1
                    /\ d.subs = 0 <=> v[i].stmt = v[j].stmt

(* What is counted as transferred was learned from other theories.         *)
TransferHeldOut ==
    stage = "m6" /\ "m2" \in DOMAIN out =>
        \A least \in 1 .. 3 : \A p \in out["m2"].sweep[least].found :
            Cardinality({v[q[1]].skel : q \in {q \in pairs : {q[3], q[4]} = {p[3], p[4]} /\
                {v[q[1]].module, v[q[2]].module} \cap {v[p[1]].module, v[p[2]].module} = {}}}) >= least

(* A rewrite is found again exactly when the slice states its image; what  *)
(* M1 paired by lists of constants, transport reaches by rewriting.        *)
TransportRealised ==
    stage = "m4" /\ "m6" \in DOMAIN out =>
        LET r == out["m6"]
            keys == {k \in {{t[2], t[3]} : t \in r.tried} : TRUE}
        IN /\ \A t \in r.tried :
                LET stated == {k \in DOMAIN v : v[k].stmt = Substituted(v[t[1]].stmt, t[2], t[3])}
                IN (t \in r.hits <=> stated # {}) /\ (t \in r.opens <=> stated = {})
           /\ \A p \in pairs : {<<p[1], p[3], p[4]>>, <<p[2], p[4], p[3]>>} \cap r.tried \subseteq r.hits
           /\ \A B \in r.components : \A k \in keys : k \cap B # {} => k \subseteq B
           /\ \A B \in r.components : \A D \in SUBSET B \ {{}, B} :
                \E k \in Inventory(v, pairs, 2) : k \cap D # {} /\ ~(k \subseteq D)

(* Byte-level keys, hashes and rewrites agree with renaming in the tree.   *)
EditsExact == PairsExact /\ TransferHeldOut /\ TransportRealised

(* Two proofs are of a family when their citations can be paired off so    *)
(* that paired lemmas have the same skeleton, or are the same unknown name.*)
SameProof(w, i, k) ==
    \E f \in Bijection(DOMAIN w[i].cites, DOMAIN w[k].cites) :
        \A c \in DOMAIN f : KeyOf(w, w[i].cites[c]) = KeyOf(w, w[k].cites[f[c]])
FamiliesExact ==
    stage = "m5" /\ "m4" \in DOMAIN out =>
        LET proved == {i \in Claims(v) : Len(v[i].cites) >= 2}
        IN \A i, k \in proved : i # k =>
            (SameProof(v, i, k) <=> \E F \in out["m4"].all.families : {i, k} \subseteq F)

(* Every pattern that can be had from a statement by punching holes.       *)
RECURSIVE Patterns(_)
Patterns(e) ==
    {Hole} \cup
    LET n == Len(Parts(e))
    IN CASE n = 0 -> {e}
         [] n = 1 -> {Rebuild(e, <<x>>) : x \in Patterns(Parts(e)[1])}
         [] n = 2 -> {Rebuild(e, <<x, y>>) : x \in Patterns(Parts(e)[1]), y \in Patterns(Parts(e)[2])}
         [] OTHER -> {Rebuild(e, <<x, y, z>>) : x \in Patterns(Parts(e)[1]),
                        y \in Patterns(Parts(e)[2]), z \in Patterns(Parts(e)[3])}
HolesExact ==
    stage = "m3" /\ "m5" \in DOMAIN out =>
        LET r == out["m5"]
        IN /\ r.monotone /\ r.exact /\ r.missed = {} /\ r.bogus = {}
           /\ \A c \in r.curves : c[1] <= c[2] /\ c[2] <= c[3]

(* An equivalence class lies in one class of the coarser level; a planted  *)
(* near miss is returned with its edit, and a claim's vocabulary in another*)
(* skeleton is returned only where someone else's has its skeleton.        *)
AdjacencyExact ==
    /\ stage = "plant" =>
         \A r \in out["m3"] : \A t \in r.tier1 :
            /\ t.outside \notin r.class
            /\ t.subs # {} => v[t.member].stmt # v[t.outside].stmt
    /\ "planted" \in DOMAIN out =>
         LET r == out["planted"]
             own(k) == Len(v) - Len(r.negatives) + k
         IN /\ r.exact = DOMAIN r.positives /\ r.found = DOMAIN r.positives
            /\ \A k \in r.returned :
                 \E o \in DOMAIN r.negatives \ {k} : v[own(o)].skel = v[r.negatives[k][1]].skel

\* A statement that cannot be refilled stops a run at the self-test, unless that is skipped.
SelfTestGates == stage = "raised" /\ out # <<>> => skip

RetrievalExact == FamiliesExact /\ HolesExact /\ AdjacencyExact /\ SelfTestGates
=============================================================================
