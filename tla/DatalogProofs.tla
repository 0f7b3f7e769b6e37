----------------------------- MODULE DatalogProofs -----------------------------
(***************************************************************************)
(* Proofs about Datalog, for every task.                                   *)
(*                                                                         *)
(* The two evaluators match bodies literal by literal, over rows that      *)
(* change from job to job.  A trace is one way through a body: a state for *)
(* each literal, each matched from the one before it.  What an evaluator   *)
(* finds are ends of traces, and what it misses is a trace as well, so     *)
(* that it is exact becomes a statement about single traces.               *)
(***************************************************************************)
EXTENDS Datalog, FiniteSetTheorems, TLAPS

\* Strength orders the four warrants.
LEMMA StrengthType == \A w \in FactWarrant : Strength[w] \in Int
BY DEF FactWarrant, Strength

\* Strongest is the join of any set of warrants, empty or infinite.
LEMMA StrongestIsJoin ==
    ASSUME NEW ws \in SUBSET FactWarrant
    PROVE  /\ Strongest(ws) \in ws \cup {"Heuristic"}
           /\ \A v \in ws : ~IsStrongerThan(v, Strongest(ws))
<1> DEFINE Top(w) == \A v \in ws \cup {"Heuristic"} : ~IsStrongerThan(v, w)
<1>1. \E w \in ws \cup {"Heuristic"} : Top(w)
  <2>1. CASE "Proved" \in ws
    <3>1. Top("Proved")
      BY DEF IsStrongerThan, FactWarrant, Strength
    <3> QED BY <2>1, <3>1
  <2>2. CASE "Proved" \notin ws /\ "Structural" \in ws
    <3>1. Top("Structural")
      BY <2>2 DEF IsStrongerThan, FactWarrant, Strength
    <3> QED BY <2>2, <3>1
  <2>3. CASE ws \subseteq {"Asserted", "Heuristic"} /\ "Asserted" \in ws
    <3>1. Top("Asserted")
      BY <2>3 DEF IsStrongerThan, FactWarrant, Strength
    <3> QED BY <2>3, <3>1
  <2>4. CASE ws \subseteq {"Heuristic"}
    <3>1. Top("Heuristic")
      BY <2>4 DEF IsStrongerThan, FactWarrant, Strength
    <3> QED BY <3>1
  <2> QED BY <2>1, <2>2, <2>3, <2>4 DEF FactWarrant
<1>2. Strongest(ws) = CHOOSE w \in ws \cup {"Heuristic"} : Top(w)
  BY DEF Strongest
<1> HIDE DEF Top
<1>3. Strongest(ws) \in ws \cup {"Heuristic"} /\ Top(Strongest(ws))
  BY <1>1, <1>2
<1> QED BY <1>3 DEF Top

\* A least natural number, from well-foundedness.
LEMMA LeastNumber ==
    ASSUME NEW T \in SUBSET Nat, T # {}
    PROVE  \E n \in T : \A m \in T : n <= m
<1> DEFINE R == OpToRel(<, Nat)
<1>1. \A a, b \in Nat : a < b => <<a, b>> \in R
  BY DEF OpToRel
<1>2. IsWellFoundedOn(R, Nat)
  BY NatLessThanWellFounded
<1> HIDE DEF R
<1>3. PICK n \in T : \A m \in T : ~(<<m, n>> \in R)
  BY <1>2, WFMin
<1>4. ASSUME NEW m \in T PROVE n <= m
  <2>1. ~(m < n)
    BY <1>1, <1>3
  <2> QED BY <2>1
<1> QED BY <1>4

-----------------------------------------------------------------------------
(* Matching *)

\* What matching reads of a row.
Same(f, g) == g.id = f.id /\ g.relation = f.relation /\ g.args = f.args

\* Each row of a relation among rows is one among others as well.
Within(r, rows, others) ==
    \A f \in RowsOf(r, rows) : \E g \in RowsOf(r, others) : Same(f, g)

LEMMA WithinSelf ==
    ASSUME NEW r, NEW rows, NEW others, rows \subseteq others
    PROVE  Within(r, rows, others)
BY DEF Within, Same, RowsOf

LEMMA MatchCases ==
    ASSUME NEW l, NEW found, NEW p, NEW n
    PROVE  /\ l.kind = "Pos" => Match(found, l, p, n) = MatchPos(found, l, p)
           /\ l.kind = "Neg" => Match(found, l, p, n) = MatchNeg(found, l, n)
           /\ l.kind = "Eq" => Match(found, l, p, n) = MatchEq(found, l)
BY DEF Match

LEMMA LiteralKinds == \A l \in Literals : l.kind \in {"Pos", "Neg", "Eq"}
BY DEF Literals

\* A state matched by a positive literal.
LEMMA MatchPosRow ==
    ASSUME NEW found, NEW l, NEW p, NEW t
    PROVE  t \in MatchPos(found, l, p)
             <=> \E s \in found : \E f \in RowsOf(l.relation, p) :
                   /\ Binds(l.terms, f.args, s.bindings)
                   /\ t = [bindings |-> BindAtom(l.terms, f.args, s.bindings),
                           support |-> Append(s.support, f.id)]
<1> DEFINE R == RowsOf(l.relation, p)
           Holds(s, f) == Binds(l.terms, f.args, s.bindings)
           End(s, f) == [bindings |-> BindAtom(l.terms, f.args, s.bindings),
                         support |-> Append(s.support, f.id)]
<1>1. MatchPos(found, l, p) = {End(m[1], m[2]) : m \in {n \in found \X R : Holds(n[1], n[2])}}
  BY DEF MatchPos
<1> HIDE DEF R, Holds, End
<1>2. ASSUME t \in MatchPos(found, l, p)
      PROVE  \E s \in found : \E f \in R : Holds(s, f) /\ t = End(s, f)
  <2>1. PICK m \in {n \in found \X R : Holds(n[1], n[2])} : t = End(m[1], m[2])
    BY <1>1, <1>2
  <2>2. m[1] \in found /\ m[2] \in R /\ Holds(m[1], m[2])
    BY <2>1
  <2> QED BY <2>1, <2>2
<1>3. ASSUME NEW s \in found, NEW f \in R, Holds(s, f), t = End(s, f)
      PROVE  t \in MatchPos(found, l, p)
  <2>1. <<s, f>> \in {n \in found \X R : Holds(n[1], n[2])}
    BY <1>3
  <2>2. \E m \in {n \in found \X R : Holds(n[1], n[2])} : t = End(m[1], m[2])
    <3> WITNESS <<s, f>> \in {n \in found \X R : Holds(n[1], n[2])}
    <3> QED BY <1>3
  <2> QED BY <1>1, <2>2
<1>4. t \in MatchPos(found, l, p)
        <=> \E s \in found : \E f \in R : Holds(s, f) /\ t = End(s, f)
  BY <1>2, <1>3
<1> QED BY <1>4 DEF R, Holds, End

\* A state matched by an equation.
LEMMA MatchEqState ==
    ASSUME NEW l, NEW found, NEW t
    PROVE  t \in MatchEq(found, l) <=> \E s \in found : t \in MatchEq({s}, l)
<1> DEFINE L(s) == EvalTerm(l.left, s.bindings)
           R(s) == EvalTerm(l.right, s.bindings)
           Bound(s, v, value) ==
               [s EXCEPT !.bindings =
                   [w \in DOMAIN @ \cup {v} |-> IF w = v THEN value ELSE @[w]]]
           Holds(s) == L(s) = R(s) /\ (L(s) = None => l.left = l.right)
           Lefts(s) == L(s) = None /\ R(s) # None
           Rights(s) == L(s) # None /\ R(s) = None
           BoundLeft(s) == Bound(s, l.left, R(s))
           BoundRight(s) == Bound(s, l.right, L(s))
<1>1. \A ss : MatchEq(ss, l) =
             {s \in ss : Holds(s)} \cup {BoundLeft(s) : s \in {u \in ss : Lefts(u)}}
                                \cup {BoundRight(s) : s \in {u \in ss : Rights(u)}}
  BY DEF MatchEq
<1> HIDE DEF Holds, Lefts, Rights, BoundLeft, BoundRight
<1>2. \A ss : t \in MatchEq(ss, l) <=>
             \E s \in ss :
                \/ Holds(s) /\ t = s
                \/ Lefts(s) /\ t = BoundLeft(s)
                \/ Rights(s) /\ t = BoundRight(s)
  BY <1>1
<1> QED BY <1>2

\* A state t follows from s by a literal.
Follows(s, t, l, positive, negative) == t \in Match({s}, l, positive, negative)

\* Matching goes state by state.
LEMMA MatchSingle ==
    ASSUME NEW found, NEW l \in Literals, NEW p, NEW n, NEW t
    PROVE  t \in Match(found, l, p, n) <=> \E s \in found : Follows(s, t, l, p, n)
<1>1. CASE l.kind = "Pos"
  <2>1. t \in MatchPos(found, l, p) <=> \E s \in found : t \in MatchPos({s}, l, p)
    <3> DEFINE Row(s) == \E f \in RowsOf(l.relation, p) :
                   /\ Binds(l.terms, f.args, s.bindings)
                   /\ t = [bindings |-> BindAtom(l.terms, f.args, s.bindings),
                           support |-> Append(s.support, f.id)]
    <3>1. \A ss : t \in MatchPos(ss, l, p) <=> \E s \in ss : Row(s)
      BY MatchPosRow
    <3> HIDE DEF Row
    <3> QED BY <3>1
  <2>2. \A s : Match({s}, l, p, n) = MatchPos({s}, l, p)
    BY <1>1, MatchCases
  <2>3. Match(found, l, p, n) = MatchPos(found, l, p)
    BY <1>1, MatchCases
  <2> QED BY <2>1, <2>2, <2>3 DEF Follows
<1>2. CASE l.kind = "Neg"
  <2>1. t \in MatchNeg(found, l, n) <=> \E s \in found : t \in MatchNeg({s}, l, n)
    BY DEF MatchNeg
  <2>2. \A s : Match({s}, l, p, n) = MatchNeg({s}, l, n)
    BY <1>2, MatchCases
  <2>3. Match(found, l, p, n) = MatchNeg(found, l, n)
    BY <1>2, MatchCases
  <2> QED BY <2>1, <2>2, <2>3 DEF Follows
<1>3. CASE l.kind = "Eq"
  <2>1. t \in MatchEq(found, l) <=> \E s \in found : t \in MatchEq({s}, l)
    BY MatchEqState
  <2>2. \A s : Match({s}, l, p, n) = MatchEq({s}, l)
    BY <1>3, MatchCases
  <2>3. Match(found, l, p, n) = MatchEq(found, l)
    BY <1>3, MatchCases
  <2> QED BY <2>1, <2>2, <2>3 DEF Follows
<1> QED BY <1>1, <1>2, <1>3, LiteralKinds

\* More rows to match and fewer to deny yield no fewer states.
LEMMA MatchMonotone ==
    ASSUME NEW s, NEW l \in Literals, NEW p, NEW q, NEW n, NEW o,
           l.kind = "Pos" => Within(l.relation, p, q),
           l.kind = "Neg" => Within(l.relation, o, n),
           NEW t, Follows(s, t, l, p, n)
    PROVE  Follows(s, t, l, q, o)
<1>1. CASE l.kind = "Pos"
  <2>1. t \in MatchPos({s}, l, p)
    BY <1>1, MatchCases DEF Follows
  <2>2. PICK f \in RowsOf(l.relation, p) :
               /\ Binds(l.terms, f.args, s.bindings)
               /\ t = [bindings |-> BindAtom(l.terms, f.args, s.bindings),
                       support |-> Append(s.support, f.id)]
    BY <2>1, MatchPosRow
  <2>3. PICK g \in RowsOf(l.relation, q) : Same(f, g)
    BY <1>1 DEF Within
  <2>4. t \in MatchPos({s}, l, q)
    BY <2>2, <2>3, MatchPosRow DEF Same
  <2> QED BY <1>1, <2>4, MatchCases DEF Follows
<1>2. CASE l.kind = "Neg"
  <2>1. t = s /\ \A f \in RowsOf(l.relation, n) : ~Binds(l.terms, f.args, s.bindings)
    BY <1>2, MatchCases DEF MatchNeg, Follows
  <2>2. \A f \in RowsOf(l.relation, o) : ~Binds(l.terms, f.args, s.bindings)
    BY <1>2, <2>1 DEF Within, Same
  <2> QED BY <1>2, <2>1, <2>2, MatchCases DEF MatchNeg, Follows
<1>3. CASE l.kind = "Eq"
  BY <1>3, MatchCases DEF Follows
<1> QED BY <1>1, <1>2, <1>3, LiteralKinds

\* The rows that match a positive literal are of one part or of the other.
LEMMA MatchSplit ==
    ASSUME NEW s, NEW l, l.kind = "Pos", NEW p, NEW q, NEW r, NEW n,
           \A f \in p : (\E g \in q : Same(f, g)) \/ (\E g \in r : Same(f, g)),
           NEW t, Follows(s, t, l, p, n)
    PROVE  Follows(s, t, l, q, n) \/ Follows(s, t, l, r, n)
<1>1. PICK f \in RowsOf(l.relation, p) :
             /\ Binds(l.terms, f.args, s.bindings)
             /\ t = [bindings |-> BindAtom(l.terms, f.args, s.bindings),
                     support |-> Append(s.support, f.id)]
  <2>1. t \in MatchPos({s}, l, p)
    BY MatchCases DEF Follows
  <2> QED BY <2>1, MatchPosRow
<1>2. ASSUME NEW rows, NEW g \in rows, Same(f, g) PROVE Follows(s, t, l, rows, n)
  <2>1. g \in RowsOf(l.relation, rows)
    BY <1>2 DEF Same, RowsOf
  <2>2. t \in MatchPos({s}, l, rows)
    BY <1>1, <1>2, <2>1, MatchPosRow DEF Same
  <2> QED BY <2>2, MatchCases DEF Follows
<1> QED BY <1>2 DEF RowsOf

-----------------------------------------------------------------------------
(* Traces *)

Start == [bindings |-> <<>>, support |-> <<>>]

\* The state, or the literal, at a place.
At(seq, i) == seq[i]

\* The first n literals of a body, matched one after another: the one at
\* place "at" among the last rows, the others among rows.
Trace(m, n, body, at, last, rows, denied) ==
    /\ At(m, 0) = Start
    /\ \A i \in 1 .. n :
         Follows(At(m, i - 1), At(m, i), At(body, i), IF i = at THEN last ELSE rows, denied)

\* A trace goes on with each state that matches the next literal.
LEMMA TraceExtends ==
    ASSUME NEW n \in Nat, NEW j \in Nat, NEW at,
           NEW m, NEW body, NEW last, NEW rows, NEW denied, NEW positive, NEW t,
           j = n + 1, Trace(m, n, body, at, last, rows, denied),
           j = at => positive = last, j # at => positive = rows,
           Follows(At(m, n), t, At(body, j), positive, denied)
    PROVE  \E k : Trace(k, j, body, at, last, rows, denied) /\ At(k, j) = t
<1> DEFINE k == [i \in 0 .. j |-> IF i = j THEN t ELSE At(m, i)]
<1>1. At(k, j) = t /\ \A i \in 0 .. n : At(k, i) = At(m, i)
  BY DEF At
<1>2. At(k, 0) = Start
  BY <1>1 DEF Trace
<1>3. ASSUME NEW i \in 1 .. j
      PROVE  Follows(At(k, i - 1), At(k, i), At(body, i), IF i = at THEN last ELSE rows, denied)
  <2>1. CASE i = j
    <3>1. At(k, i - 1) = At(m, n)
      BY <1>1, <2>1
    <3> HIDE DEF k
    <3> QED BY <1>1, <2>1, <3>1
  <2>2. CASE i \in 1 .. n
    <3>1. At(k, i - 1) = At(m, i - 1) /\ At(k, i) = At(m, i)
      BY <1>1, <2>2
    <3> HIDE DEF k
    <3> QED BY <2>2, <3>1 DEF Trace
  <2> QED BY <2>1, <2>2
<1> HIDE DEF k
<1>4. Trace(k, j, body, at, last, rows, denied)
  BY <1>2, <1>3 DEF Trace
<1> QED BY <1>1, <1>4

\* A trace is one among other rows that hold those it matches, and deny no more.
LEMMA TraceTransfer ==
    ASSUME NEW body \in Seq(Literals), NEW n \in 0 .. Len(body),
           NEW at, NEW at2, NEW m,
           NEW p, NEW q, NEW o, NEW p2, NEW q2, NEW o2,
           Trace(m, n, body, at, p, q, o),
           \A i \in 1 .. n :
             /\ At(body, i).kind = "Pos" =>
                  Within(At(body, i).relation, IF i = at THEN p ELSE q, IF i = at2 THEN p2 ELSE q2)
             /\ At(body, i).kind = "Neg" => Within(At(body, i).relation, o2, o)
    PROVE  Trace(m, n, body, at2, p2, q2, o2)
<1>1. ASSUME NEW i \in 1 .. n
      PROVE  Follows(At(m, i - 1), At(m, i), At(body, i), IF i = at2 THEN p2 ELSE q2, o2)
  <2>1. At(body, i) \in Literals
    BY DEF At
  <2>2. Follows(At(m, i - 1), At(m, i), At(body, i), IF i = at THEN p ELSE q, o)
    BY DEF Trace
  <2> DEFINE pp == IF i = at THEN p ELSE q
             qq == IF i = at2 THEN p2 ELSE q2
  <2>3. /\ At(body, i).kind = "Pos" => Within(At(body, i).relation, pp, qq)
        /\ At(body, i).kind = "Neg" => Within(At(body, i).relation, o2, o)
        /\ Follows(At(m, i - 1), At(m, i), At(body, i), pp, o)
    BY <2>2
  <2> HIDE DEF pp, qq
  <2>4. Follows(At(m, i - 1), At(m, i), At(body, i), qq, o2)
    BY <2>1, <2>3, MatchMonotone
  <2> QED BY <2>4 DEF qq
<1> QED BY <1>1 DEF Trace

\* What a trace matches is old, or at some place among the last rows.
LEMMA TraceSplit ==
    ASSUME NEW body \in Seq(Literals), NEW m, NEW last, NEW rows, NEW old, NEW denied,
           Trace(m, Len(body), body, 0, {}, rows, denied),
           \A f \in rows : (\E g \in old : Same(f, g)) \/ (\E g \in last : Same(f, g))
    PROVE  \/ Trace(m, Len(body), body, 0, {}, old, denied)
           \/ \E k \in Positives(body) : Trace(m, Len(body), body, k, last, rows, denied)
<1>1. ASSUME NEW i \in 1 .. Len(body)
      PROVE  /\ At(body, i) \in Literals
             /\ Follows(At(m, i - 1), At(m, i), At(body, i), rows, denied)
             /\ \/ Follows(At(m, i - 1), At(m, i), At(body, i), old, denied)
                \/ i \in Positives(body) /\ Follows(At(m, i - 1), At(m, i), At(body, i), last, denied)
  <2>1. At(body, i) \in Literals /\ DOMAIN body = 1 .. Len(body)
    BY DEF At
  <2>2. Follows(At(m, i - 1), At(m, i), At(body, i), rows, denied)
    <3>1. Follows(At(m, i - 1), At(m, i), At(body, i), IF i = 0 THEN {} ELSE rows, denied)
      BY DEF Trace
    <3>2. (IF i = 0 THEN {} ELSE rows) = rows
      OBVIOUS
    <3> QED BY <3>1, <3>2
  <2>3. CASE At(body, i).kind = "Pos"
    BY <2>1, <2>2, <2>3, MatchSplit DEF Positives, At
  <2>4. CASE At(body, i).kind # "Pos"
    <3>1. Within(At(body, i).relation, denied, denied)
      BY WithinSelf
    <3> QED BY <2>1, <2>2, <2>4, <3>1, MatchMonotone
  <2> QED BY <2>1, <2>2, <2>3, <2>4
<1>2. CASE \A i \in 1 .. Len(body) : Follows(At(m, i - 1), At(m, i), At(body, i), old, denied)
  BY <1>2 DEF Trace
<1>3. ASSUME NEW k \in 1 .. Len(body), ~Follows(At(m, k - 1), At(m, k), At(body, k), old, denied)
      PROVE  k \in Positives(body) /\ Trace(m, Len(body), body, k, last, rows, denied)
  <2>1. k \in Positives(body) /\ Follows(At(m, k - 1), At(m, k), At(body, k), last, denied)
    BY <1>1, <1>3
  <2> QED BY <1>1, <2>1 DEF Trace
<1> QED BY <1>2, <1>3

\* MatchBody is a function of the literals matched so far.
LEMMA MatchedSoFar ==
    ASSUME NEW body \in Seq(Literals), NEW rows
    PROVE  \E found :
             /\ found = [i \in 0 .. Len(body) |->
                           IF i = 0 THEN Unmatched
                           ELSE Match(found[i - 1], body[i], rows, rows)]
             /\ MatchBody(body, rows) = found[Len(body)]
<1> DEFINE Up(f, n) ==
             f = [i \in 0 .. n |-> IF i = 0 THEN Unmatched
                                 ELSE Match(f[i - 1], body[i], rows, rows)]
           Missing == {n \in Nat : ~\E f : Up(f, n)}
<1>1. Missing = {}
  <2> SUFFICES ASSUME Missing # {} PROVE FALSE
    OBVIOUS
  <2>1. PICK n \in Missing : \A j \in Missing : n <= j
    BY LeastNumber
  <2>2. n # 0
    <3>1. Up([i \in 0 .. 0 |-> Unmatched], 0)
      OBVIOUS
    <3> QED BY <2>1, <3>1
  <2>3. n - 1 \in Nat /\ n - 1 \notin Missing
    <3>1. Missing \subseteq Nat
      OBVIOUS
    <3> HIDE DEF Missing
    <3> QED BY <2>1, <2>2, <3>1
  <2>4. PICK f : Up(f, n - 1)
    <3> HIDE DEF Up
    <3> QED BY <2>3
  <2> DEFINE g == [i \in 0 .. n |-> IF i = n THEN Match(f[n - 1], body[n], rows, rows) ELSE f[i]]
  <2>5. \A i \in 0 .. n - 1 : g[i] = f[i]
    BY <2>1
  <2>6. ASSUME NEW i \in 0 .. n
        PROVE  g[i] = IF i = 0 THEN Unmatched ELSE Match(g[i - 1], body[i], rows, rows)
    <3>1. CASE i = n
      <4>1. g[i - 1] = f[n - 1] /\ g[i] = Match(f[n - 1], body[n], rows, rows)
        BY <2>2, <2>5, <3>1
      <4> HIDE DEF g
      <4> QED BY <2>2, <3>1, <4>1
    <3>2. CASE i # n
      <4>1. g[i] = f[i] /\ (i # 0 => g[i - 1] = f[i - 1])
        BY <2>5, <3>2
      <4>2. f[i] = IF i = 0 THEN Unmatched ELSE Match(f[i - 1], body[i], rows, rows)
        BY <2>4, <3>2
      <4> HIDE DEF g
      <4> QED BY <4>1, <4>2
    <3> QED BY <3>1, <3>2
  <2>7. g = [i \in 0 .. n |-> g[i]]
    OBVIOUS
  <2> HIDE DEF g
  <2>8. Up(g, n)
    BY <2>6, <2>7
  <2> QED BY <2>1, <2>8
<1>2. Len(body) \in Nat /\ Len(body) \notin Missing
  BY <1>1
<1>3. \E f : Up(f, Len(body))
  BY <1>2
<1> DEFINE found == CHOOSE f : Up(f, Len(body))
<1>4. Up(found, Len(body))
  BY <1>3
<1>5. MatchBody(body, rows) = found[Len(body)]
  BY DEF MatchBody
<1> HIDE DEF found
<1> QED BY <1>4, <1>5

\* MatchBody yields the ends of all traces.
LEMMA MatchBodyTraces ==
    ASSUME NEW body \in Seq(Literals), NEW rows, NEW s
    PROVE  s \in MatchBody(body, rows)
             <=> \E m : Trace(m, Len(body), body, 0, {}, rows, rows) /\ At(m, Len(body)) = s
<1>1. PICK found :
         /\ found = [i \in 0 .. Len(body) |->
                       IF i = 0 THEN Unmatched
                       ELSE Match(found[i - 1], body[i], rows, rows)]
         /\ MatchBody(body, rows) = found[Len(body)]
  BY MatchedSoFar
<1>2. Len(body) \in Nat /\ DOMAIN body = 1 .. Len(body)
  OBVIOUS
<1>3. At(found, 0) = {Start}
  BY <1>1, <1>2 DEF Start, Unmatched, At
<1>4. \A i \in 1 .. Len(body) : At(found, i) = Match(At(found, i - 1), At(body, i), rows, rows)
  BY <1>1, <1>2 DEF At
<1>b. \A i \in 1 .. Len(body) : At(body, i) \in Literals
  BY DEF At
<1> DEFINE Ends(i) == \A t \in At(found, i) : \E m : Trace(m, i, body, 0, {}, rows, rows) /\ At(m, i) = t
           Odd == {i \in 0 .. Len(body) : ~Ends(i)}
           Lost(m) == {i \in 0 .. Len(body) : At(m, i) \notin At(found, i)}
<1>a. Odd \subseteq Nat /\ \A m : Lost(m) \subseteq Nat
  BY <1>2
<1> HIDE DEF Ends
<1>5. ASSUME Odd # {} PROVE FALSE
  <2>1. PICK i \in Odd : \A j \in Odd : i <= j
    <3> HIDE DEF Odd
    <3> QED BY <1>a, <1>5, LeastNumber
  <2>2. Ends(0)
    <3>1. Trace([j \in {0} |-> Start], 0, body, 0, {}, rows, rows)
      BY DEF Trace
    <3> QED BY <1>3, <3>1 DEF Ends
  <2>3. i \in 1 .. Len(body) /\ i - 1 \in Nat /\ Ends(i - 1)
    BY <1>2, <2>1, <2>2
  <2>4. PICK t \in At(found, i) : ~\E m : Trace(m, i, body, 0, {}, rows, rows) /\ At(m, i) = t
    BY <2>1 DEF Ends
  <2>5. PICK u \in At(found, i - 1) : Follows(u, t, At(body, i), rows, rows)
    <3>1. At(body, i) \in Literals /\ t \in Match(At(found, i - 1), At(body, i), rows, rows)
      BY <1>2, <1>4, <1>b, <2>3
    <3> QED BY <3>1, MatchSingle
  <2>6. PICK m : Trace(m, i - 1, body, 0, {}, rows, rows) /\ At(m, i - 1) = u
    BY <2>3 DEF Ends
  <2>7. (i - 1) + 1 = i /\ i # 0
    BY <2>3
  <2>8. PICK h \in Nat, j \in Nat : i = j /\ j = h + 1
    BY <2>3
  <2>9. /\ Trace(m, h, body, 0, {}, rows, rows) /\ Follows(At(m, h), t, At(body, j), rows, rows)
        /\ 0 \in Nat /\ j # 0 /\ j = h + 1
    BY <2>3, <2>5, <2>6, <2>7, <2>8
  <2>10. \E k : Trace(k, j, body, 0, {}, rows, rows) /\ At(k, j) = t
    BY <2>9, TraceExtends
  <2> QED BY <2>4, <2>8, <2>10
<1>6. ASSUME NEW m, Trace(m, Len(body), body, 0, {}, rows, rows)
      PROVE  At(m, Len(body)) \in At(found, Len(body))
  <2>1. ASSUME Lost(m) # {} PROVE FALSE
    <3>1. PICK i \in Lost(m) : \A j \in Lost(m) : i <= j
      <4> HIDE DEF Lost
      <4> QED BY <1>a, <2>1, LeastNumber
    <3>2. i # 0
      BY <1>3, <1>6, <3>1 DEF Trace
    <3>3. i \in 1 .. Len(body) /\ i - 1 \notin Lost(m)
      <4>1. i \in 0 .. Len(body)
        BY <3>1
      <4> HIDE DEF Lost
      <4> QED BY <1>2, <3>1, <3>2, <4>1
    <3>4. At(m, i - 1) \in At(found, i - 1)
      BY <1>2, <3>3
    <3>5. Follows(At(m, i - 1), At(m, i), At(body, i), rows, rows)
      <4>1. Follows(At(m, i - 1), At(m, i), At(body, i), IF i = 0 THEN {} ELSE rows, rows)
        BY <1>6, <3>3 DEF Trace
      <4>2. (IF i = 0 THEN {} ELSE rows) = rows
        BY <3>2
      <4> QED BY <4>1, <4>2
    <3>6. At(body, i) \in Literals
      BY <1>b, <3>3
    <3>7. At(m, i) \in Match(At(found, i - 1), At(body, i), rows, rows)
      BY <3>4, <3>5, <3>6, MatchSingle
    <3> QED BY <1>4, <3>1, <3>3, <3>7
  <2> QED BY <1>2, <2>1
<1>7. Ends(Len(body))
  BY <1>2, <1>5
<1>8. MatchBody(body, rows) = At(found, Len(body))
  BY <1>1 DEF At
<1> QED BY <1>6, <1>7, <1>8 DEF Ends

-----------------------------------------------------------------------------
(* Rows *)

\* A row, whatever its arguments and derivations are.
IsRow(f) ==
    f \in [id : Nat, relation : Relations, args : {f.args}, warrant : FactWarrant,
           derivations : {f.derivations}]

\* Finitely many rows, each under an id of its own below a bound.
IsTable(rows, bound) ==
    /\ IsFiniteSet(rows) /\ NameFacts(rows)
    /\ \A f \in rows : IsRow(f) /\ f.id < bound

\* The row f after a derivation was attached to the fact of that id.
Attached(f, id, d) == IF f.id = id THEN [f EXCEPT !.derivations = @ \cup {d}] ELSE f

LEMMA AttachedRow ==
    ASSUME NEW f, NEW id, NEW d, IsRow(f)
    PROVE  /\ IsRow(Attached(f, id, d)) /\ Same(f, Attached(f, id, d))
           /\ Attached(f, id, d).warrant = f.warrant
           /\ Attached(f, id, d).derivations =
                IF f.id = id THEN f.derivations \cup {d} ELSE f.derivations
BY DEF IsRow, Attached, Same

LEMMA AttachRows ==
    ASSUME NEW rows, NEW id, NEW d
    PROVE  \A g : g \in Attach(rows, id, d) <=> \E f \in rows : g = Attached(f, id, d)
BY DEF Attach, Attached

\* The image of a finite set is finite and not larger.
LEMMA ImageFinite ==
    ASSUME NEW S, NEW T, NEW h, IsFiniteSet(S), h = [x \in S |-> h[x]], T = {h[x] : x \in S}
    PROVE  IsFiniteSet(T) /\ Cardinality(T) <= Cardinality(S)
<1>1. h \in Surjection(S, T)
  BY DEF Surjection
<1> QED BY <1>1, FS_Surjection

LEMMA AttachTable ==
    ASSUME NEW rows, NEW bound, NEW id, NEW d, IsTable(rows, bound)
    PROVE  IsTable(Attach(rows, id, d), bound)
<1> DEFINE h == [f \in rows |-> Attached(f, id, d)]
           T == Attach(rows, id, d)
<1>1. IsFiniteSet(T)
  <2>1. T = {h[f] : f \in rows} /\ h = [f \in rows |-> h[f]]
    BY AttachRows
  <2>2. IsFiniteSet(rows)
    BY DEF IsTable
  <2> HIDE DEF h, T
  <2> QED BY <2>1, <2>2, ImageFinite
<1>2. ASSUME NEW g \in T PROVE IsRow(g) /\ g.id < bound
  <2>1. PICK f \in rows : g = Attached(f, id, d)
    BY AttachRows
  <2>2. IsRow(f) /\ f.id < bound
    BY DEF IsTable
  <2>3. IsRow(g) /\ Same(f, g)
    BY <2>1, <2>2, AttachedRow
  <2> QED BY <2>2, <2>3 DEF Same
<1>3. NameFacts(T)
  <2> SUFFICES ASSUME NEW g1 \in T, NEW g2 \in T, g1.id = g2.id PROVE g1 = g2
    BY DEF NameFacts
  <2>1. PICK f1 \in rows : g1 = Attached(f1, id, d)
    BY AttachRows
  <2>2. PICK f2 \in rows : g2 = Attached(f2, id, d)
    BY AttachRows
  <2>3. g1.id = f1.id /\ g2.id = f2.id
    <3>1. IsRow(f1) /\ IsRow(f2)
      BY DEF IsTable
    <3>2. Same(f1, g1) /\ Same(f2, g2)
      BY <2>1, <2>2, <3>1, AttachedRow
    <3> QED BY <3>2 DEF Same
  <2>4. f1 = f2
    BY <2>3 DEF IsTable, NameFacts
  <2> QED BY <2>1, <2>2, <2>4
<1> QED BY <1>1, <1>2, <1>3 DEF IsTable

\* To matching, the same rows.
LEMMA AttachWithin ==
    ASSUME NEW rows, NEW bound, NEW id, NEW d, IsTable(rows, bound), NEW r
    PROVE  /\ Within(r, rows, Attach(rows, id, d))
           /\ Within(r, Attach(rows, id, d), rows)
<1>1. ASSUME NEW f \in RowsOf(r, rows)
      PROVE  \E g \in RowsOf(r, Attach(rows, id, d)) : Same(f, g)
  <2>1. Same(f, Attached(f, id, d)) /\ Attached(f, id, d) \in Attach(rows, id, d)
    BY AttachedRow, AttachRows DEF IsTable, RowsOf
  <2> QED BY <2>1 DEF Same, RowsOf
<1>2. ASSUME NEW g \in RowsOf(r, Attach(rows, id, d))
      PROVE  \E f \in RowsOf(r, rows) : Same(g, f)
  <2>1. PICK f \in rows : g = Attached(f, id, d)
    BY AttachRows DEF RowsOf
  <2>2. Same(f, g)
    BY <2>1, AttachedRow DEF IsTable
  <2> QED BY <2>1, <2>2 DEF Same, RowsOf
<1> QED BY <1>1, <1>2 DEF Within

LEMMA AttachUnion ==
    ASSUME NEW p, NEW q, NEW id, NEW d
    PROVE  Attach(p \cup q, id, d) = Attach(p, id, d) \cup Attach(q, id, d)
BY DEF Attach

-----------------------------------------------------------------------------
(* Derivations *)

HeadArgs(r, s) == [i \in DOMAIN r.head.terms |-> EvalTerm(r.head.terms[i], s.bindings)]

\* A match s of the body of rule r derives the fact f.
Derives(r, s, f) == f.relation = r.head.relation /\ f.args = HeadArgs(r, s)

DerivedBy(r, s) == [rule |-> r.id, inputs |-> s.support]

\* A match is concluded: the fact is there, and the derivation with it if
\* the fact is a derived one.
Present(r, s, rows) ==
    /\ \E f \in rows : Derives(r, s, f)
    /\ \/ \A f \in rows : Derives(r, s, f) => f.derivations = {}
       \/ \E f \in rows : Derives(r, s, f) /\ DerivedBy(r, s) \in f.derivations

\* The match of all of the body of rule r, and all those matches.
Full(m, r, at, last, rows, denied) == Trace(m, Len(r.body), r.body, at, last, rows, denied)
EndOf(m, r) == At(m, Len(r.body))

AllPresent(r, at, last, rows, denied, known) ==
    \A m : Full(m, r, at, last, rows, denied) => Present(r, EndOf(m, r), known)

\* From f to g a derived row may gain derivations.
Gains(f, g) ==
    Same(f, g) /\ f.derivations \subseteq g.derivations /\ (f.derivations = {} => g.derivations = {})

\* Rows gain derivations, and there are new ones, of the stratum n and of
\* arguments that none had.
Grows(rows, others, s, n) ==
    /\ \A f \in rows : \E g \in others : Gains(f, g)
    /\ \A g \in others :
         \/ \E f \in rows : Gains(f, g)
         \/ s[g.relation] = n /\ \A f \in rows : ~(f.relation = g.relation /\ f.args = g.args)

\* The same rows to matching.
Alike(rows, others) ==
    /\ \A f \in rows : \E g \in others : Same(f, g)
    /\ \A g \in others : \E f \in rows : Same(f, g)

\* The head is not below what the body uses and above what it denies.
Above(s, r) ==
    \A i \in 1 .. Len(r.body) :
        /\ At(r.body, i).kind = "Pos" => s[At(r.body, i).relation] <= s[r.head.relation]
        /\ At(r.body, i).kind = "Neg" => s[At(r.body, i).relation] < s[r.head.relation]

LEMMA LiteralRelation ==
    \A l \in Literals : l.kind \in {"Pos", "Neg"} => l.relation \in Relations
BY DEF Literals

LEMMA PresentGrows ==
    ASSUME NEW r, NEW s, NEW rows, NEW others, NEW st, NEW n,
           Grows(rows, others, st, n), Present(r, s, rows)
    PROVE  Present(r, s, others)
<1>1. PICK f \in rows : Derives(r, s, f)
  BY DEF Present
<1>2. PICK g \in others : Gains(f, g)
  BY DEF Grows
<1>3. Derives(r, s, g)
  BY <1>1, <1>2 DEF Gains, Same, Derives
<1>4. CASE \A e \in rows : Derives(r, s, e) => e.derivations = {}
  <2>1. ASSUME NEW e \in others, Derives(r, s, e) PROVE e.derivations = {}
    <3>1. PICK d \in rows : Gains(d, e)
      BY <1>1, <2>1 DEF Grows, Derives
    <3> QED BY <1>4, <2>1, <3>1 DEF Gains, Same, Derives
  <2> QED BY <1>3, <2>1 DEF Present
<1>5. CASE \E e \in rows : Derives(r, s, e) /\ DerivedBy(r, s) \in e.derivations
  <2>1. PICK e \in rows : Derives(r, s, e) /\ DerivedBy(r, s) \in e.derivations
    BY <1>5
  <2>2. PICK d \in others : Gains(e, d)
    BY DEF Grows
  <2> QED BY <1>3, <2>1, <2>2 DEF Present, Gains, Same, Derives
<1> QED BY <1>4, <1>5 DEF Present

LEMMA GrowsWithin ==
    ASSUME NEW rows, NEW others, NEW st, NEW n, Grows(rows, others, st, n), NEW r
    PROVE  /\ Within(r, rows, others)
           /\ st[r] # n => Within(r, others, rows)
<1>1. ASSUME NEW f \in RowsOf(r, rows) PROVE \E g \in RowsOf(r, others) : Same(f, g)
  BY DEF Grows, Gains, RowsOf, Same
<1>2. ASSUME st[r] # n, NEW g \in RowsOf(r, others) PROVE \E f \in RowsOf(r, rows) : Same(g, f)
  BY <1>2 DEF Grows, Gains, RowsOf, Same
<1> QED BY <1>1, <1>2 DEF Within

LEMMA AlikeWithin ==
    ASSUME NEW rows, NEW others, Alike(rows, others), NEW r
    PROVE  Within(r, rows, others) /\ Within(r, others, rows)
<1>1. ASSUME NEW f \in RowsOf(r, rows) PROVE \E g \in RowsOf(r, others) : Same(f, g)
  BY DEF Alike, RowsOf, Same
<1>2. ASSUME NEW g \in RowsOf(r, others) PROVE \E f \in RowsOf(r, rows) : Same(g, f)
  BY DEF Alike, RowsOf, Same
<1> QED BY <1>1, <1>2 DEF Within

\* A match below or at the stratum that grows remains one.
LEMMA TraceGrows ==
    ASSUME NEW r \in Rules, NEW k \in 0 .. Len(r.body), NEW st \in [Relations -> Nat], NEW n \in Nat,
           NEW rows, NEW others, NEW m,
           Above(st, r), st[r.head.relation] <= n, Grows(rows, others, st, n),
           Trace(m, k, r.body, 0, {}, rows, rows)
    PROVE  Trace(m, k, r.body, 0, {}, others, others)
<1>1. r.body \in Seq(Literals) /\ r.head.relation \in Relations
  BY DEF Rules, Atoms
<1>2. ASSUME NEW i \in 1 .. k
      PROVE  /\ At(r.body, i).kind = "Pos" =>
                  Within(At(r.body, i).relation, IF i = 0 THEN {} ELSE rows, IF i = 0 THEN {} ELSE others)
             /\ At(r.body, i).kind = "Neg" => Within(At(r.body, i).relation, others, rows)
  <2>1. i \in 1 .. Len(r.body) /\ At(r.body, i) \in Literals
    BY <1>1 DEF At
  <2>2. At(r.body, i).kind = "Neg" => st[At(r.body, i).relation] # n
    <3> SUFFICES ASSUME At(r.body, i).kind = "Neg" PROVE st[At(r.body, i).relation] # n
      OBVIOUS
    <3>1. At(r.body, i).relation \in Relations
      BY <2>1, LiteralRelation
    <3>2. st[At(r.body, i).relation] < st[r.head.relation]
      BY <2>1 DEF Above
    <3> QED BY <1>1, <3>1, <3>2
  <2>3. (IF i = 0 THEN {} ELSE rows) = rows /\ (IF i = 0 THEN {} ELSE others) = others
    OBVIOUS
  <2> QED BY <2>2, <2>3, GrowsWithin
<1> QED BY <1>1, <1>2, TraceTransfer

\* A match below the stratum that grew was there before.
LEMMA TraceWasThere ==
    ASSUME NEW r \in Rules, NEW st \in [Relations -> Nat], NEW n \in Nat,
           NEW rows, NEW others, NEW m,
           Above(st, r), st[r.head.relation] < n, Grows(rows, others, st, n),
           Full(m, r, 0, {}, others, others)
    PROVE  Full(m, r, 0, {}, rows, rows)
<1>1. r.body \in Seq(Literals) /\ r.head.relation \in Relations
  BY DEF Rules, Atoms
<1>2. ASSUME NEW i \in 1 .. Len(r.body)
      PROVE  /\ At(r.body, i).kind = "Pos" =>
                  Within(At(r.body, i).relation, IF i = 0 THEN {} ELSE others, IF i = 0 THEN {} ELSE rows)
             /\ At(r.body, i).kind = "Neg" => Within(At(r.body, i).relation, rows, others)
  <2>1. At(r.body, i) \in Literals
    BY <1>1 DEF At
  <2>2. At(r.body, i).kind = "Pos" => st[At(r.body, i).relation] # n
    <3> SUFFICES ASSUME At(r.body, i).kind = "Pos" PROVE st[At(r.body, i).relation] # n
      OBVIOUS
    <3>1. At(r.body, i).relation \in Relations
      BY <2>1, LiteralRelation
    <3>2. st[At(r.body, i).relation] <= st[r.head.relation]
      BY DEF Above
    <3> QED BY <1>1, <3>1, <3>2
  <2>3. (IF i = 0 THEN {} ELSE rows) = rows /\ (IF i = 0 THEN {} ELSE others) = others
    OBVIOUS
  <2> QED BY <2>2, <2>3, GrowsWithin
<1>3. Len(r.body) \in 0 .. Len(r.body)
  BY <1>1
<1> QED BY <1>1, <1>2, <1>3, TraceTransfer DEF Full

\* All matches among some rows are matches among others that hold the former
\* and deny no more.
LEMMA AllPresentWithin ==
    ASSUME NEW r \in Rules, NEW at, NEW p, NEW q, NEW o, NEW p2, NEW q2, NEW o2, NEW known,
           AllPresent(r, at, p2, q2, o2, known),
           \A rel : Within(rel, p, p2) /\ Within(rel, q, q2) /\ Within(rel, o2, o)
    PROVE  AllPresent(r, at, p, q, o, known)
<1> SUFFICES ASSUME NEW m, Full(m, r, at, p, q, o) PROVE Full(m, r, at, p2, q2, o2)
  BY DEF AllPresent
<1>1. r.body \in Seq(Literals)
  BY DEF Rules
<1>2. Len(r.body) \in 0 .. Len(r.body)
  BY <1>1
<1> QED BY <1>1, <1>2, TraceTransfer DEF Full

LEMMA AllPresentGrows ==
    ASSUME NEW r, NEW at, NEW p, NEW q, NEW o, NEW known, NEW others, NEW st, NEW n,
           AllPresent(r, at, p, q, o, known), Grows(known, others, st, n)
    PROVE  AllPresent(r, at, p, q, o, others)
BY PresentGrows DEF AllPresent

\* What is present for the old rows and, at each place, for the last ones is
\* present for all.
LEMMA AllPresentSplit ==
    ASSUME NEW r \in Rules, NEW last, NEW rows, NEW old, NEW denied, NEW known,
           AllPresent(r, 0, {}, old, denied, known),
           \A k \in Positives(r.body) : AllPresent(r, k, last, rows, denied, known),
           \A f \in rows : (\E g \in old : Same(f, g)) \/ (\E g \in last : Same(f, g))
    PROVE  AllPresent(r, 0, {}, rows, denied, known)
<1> SUFFICES ASSUME NEW m, Full(m, r, 0, {}, rows, denied) PROVE Present(r, EndOf(m, r), known)
  BY DEF AllPresent
<1>1. r.body \in Seq(Literals)
  BY DEF Rules
<1>2. \/ Full(m, r, 0, {}, old, denied)
      \/ \E k \in Positives(r.body) : Full(m, r, k, last, rows, denied)
  BY <1>1, TraceSplit DEF Full
<1> QED BY <1>2 DEF AllPresent

-----------------------------------------------------------------------------
(* Numbers *)

\* A finite set of numbers that is not empty has a greatest.
LEMMA GreatestNumber ==
    ASSUME NEW S \in SUBSET Nat, IsFiniteSet(S), S # {}
    PROVE  \E n \in S : \A m \in S : m <= n
<1> DEFINE Greatest(T) == \E n \in T : \A m \in T : m <= n
           Bad == {T \in SUBSET S : T # {} /\ ~Greatest(T)}
           Sizes == {Cardinality(T) : T \in Bad}
<1> SUFFICES ASSUME S \in Bad PROVE FALSE
  OBVIOUS
<1>1. \A T \in SUBSET S : IsFiniteSet(T) /\ Cardinality(T) \in Nat
  BY FS_Subset, FS_CardinalityType
<1>2. Sizes \subseteq Nat /\ Sizes # {}
  BY <1>1
<1>3. PICK k \in Sizes : \A j \in Sizes : k <= j
  <2> HIDE DEF Sizes
  <2> QED BY <1>2, LeastNumber
<1>4. PICK T \in Bad : Cardinality(T) = k
  OBVIOUS
<1>5. PICK n \in T : TRUE
  OBVIOUS
<1>6. Cardinality(T \ {n}) = Cardinality(T) - 1
  BY <1>1, FS_RemoveElement
<1>7. T \ {n} \notin Bad
  <2>1. Cardinality(T) \in Nat /\ Cardinality(T \ {n}) \in Nat
    BY <1>1
  <2>2. ASSUME T \ {n} \in Bad PROVE Cardinality(T \ {n}) \in Sizes
    BY <2>2
  <2> HIDE DEF Sizes, Bad
  <2> QED BY <1>3, <1>4, <1>6, <2>1, <2>2
<1>8. CASE T \ {n} = {}
  <2>1. Greatest(T)
    BY <1>5, <1>8
  <2> QED BY <1>4, <2>1
<1>9. CASE \E g \in T \ {n} : \A m \in T \ {n} : m <= g
  <2>1. PICK g \in T \ {n} : \A m \in T \ {n} : m <= g
    BY <1>9
  <2>2. n \in Nat /\ g \in Nat /\ T \subseteq Nat
    BY <1>4, <1>5
  <2>3. CASE n <= g
    <3>1. \A m \in T : m <= g
      BY <2>1, <2>3
    <3> QED BY <1>4, <2>1, <3>1
  <2>4. CASE g <= n
    <3>1. \A m \in T : m <= n
      BY <2>1, <2>2, <2>4
    <3> QED BY <1>4, <1>5, <3>1
  <2> QED BY <2>2, <2>3, <2>4
<1> QED BY <1>4, <1>7, <1>8, <1>9

LEMMA HighestIdIs ==
    ASSUME NEW rows, NEW bound, IsTable(rows, bound)
    PROVE  /\ HighestId(rows) \in Nat
           /\ \A f \in rows : f.id <= HighestId(rows)
           /\ rows # {} => \E f \in rows : f.id = HighestId(rows)
<1> DEFINE ids == {f.id : f \in rows}
           S == {0} \cup ids
<1>1. ids \subseteq Nat /\ IsFiniteSet(ids)
  <2> DEFINE h == [f \in rows |-> f.id]
  <2>1. ids = {h[f] : f \in rows} /\ h = [f \in rows |-> h[f]]
    OBVIOUS
  <2>2. IsFiniteSet(rows)
    BY DEF IsTable
  <2>3. IsFiniteSet(ids)
    <3> HIDE DEF h, ids
    <3> QED BY <2>1, <2>2, ImageFinite
  <2> QED BY <2>3 DEF IsTable, IsRow
<1>2. S \in SUBSET Nat /\ IsFiniteSet(S) /\ S # {}
  BY <1>1, FS_AddElement, FS_EmptySet
<1>3. \E n \in S : \A m \in S : m <= n
  <2> HIDE DEF S
  <2> QED BY <1>2, GreatestNumber
<1>4. \E n \in S : \A f \in rows : f.id <= n
  BY <1>3
<1>5. HighestId(rows) \in S /\ \A f \in rows : f.id <= HighestId(rows)
  <2>1. HighestId(rows) = CHOOSE n \in S : \A f \in rows : f.id <= n
    BY DEF HighestId
  <2> HIDE DEF S
  <2> QED BY <1>4, <2>1
<1>6. ASSUME rows # {} PROVE \E f \in rows : f.id = HighestId(rows)
  <2>1. CASE HighestId(rows) \in ids
    BY <2>1
  <2>2. CASE HighestId(rows) = 0
    <3>1. PICK f \in rows : TRUE
      BY <1>6
    <3>2. f.id \in Nat /\ f.id <= 0
      BY <1>5, <2>2, <3>1 DEF IsTable, IsRow
    <3> QED BY <2>2, <3>2
  <2> QED BY <1>5, <2>1, <2>2
<1> QED BY <1>2, <1>5, <1>6

LEMMA TableSubset ==
    ASSUME NEW rows, NEW bound, NEW others, IsTable(rows, bound), others \subseteq rows
    PROVE  IsTable(others, bound)
BY FS_Subset DEF IsTable, NameFacts

-----------------------------------------------------------------------------
(* Tasks *)

RuleSet(t) == {t.rules[k] : k \in DOMAIN t.rules}

LEMMA TaskParts ==
    ASSUME NEW t \in Tasks
    PROVE  /\ t.rules \in Seq(Rules) /\ RuleSet(t) \subseteq Rules
           /\ t.source \subseteq FactRows /\ NameFacts(t.source) /\ IsFiniteSet(t.source)
           /\ t.maxRounds \in Nat
<1>1. t \in TaskType /\ NameFacts(t.source) /\ IsFiniteSet(t.source)
  BY TasksAreTyped
<1>2. /\ t.rules \in Seq(Rules) /\ t.source \subseteq FactRows /\ t.maxRounds \in Nat
  BY <1>1 DEF TaskType
<1>3. RuleSet(t) \subseteq Rules
  BY <1>2 DEF RuleSet
<1> QED BY <1>1, <1>2, <1>3

LEMMA RuleParts ==
    \A r \in Rules : /\ r.body \in Seq(Literals) /\ r.head.relation \in Relations
                     /\ r.id \in RuleIds /\ Len(r.body) \in Nat
BY DEF Rules, Atoms

LEMMA SourceTable ==
    ASSUME NEW t \in Tasks, NEW rows \in SUBSET t.source
    PROVE  IsTable(rows, FirstFreeId(rows)) /\ FirstFreeId(rows) \in Nat
<1>1. \A f \in rows : IsRow(f)
  BY TaskParts DEF FactRows, IsRow
<1>2. IsFiniteSet(rows) /\ NameFacts(rows)
  BY TaskParts, FS_Subset DEF NameFacts
<1> DEFINE ids == {f.id : f \in rows}
           h == [f \in rows |-> f.id]
<1>3. ids \subseteq Nat /\ IsFiniteSet(ids)
  <2>1. ids = {h[f] : f \in rows} /\ h = [f \in rows |-> h[f]]
    OBVIOUS
  <2>2. IsFiniteSet(ids)
    <3> HIDE DEF h, ids
    <3> QED BY <1>2, <2>1, ImageFinite
  <2> QED BY <1>1, <2>2 DEF IsRow
<1>4. PICK bound \in Nat : \A f \in rows : f.id < bound
  <2>1. CASE ids = {}
    <3>1. \A f \in rows : f.id < 0
      BY <2>1
    <3> QED BY <3>1
  <2>2. CASE ids # {}
    <3>1. PICK n \in ids : \A m \in ids : m <= n
      <4> HIDE DEF ids
      <4> QED BY <1>3, <2>2, GreatestNumber
    <3>2. n \in Nat /\ n + 1 \in Nat /\ \A f \in rows : f.id \in Nat /\ f.id <= n
      BY <1>3, <3>1
    <3>3. \A f \in rows : f.id < n + 1
      BY <3>2
    <3> QED BY <3>2, <3>3
  <2> QED BY <2>1, <2>2
<1>5. IsTable(rows, bound)
  BY <1>1, <1>2, <1>4 DEF IsTable
<1>6. HighestId(rows) \in Nat /\ \A f \in rows : f.id <= HighestId(rows)
  BY <1>5, HighestIdIs
<1>7. FirstFreeId(rows) \in Nat /\ \A f \in rows : f.id < FirstFreeId(rows)
  BY <1>1, <1>6 DEF FirstFreeId, IsRow
<1> QED BY <1>1, <1>2, <1>7 DEF IsTable

-----------------------------------------------------------------------------
(* Strata *)

\* The strata of a program are a stratification, the least one.
LEMMA StrataOfRules ==
    ASSUME NEW rules \in Seq(Rules), Stratifications(rules) # {}
    PROVE  /\ Strata(rules) \in [Relations -> 0 .. Cardinality(Relations)]
           /\ \A k \in DOMAIN rules : Above(Strata(rules), rules[k])
<1> DEFINE C == Cardinality(Relations)
           Ok(s) == \A k \in DOMAIN rules : \A i \in Atomic(rules[k].body) :
                      s[rules[k].head.relation] >=
                        s[rules[k].body[i].relation]
                          + (IF rules[k].body[i].kind = "Neg" THEN 1 ELSE 0)
<1>1. C \in Nat
  BY RelationsAreFinite, FS_CardinalityType
<1>2. \A s : s \in Stratifications(rules) <=> s \in [Relations -> 0 .. C] /\ Ok(s)
  BY DEF Stratifications
<1> HIDE DEF C, Ok
<1>3. ASSUME NEW r \in Relations
      PROVE  /\ Strata(rules)[r] \in 0 .. C
             /\ \E s \in Stratifications(rules) : s[r] = Strata(rules)[r]
             /\ \A s \in Stratifications(rules) : s[r] >= Strata(rules)[r]
  <2> DEFINE T == {s[r] : s \in Stratifications(rules)}
             P(n) == /\ \E s \in Stratifications(rules) : s[r] = n
                     /\ \A s \in Stratifications(rules) : s[r] >= n
  <2>1. T \in SUBSET (0 .. C) /\ T \in SUBSET Nat /\ T # {}
    BY <1>1, <1>2
  <2>2. PICK n \in T : \A m \in T : n <= m
    <3> HIDE DEF T
    <3> QED BY <2>1, LeastNumber
  <2>3. n \in 0 .. C /\ P(n)
    <3>1. n \in 0 .. C /\ n \in Nat
      BY <2>1, <2>2
    <3>2. \E s \in Stratifications(rules) : s[r] = n
      BY <2>2
    <3>3. ASSUME NEW s \in Stratifications(rules) PROVE s[r] >= n
      <4>1. s[r] \in T /\ s[r] \in Nat
        BY <2>1
      <4> HIDE DEF T
      <4> QED BY <2>2, <3>1, <4>1
    <3> QED BY <3>1, <3>2, <3>3
  <2>4. Strata(rules)[r] = CHOOSE i \in 0 .. C : P(i)
    BY DEF Strata, C
  <2> HIDE DEF P
  <2>5. Strata(rules)[r] \in 0 .. C /\ P(Strata(rules)[r])
    BY <2>3, <2>4
  <2> QED BY <2>5 DEF P
<1>4. Strata(rules) \in [Relations -> 0 .. C]
  <2>1. Strata(rules) = [r \in Relations |-> Strata(rules)[r]]
    BY DEF Strata
  <2> HIDE DEF Strata
  <2> QED BY <1>3, <2>1
<1>5. ASSUME NEW k \in DOMAIN rules, NEW i \in 1 .. Len(rules[k].body),
             At(rules[k].body, i).kind \in {"Pos", "Neg"}
      PROVE  Strata(rules)[rules[k].head.relation] >=
               Strata(rules)[At(rules[k].body, i).relation]
                 + (IF At(rules[k].body, i).kind = "Neg" THEN 1 ELSE 0)
  <2>1. rules[k] \in Rules
    OBVIOUS
  <2> DEFINE h == rules[k].head.relation
             b == At(rules[k].body, i).relation
             one == IF At(rules[k].body, i).kind = "Neg" THEN 1 ELSE 0
  <2>2. rules[k].body \in Seq(Literals) /\ h \in Relations
    BY <2>1, RuleParts
  <2>3. At(rules[k].body, i) \in Literals
    BY <2>2 DEF At
  <2>4. b \in Relations
    BY <1>5, <2>3, LiteralRelation
  <2>5. i \in Atomic(rules[k].body)
    BY <1>5, <2>2 DEF Atomic, At
  <2>6. PICK s \in Stratifications(rules) : s[h] = Strata(rules)[h]
    BY <1>3, <2>2
  <2>7. s[h] >= s[b] + one
    BY <1>2, <2>5 DEF Ok, At
  <2>8. s[b] >= Strata(rules)[b]
    BY <1>3, <2>4
  <2>9. s[h] \in Nat /\ s[b] \in Nat /\ Strata(rules)[b] \in Nat /\ one \in {0, 1}
    BY <1>1, <1>2, <1>4, <2>2, <2>4
  <2> HIDE DEF h, b, one
  <2>10. Strata(rules)[h] >= Strata(rules)[b] + one
    BY <2>6, <2>7, <2>8, <2>9
  <2> QED BY <2>10 DEF h, b, one
<1>6. ASSUME NEW k \in DOMAIN rules, NEW i \in 1 .. Len(rules[k].body)
      PROVE  /\ At(rules[k].body, i).kind = "Pos" =>
                  Strata(rules)[At(rules[k].body, i).relation] <= Strata(rules)[rules[k].head.relation]
             /\ At(rules[k].body, i).kind = "Neg" =>
                  Strata(rules)[At(rules[k].body, i).relation] < Strata(rules)[rules[k].head.relation]
  <2> DEFINE h == rules[k].head.relation
             b == At(rules[k].body, i).relation
  <2>1. rules[k] \in Rules
    OBVIOUS
  <2>2. rules[k].body \in Seq(Literals) /\ h \in Relations
    BY <2>1, RuleParts
  <2>3. At(rules[k].body, i) \in Literals
    BY <2>2 DEF At
  <2>4. At(rules[k].body, i).kind \in {"Pos", "Neg"} => b \in Relations
    BY <2>3, LiteralRelation
  <2>5. CASE At(rules[k].body, i).kind = "Pos"
    <3>1. Strata(rules)[h] >= Strata(rules)[b] + 0
      BY <1>5, <2>5
    <3>2. Strata(rules)[h] \in Nat /\ Strata(rules)[b] \in Nat
      BY <1>1, <1>4, <2>2, <2>4, <2>5
    <3> HIDE DEF h, b
    <3>3. Strata(rules)[b] <= Strata(rules)[h]
      BY <3>1, <3>2
    <3> QED BY <2>5, <3>3 DEF h, b
  <2>6. CASE At(rules[k].body, i).kind = "Neg"
    <3>1. Strata(rules)[h] >= Strata(rules)[b] + 1
      BY <1>5, <2>6
    <3>2. Strata(rules)[h] \in Nat /\ Strata(rules)[b] \in Nat
      BY <1>1, <1>4, <2>2, <2>4, <2>6
    <3> HIDE DEF h, b
    <3>3. Strata(rules)[b] < Strata(rules)[h]
      BY <3>1, <3>2
    <3> QED BY <2>6, <3>3 DEF h, b
  <2> QED BY <2>5, <2>6
<1> QED BY <1>4, <1>6 DEF Above, C

\* No relation is above the last stratum.
LEMMA LastStratumIs ==
    ASSUME strata \in [Relations -> Nat], NEW r \in Relations
    PROVE  LastStratum \in Nat /\ strata[r] <= LastStratum
<1> DEFINE S == {strata[e] : e \in Relations}
<1>1. S \in SUBSET Nat /\ S # {}
  OBVIOUS
<1>2. IsFiniteSet(S)
  <2>1. strata = [e \in Relations |-> strata[e]] /\ S = {strata[e] : e \in Relations}
    OBVIOUS
  <2> HIDE DEF S
  <2> QED BY <2>1, ImageFinite, RelationsAreFinite
<1>3. \E n \in S : \A m \in S : m <= n
  <2> HIDE DEF S
  <2> QED BY <1>1, <1>2, GreatestNumber
<1>4. \E n \in S : \A e \in Relations : strata[e] <= n
  BY <1>3
<1>5. LastStratum = CHOOSE n \in S : \A e \in Relations : strata[e] <= n
  BY DEF LastStratum
<1>6. LastStratum \in S /\ \A e \in Relations : strata[e] <= LastStratum
  <2> HIDE DEF S
  <2> QED BY <1>4, <1>5
<1> QED BY <1>1, <1>6

-----------------------------------------------------------------------------
(* Matches and jobs *)

\* The support of a state is of rows there are.
Supported(s, rows) ==
    /\ s = [bindings |-> s.bindings, support |-> s.support]
    /\ s.support \in Seq(Nat)
    /\ \A i \in DOMAIN s.support : \E f \in rows : f.id = s.support[i]

LEMMA StartSupported ==
    ASSUME NEW rows, NEW s \in Unmatched
    PROVE  Supported(s, rows)
<1>1. s = [bindings |-> <<>>, support |-> <<>>]
  BY DEF Unmatched
<1>2. s = [bindings |-> s.bindings, support |-> s.support] /\ s.support = <<>>
  BY <1>1
<1>3. <<>> \in Seq(Nat) /\ DOMAIN <<>> = {}
  OBVIOUS
<1> QED BY <1>2, <1>3 DEF Supported

LEMMA MatchSupported ==
    ASSUME NEW l \in Literals, NEW found, NEW p, NEW n, NEW rows, NEW t,
           \A s \in found : Supported(s, rows),
           \A f \in p : \E g \in rows : Same(f, g) /\ g.id \in Nat,
           t \in Match(found, l, p, n)
    PROVE  Supported(t, rows)
<1>1. CASE l.kind = "Pos"
  <2>1. PICK s \in found : \E f \in RowsOf(l.relation, p) :
               /\ Binds(l.terms, f.args, s.bindings)
               /\ t = [bindings |-> BindAtom(l.terms, f.args, s.bindings),
                       support |-> Append(s.support, f.id)]
    BY <1>1, MatchCases, MatchPosRow
  <2>2. PICK f \in RowsOf(l.relation, p) :
               t = [bindings |-> BindAtom(l.terms, f.args, s.bindings),
                    support |-> Append(s.support, f.id)]
    BY <2>1
  <2>3. PICK g \in rows : g.id = f.id /\ g.id \in Nat
    BY <2>2 DEF RowsOf, Same
  <2>4. s.support \in Seq(Nat) /\ \A i \in DOMAIN s.support : \E e \in rows : e.id = s.support[i]
    BY DEF Supported
  <2> DEFINE u == Append(s.support, f.id)
  <2>5. u \in Seq(Nat) /\ \A i \in DOMAIN u : i \in DOMAIN s.support \/ u[i] = f.id
    BY <2>3, <2>4
  <2>6. \A i \in DOMAIN s.support : u[i] = s.support[i]
    BY <2>3, <2>4
  <2>7. \A i \in DOMAIN u : \E e \in rows : e.id = u[i]
    BY <2>3, <2>4, <2>5, <2>6
  <2>8. t = [bindings |-> t.bindings, support |-> t.support] /\ t.support = u
    BY <2>2
  <2> HIDE DEF u
  <2> QED BY <2>5, <2>7, <2>8 DEF Supported
<1>2. CASE l.kind = "Neg"
  BY <1>2, MatchCases DEF MatchNeg
<1>3. CASE l.kind = "Eq"
  <2>1. PICK s \in found : t = s \/ \E b : t = [s EXCEPT !.bindings = b]
    <3>1. t \in MatchEq(found, l)
      BY <1>3, MatchCases
    <3> QED BY <3>1 DEF MatchEq
  <2>2. CASE t = s
    BY <2>2
  <2>3. CASE \E b : t = [s EXCEPT !.bindings = b]
    <3>1. PICK b : t = [s EXCEPT !.bindings = b]
      BY <2>3
    <3>2. s = [bindings |-> s.bindings, support |-> s.support]
      BY DEF Supported
    <3>3. t = [bindings |-> t.bindings, support |-> t.support] /\ t.support = s.support
      BY <3>1, <3>2
    <3> QED BY <3>3 DEF Supported
  <2> QED BY <2>1, <2>2, <2>3
<1> QED BY <1>1, <1>2, <1>3, LiteralKinds

\* Of two jobs at most one comes before the other.
LEMMA OneCurrent ==
    ASSUME work \subseteq Nat \X Nat, NEW j \in work, NEW k \in work, Current(j), Current(k)
    PROVE  j = k
<1> SUFFICES ASSUME j # k PROVE FALSE
  OBVIOUS
<1>1. Before(j, k) /\ Before(k, j)
  BY DEF Current
<1>2. PICK a \in Nat, b \in Nat, c \in Nat, d \in Nat : j = <<a, b>> /\ k = <<c, d>>
  OBVIOUS
<1>3. \A u, v : Before(u, v) => u \notin Nat \X Nat \/ v \notin Nat \X Nat
                                \/ u[1] < v[1] \/ (u[1] = v[1] /\ u[2] < v[2])
  BY DEF Before
<1>4. a < c \/ (a = c /\ b < d)
  BY <1>1, <1>2, <1>3
<1>5. c < a \/ (a = c /\ d < b)
  BY <1>1, <1>2, <1>3
<1> QED BY <1>2, <1>4, <1>5

JobRule(job) == task.rules[job[1]]

LEMMA JobParts ==
    ASSUME task \in Tasks, NEW job \in Jobs
    PROVE  /\ job \in Nat \X Nat
           /\ JobRule(job) \in RuleSet(task) /\ JobRule(job) \in Rules
           /\ Body(job) = JobRule(job).body /\ Body(job) \in Seq(Literals)
           /\ strata[JobRule(job).head.relation] = stratum
<1> DEFINE rs == {k \in DOMAIN task.rules : strata[task.rules[k].head.relation] = stratum}
<1>1. task.rules \in Seq(Rules)
  BY TaskParts
<1>2. PICK k \in rs : \E i \in Nat : job = <<k, i>>
  <2>1. CASE evaluator = "reference" \/ round = 0
    BY <2>1 DEF Jobs
  <2>2. CASE ~(evaluator = "reference" \/ round = 0)
    <3>1. PICK k \in rs : job \in {<<k, i>> : i \in DeltaPositions(task.rules[k].body)}
      BY <2>2 DEF Jobs
    <3>2. task.rules[k] \in Rules
      BY <1>1
    <3>3. task.rules[k].body \in Seq(Literals)
      BY <3>2, RuleParts
    <3>4. DeltaPositions(task.rules[k].body) \subseteq Nat
      BY <3>3 DEF DeltaPositions, Positives
    <3> QED BY <3>1, <3>4
  <2> QED BY <2>1, <2>2
<1>3. PICK i \in Nat : job = <<k, i>>
  BY <1>2
<1>4. k \in Nat /\ k \in DOMAIN task.rules /\ strata[task.rules[k].head.relation] = stratum
  BY <1>1, <1>2
<1>5. task.rules[k] \in RuleSet(task) /\ task.rules[k] \in Rules
  BY <1>1, <1>4 DEF RuleSet
<1> QED BY <1>3, <1>4, <1>5, RuleParts DEF JobRule, Body

\* The jobs of the stratum: each rule in full, or at each place after the first round.
LEMMA JobsCover ==
    ASSUME task \in Tasks, NEW r \in RuleSet(task), strata[r.head.relation] = stratum
    PROVE  /\ evaluator = "reference" \/ round = 0 =>
                \E job \in Jobs : JobRule(job) = r /\ job[2] = 0
           /\ ~(evaluator = "reference" \/ round = 0) =>
                \A i \in Positives(r.body) : \E job \in Jobs : JobRule(job) = r /\ job[2] = i
<1>1. PICK k \in DOMAIN task.rules : r = task.rules[k]
  BY DEF RuleSet
<1>2. CASE evaluator = "reference" \/ round = 0
  <2>1. <<k, 0>> \in Jobs
    BY <1>1, <1>2 DEF Jobs
  <2>2. JobRule(<<k, 0>>) = r /\ <<k, 0>>[2] = 0
    BY <1>1 DEF JobRule
  <2> QED BY <1>2, <2>1, <2>2
<1>3. CASE ~(evaluator = "reference" \/ round = 0)
  <2>1. ASSUME NEW i \in Positives(r.body)
        PROVE  <<k, i>> \in Jobs /\ JobRule(<<k, i>>) = r /\ <<k, i>>[2] = i
    BY <1>1, <1>3 DEF Jobs, DeltaPositions, JobRule
  <2> QED BY <1>3, <2>1
<1> QED BY <1>2, <1>3

-----------------------------------------------------------------------------
(* Conclusions *)

\* What a match adds to rows: a derivation of a row, or the row n.
Stems(r, s, rows, others, n) ==
    \A g \in others :
        \/ \E f \in rows :
             /\ Gains(f, g)
             /\ \A d \in g.derivations :
                  d \in f.derivations \/ (Derives(r, s, g) /\ d = DerivedBy(r, s))
        \/ g.id = n /\ Derives(r, s, g) /\ g.derivations = {DerivedBy(r, s)}

LEMMA AttachGains ==
    ASSUME NEW rows, NEW bound, IsTable(rows, bound), NEW e \in rows, e.derivations # {},
           NEW d, NEW f \in rows
    PROVE  Gains(f, Attached(f, e.id, d)) /\ (f # e => Attached(f, e.id, d) = f)
<1>1. IsRow(f) /\ (f # e => f.id # e.id)
  BY DEF IsTable, NameFacts
<1>2. f # e => Attached(f, e.id, d) = f
  BY <1>1 DEF Attached
<1>3. /\ Same(f, Attached(f, e.id, d))
      /\ Attached(f, e.id, d).derivations =
           IF f.id = e.id THEN f.derivations \cup {d} ELSE f.derivations
  BY <1>1, AttachedRow
<1>4. f.id = e.id => f.derivations # {}
  BY <1>1
<1>5. Gains(f, Attached(f, e.id, d))
  <2> DEFINE g == Attached(f, e.id, d)
  <2> HIDE DEF g
  <2>1. Same(f, g) /\ g.derivations = IF f.id = e.id THEN f.derivations \cup {d} ELSE f.derivations
    BY <1>3 DEF g
  <2>2. Gains(f, g)
    BY <1>4, <2>1 DEF Gains
  <2> QED BY <2>2 DEF g
<1> QED BY <1>2, <1>5

LEMMA AttachEffect ==
    ASSUME NEW rows, NEW bound, IsTable(rows, bound), NEW r, NEW s,
           NEW e \in rows, e.derivations # {}, Derives(r, s, e), NEW st, NEW n
    PROVE  /\ Grows(rows, Attach(rows, e.id, DerivedBy(r, s)), st, n)
           /\ Present(r, s, Attach(rows, e.id, DerivedBy(r, s)))
           /\ Stems(r, s, rows, Attach(rows, e.id, DerivedBy(r, s)), bound)
<1> DEFINE d == DerivedBy(r, s)
           T == Attach(rows, e.id, d)
<1>1. \A f \in rows : Attached(f, e.id, d) \in T /\ Gains(f, Attached(f, e.id, d))
  BY AttachRows, AttachGains
<1>2. \A g \in T : \E f \in rows : g = Attached(f, e.id, d)
  BY AttachRows
<1>3. Grows(rows, T, st, n)
  <2> HIDE DEF T, d
  <2> QED BY <1>1, <1>2 DEF Grows
<1>4. IsRow(e)
  BY DEF IsTable
<1>5. d \in Attached(e, e.id, d).derivations /\ Same(e, Attached(e, e.id, d))
  BY <1>4, AttachedRow
<1>6. Derives(r, s, Attached(e, e.id, d))
  BY <1>5 DEF Same, Derives
<1>7. Present(r, s, T)
  <2> HIDE DEF T
  <2> QED BY <1>1, <1>5, <1>6 DEF Present
<1>8. Stems(r, s, rows, T, bound)
  <2> SUFFICES ASSUME NEW g \in T
               PROVE  \E f \in rows :
                        /\ Gains(f, g)
                        /\ \A c \in g.derivations :
                             c \in f.derivations \/ (Derives(r, s, g) /\ c = DerivedBy(r, s))
    BY DEF Stems
  <2>1. PICK f \in rows : g = Attached(f, e.id, d)
    BY <1>2
  <2>2. Gains(f, g) /\ (f # e => g = f) /\ (f = e => g.derivations = e.derivations \cup {d})
    <3>1. f = e => g.derivations = e.derivations \cup {d}
      <4>1. Attached(e, e.id, d).derivations = e.derivations \cup {d}
        BY <1>4, AttachedRow
      <4> QED BY <2>1, <4>1
    <3>2. Gains(f, g) /\ (f # e => g = f)
      BY <2>1, AttachGains
    <3> QED BY <3>1, <3>2
  <2>3. f = e => Derives(r, s, g)
    BY <1>6, <2>1
  <2> QED BY <2>2, <2>3
<1> QED BY <1>3, <1>7, <1>8

LEMMA AddEffect ==
    ASSUME NEW rows, NEW bound \in Nat, IsTable(rows, bound), NEW r, NEW s, NEW f,
           f = [id |-> bound, relation |-> r.head.relation, args |-> HeadArgs(r, s),
                warrant |-> "Heuristic", derivations |-> {DerivedBy(r, s)}],
           r.head.relation \in Relations, \A e \in rows : ~Derives(r, s, e),
           NEW st, NEW n, st[r.head.relation] = n
    PROVE  /\ IsTable(rows \cup {f}, bound + 1)
           /\ Grows(rows, rows \cup {f}, st, n)
           /\ Present(r, s, rows \cup {f})
           /\ Stems(r, s, rows, rows \cup {f}, bound)
<1>1. /\ f.id = bound /\ f.relation = r.head.relation /\ f.args = HeadArgs(r, s)
      /\ f.derivations = {DerivedBy(r, s)} /\ IsRow(f)
  BY DEF IsRow, FactWarrant
<1>2. Derives(r, s, f)
  BY <1>1 DEF Derives
<1>3. \A e \in rows : IsRow(e) /\ e.id < bound /\ e.id \in Nat
  BY DEF IsTable, IsRow
<1>4. IsTable(rows \cup {f}, bound + 1)
  <2>1. IsFiniteSet(rows \cup {f})
    BY FS_AddElement DEF IsTable
  <2>2. NameFacts(rows \cup {f})
    BY <1>1, <1>3 DEF IsTable, NameFacts
  <2>3. ASSUME NEW e \in rows \cup {f} PROVE IsRow(e) /\ e.id < bound + 1
    <3>1. CASE e \in rows
      BY <1>3, <3>1
    <3>2. CASE e = f
      BY <1>1, <3>2
    <3> QED BY <3>1, <3>2
  <2> QED BY <2>1, <2>2, <2>3 DEF IsTable
<1>5. \A e \in rows : Gains(e, e)
  BY DEF Gains, Same
<1>6. \A e \in rows : ~(e.relation = f.relation /\ e.args = f.args)
  BY <1>1 DEF Derives
<1>7. Grows(rows, rows \cup {f}, st, n)
  BY <1>1, <1>5, <1>6 DEF Grows
<1>8. Present(r, s, rows \cup {f})
  BY <1>1, <1>2 DEF Present
<1>9. Stems(r, s, rows, rows \cup {f}, bound)
  BY <1>1, <1>2, <1>5 DEF Stems
<1> QED BY <1>4, <1>7, <1>8, <1>9

\* The row that is derived already, to which a derivation is attached.
LEMMA DerivedRow ==
    ASSUME NEW rows, NEW bound, IsTable(rows, bound), NEW known \in SUBSET rows,
           \E f \in known : f.derivations # {}
    PROVE  \E f \in known : f.derivations # {} /\ f.id = DerivedId(known)
<1> DEFINE S == {f \in known : f.derivations # {}}
<1>1. IsTable(S, bound) /\ S # {}
  BY TableSubset
<1>2. \E f \in S : f.id = HighestId(S)
  <2> HIDE DEF S
  <2> QED BY <1>1, HighestIdIs
<1> QED BY <1>2 DEF DerivedId

-----------------------------------------------------------------------------
(* The inductive invariant: what is stored *)

Rows == db \cup produced

Stored ==
    /\ task \in Tasks
    /\ evaluator \in {"reference", "optimized"}
    /\ phase \in {"start", "round", "rules", "warrants", "done"}
    /\ strata \in [Relations -> Nat] /\ stratum \in Nat /\ round \in Nat
    /\ next \in Nat /\ IsTable(Rows, next)
    /\ literal \in Nat \ {0}
    /\ DOMAIN outcome = {"reference", "optimized"}

\* An evaluation starts from nothing and leaves nothing.
Forgotten ==
    phase \in {"start", "done"} => db = {} /\ produced = {} /\ delta = {} /\ stratum = 0 /\ round = 0

\* The work of a round is on its stratum and on rows of the database.
Ordered ==
    /\ phase # "rules" => work = {} /\ produced = {}
    /\ work \subseteq Jobs
    /\ work = {} => literal = 1 /\ states = Unmatched
    /\ phase \in {"round", "rules", "warrants"} => \A r \in RuleSet(task) : Above(strata, r)
    /\ \A f \in produced : strata[f.relation] = stratum
    /\ \A f \in delta : \E g \in db : Same(f, g)
    /\ phase \in {"round", "rules"} /\ task.maxRounds > 0 => round < task.maxRounds

\* The states of the current job end matches of the literals before the next.
Traced ==
    \A job \in work :
        Current(job) =>
            /\ literal \in 1 .. Len(Body(job)) + 1
            /\ \A s \in states :
                 \E m : /\ Trace(m, literal - 1, Body(job), 0, {}, Rows, Rows)
                        /\ At(m, literal - 1) = s

\* What concluding a match of the current job does.
Concludes(r, s) ==
    /\ Grows(Rows, Rows', strata, stratum)
    /\ Present(r, s, Rows')
    /\ Stems(r, s, Rows, Rows', next)
    /\ IsTable(Rows', next') /\ next' \in Nat
    /\ Alike(db, db')
    /\ \A f \in produced' : strata[f.relation] = stratum
    /\ produced' = {} => produced = {}

LEMMA AlikeSelf == \A rows : Alike(rows, rows) /\ \A f \in rows : Gains(f, f)
BY DEF Alike, Same, Gains

LEMMA AttachAlike ==
    ASSUME NEW rows, NEW bound, IsTable(rows, bound), NEW id, NEW d
    PROVE  Alike(rows, Attach(rows, id, d))
<1>1. \A f \in rows : Same(f, Attached(f, id, d)) /\ Attached(f, id, d) \in Attach(rows, id, d)
  BY AttachedRow, AttachRows DEF IsTable
<1>2. \A g \in Attach(rows, id, d) : \E f \in rows : g = Attached(f, id, d)
  BY AttachRows
<1> QED BY <1>1, <1>2 DEF Alike

LEMMA ConcludedEffect ==
    ASSUME Stored, Ordered, NEW r \in Rules, NEW s, strata[r.head.relation] = stratum,
           Concluded(r, s)
    PROVE  Concludes(r, s)
<1> DEFINE args == HeadArgs(r, s)
           d == DerivedBy(r, s)
           known == Known(r.head.relation, args)
           id == DerivedId(known)
           f == [id |-> next, relation |-> r.head.relation, args |-> args,
                 warrant |-> "Heuristic", derivations |-> {d}]
<1>1. \/ /\ \E e \in known : e.derivations # {}
         /\ produced' = Attach(produced, id, d) /\ db' = Attach(db, id, d) /\ next' = next
      \/ /\ ~\E e \in known : e.derivations # {}
         /\ known # {} /\ produced' = produced /\ db' = db /\ next' = next
      \/ known = {} /\ produced' = produced \cup {f} /\ db' = db /\ next' = next + 1
  BY DEF Concluded, AttachDerivation, HeadArgs, DerivedBy
<1>2. next \in Nat /\ IsTable(Rows, next) /\ IsTable(db, next) /\ IsTable(produced, next)
  BY TableSubset DEF Stored, Rows
<1>3. \A e \in produced : strata[e.relation] = stratum
  BY DEF Ordered
<1>4. \A e : e \in known <=> e \in Rows /\ Derives(r, s, e)
  BY DEF Known, Rows, Derives
<1>5. r.head.relation \in Relations
  BY RuleParts
<1> HIDE DEF known, id, args, d
<1>6. CASE /\ \E e \in known : e.derivations # {}
           /\ produced' = Attach(produced, id, d) /\ db' = Attach(db, id, d) /\ next' = next
  <2>1. PICK e \in known : e.derivations # {} /\ e.id = id
    BY <1>2, <1>4, <1>6, DerivedRow DEF id
  <2>2. Rows' = Attach(Rows, id, d)
    BY <1>6, AttachUnion DEF Rows
  <2>3. e \in Rows /\ Derives(r, s, e)
    BY <1>4
  <2>4. /\ Grows(Rows, Rows', strata, stratum) /\ Present(r, s, Rows')
        /\ Stems(r, s, Rows, Rows', next)
    BY <1>2, <2>1, <2>2, <2>3, AttachEffect DEF d
  <2>5. IsTable(Rows', next') /\ next' \in Nat
    BY <1>2, <1>6, <2>2, AttachTable
  <2>6. Alike(db, db') /\ Alike(produced, produced')
    BY <1>2, <1>6, AttachAlike
  <2>7. \A g \in produced' : strata[g.relation] = stratum
    BY <1>3, <2>6 DEF Alike, Same
  <2>8. produced' = {} => produced = {}
    BY <2>6 DEF Alike
  <2> QED BY <2>4, <2>5, <2>6, <2>7, <2>8 DEF Concludes
<1>7. CASE /\ ~\E e \in known : e.derivations # {}
           /\ known # {} /\ produced' = produced /\ db' = db /\ next' = next
  <2>1. Rows' = Rows
    BY <1>7 DEF Rows
  <2>2. Grows(Rows, Rows, strata, stratum)
    BY AlikeSelf DEF Grows
  <2>3. Present(r, s, Rows)
    BY <1>4, <1>7 DEF Present
  <2>4. Stems(r, s, Rows, Rows, next)
    BY AlikeSelf DEF Stems
  <2> QED BY <1>2, <1>3, <1>7, <2>1, <2>2, <2>3, <2>4, AlikeSelf DEF Concludes
<1>8. CASE known = {} /\ produced' = produced \cup {f} /\ db' = db /\ next' = next + 1
  <2>1. \A e \in Rows : ~Derives(r, s, e)
    BY <1>4, <1>8
  <2>2. f = [id |-> next, relation |-> r.head.relation, args |-> HeadArgs(r, s),
             warrant |-> "Heuristic", derivations |-> {DerivedBy(r, s)}]
    BY DEF args, d
  <2>3. f.relation = r.head.relation
    OBVIOUS
  <2> HIDE DEF f
  <2>4. Rows' = Rows \cup {f}
    BY <1>8 DEF Rows
  <2>5. /\ IsTable(Rows', next + 1) /\ Grows(Rows, Rows', strata, stratum)
        /\ Present(r, s, Rows') /\ Stems(r, s, Rows, Rows', next)
    BY <1>2, <1>5, <2>1, <2>2, <2>4, AddEffect
  <2>6. \A g \in produced' : strata[g.relation] = stratum
    BY <1>3, <1>8, <2>3
  <2>7. next' \in Nat /\ produced' # {}
    BY <1>2, <1>8
  <2> QED BY <1>8, <2>5, <2>6, <2>7, AlikeSelf DEF Concludes
<1> QED BY <1>1, <1>6, <1>7, <1>8

-----------------------------------------------------------------------------
(* Warrants of rows *)

\* A set of warrants that is not empty has a weakest.
LEMMA WeakestWarrant ==
    ASSUME NEW ws \in SUBSET FactWarrant, ws # {}
    PROVE  \E w \in ws : \A v \in ws : Weaker(w, v) = w
<1>1. CASE "Heuristic" \in ws
  <2>1. ASSUME NEW v \in ws PROVE Weaker("Heuristic", v) = "Heuristic"
    <3>1. Strength["Heuristic"] <= Strength[v]
      BY DEF FactWarrant, Strength
    <3> QED BY <3>1 DEF Weaker
  <2> QED BY <1>1, <2>1
<1>2. CASE "Heuristic" \notin ws /\ "Asserted" \in ws
  <2>1. ASSUME NEW v \in ws PROVE Weaker("Asserted", v) = "Asserted"
    <3>1. v \in {"Proved", "Structural", "Asserted"}
      BY <1>2 DEF FactWarrant
    <3>2. Strength["Asserted"] <= Strength[v]
      BY <3>1 DEF Strength
    <3> QED BY <3>2 DEF Weaker
  <2> QED BY <1>2, <2>1
<1>3. CASE ws \subseteq {"Proved", "Structural"} /\ "Structural" \in ws
  <2>1. ASSUME NEW v \in ws PROVE Weaker("Structural", v) = "Structural"
    <3>1. v \in {"Proved", "Structural"}
      BY <1>3
    <3>2. Strength["Structural"] <= Strength[v]
      BY <3>1 DEF Strength
    <3> QED BY <3>2 DEF Weaker
  <2> QED BY <1>3, <2>1
<1>4. CASE ws \subseteq {"Proved"}
  <2>1. ASSUME NEW v \in ws PROVE Weaker("Proved", v) = "Proved"
    BY <1>4 DEF Weaker
  <2>2. "Proved" \in ws
    BY <1>4
  <2> QED BY <2>1, <2>2
<1> QED BY <1>1, <1>2, <1>3, <1>4 DEF FactWarrant

LEMMA WarrantOfRow ==
    ASSUME NEW rows, NEW bound, IsTable(rows, bound)
    PROVE  /\ \A f \in rows : WarrantOf(f.id, rows) = f.warrant /\ f.warrant \in FactWarrant
           /\ \A id : \/ WarrantOf(id, rows) = "Heuristic"
                      \/ \E f \in rows : f.id = id /\ WarrantOf(id, rows) = f.warrant
           /\ \A id : WarrantOf(id, rows) \in FactWarrant
<1>1. ASSUME NEW f \in rows PROVE WarrantOf(f.id, rows) = f.warrant
  <2>1. (CHOOSE g \in rows : g.id = f.id) = f
    BY DEF IsTable, NameFacts
  <2> QED BY <2>1 DEF WarrantOf
<1>2. \A f \in rows : f.warrant \in FactWarrant
  BY DEF IsTable, IsRow
<1>3. \A id : (~\E f \in rows : f.id = id) => WarrantOf(id, rows) = "Heuristic"
  BY DEF WarrantOf
<1>4. "Heuristic" \in FactWarrant
  BY DEF FactWarrant
<1> QED BY <1>1, <1>2, <1>3, <1>4

Input(d, i) == d.inputs[i]

\* A derivation is worth its weakest input, and no more than inference is.
LEMMA DerivationWarrantIs ==
    ASSUME NEW rows, NEW bound, IsTable(rows, bound), NEW d
    PROVE  /\ DerivationWarrant(d, rows) \in FactWarrant
           /\ Strength[DerivationWarrant(d, rows)] <= Strength["Structural"]
           /\ \A i \in DOMAIN d.inputs :
                Strength[DerivationWarrant(d, rows)] <= Strength[WarrantOf(Input(d, i), rows)]
           /\ \/ DerivationWarrant(d, rows) = "Structural"
              \/ \E i \in DOMAIN d.inputs : DerivationWarrant(d, rows) = WarrantOf(Input(d, i), rows)
<1> DEFINE ws == {WarrantOf(Input(d, i), rows) : i \in DOMAIN d.inputs} \cup {"Structural"}
           w == DerivationWarrant(d, rows)
<1>1. ws \in SUBSET FactWarrant /\ ws # {}
  BY WarrantOfRow DEF FactWarrant
<1>2. w = CHOOSE u \in ws : \A v \in ws : Weaker(u, v) = u
  BY DEF DerivationWarrant, Input
<1>3. w \in ws /\ \A v \in ws : Weaker(w, v) = w
  <2> HIDE DEF ws, w
  <2> QED BY <1>1, <1>2, WeakestWarrant
<1>4. \A v \in ws : Strength[w] <= Strength[v]
  <2> HIDE DEF ws, w
  <2>1. ASSUME NEW v \in ws PROVE Strength[w] <= Strength[v]
    <3>1. v \in FactWarrant /\ w \in FactWarrant /\ Weaker(w, v) = w
      BY <1>1, <1>3
    <3>2. Strength[v] \in Int /\ Strength[w] \in Int
      BY <3>1, StrengthType
    <3> QED BY <3>1, <3>2 DEF Weaker
  <2> QED BY <2>1
<1> HIDE DEF w
<1>5. w \in FactWarrant
  BY <1>1, <1>3
<1>6. Strength[w] <= Strength["Structural"]
  BY <1>4
<1>7. \A i \in DOMAIN d.inputs : Strength[w] <= Strength[WarrantOf(Input(d, i), rows)]
  BY <1>4
<1>8. w = "Structural" \/ \E i \in DOMAIN d.inputs : w = WarrantOf(Input(d, i), rows)
  BY <1>3
<1> QED BY <1>5, <1>6, <1>7, <1>8 DEF w

\* A row is worth its best derivation.
LEMMA JustifiedIs ==
    ASSUME NEW rows, NEW bound, IsTable(rows, bound), NEW f
    PROVE  /\ Justified(f, rows) \in FactWarrant
           /\ \A d \in f.derivations :
                Strength[DerivationWarrant(d, rows)] <= Strength[Justified(f, rows)]
           /\ \/ Justified(f, rows) = "Heuristic"
              \/ \E d \in f.derivations : Justified(f, rows) = DerivationWarrant(d, rows)
<1> DEFINE ws == {DerivationWarrant(d, rows) : d \in f.derivations}
           w == Justified(f, rows)
<1>1. ws \in SUBSET FactWarrant /\ "Heuristic" \in FactWarrant
  BY DerivationWarrantIs DEF FactWarrant
<1>2. w = Strongest(ws)
  BY DEF Justified
<1>3. w \in ws \cup {"Heuristic"} /\ \A v \in ws : ~IsStrongerThan(v, w)
  <2> HIDE DEF ws, w
  <2> QED BY <1>1, <1>2, StrongestIsJoin
<1>4. w \in FactWarrant
  BY <1>1, <1>3
<1>5. ASSUME NEW d \in f.derivations PROVE Strength[DerivationWarrant(d, rows)] <= Strength[w]
  <2>1. DerivationWarrant(d, rows) \in ws /\ DerivationWarrant(d, rows) \in FactWarrant
    BY <1>1
  <2> HIDE DEF w, ws
  <2>2. ~(Strength[DerivationWarrant(d, rows)] > Strength[w])
    BY <1>3, <2>1 DEF IsStrongerThan
  <2>3. Strength[DerivationWarrant(d, rows)] \in Int /\ Strength[w] \in Int
    BY <1>4, <2>1, StrengthType
  <2> QED BY <2>2, <2>3
<1> HIDE DEF w
<1>6. w = "Heuristic" \/ \E d \in f.derivations : w = DerivationWarrant(d, rows)
  BY <1>3
<1> QED BY <1>4, <1>5, <1>6 DEF w

\* Rows whose warrants are raised.
Lifts(rows, others) ==
    \A f \in rows : \E g \in others : g.id = f.id /\ Strength[f.warrant] <= Strength[g.warrant]

LEMMA StrengthRange == \A w \in FactWarrant : Strength[w] \in 0 .. 3 /\ Strength[w] \in Int
BY DEF FactWarrant, Strength

LEMMA HeuristicIsLeast == Strength["Heuristic"] = 0
BY DEF Strength

\* Warrants of derivations and rows are raised with them.
LEMMA LiftsDerivations ==
    ASSUME NEW rows, NEW others, NEW bound, IsTable(rows, bound), IsTable(others, bound),
           Lifts(rows, others), NEW d
    PROVE  Strength[DerivationWarrant(d, rows)] <= Strength[DerivationWarrant(d, others)]
<1>1. ASSUME NEW id PROVE Strength[WarrantOf(id, rows)] <= Strength[WarrantOf(id, others)]
  <2>1. Strength[WarrantOf(id, others)] \in 0 .. 3
    BY WarrantOfRow, StrengthRange
  <2>2. CASE WarrantOf(id, rows) = "Heuristic"
    BY <2>1, <2>2, HeuristicIsLeast
  <2>3. CASE \E f \in rows : f.id = id /\ WarrantOf(id, rows) = f.warrant
    <3>1. PICK f \in rows : f.id = id /\ WarrantOf(id, rows) = f.warrant
      BY <2>3
    <3>2. PICK g \in others : g.id = f.id /\ Strength[f.warrant] <= Strength[g.warrant]
      BY DEF Lifts
    <3>3. WarrantOf(g.id, others) = g.warrant
      BY WarrantOfRow
    <3> QED BY <3>1, <3>2, <3>3
  <2> QED BY <2>2, <2>3, WarrantOfRow
<1> DEFINE v == DerivationWarrant(d, rows)
           w == DerivationWarrant(d, others)
<1>2. /\ v \in FactWarrant /\ Strength[v] <= Strength["Structural"]
      /\ \A i \in DOMAIN d.inputs : Strength[v] <= Strength[WarrantOf(Input(d, i), rows)]
  BY DerivationWarrantIs
<1>3. \/ w = "Structural"
      \/ \E i \in DOMAIN d.inputs : w = WarrantOf(Input(d, i), others)
  BY DerivationWarrantIs
<1> HIDE DEF v, w
<1>4. CASE w = "Structural"
  BY <1>2, <1>4 DEF v, w
<1>5. CASE \E i \in DOMAIN d.inputs : w = WarrantOf(Input(d, i), others)
  <2>1. PICK i \in DOMAIN d.inputs : w = WarrantOf(Input(d, i), others)
    BY <1>5
  <2>2. Strength[v] <= Strength[WarrantOf(Input(d, i), rows)]
    BY <1>2
  <2>3. Strength[WarrantOf(Input(d, i), rows)] <= Strength[WarrantOf(Input(d, i), others)]
    BY <1>1
  <2>4. /\ Strength[v] \in Int /\ Strength[WarrantOf(Input(d, i), rows)] \in Int
        /\ Strength[WarrantOf(Input(d, i), others)] \in Int
    BY <1>2, WarrantOfRow, StrengthRange
  <2>5. Strength[v] <= Strength[w]
    BY <2>1, <2>2, <2>3, <2>4
  <2> QED BY <2>5 DEF v, w
<1> QED BY <1>3, <1>4, <1>5

LEMMA LiftsJustified ==
    ASSUME NEW rows, NEW others, NEW bound, IsTable(rows, bound), IsTable(others, bound),
           Lifts(rows, others), NEW f, NEW g, g.derivations = f.derivations
    PROVE  Strength[Justified(f, rows)] <= Strength[Justified(g, others)]
<1> DEFINE v == Justified(f, rows)
           w == Justified(g, others)
<1>1. v \in FactWarrant /\ w \in FactWarrant
  BY JustifiedIs
<1>2. v = "Heuristic" \/ \E d \in f.derivations : v = DerivationWarrant(d, rows)
  BY JustifiedIs
<1>3. \A d \in g.derivations : Strength[DerivationWarrant(d, others)] <= Strength[w]
  BY JustifiedIs
<1> HIDE DEF v, w
<1>4. Strength[v] \in Int /\ Strength[w] \in 0 .. 3
  BY <1>1, StrengthRange
<1>5. CASE v = "Heuristic"
  <2>1. Strength[v] <= Strength[w]
    BY <1>4, <1>5, HeuristicIsLeast
  <2> QED BY <2>1 DEF v, w
<1>6. CASE \E d \in f.derivations : v = DerivationWarrant(d, rows)
  <2>1. PICK d \in f.derivations : v = DerivationWarrant(d, rows)
    BY <1>6
  <2>2. Strength[v] <= Strength[DerivationWarrant(d, others)]
    BY <2>1, LiftsDerivations
  <2>3. Strength[DerivationWarrant(d, others)] <= Strength[w]
    BY <1>3
  <2>4. DerivationWarrant(d, others) \in FactWarrant
    BY DerivationWarrantIs
  <2>5. Strength[DerivationWarrant(d, others)] \in Int
    BY <2>4, StrengthRange
  <2>6. Strength[v] <= Strength[w]
    BY <1>4, <2>2, <2>3, <2>5
  <2> QED BY <2>6 DEF v, w
<1> QED BY <1>2, <1>5, <1>6

\* Rows that differ in their warrants only.
Regrade(f, g) == Same(f, g) /\ g.derivations = f.derivations

Regraded(rows, others) ==
    /\ \A f \in rows : \E g \in others : Regrade(f, g)
    /\ \A g \in others : \E f \in rows : Regrade(f, g)

LEMMA RegradedGrows ==
    ASSUME NEW rows, NEW others, Regraded(rows, others), NEW st, NEW n
    PROVE  Grows(rows, others, st, n) /\ Alike(rows, others)
<1>1. \A f, g : Regrade(f, g) => Gains(f, g) /\ Same(f, g)
  BY DEF Regrade, Gains
<1> QED BY <1>1 DEF Regraded, Grows, Alike

\* A function from rows to rows of the same ids makes a table of a table.
LEMMA ImageTable ==
    ASSUME NEW rows, NEW bound, NEW h, NEW others, IsTable(rows, bound),
           h = [f \in rows |-> h[f]], others = {h[f] : f \in rows},
           \A f \in rows : IsRow(h[f]) /\ h[f].id = f.id
    PROVE  IsTable(others, bound)
<1>1. IsFiniteSet(others)
  <2>1. IsFiniteSet(rows)
    BY DEF IsTable
  <2>2. h \in Surjection(rows, others)
    BY DEF Surjection
  <2> QED BY <2>1, <2>2, FS_Surjection
<1>2. ASSUME NEW g1 \in others, NEW g2 \in others, g1.id = g2.id PROVE g1 = g2
  <2>1. PICK f1 \in rows : g1 = h[f1]
    OBVIOUS
  <2>2. PICK f2 \in rows : g2 = h[f2]
    OBVIOUS
  <2>3. f1.id = f2.id
    BY <1>2, <2>1, <2>2
  <2> QED BY <2>1, <2>2, <2>3 DEF IsTable, NameFacts
<1>3. ASSUME NEW g \in others PROVE IsRow(g) /\ g.id < bound
  <2>1. PICK f \in rows : g = h[f]
    OBVIOUS
  <2> QED BY <2>1 DEF IsTable
<1> QED BY <1>1, <1>2, <1>3 DEF IsTable, NameFacts

LEMMA ResetEffect ==
    ASSUME NEW rows, NEW bound, IsTable(rows, bound)
    PROVE  /\ IsTable(ResetWarrants(rows), bound) /\ Regraded(rows, ResetWarrants(rows))
           /\ \A g \in ResetWarrants(rows) : g.derivations # {} => g.warrant = "Heuristic"
<1> DEFINE h == [f \in rows |-> IF f.derivations # {} THEN [f EXCEPT !.warrant = "Heuristic"] ELSE f]
           T == ResetWarrants(rows)
<1>1. h = [f \in rows |-> h[f]] /\ T = {h[f] : f \in rows}
  BY DEF ResetWarrants
<1>2. ASSUME NEW f \in rows
      PROVE  /\ IsRow(h[f]) /\ h[f].id = f.id /\ Regrade(f, h[f])
             /\ h[f].derivations # {} => h[f].warrant = "Heuristic"
  <2>1. IsRow(f) /\ h[f] = IF f.derivations # {} THEN [f EXCEPT !.warrant = "Heuristic"] ELSE f
    BY DEF IsTable
  <2>2. CASE f.derivations # {}
    <3> DEFINE g == [f EXCEPT !.warrant = "Heuristic"]
    <3>1. IsRow(g) /\ Regrade(f, g) /\ g.id = f.id /\ g.warrant = "Heuristic"
      BY <2>1 DEF IsRow, Regrade, Same, FactWarrant
    <3>2. h[f] = g
      BY <2>1, <2>2
    <3> HIDE DEF g, h
    <3> QED BY <3>1, <3>2
  <2>3. CASE f.derivations = {}
    <3>1. h[f] = f
      BY <2>1, <2>3
    <3> HIDE DEF h
    <3> QED BY <2>1, <2>3, <3>1 DEF Regrade, Same
  <2> QED BY <2>2, <2>3
<1> HIDE DEF h, T
<1>3. IsTable(T, bound)
  BY <1>1, <1>2, ImageTable
<1>4. Regraded(rows, T)
  BY <1>1, <1>2 DEF Regraded
<1>5. \A g \in T : g.derivations # {} => g.warrant = "Heuristic"
  BY <1>1, <1>2
<1> QED BY <1>3, <1>4, <1>5 DEF T

\* What a pass makes of the row f.
NewWarrant(f, rows) == IF Improves(f, rows) THEN Justified(f, rows) ELSE f.warrant

LEMMA RaisedEffect ==
    ASSUME NEW rows, NEW bound, IsTable(rows, bound)
    PROVE  /\ IsTable(Raised(rows), bound) /\ Regraded(rows, Raised(rows))
           /\ \A g \in Raised(rows) : \E f \in rows : Regrade(f, g) /\ g.warrant = NewWarrant(f, rows)
           /\ \A f \in rows : \E g \in Raised(rows) : Regrade(f, g) /\ g.warrant = NewWarrant(f, rows)
           /\ Lifts(rows, Raised(rows))
<1> DEFINE h == [f \in rows |-> IF Improves(f, rows)
                                 THEN [f EXCEPT !.warrant = Justified(f, rows)] ELSE f]
           T == Raised(rows)
<1>1. h = [f \in rows |-> h[f]] /\ T = {h[f] : f \in rows}
  BY DEF Raised
<1>2. ASSUME NEW f \in rows
      PROVE  /\ IsRow(h[f]) /\ h[f].id = f.id /\ Regrade(f, h[f])
             /\ h[f].warrant = NewWarrant(f, rows)
             /\ Strength[f.warrant] <= Strength[h[f].warrant]
  <2>1. /\ IsRow(f) /\ f.warrant \in FactWarrant
        /\ h[f] = IF Improves(f, rows) THEN [f EXCEPT !.warrant = Justified(f, rows)] ELSE f
    BY DEF IsTable, IsRow
  <2>2. CASE Improves(f, rows)
    <3> DEFINE w == Justified(f, rows)
               g == [f EXCEPT !.warrant = w]
    <3>1. w \in FactWarrant
      BY JustifiedIs
    <3>2. Strength[f.warrant] <= Strength[w]
      <4>1. Strength[w] > Strength[f.warrant]
        BY <2>2 DEF Improves, IsStrongerThan
      <4> HIDE DEF w
      <4> QED BY <2>1, <3>1, <4>1, StrengthType
    <3>3. IsRow(g) /\ Regrade(f, g) /\ g.id = f.id /\ g.warrant = w
      <4> HIDE DEF w
      <4>1. f = [id |-> f.id, relation |-> f.relation, args |-> f.args, warrant |-> f.warrant,
                 derivations |-> f.derivations] /\ f.id \in Nat /\ f.relation \in Relations
        BY <2>1 DEF IsRow
      <4>2. g = [id |-> f.id, relation |-> f.relation, args |-> f.args, warrant |-> w,
                 derivations |-> f.derivations]
        BY <4>1
      <4>3. /\ g.id = f.id /\ g.relation = f.relation /\ g.args = f.args /\ g.warrant = w
            /\ g.derivations = f.derivations
        BY <4>2
      <4>4. IsRow(g)
        BY <3>1, <4>1, <4>2 DEF IsRow
      <4> HIDE DEF g
      <4> QED BY <4>3, <4>4 DEF Regrade, Same
    <3>4. h[f] = g
      BY <2>1, <2>2
    <3>5. w = NewWarrant(f, rows)
      BY <2>2 DEF NewWarrant
    <3> HIDE DEF g, h, w
    <3> QED BY <3>2, <3>3, <3>4, <3>5
  <2>3. CASE ~Improves(f, rows)
    <3>1. h[f] = f
      BY <2>1, <2>3
    <3>2. f.warrant = NewWarrant(f, rows)
      BY <2>3 DEF NewWarrant
    <3>3. Strength[f.warrant] <= Strength[f.warrant]
      BY <2>1, StrengthType
    <3> HIDE DEF h
    <3> QED BY <2>1, <3>1, <3>2, <3>3 DEF Regrade, Same
  <2> QED BY <2>2, <2>3
<1> HIDE DEF h, T
<1>3. IsTable(T, bound)
  BY <1>1, <1>2, ImageTable
<1>4. \A g \in T : \E f \in rows : Regrade(f, g) /\ g.warrant = NewWarrant(f, rows)
  BY <1>1, <1>2
<1>5. \A f \in rows : \E g \in T : Regrade(f, g) /\ g.warrant = NewWarrant(f, rows)
  BY <1>1, <1>2
<1>6. Lifts(rows, T)
  BY <1>1, <1>2 DEF Lifts
<1>7. Regraded(rows, T)
  BY <1>4, <1>5 DEF Regraded
<1> QED BY <1>3, <1>4, <1>5, <1>6, <1>7 DEF T

-----------------------------------------------------------------------------
(* The steps: what is stored and in what order *)

Control == Stored /\ Forgotten /\ Ordered

LEMMA EmptyTable == IsTable({}, 0)
BY FS_EmptySet DEF IsTable, NameFacts

LEMMA ReturnEffect ==
    ASSUME Stored, NEW code, NEW rows, NEW answers, Return(code, rows, answers)
    PROVE  /\ Control' /\ phase' = "done" /\ Rows' = {}
           /\ outcome'[evaluator'] = [code |-> code, facts |-> rows, rows |-> answers]
           /\ work' = {} /\ states' = Unmatched /\ task' = task
<1>1. /\ phase' = "done" /\ strata' = [r \in Relations |-> 0] /\ stratum' = 0 /\ round' = 0
      /\ work' = {} /\ literal' = 1 /\ states' = Unmatched
      /\ db' = {} /\ produced' = {} /\ delta' = {} /\ next' = 0
      /\ task' = task /\ evaluator' = evaluator
      /\ outcome' = [outcome EXCEPT ![evaluator] =
                       [code |-> code, facts |-> rows, rows |-> answers]]
  BY DEF Return
<1>2. Rows' = {}
  BY <1>1 DEF Rows
<1>3. /\ outcome'[evaluator'] = [code |-> code, facts |-> rows, rows |-> answers]
      /\ DOMAIN outcome' = {"reference", "optimized"}
  BY <1>1 DEF Stored
<1>4. Stored'
  BY <1>1, <1>2, <1>3, EmptyTable DEF Stored
<1>5. Forgotten' /\ Ordered'
  BY <1>1 DEF Forgotten, Ordered
<1> QED BY <1>1, <1>2, <1>3, <1>4, <1>5 DEF Control

LEMMA SameJobs ==
    ASSUME UNCHANGED <<task, evaluator, strata, stratum, round>>
    PROVE  Jobs' = Jobs
BY DEF Jobs

LEMMA LoadControl == Control /\ Load => Control'
<1> SUFFICES ASSUME Control, Load PROVE Control'
  OBVIOUS
<1>1. Stored /\ task \in Tasks /\ phase = "start" /\ Forgotten /\ Ordered
  BY DEF Control, Load, Stored
<1> DEFINE loaded == {f \in task.source : f.relation \in Mentioned(task)}
<1>2. CASE Err("UnsafeRule") \/ Err("UnstratifiedNegation")
  BY <1>1, <1>2, ReturnEffect DEF Err
<1>3. CASE ~(Err("UnsafeRule") \/ Err("UnstratifiedNegation"))
  <2>1. /\ Stratifications(task.rules) # {}
        /\ phase' = "round" /\ strata' = Strata(task.rules)
        /\ db' = loaded /\ next' = FirstFreeId(loaded)
        /\ UNCHANGED <<task, evaluator, stratum, round, work, literal, states, produced, delta,
                       passes, cancelled, outcome>>
    BY <1>3 DEF Load, matching
  <2>2. task.rules \in Seq(Rules) /\ task.maxRounds \in Nat
    BY <1>1, TaskParts
  <2>3. /\ Strata(task.rules) \in [Relations -> 0 .. Cardinality(Relations)]
        /\ \A k \in DOMAIN task.rules : Above(Strata(task.rules), task.rules[k])
    BY <2>1, <2>2, StrataOfRules
  <2>4. strata' \in [Relations -> Nat] /\ \A r \in RuleSet(task') : Above(strata', r)
    <3>1. Cardinality(Relations) \in Nat
      BY RelationsAreFinite, FS_CardinalityType
    <3>2. strata' \in [Relations -> 0 .. Cardinality(Relations)]
      BY <2>1, <2>3
    <3> QED BY <2>1, <2>3, <3>1, <3>2 DEF RuleSet
  <2>5. loaded \in SUBSET task.source
    OBVIOUS
  <2>6. /\ produced = {} /\ delta = {} /\ stratum = 0 /\ round = 0 /\ work = {} /\ literal = 1
        /\ states = Unmatched
    BY <1>1 DEF Forgotten, Ordered
  <2>7. IsTable(Rows', next') /\ next' \in Nat
    <3>1. IsTable(loaded, FirstFreeId(loaded)) /\ FirstFreeId(loaded) \in Nat
      BY <1>1, <2>5, SourceTable
    <3>2. Rows' = loaded
      BY <2>1, <2>6 DEF Rows
    <3> QED BY <2>1, <3>1, <3>2
  <2> HIDE DEF loaded
  <2>8. Stored'
    BY <1>1, <2>1, <2>4, <2>7 DEF Stored
  <2>9. Forgotten'
    BY <2>1 DEF Forgotten
  <2>10. Ordered'
    BY <2>1, <2>2, <2>4, <2>6 DEF Ordered
  <2> QED BY <2>8, <2>9, <2>10 DEF Control
<1> QED BY <1>2, <1>3

LEMMA BeginRoundControl == Control /\ BeginRound => Control'
<1> SUFFICES ASSUME Control, BeginRound PROVE Control'
  OBVIOUS
<1>1. Stored /\ phase = "round" /\ Forgotten /\ Ordered
  BY DEF Control, BeginRound
<1>2. CASE Err("Cancelled")
  BY <1>1, <1>2, ReturnEffect DEF Err
<1>3. CASE ~Err("Cancelled")
  <2>1. /\ phase' = "rules" /\ work' = Jobs
        /\ UNCHANGED <<task, evaluator, strata, stratum, round, literal, states, db, produced,
                       delta, next, passes, cancelled, outcome>>
    BY <1>3 DEF BeginRound, rounds, facts
  <2>2. Rows' = Rows /\ Jobs' = Jobs
    BY <2>1, SameJobs DEF Rows
  <2>3. Stored'
    BY <1>1, <2>1, <2>2 DEF Stored
  <2>4. Forgotten'
    BY <2>1 DEF Forgotten
  <2>5. Ordered'
    BY <1>1, <2>1, <2>2 DEF Ordered
  <2> QED BY <2>3, <2>4, <2>5 DEF Control
<1> QED BY <1>2, <1>3

LEMMA MatchLiteralControl == Control /\ MatchLiteral => Control'
<1> SUFFICES ASSUME Control, MatchLiteral PROVE Control'
  OBVIOUS
<1>1. Stored /\ phase = "rules" /\ Forgotten /\ Ordered
  BY DEF Control, MatchLiteral
<1>2. /\ work # {} /\ literal' = literal + 1
      /\ UNCHANGED <<task, evaluator, phase, strata, stratum, round, work, db, produced,
                     delta, next, passes, cancelled, outcome>>
  BY DEF MatchLiteral, rounds, facts
<1>3. Rows' = Rows /\ Jobs' = Jobs
  BY <1>2, SameJobs DEF Rows
<1>4. Stored'
  BY <1>1, <1>2, <1>3 DEF Stored
<1>5. Forgotten'
  BY <1>1, <1>2 DEF Forgotten
<1>6. Ordered'
  BY <1>1, <1>2, <1>3 DEF Ordered
<1> QED BY <1>4, <1>5, <1>6 DEF Control

\* A step that concludes concludes one match of one job.
LEMMA ConcludeEffect ==
    ASSUME Control, Conclude
    PROVE  /\ phase = "rules"
           /\ UNCHANGED <<task, evaluator, phase, strata, stratum, round, work, literal, delta,
                          passes, cancelled, outcome>>
           /\ \E job \in work : \E s \in states :
                /\ Current(job) /\ literal > Len(Body(job))
                /\ states' = states \ {s}
                /\ Concludes(JobRule(job), s)
<1>1. Stored /\ Ordered
  BY DEF Control
<1>2. PICK job \in work : /\ Current(job) /\ literal > Len(Body(job))
                          /\ \E s \in states : /\ First(s)
                                               /\ Concluded(task.rules[job[1]], s)
                                               /\ states' = states \ {s}
  BY DEF Conclude
<1>3. PICK s \in states : Concluded(task.rules[job[1]], s) /\ states' = states \ {s}
  BY <1>2
<1>4. job \in Jobs /\ task \in Tasks
  BY <1>1 DEF Ordered, Stored
<1>5. JobRule(job) \in Rules /\ strata[JobRule(job).head.relation] = stratum
  BY <1>4, JobParts
<1>6. Concludes(JobRule(job), s)
  <2>1. Concluded(JobRule(job), s)
    BY <1>3 DEF JobRule
  <2> QED BY <1>1, <1>5, <2>1, ConcludedEffect
<1>7. /\ phase = "rules"
      /\ UNCHANGED <<task, evaluator, phase, strata, stratum, round, work, literal, delta,
                     passes, cancelled, outcome>>
  BY DEF Conclude, rounds
<1> QED BY <1>2, <1>3, <1>6, <1>7

LEMMA ConcludeControl == Control /\ Conclude => Control'
<1> SUFFICES ASSUME Control, Conclude PROVE Control'
  OBVIOUS
<1>1. Stored /\ phase = "rules" /\ Forgotten /\ Ordered
  BY DEF Control, Conclude
<1>2. /\ UNCHANGED <<task, evaluator, phase, strata, stratum, round, work, literal, delta,
                     passes, cancelled, outcome>>
      /\ work # {}
      /\ IsTable(Rows', next') /\ next' \in Nat /\ Alike(db, db')
      /\ \A f \in produced' : strata[f.relation] = stratum
  BY ConcludeEffect DEF Concludes
<1>3. Jobs' = Jobs
  BY <1>2, SameJobs
<1>4. Stored'
  BY <1>1, <1>2 DEF Stored
<1>5. Forgotten'
  BY <1>1, <1>2 DEF Forgotten
<1>6. \A f \in delta' : \E g \in db' : Same(f, g)
  BY <1>1, <1>2 DEF Ordered, Alike, Same
<1>7. Ordered'
  BY <1>1, <1>2, <1>3, <1>6 DEF Ordered
<1> QED BY <1>4, <1>5, <1>7 DEF Control

LEMMA EndJobControl == Control /\ EndJob => Control'
<1> SUFFICES ASSUME Control, EndJob PROVE Control'
  OBVIOUS
<1>1. Stored /\ phase = "rules" /\ Forgotten /\ Ordered
  BY DEF Control, EndJob
<1>2. /\ work' \subseteq work /\ literal' = 1 /\ states' = Unmatched
      /\ UNCHANGED <<task, evaluator, phase, strata, stratum, round, db, produced,
                     delta, next, passes, cancelled, outcome>>
  BY DEF EndJob, rounds, facts
<1>3. Rows' = Rows /\ Jobs' = Jobs
  BY <1>2, SameJobs DEF Rows
<1>4. Stored'
  BY <1>1, <1>2, <1>3 DEF Stored
<1>5. Forgotten'
  BY <1>1, <1>2 DEF Forgotten
<1>6. Ordered'
  BY <1>1, <1>2, <1>3 DEF Ordered
<1> QED BY <1>4, <1>5, <1>6 DEF Control

LEMMA EndRoundControl == Control /\ EndRound => Control'
<1> SUFFICES ASSUME Control, EndRound PROVE Control'
  OBVIOUS
<1>1. Stored /\ phase = "rules" /\ work = {} /\ Forgotten /\ Ordered
  BY DEF Control, EndRound
<1>2. CASE Err("RecursionLimit")
  BY <1>1, <1>2, ReturnEffect DEF Err
<1>3. CASE ~Err("RecursionLimit")
  <2>1. /\ round + 1 # task.maxRounds
        /\ db' = db \cup produced /\ delta' = produced /\ produced' = {}
        /\ round' = round + 1 /\ phase' = "round"
        /\ UNCHANGED <<task, evaluator, strata, stratum, work, literal, states, next, passes,
                       cancelled, outcome>>
    BY <1>3 DEF EndRound, matching
  <2>2. Rows' = Rows
    BY <2>1 DEF Rows
  <2>3. Stored'
    BY <1>1, <2>1, <2>2 DEF Stored
  <2>4. Forgotten'
    BY <2>1 DEF Forgotten
  <2>5. task.maxRounds > 0 => round + 1 < task.maxRounds
    <3>1. task.maxRounds \in Nat /\ round \in Nat
      BY <1>1, TaskParts DEF Stored
    <3>2. task.maxRounds > 0 => round < task.maxRounds
      BY <1>1 DEF Ordered
    <3> QED BY <2>1, <3>1, <3>2
  <2>6. \A f \in delta' : \E g \in db' : Same(f, g)
    BY <2>1 DEF Same
  <2>7. Ordered'
    BY <1>1, <2>1, <2>5, <2>6 DEF Ordered
  <2> QED BY <2>3, <2>4, <2>7 DEF Control
<1> QED BY <1>2, <1>3

LEMMA EndStratumControl == Control /\ EndStratum => Control'
<1> SUFFICES ASSUME Control, EndStratum PROVE Control'
  OBVIOUS
<1>1. Stored /\ phase \in {"rules", "round"} /\ Forgotten /\ Ordered
  BY DEF Control, EndStratum
<1>2. work = {} /\ produced = {}
  BY <1>1 DEF EndStratum, Ordered
<1>3. /\ round' = 0 /\ delta' = {}
      /\ \/ stratum' = stratum + 1 /\ phase' = "round" /\ db' = db
         \/ phase' = "warrants" /\ db' = ResetWarrants(db) /\ stratum' = stratum
      /\ UNCHANGED <<task, evaluator, strata, work, literal, states, produced, next, cancelled,
                     outcome>>
  BY DEF EndStratum, matching
<1>4. IsTable(Rows', next)
  <2>1. IsTable(db, next) /\ Rows' = db'
    BY <1>1, <1>2, <1>3 DEF Stored, Rows
  <2> QED BY <1>3, <2>1, ResetEffect
<1>5. Stored'
  BY <1>1, <1>3, <1>4 DEF Stored
<1>6. Forgotten'
  BY <1>3 DEF Forgotten
<1>7. task.maxRounds \in Nat
  BY <1>1, TaskParts DEF Stored
<1>8. Ordered'
  BY <1>1, <1>2, <1>3, <1>7 DEF Ordered
<1> QED BY <1>5, <1>6, <1>8 DEF Control

LEMMA RecomputeControl == Control /\ RecomputeWarrants => Control'
<1> SUFFICES ASSUME Control, RecomputeWarrants PROVE Control'
  OBVIOUS
<1>1. Stored /\ phase = "warrants" /\ Forgotten /\ Ordered
  BY DEF Control, RecomputeWarrants
<1>2. /\ db' = Raised(db)
      /\ UNCHANGED <<task, evaluator, phase, strata, stratum, round, work, literal, states,
                     produced, delta, next, cancelled, outcome>>
  BY DEF RecomputeWarrants, matching, rounds
<1>3. produced = {} /\ work = {}
  BY <1>1 DEF Ordered
<1>4. IsTable(db, next) /\ Rows' = db'
  BY <1>1, <1>2, <1>3 DEF Stored, Rows
<1>5. IsTable(Rows', next) /\ Alike(db, db')
  BY <1>2, <1>4, RaisedEffect, RegradedGrows
<1>6. Stored'
  BY <1>1, <1>2, <1>5 DEF Stored
<1>7. Forgotten'
  BY <1>1, <1>2 DEF Forgotten
<1>8. \A f \in delta' : \E g \in db' : Same(f, g)
  BY <1>1, <1>2, <1>5 DEF Ordered, Alike, Same
<1>9. Ordered'
  BY <1>1, <1>2, <1>3, <1>8 DEF Ordered
<1> QED BY <1>6, <1>7, <1>9 DEF Control

LEMMA AnswerControl == Control /\ Answer => Control'
BY ReturnEffect DEF Answer, Control

LEMMA RunOptimizedControl == Control /\ RunOptimized => Control'
<1> SUFFICES ASSUME Control, RunOptimized PROVE Control'
  OBVIOUS
<1>1. Stored /\ phase = "done" /\ Forgotten /\ Ordered
  BY DEF Control, RunOptimized
<1>2. /\ evaluator' = "optimized" /\ phase' = "start"
      /\ UNCHANGED <<task, strata, stratum, round, work, literal, states, db, produced,
                     delta, next, passes, cancelled, outcome>>
  BY DEF RunOptimized, matching, rounds, facts
<1>3. Rows' = Rows /\ work = {}
  BY <1>1, <1>2 DEF Rows, Ordered
<1>4. Stored'
  BY <1>1, <1>2, <1>3 DEF Stored
<1>5. Forgotten' /\ Ordered'
  BY <1>1, <1>2, <1>3 DEF Forgotten, Ordered
<1> QED BY <1>4, <1>5 DEF Control

\* Nothing an evaluation works with changes.
Idle ==
    UNCHANGED <<task, evaluator, phase, strata, stratum, round, work, literal, states, db,
                produced, delta, next, passes, outcome>>

LEMMA IdleSteps == Cancel \/ Evaluated \/ UNCHANGED vars => Idle
BY DEF Cancel, Evaluated, vars, matching, rounds, facts, Idle

LEMMA IdleControl == Control /\ Idle => Control'
<1> SUFFICES ASSUME Control, Idle PROVE Control'
  OBVIOUS
<1>1. Rows' = Rows /\ Jobs' = Jobs
  BY SameJobs DEF Idle, Rows
<1>2. Stored'
  BY <1>1 DEF Control, Stored, Idle
<1>3. Forgotten'
  BY DEF Control, Forgotten, Idle
<1>4. Ordered'
  BY <1>1 DEF Control, Ordered, Idle
<1> QED BY <1>2, <1>3, <1>4 DEF Control

LEMMA ControlInit == Init => Control
<1> SUFFICES ASSUME Init PROVE Control
  OBVIOUS
<1>1. Rows = {}
  BY DEF Init, Rows
<1>2. Stored
  BY <1>1, EmptyTable DEF Init, Stored
<1>3. Forgotten /\ Ordered
  BY DEF Init, Forgotten, Ordered
<1> QED BY <1>2, <1>3 DEF Control

LEMMA ControlStep == Control /\ [Next]_vars => Control'
<1> SUFFICES ASSUME Control, [Next]_vars PROVE Control'
  OBVIOUS
<1> QED BY LoadControl, BeginRoundControl, MatchLiteralControl, ConcludeControl, EndJobControl,
           EndRoundControl, EndStratumControl, RecomputeControl, AnswerControl,
           RunOptimizedControl, IdleSteps, IdleControl DEF Next

-----------------------------------------------------------------------------
(* What is not loaded follows from facts found before it *)

\* A derivation from facts found before f.
HasGround(f, rows) ==
    \E d \in f.derivations : \A i \in DOMAIN d.inputs :
        Input(d, i) < f.id /\ \E g \in rows : g.id = Input(d, i)

\* The ids of rows are among those of others.
IdsKept(rows, others) == \A f \in rows : \E g \in others : g.id = f.id

Supports == \A s \in states : Supported(s, Rows)

LEMMA FoundedIs == Founded <=> \A f \in Rows : f.id \in LoadedIds \/ HasGround(f, Rows)
BY DEF Founded, Rows, HasGround, Input

LEMMA SupportedKept ==
    ASSUME NEW s, NEW rows, NEW others, Supported(s, rows), IdsKept(rows, others)
    PROVE  Supported(s, others)
BY DEF Supported, IdsKept

LEMMA HasGroundKept ==
    ASSUME NEW f, NEW g, NEW rows, NEW others, HasGround(f, rows), IdsKept(rows, others),
           g.id = f.id, f.derivations \subseteq g.derivations
    PROVE  HasGround(g, others)
BY DEF HasGround, IdsKept

LEMMA GrowsIds ==
    ASSUME NEW rows, NEW others, NEW st, NEW n, Grows(rows, others, st, n)
    PROVE  IdsKept(rows, others)
BY DEF Grows, Gains, Same, IdsKept

\* Rows that only gain derivations are as well founded as before.
LEMMA FoundedKept ==
    ASSUME Founded, Supports, LoadedIds' = LoadedIds, states' \subseteq states,
           Regraded(Rows, Rows')
    PROVE  Founded' /\ Supports'
<1>1. IdsKept(Rows, Rows')
  BY DEF Regraded, Regrade, Same, IdsKept
<1>2. ASSUME NEW g \in Rows' PROVE g.id \in LoadedIds' \/ HasGround(g, Rows')
  <2>1. PICK f \in Rows : Regrade(f, g)
    BY DEF Regraded
  <2>2. g.id = f.id /\ f.derivations \subseteq g.derivations
    BY <2>1 DEF Regrade, Same
  <2>3. f.id \in LoadedIds \/ HasGround(f, Rows)
    BY FoundedIs
  <2> QED BY <1>1, <2>2, <2>3, HasGroundKept
<1>3. Founded'
  <2>1. Founded' <=> \A f \in Rows' : f.id \in LoadedIds' \/ HasGround(f, Rows')
    BY DEF Founded, Rows, HasGround, Input
  <2> QED BY <1>2, <2>1
<1>4. Supports'
  BY <1>1, SupportedKept DEF Supports
<1> QED BY <1>3, <1>4

LEMMA RegradedSelf == \A rows : Regraded(rows, rows)
BY DEF Regraded, Regrade, Same

LEMMA FoundedStep ==
    ASSUME Control, Control', Founded, Supports, [Next]_vars
    PROVE  Founded' /\ Supports'
<1>1. task \in Tasks /\ literal \in Nat \ {0} /\ next \in Nat /\ IsTable(Rows, next) /\ Ordered
  BY DEF Control, Stored
<1> DEFINE None2 == Rows' = {} /\ states' = Unmatched
           Kept == task' = task /\ Regraded(Rows, Rows') /\ states' \subseteq states
<1>2. CASE None2
  <2>1. Founded'
    BY <1>2 DEF Founded, Rows
  <2> QED BY <1>2, <2>1, StartSupported DEF Supports
<1>3. CASE Kept
  <2>1. LoadedIds' = LoadedIds
    BY <1>3 DEF LoadedIds, Loaded
  <2> QED BY <1>3, <2>1, FoundedKept
<1>4. CASE Load
  <2>1. CASE Err("UnsafeRule") \/ Err("UnstratifiedNegation")
    BY <1>2, <2>1, ReturnEffect DEF Err, Control
  <2>2. CASE ~(Err("UnsafeRule") \/ Err("UnstratifiedNegation"))
    <3>1. /\ db' = Loaded /\ phase = "start"
          /\ UNCHANGED <<task, work, literal, states, produced>>
      BY <1>4, <2>2 DEF Load, Loaded, matching
    <3>2. produced = {} /\ states = Unmatched
      BY <1>1, <3>1 DEF Control, Forgotten, Ordered
    <3>3. Founded'
      BY <3>1, <3>2 DEF Founded, LoadedIds, Loaded
    <3> QED BY <3>1, <3>2, <3>3, StartSupported DEF Supports
  <2> QED BY <2>1, <2>2
<1>5. CASE BeginRound
  <2>1. CASE Err("Cancelled")
    BY <1>2, <2>1, ReturnEffect DEF Err, Control
  <2>2. CASE ~Err("Cancelled")
    <3>1. UNCHANGED <<task, states, db, produced>>
      BY <1>5, <2>2 DEF BeginRound, facts
    <3> QED BY <1>3, <3>1, RegradedSelf DEF Rows
  <2> QED BY <2>1, <2>2
<1>6. CASE MatchLiteral
  <2>1. PICK job \in work :
           /\ literal <= Len(Body(job))
           /\ states' = Match(states, Body(job)[literal],
                              IF job[2] = literal THEN delta ELSE Visible, Visible)
    BY <1>6 DEF MatchLiteral
  <2>2. UNCHANGED <<task, db, produced>>
    BY <1>6 DEF MatchLiteral, facts
  <2>3. Body(job) \in Seq(Literals)
    BY <1>1, JobParts DEF Ordered
  <2> DEFINE p == IF job[2] = literal THEN delta ELSE Visible
             l == Body(job)[literal]
  <2>4. l \in Literals
    BY <1>1, <2>1, <2>3
  <2>5. ASSUME NEW f \in p PROVE \E g \in Rows : Same(f, g) /\ g.id \in Nat
    <3>1. \A g \in Rows : g.id \in Nat
      BY <1>1 DEF IsTable, IsRow
    <3>2. CASE f \in delta
      BY <1>1, <3>1, <3>2 DEF Ordered, Rows
    <3>3. CASE f \in Visible
      BY <3>1, <3>3 DEF Visible, Rows, Same
    <3> QED BY <3>2, <3>3
  <2>6. \A s \in states : Supported(s, Rows)
    BY DEF Supports
  <2>7. states' = Match(states, l, p, Visible)
    BY <2>1
  <2> HIDE DEF p, l
  <2>8. ASSUME NEW t \in states' PROVE Supported(t, Rows)
    BY <2>4, <2>5, <2>6, <2>7, MatchSupported
  <2>9. Rows' = Rows
    BY <2>2 DEF Rows
  <2>10. Founded'
    BY <2>2 DEF Founded, LoadedIds, Loaded
  <2> QED BY <2>8, <2>9, <2>10 DEF Supports
<1>7. CASE Conclude
  <2>1. PICK job \in work, s \in states :
           states' = states \ {s} /\ Concludes(JobRule(job), s)
    BY <1>7, ConcludeEffect
  <2>2. task' = task
    BY <1>7, ConcludeEffect
  <2>3. /\ Grows(Rows, Rows', strata, stratum)
        /\ Stems(JobRule(job), s, Rows, Rows', next)
    BY <2>1 DEF Concludes
  <2>4. IdsKept(Rows, Rows')
    BY <2>3, GrowsIds
  <2>5. LoadedIds' = LoadedIds
    BY <2>2 DEF LoadedIds, Loaded
  <2>6. ASSUME NEW g \in Rows' PROVE g.id \in LoadedIds' \/ HasGround(g, Rows')
    <3>1. CASE \E f \in Rows : Gains(f, g)
      <4>1. PICK f \in Rows : Gains(f, g)
        BY <3>1
      <4>2. g.id = f.id /\ f.derivations \subseteq g.derivations
        BY <4>1 DEF Gains, Same
      <4>3. f.id \in LoadedIds \/ HasGround(f, Rows)
        BY FoundedIs
      <4> QED BY <2>4, <2>5, <4>2, <4>3, HasGroundKept
    <3>2. CASE g.id = next /\ g.derivations = {DerivedBy(JobRule(job), s)}
      <4> DEFINE d == DerivedBy(JobRule(job), s)
      <4>1. Supported(s, Rows)
        BY DEF Supports
      <4>2. d.inputs = s.support
        BY DEF DerivedBy
      <4>3. ASSUME NEW i \in DOMAIN d.inputs
            PROVE  Input(d, i) < g.id /\ \E e \in Rows' : e.id = Input(d, i)
        <5>1. PICK e \in Rows : e.id = Input(d, i)
          BY <4>1, <4>2 DEF Supported, Input
        <5>2. e.id < next
          BY <1>1 DEF IsTable
        <5>3. \E h \in Rows' : h.id = e.id
          BY <2>4 DEF IdsKept
        <5> QED BY <3>2, <5>1, <5>2, <5>3
      <4>4. d \in g.derivations
        BY <3>2
      <4> HIDE DEF d
      <4> QED BY <4>3, <4>4 DEF HasGround
    <3> QED BY <2>3, <3>1, <3>2 DEF Stems
  <2>7. Founded'
    <3>1. Founded' <=> \A f \in Rows' : f.id \in LoadedIds' \/ HasGround(f, Rows')
      BY DEF Founded, Rows, HasGround, Input
    <3> QED BY <2>6, <3>1
  <2>8. Supports'
    BY <2>1, <2>4, SupportedKept DEF Supports
  <2> QED BY <2>7, <2>8
<1>8. CASE EndJob
  <2>1. states' = Unmatched /\ UNCHANGED <<task, db, produced>>
    BY <1>8 DEF EndJob, facts
  <2>2. Founded'
    BY <2>1 DEF Founded, LoadedIds, Loaded
  <2> QED BY <2>1, <2>2, StartSupported DEF Supports
<1>9. CASE EndRound
  <2>1. CASE Err("RecursionLimit")
    BY <1>2, <2>1, ReturnEffect DEF Err, Control
  <2>2. CASE ~Err("RecursionLimit")
    <3>1. /\ db' = db \cup produced /\ produced' = {} /\ UNCHANGED <<task, states>>
      BY <1>9, <2>2 DEF EndRound, matching
    <3>2. Rows' = Rows
      BY <3>1 DEF Rows
    <3> QED BY <1>3, <3>1, <3>2, RegradedSelf
  <2> QED BY <2>1, <2>2
<1>10. CASE EndStratum
  <2>1. produced = {}
    BY <1>1, <1>10 DEF EndStratum, Ordered
  <2>2. /\ db' = db \/ db' = ResetWarrants(db)
        /\ UNCHANGED <<task, states, produced>>
    BY <1>10 DEF EndStratum, matching
  <2>3. Rows = db /\ Rows' = db'
    BY <2>1, <2>2 DEF Rows
  <2>4. Regraded(Rows, Rows')
    BY <1>1, <2>2, <2>3, RegradedSelf, ResetEffect
  <2> QED BY <1>3, <2>2, <2>4
<1>11. CASE RecomputeWarrants
  <2>1. produced = {}
    BY <1>1, <1>11 DEF RecomputeWarrants, Ordered
  <2>2. db' = Raised(db) /\ UNCHANGED <<task, states, produced>>
    BY <1>11 DEF RecomputeWarrants, matching
  <2>3. Rows = db /\ Rows' = db'
    BY <2>1, <2>2 DEF Rows
  <2>4. Regraded(Rows, Rows')
    BY <1>1, <2>2, <2>3, RaisedEffect
  <2> QED BY <1>3, <2>2, <2>4
<1>12. CASE Answer
  BY <1>2, <1>12, ReturnEffect DEF Answer, Control
<1>13. CASE RunOptimized
  <2>1. UNCHANGED <<task, states, db, produced>>
    BY <1>13 DEF RunOptimized, matching, facts
  <2> QED BY <1>3, <2>1, RegradedSelf DEF Rows
<1>14. CASE Idle
  <2>1. UNCHANGED <<task, states, db, produced>>
    BY <1>14 DEF Idle
  <2> QED BY <1>3, <2>1, RegradedSelf DEF Rows
<1> QED BY <1>4, <1>5, <1>6, <1>7, <1>8, <1>9, <1>10, <1>11, <1>12, <1>13, <1>14, IdleSteps DEF Next

LEMMA FoundedInit == Init => Founded /\ Supports
BY StartSupported DEF Init, Founded, Supports, Rows

-----------------------------------------------------------------------------
(* Ids *)

Derived(rows) == {f \in rows : f.derivations # {}}
Ids(rows) == {f.id : f \in rows}

-----------------------------------------------------------------------------
(* Every derivation is a match *)

Given(loaded, f, d) == \E g \in loaded : g.id = f.id /\ d \in g.derivations

\* A rule up to the stratum n derives f from rows in this way.
Infers(t, st, n, rows, f, d) ==
    \E r \in RuleSet(t) :
        /\ st[r.head.relation] <= n
        /\ \E m : /\ Full(m, r, 0, {}, rows, rows)
                  /\ Derives(r, EndOf(m, r), f) /\ d = DerivedBy(r, EndOf(m, r))

Accounted ==
    \A f \in Rows : \A d \in f.derivations :
        Given(Loaded, f, d) \/ Infers(task, strata, stratum, Rows, f, d)

LEMMA InfersGrows ==
    ASSUME NEW t \in Tasks, NEW st \in [Relations -> Nat], NEW n \in Nat, NEW k \in Nat, n <= k,
           NEW rows, NEW others, NEW f, NEW g, NEW d,
           \A r \in RuleSet(t) : Above(st, r),
           Grows(rows, others, st, n), Same(f, g), Infers(t, st, n, rows, f, d)
    PROVE  Infers(t, st, k, others, g, d)
<1>1. PICK r \in RuleSet(t) :
         /\ st[r.head.relation] <= n
         /\ \E m : /\ Full(m, r, 0, {}, rows, rows)
                   /\ Derives(r, EndOf(m, r), f) /\ d = DerivedBy(r, EndOf(m, r))
  BY DEF Infers
<1>2. PICK m : /\ Full(m, r, 0, {}, rows, rows)
               /\ Derives(r, EndOf(m, r), f) /\ d = DerivedBy(r, EndOf(m, r))
  BY <1>1
<1>3. r \in Rules /\ r.head.relation \in Relations /\ Len(r.body) \in 0 .. Len(r.body)
  BY TaskParts, RuleParts
<1>4. Full(m, r, 0, {}, others, others)
  BY <1>1, <1>2, <1>3, TraceGrows DEF Full
<1>5. Derives(r, EndOf(m, r), g)
  BY <1>2 DEF Derives, Same
<1>6. st[r.head.relation] <= k
  BY <1>1, <1>3
<1> QED BY <1>2, <1>4, <1>5, <1>6 DEF Infers

\* Rows that only gain derivations they had, up to another stratum.
LEMMA AccountedKept ==
    ASSUME Control, Accounted, task' = task, strata' = strata, stratum' \in Nat, stratum <= stratum',
           \A r \in RuleSet(task) : Above(strata, r), Regraded(Rows, Rows')
    PROVE  Accounted'
<1>1. task \in Tasks /\ strata \in [Relations -> Nat] /\ stratum \in Nat
  BY DEF Control, Stored
<1>2. Grows(Rows, Rows', strata, stratum)
  BY RegradedGrows
<1>3. Loaded' = Loaded
  BY DEF Loaded
<1>4. ASSUME NEW g \in Rows', NEW d \in g.derivations
      PROVE  Given(Loaded', g, d) \/ Infers(task', strata', stratum', Rows', g, d)
  <2>1. PICK f \in Rows : Regrade(f, g)
    BY DEF Regraded
  <2>2. Same(f, g) /\ d \in f.derivations
    BY <2>1 DEF Regrade
  <2>3. Given(Loaded, f, d) \/ Infers(task, strata, stratum, Rows, f, d)
    BY <2>2 DEF Accounted
  <2>4. Given(Loaded, f, d) => Given(Loaded', g, d)
    BY <1>3, <2>2 DEF Given, Same
  <2>5. Infers(task, strata, stratum, Rows, f, d) => Infers(task, strata, stratum', Rows', g, d)
    BY <1>1, <1>2, <2>2, InfersGrows
  <2> QED BY <2>3, <2>4, <2>5
<1> QED BY <1>4 DEF Accounted

LEMMA StartTraced ==
    ASSUME NEW body, NEW at, NEW last, NEW rows, NEW denied
    PROVE  \A s \in Unmatched : \E m : Trace(m, 0, body, at, last, rows, denied) /\ At(m, 0) = s
<1> DEFINE m == [i \in {0} |-> Start]
<1>1. At(m, 0) = Start /\ Trace(m, 0, body, at, last, rows, denied)
  BY DEF At, Trace
<1> QED BY <1>1 DEF Unmatched, Start

\* What a literal of the current job matches and denies are rows.
LEMMA VisibleRows ==
    ASSUME Control, NEW job \in work, NEW l \in Literals, NEW i \in 1 .. Len(Body(job)),
           l = At(Body(job), i), phase = "rules"
    PROVE  /\ l.kind = "Pos" => Within(l.relation, IF job[2] = i THEN delta ELSE Visible, Rows)
           /\ l.kind = "Neg" => Within(l.relation, Rows, Visible)
<1>1. /\ task \in Tasks /\ strata \in [Relations -> Nat] /\ stratum \in Nat /\ Ordered
  BY DEF Control, Stored
<1>2. job \in Jobs
  BY <1>1 DEF Ordered
<1>3. /\ JobRule(job) \in RuleSet(task) /\ JobRule(job) \in Rules
      /\ Body(job) = JobRule(job).body /\ strata[JobRule(job).head.relation] = stratum
  BY <1>1, <1>2, JobParts
<1>4. Within(l.relation, delta, Rows) /\ Within(l.relation, Visible, Rows)
  <2>1. \A f \in delta : \E g \in Rows : Same(f, g)
    BY <1>1 DEF Ordered, Rows
  <2>2. Visible \subseteq Rows
    BY DEF Visible, Rows
  <2> QED BY <2>1, <2>2, WithinSelf DEF Within, RowsOf, Same
<1>5. ASSUME l.kind = "Neg" PROVE Within(l.relation, Rows, Visible)
  <2>1. Above(strata, JobRule(job))
    BY <1>1, <1>3 DEF Ordered
  <2>2. strata[l.relation] < stratum
    BY <1>3, <1>5, <2>1 DEF Above
  <2>3. l.relation \in Relations
    BY <1>5, LiteralRelation
  <2>4. strata[l.relation] # stratum
    BY <1>1, <2>2, <2>3
  <2>5. ASSUME NEW f \in RowsOf(l.relation, Rows) PROVE f \in RowsOf(l.relation, Visible)
    <3>1. f \notin produced
      BY <1>1, <2>4 DEF Ordered, RowsOf
    <3> QED BY <3>1 DEF RowsOf, Rows, Visible
  <2> QED BY <2>5 DEF Within, Same
<1> QED BY <1>4, <1>5

LEMMA SameCurrent ==
    ASSUME task' = task, work' = work, NEW job
    PROVE  (Current(job)' <=> Current(job)) /\ Body(job)' = Body(job)
BY DEF Current, Body

LEMMA WorkPairs == Control => work \subseteq Nat \X Nat
BY JobParts DEF Control, Stored, Ordered

LEMMA TracedMatch ==
    ASSUME Control, Traced, MatchLiteral
    PROVE  Traced'
<1>1. /\ phase = "rules" /\ task \in Tasks /\ literal \in Nat \ {0} /\ Ordered
  BY DEF Control, Stored, MatchLiteral
<1>2. /\ literal' = literal + 1 /\ UNCHANGED <<task, work, db, produced>>
  BY DEF MatchLiteral, facts
<1>3. PICK job \in work :
         /\ Current(job) /\ literal <= Len(Body(job))
         /\ states' = Match(states, Body(job)[literal],
                            IF job[2] = literal THEN delta ELSE Visible, Visible)
  BY DEF MatchLiteral
<1>4. Body(job) \in Seq(Literals) /\ literal \in 1 .. Len(Body(job))
  BY <1>1, <1>3, JobParts DEF Ordered
<1> DEFINE l == At(Body(job), literal)
           p == IF job[2] = literal THEN delta ELSE Visible
<1>5. l \in Literals
  BY <1>4 DEF At
<1>6. /\ l.kind = "Pos" => Within(l.relation, p, Rows)
      /\ l.kind = "Neg" => Within(l.relation, Rows, Visible)
  BY <1>1, <1>4, <1>5, VisibleRows
<1>7. Rows' = Rows
  BY <1>2 DEF Rows
<1>8. ASSUME NEW t \in states'
      PROVE  \E k : Trace(k, literal, Body(job), 0, {}, Rows, Rows) /\ At(k, literal) = t
  <2> HIDE DEF p
  <2>1. PICK s \in states : Follows(s, t, l, p, Visible)
    <3>1. t \in Match(states, l, p, Visible)
      BY <1>3, <1>8 DEF p, At
    <3> HIDE DEF l
    <3> QED BY <1>5, <3>1, MatchSingle
  <2>2. Follows(s, t, l, Rows, Rows)
    <3> HIDE DEF l
    <3> QED BY <1>5, <1>6, <2>1, MatchMonotone
  <2>3. PICK m : /\ Trace(m, literal - 1, Body(job), 0, {}, Rows, Rows)
                 /\ At(m, literal - 1) = s
    BY <1>3 DEF Traced
  <2>4. PICK n \in Nat, j \in Nat : n = literal - 1 /\ j = literal /\ j = n + 1 /\ j # 0
    BY <1>1
  <2>5. Trace(m, n, Body(job), 0, {}, Rows, Rows) /\ Follows(At(m, n), t, At(Body(job), j), Rows, Rows)
    BY <2>2, <2>3, <2>4
  <2>6. \E k : Trace(k, j, Body(job), 0, {}, Rows, Rows) /\ At(k, j) = t
    BY <2>4, <2>5, TraceExtends
  <2> QED BY <2>4, <2>6
<1>9. ASSUME NEW other \in work', Current(other)'
      PROVE  other = job /\ Body(other)' = Body(job)
  <2>1. Current(other) /\ other \in work
    BY <1>2, <1>9, SameCurrent
  <2>2. other = job
    BY <1>3, <2>1, OneCurrent, WorkPairs
  <2> QED BY <1>2, <2>2, SameCurrent
<1>10. literal' \in 1 .. Len(Body(job)) + 1 /\ literal' - 1 = literal
  BY <1>1, <1>2, <1>4
<1> QED BY <1>7, <1>8, <1>9, <1>10 DEF Traced

LEMMA TracedConclude ==
    ASSUME Control, Traced, Conclude
    PROVE  Traced'
<1>1. PICK job \in work, s \in states :
         /\ Current(job) /\ states' = states \ {s} /\ Concludes(JobRule(job), s)
  BY ConcludeEffect
<1>2. UNCHANGED <<task, work, literal>>
  BY ConcludeEffect
<1>3. /\ task \in Tasks /\ Ordered /\ strata \in [Relations -> Nat] /\ stratum \in Nat
      /\ literal \in Nat /\ phase = "rules"
  BY ConcludeEffect DEF Control, Stored
<1>4. Grows(Rows, Rows', strata, stratum)
  BY <1>1 DEF Concludes
<1>5. ASSUME NEW other \in work', Current(other)'
      PROVE  /\ literal' \in 1 .. Len(Body(other)') + 1
             /\ \A t \in states' :
                  \E m : /\ Trace(m, literal' - 1, Body(other)', 0, {}, Rows', Rows')
                         /\ At(m, literal' - 1) = t
  <2>1. Current(other) /\ other \in work /\ Body(other)' = Body(other)
    BY <1>2, <1>5, SameCurrent
  <2>2. /\ literal \in 1 .. Len(Body(other)) + 1
        /\ \A t \in states :
             \E m : /\ Trace(m, literal - 1, Body(other), 0, {}, Rows, Rows)
                    /\ At(m, literal - 1) = t
    BY <2>1 DEF Traced
  <2>3. /\ JobRule(other) \in RuleSet(task) /\ JobRule(other) \in Rules
        /\ Body(other) = JobRule(other).body /\ strata[JobRule(other).head.relation] = stratum
    BY <1>3, <2>1, JobParts DEF Ordered
  <2>4. Above(strata, JobRule(other)) /\ Len(JobRule(other).body) \in Nat
    BY <1>3, <2>3, RuleParts DEF Ordered
  <2>5. PICK k \in 0 .. Len(JobRule(other).body) : k = literal - 1
    BY <2>2, <2>3, <2>4
  <2>6. stratum <= stratum
    BY <1>3
  <2>7. \A m : Trace(m, k, JobRule(other).body, 0, {}, Rows, Rows)
                 => Trace(m, k, JobRule(other).body, 0, {}, Rows', Rows')
    BY <1>3, <1>4, <2>3, <2>4, <2>6, TraceGrows
  <2>8. states' \subseteq states
    BY <1>1
  <2> QED BY <1>2, <2>1, <2>2, <2>3, <2>5, <2>7, <2>8
<1> QED BY <1>5 DEF Traced

LEMMA AccountedConclude ==
    ASSUME Control, Traced, Accounted, Conclude
    PROVE  Accounted'
<1>1. PICK job \in work, s \in states :
         /\ Current(job) /\ literal > Len(Body(job)) /\ Concludes(JobRule(job), s)
  BY ConcludeEffect
<1>2. UNCHANGED <<task, strata, stratum>>
  BY ConcludeEffect
<1>3. /\ task \in Tasks /\ Ordered /\ strata \in [Relations -> Nat] /\ stratum \in Nat
      /\ literal \in Nat /\ phase = "rules"
  BY ConcludeEffect DEF Control, Stored
<1> DEFINE r == JobRule(job)
<1>4. /\ r \in RuleSet(task) /\ r \in Rules /\ Body(job) = r.body
      /\ strata[r.head.relation] = stratum
  BY <1>1, <1>3, JobParts DEF Ordered
<1>5. \A e \in RuleSet(task) : Above(strata, e)
  BY <1>3 DEF Ordered
<1>6. /\ Grows(Rows, Rows', strata, stratum) /\ Stems(r, s, Rows, Rows', next)
  BY <1>1 DEF Concludes
<1>7. PICK m : Full(m, r, 0, {}, Rows, Rows) /\ EndOf(m, r) = s
  <2>1. Len(r.body) \in Nat
    BY <1>4, RuleParts
  <2>2. literal \in 1 .. Len(Body(job)) + 1
    BY <1>1 DEF Traced
  <2>3. literal - 1 = Len(r.body)
    BY <1>1, <1>4, <2>1, <2>2
  <2> QED BY <1>1, <1>4, <2>3 DEF Traced, Full, EndOf
<1> HIDE DEF r
<1>8. Full(m, r, 0, {}, Rows', Rows')
  <2>1. Len(r.body) \in 0 .. Len(r.body) /\ stratum <= stratum
    BY <1>3, <1>4, RuleParts
  <2> QED BY <1>3, <1>4, <1>5, <1>6, <1>7, <2>1, TraceGrows DEF Full
<1>9. Loaded' = Loaded
  BY <1>2 DEF Loaded
<1>10. ASSUME NEW g \in Rows', NEW d \in g.derivations
       PROVE  Given(Loaded', g, d) \/ Infers(task', strata', stratum', Rows', g, d)
  <2>1. CASE Derives(r, s, g) /\ d = DerivedBy(r, s)
    <3>1. stratum <= stratum
      BY <1>3
    <3> QED BY <1>2, <1>4, <1>7, <1>8, <2>1, <3>1 DEF Infers
  <2>2. CASE \E f \in Rows : Gains(f, g) /\ d \in f.derivations
    <3>1. PICK f \in Rows : Gains(f, g) /\ d \in f.derivations
      BY <2>2
    <3>2. Same(f, g)
      BY <3>1 DEF Gains
    <3>3. Given(Loaded, f, d) \/ Infers(task, strata, stratum, Rows, f, d)
      BY <3>1 DEF Accounted
    <3>4. Given(Loaded, f, d) => Given(Loaded', g, d)
      BY <1>9, <3>2 DEF Given, Same
    <3>5. stratum <= stratum
      BY <1>3
    <3>6. Infers(task, strata, stratum, Rows, f, d) => Infers(task, strata, stratum, Rows', g, d)
      BY <1>3, <1>5, <1>6, <3>2, <3>5, InfersGrows
    <3> QED BY <1>2, <3>3, <3>4, <3>6
  <2> QED BY <1>6, <2>1, <2>2 DEF Stems
<1> QED BY <1>10 DEF Accounted

LEMMA TracedFresh ==
    ASSUME Control, task' = task, work' \subseteq Jobs, literal' = 1, states' = Unmatched
    PROVE  Traced'
<1>1. ASSUME NEW job \in work'
      PROVE  /\ literal' \in 1 .. Len(Body(job)') + 1
             /\ \A s \in states' :
                  \E m : /\ Trace(m, literal' - 1, Body(job)', 0, {}, Rows', Rows')
                         /\ At(m, literal' - 1) = s
  <2>1. job \in Jobs /\ task \in Tasks /\ Body(job)' = Body(job)
    BY DEF Control, Stored, Body
  <2>2. Len(Body(job)) \in Nat
    BY <2>1, JobParts, RuleParts
  <2>3. literal' \in 1 .. Len(Body(job)') + 1 /\ literal' - 1 = 0
    BY <2>1, <2>2
  <2> QED BY <2>3, StartTraced
<1> QED BY <1>1 DEF Traced

LEMMA TracedNone == work' = {} => Traced'
BY DEF Traced

\* What the steps do that match and conclude nothing, when they return nothing.
LEMMA LoadEffect ==
    ASSUME Control, Load
    PROVE  \/ Err("UnsafeRule") \/ Err("UnstratifiedNegation")
           \/ /\ db' = Loaded /\ produced' = {} /\ Rows' = Loaded /\ work' = {}
              /\ phase' = "round" /\ round' = 0 /\ stratum' = 0 /\ task' = task
<1>1. CASE ~(Err("UnsafeRule") \/ Err("UnstratifiedNegation"))
  <2>1. /\ db' = Loaded /\ phase = "start" /\ phase' = "round"
        /\ UNCHANGED <<task, work, stratum, round, produced>>
    BY <1>1 DEF Load, Loaded, matching
  <2>2. produced = {} /\ work = {} /\ round = 0 /\ stratum = 0
    BY <2>1 DEF Control, Forgotten, Ordered
  <2> QED BY <2>1, <2>2 DEF Rows
<1> QED BY <1>1

LEMMA BeginRoundEffect ==
    ASSUME Control, BeginRound
    PROVE  \/ Err("Cancelled")
           \/ /\ phase = "round" /\ phase' = "rules" /\ work' = Jobs
              /\ literal' = 1 /\ states' = Unmatched /\ Rows' = Rows
              /\ UNCHANGED <<task, evaluator, strata, stratum, round, db, produced, delta>>
<1>1. CASE ~Err("Cancelled")
  <2>1. /\ phase = "round" /\ phase' = "rules" /\ work' = Jobs
        /\ UNCHANGED <<task, evaluator, strata, stratum, round, literal, states, db, produced, delta>>
    BY <1>1 DEF BeginRound, rounds, facts
  <2>2. literal = 1 /\ states = Unmatched
    BY <2>1 DEF Control, Ordered
  <2> QED BY <2>1, <2>2 DEF Rows
<1> QED BY <1>1

LEMMA EndRoundEffect ==
    ASSUME Control, EndRound
    PROVE  \/ Err("RecursionLimit")
           \/ /\ phase = "rules" /\ phase' = "round" /\ work = {} /\ work' = {} /\ produced # {}
              /\ db' = Rows /\ delta' = produced /\ produced' = {} /\ Rows' = Rows
              /\ round' = round + 1
              /\ UNCHANGED <<task, evaluator, strata, stratum>>
<1>1. CASE ~Err("RecursionLimit")
  <2>1. /\ phase = "rules" /\ phase' = "round" /\ work = {} /\ produced # {}
        /\ db' = Rows /\ delta' = produced /\ produced' = {}
        /\ round' = round + 1
        /\ UNCHANGED <<task, evaluator, strata, stratum, work>>
    BY <1>1 DEF EndRound, matching, Rows
  <2> QED BY <2>1 DEF Rows
<1> QED BY <1>1

LEMMA EndStratumEffect ==
    ASSUME Control, EndStratum
    PROVE  /\ phase = "rules" \/ (phase = "round" /\ round = task.maxRounds)
           /\ work = {} /\ work' = {} /\ produced = {} /\ produced' = {}
           /\ Rows = db /\ Rows' = db' /\ Regraded(Rows, Rows')
           /\ round' = 0 /\ UNCHANGED <<task, evaluator, strata>>
           /\ \/ stratum < LastStratum /\ stratum' = stratum + 1 /\ phase' = "round" /\ db' = db
              \/ /\ ~(stratum < LastStratum) /\ stratum' = stratum /\ phase' = "warrants"
                 /\ db' = ResetWarrants(db) /\ passes' = MaxPasses(db)
<1>1. Ordered /\ IsTable(Rows, next)
  BY DEF Control, Stored
<1>2. produced = {} /\ work = {}
  BY <1>1 DEF EndStratum, Ordered
<1>3. /\ phase = "rules" \/ (phase = "round" /\ round = task.maxRounds)
      /\ round' = 0 /\ UNCHANGED <<task, evaluator, strata, work, produced>>
      /\ \/ stratum < LastStratum /\ stratum' = stratum + 1 /\ phase' = "round" /\ db' = db
         \/ /\ ~(stratum < LastStratum) /\ stratum' = stratum /\ phase' = "warrants"
            /\ db' = ResetWarrants(db) /\ passes' = MaxPasses(db)
  BY DEF EndStratum, matching
<1>4. Rows = db /\ Rows' = db'
  BY <1>2, <1>3 DEF Rows
<1>5. Regraded(Rows, Rows')
  BY <1>1, <1>3, <1>4, RegradedSelf, ResetEffect
<1> QED BY <1>2, <1>3, <1>4, <1>5

LEMMA RecomputeEffect ==
    ASSUME Control, RecomputeWarrants
    PROVE  /\ phase = "warrants" /\ phase' = "warrants" /\ work' = {}
           /\ produced = {} /\ produced' = {}
           /\ Rows = db /\ Rows' = db' /\ db' = Raised(db) /\ Regraded(Rows, Rows')
           /\ passes > 0 /\ passes' = passes - 1 /\ \E f \in db : Improves(f, db)
           /\ UNCHANGED <<task, evaluator, strata, stratum, round, next>>
<1>1. Ordered /\ IsTable(Rows, next)
  BY DEF Control, Stored
<1>2. /\ phase = "warrants" /\ db' = Raised(db)
      /\ passes > 0 /\ passes' = passes - 1 /\ \E f \in db : Improves(f, db)
      /\ UNCHANGED <<task, evaluator, phase, strata, stratum, round, work, produced, next>>
  BY DEF RecomputeWarrants, matching, rounds
<1>3. produced = {} /\ work = {}
  BY <1>1, <1>2 DEF Ordered
<1>4. Rows = db /\ Rows' = db'
  BY <1>2, <1>3 DEF Rows
<1>5. Regraded(Rows, Rows')
  BY <1>1, <1>2, <1>4, RaisedEffect
<1> QED BY <1>2, <1>3, <1>4, <1>5

\* Returning, whatever is returned.
LEMMA Returns ==
    ASSUME Control,
           \/ Err("UnsafeRule") \/ Err("UnstratifiedNegation") \/ Err("Cancelled")
           \/ Err("RecursionLimit") \/ Answer
    PROVE  Rows' = {} /\ work' = {} /\ phase' = "done" /\ states' = Unmatched
<1>1. \E code, rows, answers : Return(code, rows, answers)
  BY DEF Err, Answer
<1> QED BY <1>1, ReturnEffect DEF Control

LEMMA AccountedNone == Rows' = {} => Accounted'
BY DEF Accounted

LEMMA AccountedSame ==
    ASSUME Accounted, UNCHANGED <<task, strata, stratum, db, produced>>
    PROVE  Accounted'
<1>1. Rows' = Rows /\ Loaded' = Loaded
  BY DEF Rows, Loaded
<1> QED BY <1>1 DEF Accounted

LEMMA AccountedStep ==
    ASSUME Control, Control', Traced, Accounted, [Next]_vars
    PROVE  Traced' /\ Accounted'
<1>1. Ordered /\ stratum \in Nat /\ stratum' \in Nat
  BY DEF Control, Stored
<1>2. CASE \/ Err("UnsafeRule") \/ Err("UnstratifiedNegation") \/ Err("Cancelled")
           \/ Err("RecursionLimit") \/ Answer
  BY <1>2, Returns, AccountedNone, TracedNone
<1>3. CASE Load
  <2>1. CASE /\ Rows' = Loaded /\ work' = {} /\ task' = task
    <3>1. Loaded' = Loaded
      BY <2>1 DEF Loaded
    <3>2. Accounted'
      BY <2>1, <3>1 DEF Accounted, Given
    <3> QED BY <2>1, <3>2, TracedNone
  <2> QED BY <1>2, <1>3, <2>1, LoadEffect
<1>4. CASE BeginRound
  <2>1. CASE /\ work' = Jobs /\ literal' = 1 /\ states' = Unmatched
             /\ UNCHANGED <<task, evaluator, strata, stratum, round, db, produced, delta>>
    BY <2>1, TracedFresh, AccountedSame
  <2> QED BY <1>2, <1>4, <2>1, BeginRoundEffect
<1>5. CASE MatchLiteral
  <2>1. UNCHANGED <<task, strata, stratum, db, produced>>
    BY <1>5 DEF MatchLiteral, rounds, facts
  <2> QED BY <1>5, <2>1, TracedMatch, AccountedSame
<1>6. CASE Conclude
  BY <1>6, TracedConclude, AccountedConclude
<1>7. CASE EndJob
  <2>1. /\ work' \subseteq work /\ literal' = 1 /\ states' = Unmatched
        /\ UNCHANGED <<task, strata, stratum, db, produced>>
    BY <1>7 DEF EndJob, rounds, facts
  <2>2. work' \subseteq Jobs
    BY <1>1, <2>1 DEF Ordered
  <2> QED BY <2>1, <2>2, TracedFresh, AccountedSame
<1>8. CASE EndRound
  <2>1. CASE phase = "rules" /\ work' = {} /\ Rows' = Rows /\ UNCHANGED <<task, strata, stratum>>
    <3>1. Regraded(Rows, Rows') /\ stratum <= stratum'
      BY <1>1, <2>1, RegradedSelf
    <3>2. \A r \in RuleSet(task) : Above(strata, r)
      BY <1>1, <2>1 DEF Ordered
    <3> QED BY <1>1, <2>1, <3>1, <3>2, AccountedKept, TracedNone
  <2> QED BY <1>2, <1>8, <2>1, EndRoundEffect
<1>9. CASE EndStratum
  <2>1. /\ phase \in {"rules", "round"} /\ work' = {} /\ Regraded(Rows, Rows')
        /\ UNCHANGED <<task, strata>> /\ (stratum' = stratum + 1 \/ stratum' = stratum)
    BY <1>9, EndStratumEffect
  <2>2. \A r \in RuleSet(task) : Above(strata, r)
    BY <1>1, <2>1 DEF Ordered
  <2>3. stratum <= stratum'
    BY <1>1, <2>1
  <2> QED BY <1>1, <2>1, <2>2, <2>3, AccountedKept, TracedNone
<1>10. CASE RecomputeWarrants
  <2>1. /\ phase = "warrants" /\ work' = {} /\ Regraded(Rows, Rows')
        /\ UNCHANGED <<task, strata, stratum>>
    BY <1>10, RecomputeEffect
  <2>2. \A r \in RuleSet(task) : Above(strata, r)
    BY <1>1, <2>1 DEF Ordered
  <2>3. stratum <= stratum'
    BY <1>1, <2>1
  <2> QED BY <1>1, <2>1, <2>2, <2>3, AccountedKept, TracedNone
<1>11. CASE RunOptimized
  <2>1. phase = "done" /\ UNCHANGED <<task, strata, stratum, db, produced, work>>
    BY <1>11 DEF RunOptimized, rounds, facts, matching
  <2>2. work' = {}
    BY <1>1, <2>1 DEF Ordered
  <2> QED BY <2>1, <2>2, TracedNone, AccountedSame
<1>12. CASE Idle
  <2>1. UNCHANGED <<task, strata, stratum, db, produced>>
    BY <1>12 DEF Idle
  <2>2. Traced'
    <3>1. Rows' = Rows /\ UNCHANGED <<task, work, literal, states>>
      BY <1>12 DEF Idle, Rows
    <3> QED BY <3>1, SameCurrent DEF Traced
  <2> QED BY <2>1, <2>2, AccountedSame
<1> QED BY <1>2, <1>3, <1>4, <1>5, <1>6, <1>7, <1>8, <1>9, <1>10, <1>11, <1>12, IdleSteps DEF Next

LEMMA AccountedInit == Init => Traced /\ Accounted
<1> SUFFICES ASSUME Init PROVE Traced /\ Accounted
  OBVIOUS
<1>1. Rows = {} /\ work = {}
  BY DEF Init, Rows
<1> QED BY <1>1 DEF Traced, Accounted

-----------------------------------------------------------------------------
(* Every match is concluded *)

\* The rows that are not of the last round.
Old == {f \in db : ~\E g \in delta : g.id = f.id}

\* What the current round produced is not matched in it.
Quiet == evaluator = "optimized" \/ produced = {}

BelowDone ==
    phase \in {"round", "rules"} /\ task.maxRounds > 0 =>
        \A r \in RuleSet(task) :
            strata[r.head.relation] < stratum => AllPresent(r, 0, {}, Rows, Rows, Rows)

OldDone ==
    phase \in {"round", "rules"} /\ evaluator = "optimized" /\ round > 0 =>
        \A r \in RuleSet(task) :
            strata[r.head.relation] = stratum => AllPresent(r, 0, {}, Old, db, Rows)

JobsDone ==
    phase = "rules" /\ Quiet =>
        \A job \in Jobs \ work : AllPresent(JobRule(job), job[2], delta, db, db, Rows)

CurrentDone ==
    phase = "rules" /\ Quiet =>
        \A job \in work :
            Current(job) =>
                \A m : Full(m, JobRule(job), job[2], delta, db, db) =>
                    \/ At(m, literal - 1) \in states
                    \/ Present(JobRule(job), EndOf(m, JobRule(job)), Rows)

AllDone ==
    phase = "warrants" /\ task.maxRounds > 0 =>
        \A r \in RuleSet(task) : AllPresent(r, 0, {}, Rows, Rows, Rows)

Covered == BelowDone /\ OldDone /\ JobsDone /\ CurrentDone /\ AllDone

LEMMA WithinNone == \A r, rows : Within(r, {}, rows)
BY DEF Within, RowsOf

\* A round that is over concluded every match of its rules.
LEMMA RoundDone ==
    ASSUME Control, JobsDone, OldDone, phase = "rules", work = {}, Quiet,
           NEW r \in RuleSet(task), strata[r.head.relation] = stratum
    PROVE  AllPresent(r, 0, {}, db, db, Rows)
<1>1. /\ task \in Tasks /\ Ordered /\ IsTable(Rows, next) /\ round \in Nat
      /\ evaluator \in {"reference", "optimized"}
  BY DEF Control, Stored
<1>2. r \in Rules
  BY <1>1, TaskParts
<1>3. \A job \in Jobs : AllPresent(JobRule(job), job[2], delta, db, db, Rows)
  BY DEF JobsDone
<1>4. CASE evaluator = "reference" \/ round = 0
  <2>1. PICK job \in Jobs : JobRule(job) = r /\ job[2] = 0
    BY <1>1, <1>4, JobsCover
  <2>2. AllPresent(r, 0, delta, db, db, Rows)
    BY <1>3, <2>1
  <2>3. \A rel : Within(rel, {}, delta) /\ Within(rel, db, db)
    BY WithinNone, WithinSelf
  <2> QED BY <1>2, <2>2, <2>3, AllPresentWithin
<1>5. CASE ~(evaluator = "reference" \/ round = 0)
  <2>1. \A i \in Positives(r.body) : \E job \in Jobs : JobRule(job) = r /\ job[2] = i
    BY <1>1, <1>5, JobsCover
  <2>2. \A i \in Positives(r.body) : AllPresent(r, i, delta, db, db, Rows)
    BY <1>3, <2>1
  <2>3. AllPresent(r, 0, {}, Old, db, Rows)
    BY <1>1, <1>5 DEF OldDone
  <2>4. ASSUME NEW f \in db, f \notin Old
        PROVE  \E g \in delta : Same(f, g)
    <3>1. PICK g \in delta : g.id = f.id
      BY <2>4 DEF Old
    <3>2. PICK h \in db : Same(g, h)
      BY <1>1 DEF Ordered
    <3>3. h = f
      BY <1>1, <3>1, <3>2 DEF IsTable, NameFacts, Rows, Same
    <3> QED BY <3>2, <3>3 DEF Same
  <2>5. \A f \in db : (\E g \in Old : Same(f, g)) \/ (\E g \in delta : Same(f, g))
    BY <2>4 DEF Same
  <2> QED BY <1>2, <2>2, <2>3, <2>5, AllPresentSplit
<1> QED BY <1>4, <1>5

\* Nothing is matched yet of a job that has just become the current one.
LEMMA CurrentFresh ==
    ASSUME task' = task, literal' = 1, states' = Unmatched
    PROVE  CurrentDone'
<1>1. ASSUME NEW job \in work', NEW m, Full(m, JobRule(job)', job[2], delta', db', db')
      PROVE  At(m, literal' - 1) \in states'
  <2>1. At(m, 0) = Start
    BY <1>1 DEF Full, Trace
  <2>2. literal' - 1 = 0
    OBVIOUS
  <2> QED BY <2>1, <2>2 DEF Unmatched, Start
<1> QED BY <1>1 DEF CurrentDone

LEMMA CoveredNone == phase' \in {"start", "done"} => Covered'
BY DEF Covered, BelowDone, OldDone, JobsDone, CurrentDone, AllDone

LEMMA CoveredBegin ==
    ASSUME Control, Covered, BeginRound
    PROVE  Covered'
<1>1. CASE Err("Cancelled")
  BY <1>1, Returns, CoveredNone
<1>2. CASE /\ phase = "round" /\ phase' = "rules" /\ work' = Jobs
           /\ literal' = 1 /\ states' = Unmatched /\ Rows' = Rows
           /\ UNCHANGED <<task, evaluator, strata, stratum, round, db, produced, delta>>
  <2>1. Jobs' = Jobs
    BY <1>2, SameJobs
  <2>2. BelowDone'
    BY <1>2 DEF Covered, BelowDone
  <2>3. Old' = Old
    BY <1>2 DEF Old
  <2>4. OldDone'
    BY <1>2, <2>3 DEF Covered, OldDone
  <2>5. JobsDone'
    BY <1>2, <2>1 DEF JobsDone
  <2>6. CurrentDone'
    BY <1>2, CurrentFresh
  <2>7. AllDone'
    BY <1>2 DEF AllDone
  <2> QED BY <2>2, <2>4, <2>5, <2>6, <2>7 DEF Covered
<1> QED BY <1>1, <1>2, BeginRoundEffect

LEMMA CoveredMatch ==
    ASSUME Control, Covered, MatchLiteral
    PROVE  Covered'
<1>1. /\ phase = "rules" /\ task \in Tasks /\ literal \in Nat \ {0} /\ Ordered
      /\ evaluator \in {"reference", "optimized"}
  BY DEF Control, Stored, MatchLiteral
<1>2. /\ literal' = literal + 1
      /\ UNCHANGED <<task, evaluator, phase, strata, stratum, round, work, db, produced, delta>>
  BY DEF MatchLiteral, rounds, facts
<1>3. Jobs' = Jobs /\ Rows' = Rows /\ Old' = Old /\ (Quiet' <=> Quiet)
  BY <1>2, SameJobs DEF Rows, Old, Quiet
<1>4. \A job : JobRule(job)' = JobRule(job)
  BY <1>2 DEF JobRule
<1>5. BelowDone' /\ OldDone' /\ JobsDone' /\ AllDone'
  BY <1>2, <1>3, <1>4 DEF Covered, BelowDone, OldDone, JobsDone, AllDone
<1>6. PICK job \in work :
         /\ Current(job) /\ literal <= Len(Body(job))
         /\ states' = Match(states, Body(job)[literal],
                            IF job[2] = literal THEN delta ELSE Visible, Visible)
  BY DEF MatchLiteral
<1>7. /\ Body(job) \in Seq(Literals) /\ literal \in 1 .. Len(Body(job))
      /\ Body(job) = JobRule(job).body
  BY <1>1, <1>6, JobParts DEF Ordered
<1>8. ASSUME Quiet, NEW m, Full(m, JobRule(job), job[2], delta, db, db)
      PROVE  \/ At(m, literal) \in states'
             \/ Present(JobRule(job), EndOf(m, JobRule(job)), Rows)
  <2>1. CASE At(m, literal - 1) \in states
    <3> DEFINE l == At(Body(job), literal)
               p == IF literal = job[2] THEN delta ELSE db
    <3>1. Visible = db
      BY <1>1, <1>8 DEF Visible, Quiet
    <3>2. Follows(At(m, literal - 1), At(m, literal), l, p, db)
      BY <1>7, <1>8 DEF Full, Trace
    <3>3. l \in Literals /\ states' = Match(states, l, p, db)
      BY <1>6, <1>7, <3>1 DEF At
    <3> HIDE DEF l, p
    <3> QED BY <2>1, <3>2, <3>3, MatchSingle
  <2>2. CASE Present(JobRule(job), EndOf(m, JobRule(job)), Rows)
    BY <2>2
  <2> QED BY <1>1, <1>6, <1>8, <2>1, <2>2 DEF Covered, CurrentDone
<1>9. ASSUME NEW other \in work', Current(other)' PROVE other = job
  <2>1. Current(other) /\ other \in work
    BY <1>2, <1>9, SameCurrent
  <2> QED BY <1>6, <2>1, OneCurrent, WorkPairs
<1>10. literal' - 1 = literal
  BY <1>1, <1>2
<1>11. CurrentDone'
  BY <1>2, <1>3, <1>4, <1>8, <1>9, <1>10 DEF CurrentDone
<1> QED BY <1>5, <1>11 DEF Covered

LEMMA CoveredEndJob ==
    ASSUME Control, Covered, EndJob
    PROVE  Covered'
<1>1. /\ literal' = 1 /\ states' = Unmatched
      /\ UNCHANGED <<task, evaluator, phase, strata, stratum, round, db, produced, delta>>
  BY DEF EndJob, rounds, facts
<1>2. Jobs' = Jobs /\ Rows' = Rows /\ Old' = Old /\ (Quiet' <=> Quiet)
  BY <1>1, SameJobs DEF Rows, Old, Quiet
<1>3. \A job : JobRule(job)' = JobRule(job)
  BY <1>1 DEF JobRule
<1>4. PICK job \in work : Current(job) /\ states = {} /\ work' = work \ {job} /\ phase = "rules"
  BY DEF EndJob
<1>5. Quiet => AllPresent(JobRule(job), job[2], delta, db, db, Rows)
  BY <1>4 DEF Covered, CurrentDone, AllPresent
<1>6. JobsDone'
  <2>1. Quiet => \A k \in Jobs \ work : AllPresent(JobRule(k), k[2], delta, db, db, Rows)
    BY <1>4 DEF Covered, JobsDone
  <2>2. Quiet => \A k \in Jobs \ work' : AllPresent(JobRule(k), k[2], delta, db, db, Rows)
    BY <1>4, <1>5, <2>1
  <2> QED BY <1>1, <1>2, <1>3, <2>2 DEF JobsDone
<1>7. CurrentDone'
  BY <1>1, CurrentFresh
<1>8. BelowDone' /\ OldDone' /\ AllDone'
  BY <1>1, <1>2, <1>3 DEF Covered, BelowDone, OldDone, AllDone
<1> QED BY <1>6, <1>7, <1>8 DEF Covered

LEMMA CoveredConclude ==
    ASSUME Control, Traced, Covered, Conclude
    PROVE  Covered'
<1>1. PICK job \in work, s \in states :
         /\ Current(job) /\ literal > Len(Body(job)) /\ states' = states \ {s}
         /\ Concludes(JobRule(job), s)
  BY ConcludeEffect
<1>2. /\ phase = "rules"
      /\ UNCHANGED <<task, evaluator, phase, strata, stratum, round, work, literal, delta>>
  BY ConcludeEffect
<1>3. /\ task \in Tasks /\ Ordered /\ strata \in [Relations -> Nat] /\ stratum \in Nat
      /\ literal \in Nat
  BY DEF Control, Stored
<1> DEFINE r == JobRule(job)
<1>4. /\ Grows(Rows, Rows', strata, stratum) /\ Present(r, s, Rows') /\ Alike(db, db')
      /\ (Quiet' => Quiet)
  BY <1>1, <1>2 DEF Concludes, Quiet
<1>5. /\ r \in RuleSet(task) /\ r \in Rules /\ Body(job) = r.body /\ Len(r.body) \in Nat
  BY <1>1, <1>3, JobParts, RuleParts DEF Ordered
<1>6. literal - 1 = Len(r.body)
  <2>1. literal \in 1 .. Len(Body(job)) + 1
    BY <1>1 DEF Traced
  <2> QED BY <1>1, <1>5, <2>1
<1> HIDE DEF r
<1>7. Jobs' = Jobs /\ \A k : JobRule(k)' = JobRule(k)
  BY <1>2, SameJobs DEF JobRule
<1>8. \A e \in RuleSet(task) : e \in Rules /\ Above(strata, e)
  BY <1>2, <1>3, TaskParts DEF Ordered
<1>9. BelowDone'
  <2>1. ASSUME task.maxRounds > 0, NEW e \in RuleSet(task), strata[e.head.relation] < stratum
        PROVE  AllPresent(e, 0, {}, Rows', Rows', Rows')
    <3>1. AllPresent(e, 0, {}, Rows, Rows, Rows)
      BY <1>2, <2>1 DEF Covered, BelowDone
    <3>2. AllPresent(e, 0, {}, Rows', Rows', Rows)
      <4>1. \A m : Full(m, e, 0, {}, Rows', Rows') => Full(m, e, 0, {}, Rows, Rows)
        BY <1>3, <1>4, <1>8, <2>1, TraceWasThere
      <4> QED BY <3>1, <4>1 DEF AllPresent
    <3> QED BY <1>4, <3>2, AllPresentGrows
  <2> QED BY <1>2, <2>1 DEF BelowDone
<1>10. \A rel : Within(rel, db', db) /\ Within(rel, db, db') /\ Within(rel, Old', Old)
  <2>1. ASSUME NEW rel, NEW g \in RowsOf(rel, Old') PROVE \E f \in RowsOf(rel, Old) : Same(g, f)
    <3>1. g \in db' /\ g.relation = rel /\ ~\E e \in delta : e.id = g.id
      BY <1>2, <2>1 DEF RowsOf, Old
    <3>2. PICK f \in db : Same(f, g)
      BY <1>4, <3>1 DEF Alike
    <3>3. f \in Old
      BY <3>1, <3>2 DEF Old, Same
    <3> QED BY <3>1, <3>2, <3>3 DEF RowsOf, Same
  <2> QED BY <1>4, <2>1, AlikeWithin DEF Within
<1>11. OldDone'
  <2>1. ASSUME evaluator = "optimized", round > 0, NEW e \in RuleSet(task),
               strata[e.head.relation] = stratum
        PROVE  AllPresent(e, 0, {}, Old', db', Rows')
    <3>1. AllPresent(e, 0, {}, Old, db, Rows)
      BY <1>2, <2>1 DEF Covered, OldDone
    <3>2. AllPresent(e, 0, {}, Old', db', Rows)
      BY <1>8, <1>10, <3>1, WithinNone, AllPresentWithin
    <3> QED BY <1>4, <3>2, AllPresentGrows
  <2> QED BY <1>2, <2>1 DEF OldDone
<1>12. JobsDone'
  <2>1. ASSUME Quiet, NEW k \in Jobs \ work
        PROVE  AllPresent(JobRule(k), k[2], delta, db', db', Rows')
    <3>1. AllPresent(JobRule(k), k[2], delta, db, db, Rows)
      BY <1>2, <2>1 DEF Covered, JobsDone
    <3>2. JobRule(k) \in Rules
      BY <1>3, JobParts
    <3>3. \A rel : Within(rel, delta, delta)
      BY WithinSelf
    <3>4. AllPresent(JobRule(k), k[2], delta, db', db', Rows)
      BY <1>10, <3>1, <3>2, <3>3, AllPresentWithin
    <3> QED BY <1>4, <3>4, AllPresentGrows
  <2> QED BY <1>2, <1>4, <1>7, <2>1 DEF JobsDone
<1>13. ASSUME Quiet, NEW m, Full(m, r, job[2], delta, db', db')
       PROVE  At(m, literal - 1) \in states' \/ Present(r, EndOf(m, r), Rows')
  <2>1. Full(m, r, job[2], delta, db, db)
    <3>1. r.body \in Seq(Literals) /\ Len(r.body) \in 0 .. Len(r.body)
      BY <1>5, RuleParts
    <3>2. \A rel : Within(rel, delta, delta)
      BY WithinSelf
    <3> QED BY <1>10, <1>13, <3>1, <3>2, TraceTransfer DEF Full
  <2>2. At(m, literal - 1) \in states \/ Present(r, EndOf(m, r), Rows)
    BY <1>1, <1>2, <1>13, <2>1 DEF Covered, CurrentDone, r
  <2>3. CASE Present(r, EndOf(m, r), Rows)
    BY <1>4, <2>3, PresentGrows
  <2>4. CASE At(m, literal - 1) \in states /\ At(m, literal - 1) # s
    BY <1>1, <2>4
  <2>5. CASE At(m, literal - 1) = s
    BY <1>4, <1>6, <2>5 DEF EndOf
  <2> QED BY <2>2, <2>3, <2>4, <2>5
<1>14. CurrentDone'
  <2>1. ASSUME NEW other \in work', Current(other)' PROVE other = job
    <3>1. Current(other) /\ other \in work
      BY <1>2, <2>1, SameCurrent
    <3> QED BY <1>1, <3>1, OneCurrent, WorkPairs
  <2> QED BY <1>2, <1>4, <1>7, <1>13, <2>1 DEF CurrentDone, r
<1>15. AllDone'
  BY <1>2 DEF AllDone
<1> QED BY <1>9, <1>11, <1>12, <1>14, <1>15 DEF Covered

LEMMA CoveredEndRound ==
    ASSUME Control, Covered, EndRound
    PROVE  Covered'
<1>1. CASE Err("RecursionLimit")
  BY <1>1, Returns, CoveredNone
<1>2. CASE /\ phase = "rules" /\ phase' = "round" /\ work = {} /\ work' = {} /\ produced # {}
           /\ db' = Rows /\ delta' = produced /\ produced' = {} /\ Rows' = Rows
           /\ round' = round + 1
           /\ UNCHANGED <<task, evaluator, strata, stratum>>
  <2>1. BelowDone'
    BY <1>2 DEF Covered, BelowDone
  <2>2. OldDone'
    <3>1. ASSUME evaluator = "optimized", NEW r \in RuleSet(task), strata[r.head.relation] = stratum
          PROVE  AllPresent(r, 0, {}, Old', Rows, Rows)
      <4>1. AllPresent(r, 0, {}, db, db, Rows)
        BY <1>2, <3>1, RoundDone DEF Covered, Quiet
      <4>2. Old' \subseteq db /\ db \subseteq Rows
        BY <1>2 DEF Old, Rows
      <4>3. \A rel : Within(rel, {}, {}) /\ Within(rel, Old', db) /\ Within(rel, db, Rows)
        BY <4>2, WithinNone, WithinSelf
      <4>4. r \in Rules
        BY TaskParts DEF Control, Stored
      <4> QED BY <4>1, <4>3, <4>4, AllPresentWithin
    <3> QED BY <1>2, <3>1 DEF OldDone
  <2>3. JobsDone' /\ CurrentDone' /\ AllDone'
    BY <1>2 DEF JobsDone, CurrentDone, AllDone
  <2> QED BY <2>1, <2>2, <2>3 DEF Covered
<1> QED BY <1>1, <1>2, EndRoundEffect

\* When no more strata are left, all rules are done, whatever warrants are then.
LEMMA AllPresentRegraded ==
    ASSUME NEW r \in Rules, NEW rows, NEW others, Regraded(rows, others),
           AllPresent(r, 0, {}, rows, rows, rows)
    PROVE  AllPresent(r, 0, {}, others, others, others)
<1>1. Grows(rows, others, [x \in {} |-> 0], 0) /\ Alike(rows, others)
  BY RegradedGrows
<1>2. \A rel : Within(rel, {}, {}) /\ Within(rel, others, rows) /\ Within(rel, rows, others)
  BY <1>1, WithinNone, AlikeWithin
<1>3. AllPresent(r, 0, {}, others, others, rows)
  BY <1>2, AllPresentWithin
<1> QED BY <1>1, <1>3, AllPresentGrows

LEMMA CoveredEndStratum ==
    ASSUME Control, Covered, EndStratum
    PROVE  Covered'
<1>1. /\ phase = "rules" \/ (phase = "round" /\ round = task.maxRounds)
      /\ work = {} /\ work' = {} /\ produced = {} /\ produced' = {}
      /\ Rows = db /\ Rows' = db' /\ Regraded(Rows, Rows')
      /\ round' = 0 /\ UNCHANGED <<task, evaluator, strata>>
      /\ \/ stratum < LastStratum /\ stratum' = stratum + 1 /\ phase' = "round" /\ db' = db
         \/ ~(stratum < LastStratum) /\ stratum' = stratum /\ phase' = "warrants"
  BY EndStratumEffect
<1>2. /\ task \in Tasks /\ Ordered /\ strata \in [Relations -> Nat] /\ stratum \in Nat
      /\ round \in Nat
  BY DEF Control, Stored
<1>3. RuleSet(task) \subseteq Rules /\ task.maxRounds \in Nat
  BY <1>2, TaskParts
<1>4. ASSUME task.maxRounds > 0, NEW r \in RuleSet(task), strata[r.head.relation] <= stratum
      PROVE  AllPresent(r, 0, {}, Rows, Rows, Rows)
  <2>1. phase = "rules"
    <3>1. phase \in {"round", "rules"} => round < task.maxRounds
      BY <1>2, <1>4 DEF Ordered
    <3> QED BY <1>1, <1>2, <1>3, <3>1
  <2>2. r.head.relation \in Relations
    BY <1>3, RuleParts
  <2>3. CASE strata[r.head.relation] < stratum
    BY <1>4, <2>1, <2>3 DEF Covered, BelowDone
  <2>4. CASE strata[r.head.relation] = stratum
    <3>1. AllPresent(r, 0, {}, db, db, Rows)
      BY <1>1, <2>1, <2>4, RoundDone DEF Covered, Quiet
    <3> QED BY <1>1, <3>1
  <2> QED BY <1>2, <1>4, <2>2, <2>3, <2>4
<1>5. BelowDone'
  <2>1. ASSUME phase' = "round", task.maxRounds > 0, NEW r \in RuleSet(task),
               strata[r.head.relation] < stratum'
        PROVE  AllPresent(r, 0, {}, Rows', Rows', Rows')
    <3>1. Rows' = Rows /\ stratum' = stratum + 1
      BY <1>1, <2>1
    <3>2. strata[r.head.relation] \in Nat
      BY <1>2, <1>3, RuleParts
    <3>3. strata[r.head.relation] <= stratum
      BY <1>2, <2>1, <3>1, <3>2
    <3> QED BY <1>4, <2>1, <3>1, <3>3
  <2>2. phase' # "rules"
    BY <1>1
  <2> QED BY <1>1, <2>1, <2>2 DEF BelowDone
<1>6. AllDone'
  <2>1. ASSUME phase' = "warrants", task.maxRounds > 0, NEW r \in RuleSet(task)
        PROVE  AllPresent(r, 0, {}, Rows', Rows', Rows')
    <3>1. ~(stratum < LastStratum)
      BY <1>1, <2>1
    <3>2. r.head.relation \in Relations /\ r \in Rules
      BY <1>3, RuleParts
    <3>3. LastStratum \in Nat /\ strata[r.head.relation] <= LastStratum
      BY <1>2, <3>2, LastStratumIs
    <3>4. strata[r.head.relation] \in Nat
      BY <1>2, <3>2
    <3>5. strata[r.head.relation] <= stratum
      BY <1>2, <3>1, <3>3, <3>4
    <3> QED BY <1>1, <1>4, <2>1, <3>2, <3>5, AllPresentRegraded
  <2> QED BY <1>1, <2>1 DEF AllDone
<1>7. OldDone' /\ JobsDone' /\ CurrentDone'
  BY <1>1 DEF OldDone, JobsDone, CurrentDone
<1> QED BY <1>5, <1>6, <1>7 DEF Covered

LEMMA CoveredRecompute ==
    ASSUME Control, Covered, RecomputeWarrants
    PROVE  Covered'
<1>1. /\ phase = "warrants" /\ phase' = "warrants" /\ Regraded(Rows, Rows') /\ task' = task
  BY RecomputeEffect
<1>2. RuleSet(task) \subseteq Rules
  BY TaskParts DEF Control, Stored
<1>3. AllDone'
  BY <1>1, <1>2, AllPresentRegraded DEF Covered, AllDone
<1> QED BY <1>1, <1>3 DEF Covered, BelowDone, OldDone, JobsDone, CurrentDone

LEMMA CoveredLoad ==
    ASSUME Control, Control', Load
    PROVE  Covered'
<1>1. CASE Err("UnsafeRule") \/ Err("UnstratifiedNegation")
  BY <1>1, Returns, CoveredNone
<1>2. CASE phase' = "round" /\ round' = 0 /\ stratum' = 0 /\ task' = task
  <2>1. task' \in Tasks /\ strata' \in [Relations -> Nat]
    BY DEF Control, Stored
  <2>2. \A r \in RuleSet(task') : ~(strata'[r.head.relation] < 0)
    <3>1. \A r \in RuleSet(task') : r \in Rules
      BY <2>1, TaskParts
    <3>2. \A r \in RuleSet(task') : strata'[r.head.relation] \in Nat
      BY <2>1, <3>1, RuleParts
    <3> QED BY <3>2
  <2>3. BelowDone'
    BY <1>2, <2>2 DEF BelowDone
  <2> QED BY <1>2, <2>3 DEF Covered, OldDone, JobsDone, CurrentDone, AllDone
<1> QED BY <1>1, <1>2, LoadEffect

LEMMA CoveredIdle ==
    ASSUME Covered, Idle
    PROVE  Covered'
<1>1. /\ Jobs' = Jobs /\ Rows' = Rows /\ Old' = Old /\ (Quiet' <=> Quiet)
      /\ \A k : JobRule(k)' = JobRule(k) /\ (Current(k)' <=> Current(k))
  BY SameJobs, SameCurrent DEF Idle, Rows, Old, Quiet, JobRule
<1>2. UNCHANGED <<task, evaluator, phase, strata, stratum, round, work, literal, states, db, delta>>
  BY DEF Idle
<1>3. BelowDone' /\ OldDone' /\ AllDone'
  BY <1>1, <1>2 DEF Covered, BelowDone, OldDone, AllDone
<1>4. JobsDone'
  BY <1>1, <1>2 DEF Covered, JobsDone
<1>5. CurrentDone'
  BY <1>1, <1>2 DEF Covered, CurrentDone
<1> QED BY <1>3, <1>4, <1>5 DEF Covered

LEMMA CoveredStep ==
    ASSUME Control, Control', Traced, Covered, [Next]_vars
    PROVE  Covered'
<1>1. CASE Answer
  BY <1>1, Returns, CoveredNone
<1>2. CASE RunOptimized
  BY <1>2, CoveredNone DEF RunOptimized
<1> QED BY <1>1, <1>2, CoveredLoad, CoveredBegin, CoveredMatch, CoveredConclude, CoveredEndJob,
           CoveredEndRound, CoveredEndStratum, CoveredRecompute, CoveredIdle, IdleSteps DEF Next

LEMMA CoveredInit == Init => Covered
BY DEF Init, Covered, BelowDone, OldDone, JobsDone, CurrentDone, AllDone

-----------------------------------------------------------------------------
(* Warrants are earned *)

\* No derived fact is worth more than its derivations are.
NotBeyond(rows) == \A f \in Derived(rows) : Strength[f.warrant] <= Strength[Justified(f, rows)]

\* Facts each derivation of which is worth less than w or uses one of them.
Circular(w, ids, rows) ==
    \A f \in Derived(rows) :
        f.id \in ids =>
            \A d \in f.derivations :
                \/ IsStrongerThan(w, DerivationWarrant(d, rows))
                \/ \E i \in DOMAIN d.inputs : Input(d, i) \in ids

\* Such facts are worth less than w.
Earned(rows) ==
    \A w \in FactWarrant \ {"Heuristic"} : \A ids \in SUBSET Ids(Derived(rows)) :
        Circular(w, ids, rows) =>
            \A f \in Derived(rows) : f.id \in ids => IsStrongerThan(w, f.warrant)

LEMMA RegradedIds ==
    ASSUME NEW rows, NEW others, Regraded(rows, others)
    PROVE  Ids(rows) = Ids(others) /\ Ids(Derived(rows)) = Ids(Derived(others))
<1>1. \A f \in rows : \E g \in others : g.id = f.id /\ g.derivations = f.derivations
  BY DEF Regraded, Regrade, Same
<1>2. \A g \in others : \E f \in rows : g.id = f.id /\ g.derivations = f.derivations
  BY DEF Regraded, Regrade, Same
<1>3. Ids(rows) \subseteq Ids(others) /\ Ids(Derived(rows)) \subseteq Ids(Derived(others))
  BY <1>1 DEF Ids, Derived
<1>4. Ids(others) \subseteq Ids(rows) /\ Ids(Derived(others)) \subseteq Ids(Derived(rows))
  BY <1>2 DEF Ids, Derived
<1> QED BY <1>3, <1>4

\* Without warrants all is earned.
LEMMA ResetEarned ==
    ASSUME NEW rows, NEW bound, IsTable(rows, bound),
           \A g \in rows : g.derivations # {} => g.warrant = "Heuristic"
    PROVE  NotBeyond(rows) /\ Earned(rows)
<1>1. ASSUME NEW f \in Derived(rows) PROVE Strength[f.warrant] <= Strength[Justified(f, rows)]
  <2>1. Strength[f.warrant] = 0
    BY HeuristicIsLeast DEF Derived
  <2>2. Justified(f, rows) \in FactWarrant
    BY JustifiedIs
  <2>3. Strength[Justified(f, rows)] \in 0 .. 3
    BY <2>2, StrengthRange
  <2> QED BY <2>1, <2>3
<1>2. ASSUME NEW w \in FactWarrant \ {"Heuristic"}, NEW f \in Derived(rows)
      PROVE  IsStrongerThan(w, f.warrant)
  <2>1. f.warrant = "Heuristic"
    BY DEF Derived
  <2> QED BY <2>1 DEF IsStrongerThan, FactWarrant, Strength
<1> QED BY <1>1, <1>2 DEF NotBeyond, Earned

LEMMA StrongerOrder ==
    \A u, v, w \in FactWarrant :
        /\ Strength[u] <= Strength[v] /\ IsStrongerThan(w, v) => IsStrongerThan(w, u)
        /\ ~IsStrongerThan(u, v) => Strength[u] <= Strength[v]
        /\ Strength[u] <= Strength[v] /\ Strength[v] <= Strength[u] => u = v
BY DEF IsStrongerThan, FactWarrant, Strength

\* Circles stay worthless when warrants are raised.
LEMMA RaisedEarned ==
    ASSUME NEW rows, NEW bound, IsTable(rows, bound), NotBeyond(rows), Earned(rows)
    PROVE  NotBeyond(Raised(rows)) /\ Earned(Raised(rows))
<1> DEFINE T == Raised(rows)
<1>1. /\ IsTable(T, bound) /\ Regraded(rows, T) /\ Lifts(rows, T)
      /\ \A g \in T : \E f \in rows : Regrade(f, g) /\ g.warrant = NewWarrant(f, rows)
      /\ \A f \in rows : \E g \in T : Regrade(f, g) /\ g.warrant = NewWarrant(f, rows)
  BY RaisedEffect
<1> HIDE DEF T
<1>2. NotBeyond(T)
  <2> SUFFICES ASSUME NEW g \in Derived(T) PROVE Strength[g.warrant] <= Strength[Justified(g, T)]
    BY DEF NotBeyond
  <2>1. PICK f \in rows : Regrade(f, g) /\ g.warrant = NewWarrant(f, rows)
    BY <1>1 DEF Derived
  <2>2. g.derivations = f.derivations /\ f \in Derived(rows)
    BY <2>1 DEF Regrade, Derived
  <2>3. Strength[Justified(f, rows)] <= Strength[Justified(g, T)]
    BY <1>1, <2>2, LiftsJustified
  <2>4. Strength[g.warrant] <= Strength[Justified(f, rows)]
    <3>1. Strength[f.warrant] <= Strength[Justified(f, rows)]
      BY <2>2 DEF NotBeyond
    <3>2. Strength[Justified(f, rows)] \in Int
      BY JustifiedIs, StrengthRange
    <3>3. g.warrant = f.warrant \/ g.warrant = Justified(f, rows)
      BY <2>1 DEF NewWarrant
    <3>4. CASE g.warrant = f.warrant
      BY <3>1, <3>4
    <3>5. CASE g.warrant = Justified(f, rows)
      BY <3>2, <3>5
    <3> QED BY <3>3, <3>4, <3>5
  <2>5. g.warrant \in FactWarrant /\ Justified(f, rows) \in FactWarrant /\ Justified(g, T) \in FactWarrant
    BY <1>1, JustifiedIs DEF IsTable, IsRow, Derived
  <2>6. /\ Strength[g.warrant] \in Int /\ Strength[Justified(f, rows)] \in Int
        /\ Strength[Justified(g, T)] \in Int
    BY <2>5, StrengthRange
  <2> QED BY <2>3, <2>4, <2>6
<1>3. Earned(T)
  <2> SUFFICES ASSUME NEW w \in FactWarrant \ {"Heuristic"}, NEW ids \in SUBSET Ids(Derived(T)),
                      Circular(w, ids, T), NEW g \in Derived(T), g.id \in ids
               PROVE  IsStrongerThan(w, g.warrant)
    BY DEF Earned
  <2>1. \A d : DerivationWarrant(d, rows) \in FactWarrant /\ DerivationWarrant(d, T) \in FactWarrant
    BY <1>1, DerivationWarrantIs
  <2>2. Circular(w, ids, rows)
    <3> SUFFICES ASSUME NEW f \in Derived(rows), f.id \in ids, NEW d \in f.derivations
                 PROVE  \/ IsStrongerThan(w, DerivationWarrant(d, rows))
                        \/ \E i \in DOMAIN d.inputs : Input(d, i) \in ids
      BY DEF Circular
    <3>1. PICK h \in T : Regrade(f, h)
      BY <1>1 DEF Derived
    <3>2. h \in Derived(T) /\ h.id \in ids /\ d \in h.derivations
      BY <3>1 DEF Regrade, Same, Derived
    <3>3. CASE IsStrongerThan(w, DerivationWarrant(d, T))
      <4>1. Strength[DerivationWarrant(d, rows)] <= Strength[DerivationWarrant(d, T)]
        BY <1>1, LiftsDerivations
      <4> QED BY <2>1, <3>3, <4>1, StrongerOrder
    <3> QED BY <3>2, <3>3 DEF Circular
  <2>3. \A f \in Derived(rows) : f.id \in ids => IsStrongerThan(w, f.warrant)
    <3>1. ids \in SUBSET Ids(Derived(rows))
      BY <1>1, RegradedIds
    <3> QED BY <2>2, <3>1 DEF Earned
  <2>4. PICK f \in rows : Regrade(f, g) /\ g.warrant = NewWarrant(f, rows)
    BY <1>1 DEF Derived
  <2>5. f \in Derived(rows) /\ f.id \in ids
    BY <2>4 DEF Regrade, Same, Derived
  <2>6. IsStrongerThan(w, Justified(f, rows))
    <3>1. CASE Justified(f, rows) = "Heuristic"
      BY <3>1 DEF IsStrongerThan, FactWarrant, Strength
    <3>2. CASE \E d \in f.derivations : Justified(f, rows) = DerivationWarrant(d, rows)
      <4>1. PICK d \in f.derivations : Justified(f, rows) = DerivationWarrant(d, rows)
        BY <3>2
      <4>2. CASE \E i \in DOMAIN d.inputs : Input(d, i) \in ids
        <5>1. PICK i \in DOMAIN d.inputs : Input(d, i) \in ids
          BY <4>2
        <5>2. PICK h \in Derived(T) : h.id = Input(d, i)
          BY <5>1 DEF Ids
        <5>3. PICK e \in rows : Regrade(e, h)
          BY <1>1 DEF Derived
        <5>4. e \in Derived(rows) /\ e.id = Input(d, i)
          BY <5>2, <5>3 DEF Regrade, Same, Derived
        <5>5. IsStrongerThan(w, e.warrant)
          BY <2>3, <5>1, <5>4
        <5>6. e \in rows
          BY <5>4 DEF Derived
        <5>7. WarrantOf(Input(d, i), rows) = e.warrant /\ e.warrant \in FactWarrant
          <6>1. WarrantOf(e.id, rows) = e.warrant /\ e.warrant \in FactWarrant
            BY <5>6, WarrantOfRow
          <6> QED BY <5>4, <6>1
        <5>8. Strength[DerivationWarrant(d, rows)] <= Strength[WarrantOf(Input(d, i), rows)]
          BY DerivationWarrantIs
        <5>9. IsStrongerThan(w, DerivationWarrant(d, rows))
          BY <2>1, <5>5, <5>7, <5>8, StrongerOrder
        <5> QED BY <4>1, <5>9
      <4>3. CASE IsStrongerThan(w, DerivationWarrant(d, rows))
        BY <4>1, <4>3
      <4> QED BY <2>2, <2>5, <4>2, <4>3 DEF Circular
    <3> QED BY <3>1, <3>2, JustifiedIs
  <2>7. g.warrant = f.warrant \/ g.warrant = Justified(f, rows)
    BY <2>4 DEF NewWarrant
  <2>8. IsStrongerThan(w, f.warrant)
    BY <2>3, <2>5
  <2> QED BY <2>6, <2>7, <2>8
<1> QED BY <1>2, <1>3 DEF T

\* Each derived fact has a mark for each degree its warrant has.
Marks(rows) ==
    {x \in Ids(rows) \X (1 .. 3) :
        \E f \in Derived(rows) : f.id = x[1] /\ x[2] <= Strength[f.warrant]}

LEMMA MarksBound ==
    ASSUME NEW rows, NEW bound, IsTable(rows, bound)
    PROVE  /\ Cardinality(Ids(rows)) \in Nat /\ Cardinality(Ids(rows)) <= Cardinality(rows)
           /\ Cardinality(rows) \in Nat /\ IsFiniteSet(Marks(rows))
           /\ Cardinality(Marks(rows)) \in Nat
           /\ Cardinality(Marks(rows)) <= 3 * Cardinality(Ids(rows))
<1> DEFINE h == [f \in rows |-> f.id]
           S == Ids(rows)
<1>1. IsFiniteSet(rows)
  BY DEF IsTable
<1>2. IsFiniteSet(S) /\ Cardinality(S) <= Cardinality(rows)
  <2>1. h = [f \in rows |-> h[f]] /\ S = {h[f] : f \in rows}
    BY DEF Ids
  <2> HIDE DEF h, S
  <2> QED BY <1>1, <2>1, ImageFinite
<1> HIDE DEF S
<1>3. IsFiniteSet(1 .. 3) /\ Cardinality(1 .. 3) = 3
  <2>1. PICK a \in Int, b \in Int : a = 1 /\ b = 3
    OBVIOUS
  <2>2. IsFiniteSet(a .. b) /\ Cardinality(a .. b) = IF a > b THEN 0 ELSE b - a + 1
    BY FS_Interval
  <2>3. (IF a > b THEN 0 ELSE b - a + 1) = 3
    BY <2>1
  <2> QED BY <2>1, <2>2, <2>3
<1>4. IsFiniteSet(S \X (1 .. 3)) /\ Cardinality(S \X (1 .. 3)) = Cardinality(S) * 3
  BY <1>2, <1>3, FS_Product
<1>5. Marks(rows) \in SUBSET (S \X (1 .. 3))
  BY DEF Marks, S
<1>6. IsFiniteSet(Marks(rows)) /\ Cardinality(Marks(rows)) <= Cardinality(S \X (1 .. 3))
  BY <1>4, <1>5, FS_Subset
<1>7. Cardinality(S) \in Nat /\ Cardinality(rows) \in Nat /\ Cardinality(Marks(rows)) \in Nat
  BY <1>1, <1>2, <1>6, FS_CardinalityType
<1>8. Cardinality(Marks(rows)) <= 3 * Cardinality(S)
  BY <1>4, <1>6, <1>7
<1> QED BY <1>2, <1>6, <1>7, <1>8 DEF S

\* Each pass that improves something makes a mark.
LEMMA MarksGrow ==
    ASSUME NEW rows, NEW bound, IsTable(rows, bound), NEW e \in rows, Improves(e, rows)
    PROVE  Cardinality(Marks(Raised(rows))) >= Cardinality(Marks(rows)) + 1
<1> DEFINE T == Raised(rows)
<1>1. /\ IsTable(T, bound) /\ Regraded(rows, T)
      /\ \A f \in rows : \E g \in T : Regrade(f, g) /\ g.warrant = NewWarrant(f, rows)
  BY RaisedEffect
<1> HIDE DEF T
<1>2. \A f \in rows : f.warrant \in FactWarrant /\ Justified(f, rows) \in FactWarrant
  BY JustifiedIs DEF IsTable, IsRow
<1>3. \A f \in rows : Strength[f.warrant] <= Strength[NewWarrant(f, rows)]
  <2>1. ASSUME NEW f \in rows PROVE Strength[f.warrant] <= Strength[NewWarrant(f, rows)]
    <3>1. CASE Improves(f, rows)
      BY <1>2, <3>1, StrengthType DEF Improves, IsStrongerThan, NewWarrant
    <3>2. CASE ~Improves(f, rows)
      BY <1>2, <3>2, StrengthType DEF NewWarrant
    <3> QED BY <3>1, <3>2
  <2> QED BY <2>1
<1>4. Ids(T) = Ids(rows)
  BY <1>1, RegradedIds
<1>5. ASSUME NEW x \in Marks(rows) PROVE x \in Marks(T)
  <2>1. x \in Ids(T) \X (1 .. 3)
    BY <1>4 DEF Marks
  <2>2. PICK f \in Derived(rows) : f.id = x[1] /\ x[2] <= Strength[f.warrant]
    BY DEF Marks
  <2>3. PICK g \in T : Regrade(f, g) /\ g.warrant = NewWarrant(f, rows)
    BY <1>1 DEF Derived
  <2>4. g \in Derived(T) /\ g.id = x[1]
    BY <2>2, <2>3 DEF Regrade, Same, Derived
  <2>5. Strength[f.warrant] <= Strength[g.warrant]
    BY <1>3, <2>3 DEF Derived
  <2>6. x[2] \in Int /\ Strength[f.warrant] \in Int /\ Strength[g.warrant] \in Int
    <3>1. g.warrant \in FactWarrant
      BY <1>1, <2>3 DEF IsTable, IsRow
    <3> QED BY <1>2, <2>1, <3>1, StrengthType DEF Derived
  <2>7. x[2] <= Strength[g.warrant]
    BY <2>2, <2>5, <2>6
  <2> QED BY <2>1, <2>4, <2>7 DEF Marks
<1>6. PICK g \in T : Regrade(e, g) /\ g.warrant = Justified(e, rows)
  BY <1>1 DEF NewWarrant
<1> DEFINE k == Strength[g.warrant]
           y == <<e.id, k>>
<1>7. k > Strength[e.warrant] /\ e \in Derived(rows)
  BY <1>6 DEF Improves, IsStrongerThan, Derived
<1>8. Strength[e.warrant] \in 0 .. 3 /\ k \in 0 .. 3
  BY <1>2, <1>6, StrengthRange
<1>9. y \in Marks(T)
  <2>1. e.id \in Ids(T) /\ k \in 1 .. 3
    <3>1. e.id \in Ids(rows)
      BY DEF Ids
    <3> QED BY <1>4, <1>7, <1>8, <3>1
  <2>2. g \in Derived(T) /\ g.id = e.id
    BY <1>6, <1>7 DEF Regrade, Same, Derived
  <2>3. k <= k
    BY <1>8
  <2> QED BY <2>1, <2>2, <2>3 DEF Marks
<1>10. y \notin Marks(rows)
  <2> SUFFICES ASSUME y \in Marks(rows) PROVE FALSE
    OBVIOUS
  <2>1. PICK f \in Derived(rows) : f.id = e.id /\ k <= Strength[f.warrant]
    BY DEF Marks
  <2>2. f = e
    BY <2>1 DEF Derived, IsTable, NameFacts
  <2> HIDE DEF k
  <2> QED BY <1>7, <1>8, <2>1, <2>2
<1> HIDE DEF y
<1>11. IsFiniteSet(Marks(rows)) /\ IsFiniteSet(Marks(T))
       /\ Cardinality(Marks(rows)) \in Nat /\ Cardinality(Marks(T)) \in Nat
  BY <1>1, MarksBound
<1>12. Cardinality(Marks(rows) \cup {y}) = Cardinality(Marks(rows)) + 1
  BY <1>10, <1>11, FS_AddElement
<1>13. Cardinality(Marks(rows) \cup {y}) <= Cardinality(Marks(T))
  <2>1. Marks(rows) \cup {y} \in SUBSET Marks(T)
    BY <1>5, <1>9
  <2> QED BY <1>11, <2>1, FS_Subset
<1>14. Cardinality(Marks(T)) >= Cardinality(Marks(rows)) + 1
  BY <1>11, <1>12, <1>13
<1> QED BY <1>14 DEF T

\* The passes that are left suffice for the marks that are missing.
Graded ==
    phase = "warrants" =>
        /\ NotBeyond(db) /\ Earned(db)
        /\ passes \in Nat /\ passes + Cardinality(Marks(db)) >= 4 * Cardinality(Ids(db)) + 1

LEMMA GradedNone == phase' # "warrants" => Graded'
BY DEF Graded

LEMMA GradedEndStratum ==
    ASSUME Control, EndStratum
    PROVE  Graded'
<1>1. Rows = db /\ IsTable(Rows, next)
  BY EndStratumEffect DEF Control, Stored
<1>2. CASE phase' = "round"
  BY <1>2, GradedNone
<1>3. CASE db' = ResetWarrants(db) /\ passes' = MaxPasses(db)
  <2> DEFINE T == ResetWarrants(db)
  <2>1. /\ IsTable(T, next) /\ Regraded(db, T)
        /\ \A g \in T : g.derivations # {} => g.warrant = "Heuristic"
    BY <1>1, ResetEffect
  <2> HIDE DEF T
  <2>2. NotBeyond(T) /\ Earned(T)
    BY <2>1, ResetEarned
  <2>3. Ids(T) = Ids(db)
    BY <2>1, RegradedIds
  <2>4. /\ Cardinality(Ids(db)) \in Nat /\ Cardinality(Ids(db)) <= Cardinality(db)
        /\ Cardinality(db) \in Nat
    BY <1>1, MarksBound
  <2>5. Cardinality(Marks(T)) \in Nat
    BY <2>1, MarksBound
  <2>6. MaxPasses(db) = 4 * Cardinality(db) + 1
    BY DEF MaxPasses
  <2>7. /\ MaxPasses(db) \in Nat
        /\ MaxPasses(db) + Cardinality(Marks(T)) >= 4 * Cardinality(Ids(T)) + 1
    BY <2>3, <2>4, <2>5, <2>6
  <2> QED BY <1>3, <2>2, <2>7 DEF Graded, T
<1> QED BY <1>2, <1>3, EndStratumEffect

LEMMA GradedRecompute ==
    ASSUME Control, Graded, RecomputeWarrants
    PROVE  Graded'
<1>1. /\ phase = "warrants" /\ Rows = db /\ db' = Raised(db)
      /\ passes > 0 /\ passes' = passes - 1 /\ IsTable(Rows, next)
  BY RecomputeEffect DEF Control, Stored
<1>2. PICK f \in db : Improves(f, db)
  BY RecomputeEffect
<1> DEFINE T == Raised(db)
<1>3. IsTable(T, next) /\ Regraded(db, T)
  BY <1>1, RaisedEffect
<1>4. Cardinality(Marks(T)) >= Cardinality(Marks(db)) + 1
  BY <1>1, <1>2, MarksGrow
<1>5. NotBeyond(T) /\ Earned(T)
  BY <1>1, RaisedEarned DEF Graded
<1> HIDE DEF T
<1>6. Ids(T) = Ids(db)
  BY <1>3, RegradedIds
<1>7. /\ Cardinality(Marks(T)) \in Nat /\ Cardinality(Marks(db)) \in Nat
      /\ Cardinality(Ids(db)) \in Nat
  BY <1>1, <1>3, MarksBound
<1>8. passes \in Nat /\ passes + Cardinality(Marks(db)) >= 4 * Cardinality(Ids(db)) + 1
  BY <1>1 DEF Graded
<1>9. passes' \in Nat /\ passes' + Cardinality(Marks(T)) >= 4 * Cardinality(Ids(T)) + 1
  BY <1>1, <1>4, <1>6, <1>7, <1>8
<1> QED BY <1>1, <1>5, <1>9 DEF Graded, T

LEMMA GradedStep ==
    ASSUME Control, Graded, [Next]_vars
    PROVE  Graded'
<1>1. CASE Load
  <2>1. phase' \in {"round", "done"}
    BY <1>1, LoadEffect, Returns
  <2> QED BY <2>1, GradedNone
<1>2. CASE BeginRound
  <2>1. phase' \in {"rules", "done"}
    BY <1>2, BeginRoundEffect, Returns
  <2> QED BY <2>1, GradedNone
<1>3. CASE MatchLiteral \/ Conclude \/ EndJob
  <2>1. phase' = "rules"
    BY <1>3, ConcludeEffect DEF MatchLiteral, EndJob
  <2> QED BY <2>1, GradedNone
<1>4. CASE EndRound
  <2>1. phase' \in {"round", "done"}
    BY <1>4, EndRoundEffect, Returns
  <2> QED BY <2>1, GradedNone
<1>5. CASE Answer
  BY <1>5, Returns, GradedNone
<1>6. CASE RunOptimized
  BY <1>6, GradedNone DEF RunOptimized
<1>7. CASE Idle
  BY <1>7 DEF Idle, Graded
<1> QED BY <1>1, <1>2, <1>3, <1>4, <1>5, <1>6, <1>7, GradedEndStratum, GradedRecompute, IdleSteps
        DEF Next

\* Nothing is left to improve when an answer is given.
LEMMA NothingToImprove ==
    ASSUME Control, Graded, Answer
    PROVE  \A f \in db : ~Improves(f, db)
<1>1. phase = "warrants" /\ (passes = 0 \/ \A f \in db : ~Improves(f, db))
  BY DEF Answer
<1>2. passes \in Nat /\ passes + Cardinality(Marks(db)) >= 4 * Cardinality(Ids(db)) + 1
  BY <1>1 DEF Graded
<1>3. IsTable(db, next)
  BY TableSubset DEF Control, Stored, Rows
<1>4. /\ Cardinality(Ids(db)) \in Nat /\ Cardinality(Marks(db)) \in Nat
      /\ Cardinality(Marks(db)) <= 3 * Cardinality(Ids(db))
  BY <1>3, MarksBound
<1>5. passes # 0
  BY <1>2, <1>4
<1> QED BY <1>1, <1>5

-----------------------------------------------------------------------------
(* The result *)

\* InferencesOf, of any task.
InferencesFor(t, rows) ==
    UNION {{[relation |-> t.rules[k].head.relation, args |-> HeadArgs(t.rules[k], s),
             derivation |-> DerivedBy(t.rules[k], s)] : s \in MatchBody(t.rules[k].body, rows)} :
           k \in DOMAIN t.rules}

Inference(r, s) ==
    [relation |-> r.head.relation, args |-> HeadArgs(r, s), derivation |-> DerivedBy(r, s)]

SoundFor(t, loaded, rows) ==
    \A f \in rows : \A d \in f.derivations :
        \/ Given(loaded, f, d)
        \/ [relation |-> f.relation, args |-> f.args, derivation |-> d] \in InferencesFor(t, rows)

CompleteFor(t, rows) ==
    \A x \in InferencesFor(t, rows) :
        LET same == {f \in rows : f.relation = x.relation /\ f.args = x.args} IN
        /\ same # {}
        /\ \/ \A f \in same : f.derivations = {}
           \/ \E f \in same : x.derivation \in f.derivations

GroundedFor(rows) ==
    /\ \A f \in Derived(rows) : Justified(f, rows) = f.warrant
    /\ Earned(rows)

\* The strict worth of derivations, of what was loaded.
SuppliedFrom(loaded, f, d, i) == Given(loaded, f, d) => Input(d, i) \in Ids(loaded)

InputWorth(loaded, f, d, i, rows) ==
    IF SuppliedFrom(loaded, f, d, i) THEN WarrantOf(Input(d, i), rows) ELSE "Heuristic"

WorthFrom(loaded, f, d, rows) ==
    LET ws == {InputWorth(loaded, f, d, i, rows) : i \in DOMAIN d.inputs} \cup {"Structural"}
    IN  CHOOSE w \in ws : \A v \in ws : Weaker(w, v) = w

CircularFrom(loaded, w, ids, rows) ==
    \A f \in Derived(rows) :
        f.id \in ids =>
            \A d \in f.derivations :
                \/ IsStrongerThan(w, WorthFrom(loaded, f, d, rows))
                \/ \E i \in DOMAIN d.inputs :
                     SuppliedFrom(loaded, f, d, i) /\ Input(d, i) \in ids

ExactFor(loaded, rows) ==
    /\ \A f \in Derived(rows) :
         Strongest({WorthFrom(loaded, f, d, rows) : d \in f.derivations}) = f.warrant
    /\ \A w \in FactWarrant \ {"Heuristic"} : \A ids \in SUBSET Ids(Derived(rows)) :
         CircularFrom(loaded, w, ids, rows) =>
            \A f \in Derived(rows) : f.id \in ids => IsStrongerThan(w, f.warrant)

ApartFrom(loaded) ==
    \A f \in loaded : \A d \in f.derivations : \A i \in DOMAIN d.inputs :
        Input(d, i) \in Ids(loaded) \/ Input(d, i) < FirstFreeId(loaded)

\* What was not loaded has an id above what was.
NumberedFrom(loaded, rows) == \A f \in rows : f.id \in Ids(loaded) \/ FirstFreeId(loaded) <= f.id

\* What a stored derivation lacks is in no row, so it is worth as much either way.
LEMMA StrictlyGrounded ==
    ASSUME NEW loaded, NEW rows, NEW bound, IsTable(rows, bound), FirstFreeId(loaded) \in Nat,
           NumberedFrom(loaded, rows), ApartFrom(loaded), GroundedFor(rows)
    PROVE  ExactFor(loaded, rows)
<1>1. ASSUME NEW f, NEW d, NEW i \in DOMAIN d.inputs, ~SuppliedFrom(loaded, f, d, i)
      PROVE  ~\E g \in rows : g.id = Input(d, i)
  <2>1. PICK h \in loaded : d \in h.derivations
    BY <1>1 DEF SuppliedFrom, Given
  <2>2. Input(d, i) \notin Ids(loaded) /\ Input(d, i) < FirstFreeId(loaded)
    BY <1>1, <2>1 DEF SuppliedFrom, ApartFrom
  <2>3. ASSUME NEW g \in rows, g.id = Input(d, i) PROVE FALSE
    <3>1. g.id \in Nat /\ FirstFreeId(loaded) <= g.id
      BY <2>2, <2>3 DEF NumberedFrom, IsTable, IsRow
    <3> QED BY <2>2, <2>3, <3>1
  <2> QED BY <2>3
<1>2. ASSUME NEW f, NEW d PROVE WorthFrom(loaded, f, d, rows) = DerivationWarrant(d, rows)
  <2>1. \A i \in DOMAIN d.inputs : InputWorth(loaded, f, d, i, rows) = WarrantOf(Input(d, i), rows)
    BY <1>1 DEF InputWorth, WarrantOf
  <2> DEFINE us == {InputWorth(loaded, f, d, i, rows) : i \in DOMAIN d.inputs} \cup {"Structural"}
             ws == {WarrantOf(Input(d, i), rows) : i \in DOMAIN d.inputs} \cup {"Structural"}
  <2>2. us = ws
    BY <2>1
  <2>3. WorthFrom(loaded, f, d, rows) = CHOOSE w \in us : \A v \in us : Weaker(w, v) = w
    BY DEF WorthFrom
  <2>4. DerivationWarrant(d, rows) = CHOOSE w \in ws : \A v \in ws : Weaker(w, v) = w
    BY DEF DerivationWarrant, Input
  <2> HIDE DEF us, ws
  <2> QED BY <2>2, <2>3, <2>4
<1>3. ASSUME NEW f \in Derived(rows)
      PROVE  Strongest({WorthFrom(loaded, f, d, rows) : d \in f.derivations}) = f.warrant
  <2>1. {WorthFrom(loaded, f, d, rows) : d \in f.derivations} =
          {DerivationWarrant(d, rows) : d \in f.derivations}
    BY <1>2
  <2> QED BY <2>1 DEF GroundedFor, Justified
<1>4. ASSUME NEW w \in FactWarrant \ {"Heuristic"}, NEW ids \in SUBSET Ids(Derived(rows)),
             CircularFrom(loaded, w, ids, rows)
      PROVE  \A f \in Derived(rows) : f.id \in ids => IsStrongerThan(w, f.warrant)
  <2>1. Circular(w, ids, rows)
    BY <1>2, <1>4 DEF CircularFrom, Circular
  <2> QED BY <2>1 DEF GroundedFor, Earned
<1> QED BY <1>3, <1>4 DEF ExactFor

LEMMA WarrantsExactIs ==
    /\ NumbersApart <=> ApartFrom(Loaded)
    /\ WarrantsExact <=> (Succeeded /\ ApartFrom(Loaded) => ExactFor(Loaded, Result))
<1>1. NumbersApart <=> ApartFrom(Loaded)
  BY DEF NumbersApart, ApartFrom, LoadedIds, Ids, Input
<1>2. \A f, d, i : Supplied(f, d, i) <=> SuppliedFrom(Loaded, f, d, i)
  BY DEF Supplied, SuppliedFrom, StoredWith, Given, LoadedIds, Ids, Input
<1>3. \A f, d, rows : Worth(f, d, rows) = WorthFrom(Loaded, f, d, rows)
  <2> TAKE f, d, rows
  <2> DEFINE us == {IF Supplied(f, d, i) THEN WarrantOf(d.inputs[i], rows) ELSE "Heuristic" :
                      i \in DOMAIN d.inputs} \cup {"Structural"}
             ws == {InputWorth(Loaded, f, d, i, rows) : i \in DOMAIN d.inputs} \cup {"Structural"}
  <2>1. us = ws
    BY <1>2 DEF InputWorth, Input
  <2>2. Worth(f, d, rows) = CHOOSE w \in us : \A v \in us : Weaker(w, v) = w
    BY DEF Worth
  <2>3. WorthFrom(Loaded, f, d, rows) = CHOOSE w \in ws : \A v \in ws : Weaker(w, v) = w
    BY DEF WorthFrom
  <2> HIDE DEF us, ws
  <2> QED BY <2>1, <2>2, <2>3
<1>4. WarrantsExact <=> (Succeeded /\ ApartFrom(Loaded) => ExactFor(Loaded, Result))
  BY <1>1, <1>2, <1>3 DEF WarrantsExact, ExactFor, CircularFrom, Derived, Ids, Input
<1> QED BY <1>1, <1>4

\* The properties, of what an evaluation has returned after a step.
LEMMA PropertiesThen ==
    /\ Sound' <=> (Succeeded' => SoundFor(task', Loaded', Result'))
    /\ Complete' <=> (Succeeded' /\ task'.maxRounds > 0 => CompleteFor(task', Result'))
    /\ WarrantsExact' <=> (Succeeded' /\ ApartFrom(Loaded') => ExactFor(Loaded', Result'))
<1>1. \A rows : InferencesOf(rows)' = InferencesFor(task', rows)
  BY DEF InferencesOf, Inferences, InferencesFor, HeadArgs, DerivedBy
<1>2. InferencesOf(Result)' = InferencesFor(task', Result')
  BY DEF InferencesOf, Inferences, InferencesFor, HeadArgs, DerivedBy
<1>3. Sound' <=> (Succeeded' => SoundFor(task', Loaded', Result'))
  BY <1>2 DEF Sound, SoundFor, Given
<1>4. Complete' <=> (Succeeded' /\ task'.maxRounds > 0 => CompleteFor(task', Result'))
  BY <1>2 DEF Complete, CompleteFor
<1>5. WarrantsExact' <=> (Succeeded' /\ ApartFrom(Loaded') => ExactFor(Loaded', Result'))
  <2>1. (WarrantsExact <=> (Succeeded /\ ApartFrom(Loaded) => ExactFor(Loaded, Result)))'
    BY WarrantsExactIs, PTL
  <2> QED BY <2>1
<1> QED BY <1>3, <1>4, <1>5

\* The inferences are the ends of the full traces of the rules.
LEMMA InferenceTraces ==
    ASSUME NEW t \in Tasks, NEW rows, NEW x
    PROVE  x \in InferencesFor(t, rows)
             <=> \E r \in RuleSet(t) : \E m :
                   Full(m, r, 0, {}, rows, rows) /\ x = Inference(r, EndOf(m, r))
<1>1. t.rules \in Seq(Rules)
  BY TaskParts
<1>2. ASSUME x \in InferencesFor(t, rows)
      PROVE  \E r \in RuleSet(t) : \E m : Full(m, r, 0, {}, rows, rows) /\ x = Inference(r, EndOf(m, r))
  <2>a. PICK k \in DOMAIN t.rules :
           \E s \in MatchBody(t.rules[k].body, rows) : x = Inference(t.rules[k], s)
    BY <1>2 DEF InferencesFor, Inference
  <2>1. PICK s \in MatchBody(t.rules[k].body, rows) : x = Inference(t.rules[k], s)
    BY <2>a
  <2>2. PICK r \in RuleSet(t) : r = t.rules[k]
    BY DEF RuleSet
  <2>3. s \in MatchBody(r.body, rows) /\ x = Inference(r, s)
    BY <2>1, <2>2
  <2>4. r.body \in Seq(Literals)
    BY TaskParts, RuleParts
  <2>5. PICK m : Trace(m, Len(r.body), r.body, 0, {}, rows, rows) /\ At(m, Len(r.body)) = s
    BY <2>3, <2>4, MatchBodyTraces
  <2> QED BY <2>3, <2>5 DEF Full, EndOf
<1>3. ASSUME NEW r \in RuleSet(t), NEW m, Full(m, r, 0, {}, rows, rows), x = Inference(r, EndOf(m, r))
      PROVE  x \in InferencesFor(t, rows)
  <2>1. r.body \in Seq(Literals)
    BY TaskParts, RuleParts
  <2>2. PICK k \in DOMAIN t.rules : r = t.rules[k]
    BY DEF RuleSet
  <2>3. PICK s : s = EndOf(m, r)
    OBVIOUS
  <2>4. s \in MatchBody(r.body, rows)
    BY <1>3, <2>1, <2>3, MatchBodyTraces DEF Full, EndOf
  <2>5. x = Inference(t.rules[k], s) /\ s \in MatchBody(t.rules[k].body, rows)
    BY <1>3, <2>2, <2>3, <2>4
  <2> QED BY <2>5 DEF InferencesFor, Inference
<1> QED BY <1>2, <1>3

LEMMA ResultSound ==
    ASSUME Control, Accounted, phase = "warrants"
    PROVE  SoundFor(task, Loaded, db)
<1>1. task \in Tasks /\ Rows = db
  BY DEF Control, Stored, Ordered, Rows
<1>2. ASSUME NEW f \in db, NEW d \in f.derivations, ~Given(Loaded, f, d)
      PROVE  [relation |-> f.relation, args |-> f.args, derivation |-> d] \in InferencesFor(task, db)
  <2>1. Infers(task, strata, stratum, db, f, d)
    BY <1>1, <1>2 DEF Accounted
  <2>2. PICK r \in RuleSet(task) :
           \E m : /\ Full(m, r, 0, {}, db, db)
                  /\ Derives(r, EndOf(m, r), f) /\ d = DerivedBy(r, EndOf(m, r))
    BY <2>1 DEF Infers
  <2>3. PICK m : /\ Full(m, r, 0, {}, db, db)
                 /\ Derives(r, EndOf(m, r), f) /\ d = DerivedBy(r, EndOf(m, r))
    BY <2>2
  <2> DEFINE x == [relation |-> f.relation, args |-> f.args, derivation |-> d]
  <2>4. x = Inference(r, EndOf(m, r))
    BY <2>3 DEF Inference, Derives
  <2> HIDE DEF x
  <2>5. x \in InferencesFor(task, db)
    BY <1>1, <2>3, <2>4, InferenceTraces
  <2> QED BY <2>5 DEF x
<1> QED BY <1>2 DEF SoundFor

LEMMA ResultComplete ==
    ASSUME Control, AllDone, phase = "warrants", task.maxRounds > 0
    PROVE  CompleteFor(task, db)
<1>1. task \in Tasks /\ Rows = db
  BY DEF Control, Stored, Ordered, Rows
<1>2. ASSUME NEW x \in InferencesFor(task, db)
      PROVE  /\ \E f \in db : f.relation = x.relation /\ f.args = x.args
             /\ \/ \A f \in db : f.relation = x.relation /\ f.args = x.args => f.derivations = {}
                \/ \E f \in db : /\ f.relation = x.relation /\ f.args = x.args
                                 /\ x.derivation \in f.derivations
  <2>1. PICK r \in RuleSet(task) : \E m : Full(m, r, 0, {}, db, db) /\ x = Inference(r, EndOf(m, r))
    BY <1>1, <1>2, InferenceTraces
  <2>2. PICK m : Full(m, r, 0, {}, db, db) /\ x = Inference(r, EndOf(m, r))
    BY <2>1
  <2>3. PICK s : s = EndOf(m, r)
    OBVIOUS
  <2>4. Present(r, s, db)
    BY <1>1, <2>2, <2>3 DEF AllDone, AllPresent
  <2>5. x.relation = r.head.relation /\ x.args = HeadArgs(r, s) /\ x.derivation = DerivedBy(r, s)
    BY <2>2, <2>3 DEF Inference
  <2>6. \A f : Derives(r, s, f) <=> f.relation = x.relation /\ f.args = x.args
    BY <2>5 DEF Derives
  <2> QED BY <2>4, <2>5, <2>6 DEF Present
<1> QED BY <1>2 DEF CompleteFor

LEMMA ResultGrounded ==
    ASSUME Control, Graded, Answer
    PROVE  GroundedFor(db)
<1>1. phase = "warrants" /\ IsTable(db, next)
  BY TableSubset DEF Control, Stored, Rows, Answer
<1>2. NotBeyond(db) /\ Earned(db)
  BY <1>1 DEF Graded
<1>3. ASSUME NEW f \in Derived(db) PROVE Justified(f, db) = f.warrant
  <2>1. f \in db /\ f.derivations # {} /\ ~Improves(f, db)
    BY NothingToImprove DEF Derived
  <2>2. ~IsStrongerThan(Justified(f, db), f.warrant)
    BY <2>1 DEF Improves
  <2>3. Strength[f.warrant] <= Strength[Justified(f, db)]
    BY <1>2 DEF NotBeyond
  <2>4. f.warrant \in FactWarrant /\ Justified(f, db) \in FactWarrant
    BY <1>1, <2>1, JustifiedIs DEF IsTable, IsRow
  <2> QED BY <2>2, <2>3, <2>4, StrongerOrder
<1> QED BY <1>2, <1>3 DEF GroundedFor

Numbered ==
    /\ phase \in {"round", "rules", "warrants"} => FirstFreeId(Loaded) <= next
    /\ NumberedFrom(Loaded, Rows)

LEMMA NumberedNone ==
    ASSUME Rows' = {}, phase' = "done"
    PROVE  Numbered'
BY DEF Numbered, NumberedFrom

\* Rows that keep their ids stay numbered.
LEMMA NumberedKept ==
    ASSUME Numbered, task' = task, Regraded(Rows, Rows'), next' = next,
           phase' \in {"round", "rules", "warrants"} => phase \in {"round", "rules", "warrants"}
    PROVE  Numbered'
<1>1. Loaded' = Loaded
  BY DEF Loaded
<1>2. NumberedFrom(Loaded, Rows')
  BY RegradedIds DEF Numbered, NumberedFrom, Ids
<1> QED BY <1>1, <1>2 DEF Numbered

LEMMA NumberedConclude ==
    ASSUME Control, Numbered, Conclude
    PROVE  Numbered'
<1>1. phase = "rules" /\ task' = task /\ next \in Nat /\ phase' = phase
  BY ConcludeEffect DEF Control, Stored
<1>2. next' = next \/ next' = next + 1
  BY DEF Conclude, Concluded
<1>3. Loaded' = Loaded
  BY <1>1 DEF Loaded
<1>4. FirstFreeId(Loaded) \in Nat /\ FirstFreeId(Loaded) <= next
  BY <1>1, SourceTable DEF Numbered, Loaded, Control, Stored
<1>5. PICK job \in work : \E s \in states : Concludes(JobRule(job), s)
  BY ConcludeEffect
<1>6. PICK s \in states : Concludes(JobRule(job), s)
  BY <1>5
<1>7. ASSUME NEW g \in Rows' PROVE g.id \in Ids(Loaded) \/ FirstFreeId(Loaded) <= g.id
  <2>1. g.id = next \/ \E f \in Rows : g.id = f.id
    BY <1>6 DEF Concludes, Stems, Gains, Same
  <2> QED BY <1>4, <2>1 DEF Numbered, NumberedFrom
<1>8. FirstFreeId(Loaded) <= next'
  BY <1>1, <1>2, <1>4
<1> QED BY <1>3, <1>7, <1>8 DEF Numbered, NumberedFrom

LEMMA NumberedStep ==
    ASSUME Control, Numbered, [Next]_vars
    PROVE  Numbered'
<1>1. CASE \/ Err("UnsafeRule") \/ Err("UnstratifiedNegation") \/ Err("Cancelled")
           \/ Err("RecursionLimit") \/ Answer
  BY <1>1, Returns, NumberedNone
<1>2. CASE Load
  <2>1. CASE ~(Err("UnsafeRule") \/ Err("UnstratifiedNegation"))
    <3>1. next' = FirstFreeId(Loaded) /\ Rows' = Loaded /\ task' = task
      BY <1>2, <2>1, LoadEffect DEF Load, Loaded
    <3>2. Loaded' = Loaded /\ FirstFreeId(Loaded) \in Nat
      BY <3>1, SourceTable DEF Loaded, Control, Stored
    <3> QED BY <3>1, <3>2 DEF Numbered, NumberedFrom, Ids
  <2> QED BY <1>1, <2>1
<1>3. CASE BeginRound
  <2>1. CASE ~Err("Cancelled")
    <3>1. next' = next /\ task' = task /\ Rows' = Rows /\ phase = "round"
      BY <1>3, <2>1, BeginRoundEffect DEF BeginRound, facts
    <3> QED BY <3>1, RegradedSelf, NumberedKept
  <2> QED BY <1>1, <2>1
<1>4. CASE MatchLiteral \/ EndJob
  <2>1. UNCHANGED <<task, phase, db, produced, next>>
    BY <1>4 DEF MatchLiteral, EndJob, facts
  <2> QED BY <2>1, RegradedSelf, NumberedKept DEF Rows
<1>5. CASE Conclude
  BY <1>5, NumberedConclude
<1>6. CASE EndRound
  <2>1. CASE ~Err("RecursionLimit")
    <3>1. next' = next /\ task' = task /\ Rows' = Rows /\ phase = "rules"
      BY <1>6, <2>1, EndRoundEffect DEF EndRound
    <3> QED BY <3>1, RegradedSelf, NumberedKept
  <2> QED BY <1>1, <2>1
<1>7. CASE EndStratum
  <2>1. next' = next /\ task' = task /\ Regraded(Rows, Rows') /\ phase \in {"rules", "round"}
    BY <1>7, EndStratumEffect DEF EndStratum
  <2> QED BY <2>1, NumberedKept
<1>8. CASE RecomputeWarrants
  <2>1. next' = next /\ task' = task /\ Regraded(Rows, Rows') /\ phase = "warrants"
    BY <1>8, RecomputeEffect
  <2> QED BY <2>1, NumberedKept
<1>9. CASE RunOptimized
  <2>1. UNCHANGED <<task, db, produced, next>> /\ phase' = "start"
    BY <1>9 DEF RunOptimized, facts
  <2> QED BY <2>1, RegradedSelf, NumberedKept DEF Rows
<1>10. CASE Cancel \/ Evaluated \/ UNCHANGED vars
  <2>1. UNCHANGED <<task, phase, db, produced, next>>
    BY <1>10 DEF Cancel, Evaluated, vars, facts
  <2> QED BY <2>1, RegradedSelf, NumberedKept DEF Rows
<1> QED BY <1>1, <1>2, <1>3, <1>4, <1>5, <1>6, <1>7, <1>8, <1>9, <1>10 DEF Next

LEMMA NumberedInit == Init => Numbered
BY DEF Init, Numbered, NumberedFrom, Rows

LEMMA ResultExact ==
    ASSUME Control, Numbered, Graded, Answer, ApartFrom(Loaded)
    PROVE  ExactFor(Loaded, db)
<1>1. task \in Tasks /\ Rows = db /\ IsTable(db, next)
  BY TableSubset DEF Control, Stored, Ordered, Rows, Answer
<1>2. FirstFreeId(Loaded) \in Nat
  BY <1>1, SourceTable DEF Loaded
<1>3. NumberedFrom(Loaded, db)
  BY <1>1 DEF Numbered
<1> QED BY <1>1, <1>2, <1>3, ResultGrounded, StrictlyGrounded

\* Only an answer succeeds.
LEMMA OnlyAnswersSucceed ==
    ASSUME Control, [Next]_vars, Succeeded'
    PROVE  Answer \/ (Succeeded /\ UNCHANGED <<task, evaluator, outcome>>)
<1>1. Stored
  BY DEF Control
<1>2. ASSUME NEW code, Err(code), code # "Ok" PROVE FALSE
  <2>1. outcome'[evaluator'] = [code |-> code, facts |-> {}, rows |-> {}]
    BY <1>1, <1>2, ReturnEffect DEF Err
  <2>2. outcome'[evaluator'].code = code
    BY <2>1
  <2> QED BY <1>2, <2>2 DEF Succeeded
<1>3. phase' = "done"
  BY DEF Succeeded
<1>4. CASE Load
  <2>1. Err("UnsafeRule") \/ Err("UnstratifiedNegation")
    BY <1>3, <1>4, LoadEffect
  <2> QED BY <1>2, <2>1
<1>5. CASE BeginRound
  <2>1. Err("Cancelled")
    BY <1>3, <1>5, BeginRoundEffect
  <2> QED BY <1>2, <2>1
<1>6. CASE EndRound
  <2>1. Err("RecursionLimit")
    BY <1>3, <1>6, EndRoundEffect
  <2> QED BY <1>2, <2>1
<1>7. CASE MatchLiteral \/ Conclude \/ EndJob
  BY <1>3, <1>7, ConcludeEffect DEF MatchLiteral, EndJob
<1>8. CASE EndStratum
  BY <1>3, <1>8, EndStratumEffect
<1>9. CASE RecomputeWarrants
  BY <1>3, <1>9, RecomputeEffect
<1>10. CASE RunOptimized
  BY <1>3, <1>10 DEF RunOptimized
<1>11. CASE Idle
  BY <1>11 DEF Idle, Succeeded
<1> QED BY <1>4, <1>5, <1>6, <1>7, <1>8, <1>9, <1>10, <1>11, IdleSteps DEF Next

LEMMA ExactStep ==
    ASSUME Control, Accounted, Covered, Numbered, Graded, ConsequencesExact, WarrantsExact, [Next]_vars
    PROVE  ConsequencesExact' /\ WarrantsExact'
<1>1. CASE ~Succeeded'
  BY <1>1, PropertiesThen DEF ConsequencesExact
<1>2. CASE Succeeded /\ UNCHANGED <<task, evaluator, outcome>>
  <2>1. Result' = Result /\ Loaded' = Loaded /\ \A rows : InferencesOf(rows)' = InferencesOf(rows)
    BY <1>2 DEF Result, Loaded, InferencesOf, Inferences
  <2>2. SoundFor(task, Loaded, Result)
    BY <1>2 DEF ConsequencesExact, Sound, SoundFor, InferencesOf, Inferences, InferencesFor, HeadArgs,
                DerivedBy, Given
  <2>3. task.maxRounds > 0 => CompleteFor(task, Result)
    BY <1>2 DEF ConsequencesExact, Complete, CompleteFor, InferencesOf, Inferences, InferencesFor,
                HeadArgs, DerivedBy
  <2>4. ApartFrom(Loaded) => ExactFor(Loaded, Result)
    BY <1>2, WarrantsExactIs
  <2> QED BY <1>2, <2>1, <2>2, <2>3, <2>4, PropertiesThen DEF ConsequencesExact
<1>3. CASE Answer
  <2>1. phase = "warrants" /\ Return("Ok", db, Limited(Answers(db)))
    BY <1>3 DEF Answer
  <2>2. Result' = db /\ task' = task
    <3>1. PICK answers : Return("Ok", db, answers)
      BY <2>1
    <3>2. /\ outcome'[evaluator'] = [code |-> "Ok", facts |-> db, rows |-> answers]
          /\ task' = task
      BY <3>1, ReturnEffect DEF Control
    <3>3. outcome'[evaluator'].facts = db
      BY <3>2
    <3> QED BY <3>2, <3>3 DEF Result
  <2>3. Loaded' = Loaded
    BY <2>2 DEF Loaded
  <2>4. SoundFor(task, Loaded, db)
    BY <2>1, ResultSound
  <2>5. task.maxRounds > 0 => CompleteFor(task, db)
    BY <2>1, ResultComplete DEF Covered
  <2>6. ApartFrom(Loaded) => ExactFor(Loaded, db)
    BY <1>3, ResultExact
  <2> QED BY <2>2, <2>3, <2>4, <2>5, <2>6, PropertiesThen DEF ConsequencesExact
<1> QED BY <1>1, <1>2, <1>3, OnlyAnswersSucceed

-----------------------------------------------------------------------------

EvaluationInv ==
    /\ Control /\ Founded /\ Supports /\ Numbered /\ Traced /\ Accounted /\ Covered /\ Graded
    /\ ConsequencesExact /\ WarrantsExact

\* The evaluation invariant holds of every evaluation of every task: what is
\* stored and in which order the two evaluators work on it (optimized.rs,
\* reference.rs), every state is of a match, every derivation is one, and every
\* match is concluded.
THEOREM EvaluationInvariant == Spec => []EvaluationInv
<1>1. Init => EvaluationInv
  <2>1. Init => Graded /\ ConsequencesExact /\ WarrantsExact
    BY DEF Init, Graded, ConsequencesExact, Sound, Complete, WarrantsExact, Succeeded
  <2> QED BY <2>1, ControlInit, FoundedInit, NumberedInit, AccountedInit, CoveredInit DEF EvaluationInv
<1>2. EvaluationInv /\ [Next]_vars => EvaluationInv'
  <2> SUFFICES ASSUME EvaluationInv, [Next]_vars PROVE EvaluationInv'
    OBVIOUS
  <2>1. Control'
    BY ControlStep DEF EvaluationInv
  <2>2. Founded' /\ Supports'
    BY <2>1, FoundedStep DEF EvaluationInv
  <2>3. Traced' /\ Accounted'
    BY <2>1, AccountedStep DEF EvaluationInv
  <2>4. Covered'
    BY <2>1, CoveredStep DEF EvaluationInv
  <2>5. Graded'
    BY GradedStep DEF EvaluationInv
  <2>6. ConsequencesExact' /\ WarrantsExact'
    BY ExactStep DEF EvaluationInv
  <2>7. Numbered'
    BY NumberedStep DEF EvaluationInv
  <2> QED BY <2>1, <2>2, <2>3, <2>4, <2>5, <2>6, <2>7 DEF EvaluationInv
<1> QED BY <1>1, <1>2, PTL DEF Spec

\* An evaluation, by either evaluator, returns what follows from what it
\* loaded, each way in which it follows and nothing else, and warrants that are
\* the strongest their derivations ground; no fact rests on a circle of
\* derivations, during the evaluation or after.
THEOREM EvaluationsExact == Spec => []EvaluationExact
<1>1. EvaluationInv => EvaluationExact
  BY DEF EvaluationInv, EvaluationExact, WarrantsEarned
<1> QED BY <1>1, EvaluationInvariant, PTL

\* A pass over the warrants that is left improves each time, and there are
\* passes left as long as anything can be improved: the bound on passes
\* (eval.rs, recompute_warrants) cuts nothing off.
THEOREM PassesSuffice == Spec => [](phase = "warrants" => passes > 0)
<1>1. EvaluationInv => (phase = "warrants" => passes > 0)
  <2> SUFFICES ASSUME EvaluationInv, phase = "warrants" PROVE passes > 0
    OBVIOUS
  <2>1. passes \in Nat /\ passes + Cardinality(Marks(db)) >= 4 * Cardinality(Ids(db)) + 1
    BY DEF EvaluationInv, Graded
  <2>2. IsTable(db, next)
    BY TableSubset DEF EvaluationInv, Control, Stored, Rows
  <2>3. /\ Cardinality(Ids(db)) \in Nat /\ Cardinality(Marks(db)) \in Nat
        /\ Cardinality(Marks(db)) <= 3 * Cardinality(Ids(db))
    BY <2>2, MarksBound
  <2> QED BY <2>1, <2>3
<1> QED BY <1>1, EvaluationInvariant, PTL
=============================================================================
