-------------------------- MODULE ResearchStoreProofs --------------------------
(***************************************************************************)
(* Theorems about ResearchStore, for any number of connections and any     *)
(* records that callers may offer.                                         *)
(*                                                                         *)
(* A record is validated by look-ups that ran in other states than the     *)
(* write.  The invariant keeps what makes that harmless: every look-up     *)
(* that was answered left rows the operation remembers (Settled), those    *)
(* that cannot be discarded are still stored (Checked), and names are      *)
(* unique, so that what was read under a name is what is stored under it   *)
(* at the write (CheckedAdmits).  What can be discarded in between is only *)
(* referred to by columns (ReferenceKinds), which the write checks again.  *)
(* Every step is then a step of the log or leaves it alone, and the links  *)
(* between records are sound after every step of the log.                  *)
(***************************************************************************)
EXTENDS ResearchStore, SequenceTheorems, TLAPS

-----------------------------------------------------------------------------
(* Lists *)

LEMMA ListFacts ==
    ASSUME NEW s, IsSequence(s)
    PROVE  /\ Len(s) \in Nat
           /\ s \in Seq(Elements(s))
           /\ \A i \in 1..Len(s) : s[i] \in Elements(s)
           /\ \A S : Elements(s) \subseteq S => s \in Seq(S)
<1>1. Len(s) \in Nat
  BY LenProperties DEF IsSequence
<1>2. \A i \in 1..Len(s) : s[i] \in Elements(s)
  BY DEF Elements
<1>3. ASSUME NEW S, Elements(s) \subseteq S
      PROVE  s \in Seq(S)
  BY <1>3, SeqMonotonic DEF IsSequence
<1> QED BY <1>1, <1>2, <1>3 DEF IsSequence

LEMMA FunctionIsList ==
    ASSUME NEW n \in Nat, NEW f, f = [i \in 1..n |-> f[i]]
    PROVE  IsSequence(f) /\ Len(f) = n
<1> DEFINE S == {f[i] : i \in 1..n}
<1>1. f \in [1..n -> S]
  OBVIOUS
<1>2. f \in Seq(S)
  BY <1>1, SeqDef
<1>3. Len(f) = n
  <2>1. Len(f) \in Nat /\ DOMAIN f = 1..Len(f)
    BY <1>2, LenProperties
  <2> QED BY <2>1, <1>1
<1> QED BY <1>2, <1>3 DEF IsSequence, Elements

LEMMA OneIsList ==
    ASSUME NEW e
    PROVE  IsSequence(<<e>>) /\ Len(<<e>>) = 1 /\ Elements(<<e>>) = {e} /\ <<e>>[1] = e
BY DEF IsSequence, Elements

LEMMA TwoIsList ==
    ASSUME NEW d, NEW e
    PROVE  IsSequence(<<d, e>>) /\ Elements(<<d, e>>) = {d, e}
BY DEF IsSequence, Elements

LEMMA EmptyIsList == IsSequence(<<>>) /\ Len(<<>>) = 0 /\ Elements(<<>>) = {}
BY DEF IsSequence, Elements

LEMMA JoinedIsList ==
    ASSUME NEW s, NEW t, IsSequence(s), IsSequence(t)
    PROVE  /\ IsSequence(s \o t)
           /\ Len(s \o t) = Len(s) + Len(t)
           /\ Elements(s \o t) = Elements(s) \cup Elements(t)
           /\ \A i \in 1..Len(s) : (s \o t)[i] = s[i]
           /\ \A i \in 1..Len(t) : (s \o t)[Len(s) + i] = t[i]
<1> DEFINE S == Elements(s) \cup Elements(t)
           u == s \o t
<1>1. s \in Seq(S) /\ t \in Seq(S) /\ Len(s) \in Nat /\ Len(t) \in Nat
  BY ListFacts
<1>2. /\ u \in Seq(S)
      /\ Len(u) = Len(s) + Len(t)
      /\ \A i \in 1 .. Len(s) + Len(t) : u[i] = IF i <= Len(s) THEN s[i] ELSE t[i - Len(s)]
  BY <1>1, ConcatProperties
<1> HIDE DEF u
<1>3. \A i \in 1..Len(s) : u[i] = s[i]
  BY <1>1, <1>2
<1>4. \A i \in 1..Len(t) : u[Len(s) + i] = t[i]
  BY <1>1, <1>2
<1>5. Elements(u) = S
  <2>1. \A i \in 1..Len(u) : u[i] \in S
    BY <1>2, ElementOfSeq
  <2>2. \A i \in 1..Len(s) : s[i] \in Elements(u)
    <3> SUFFICES ASSUME NEW i \in 1..Len(s) PROVE s[i] \in Elements(u)
      OBVIOUS
    <3>1. u[i] = s[i] /\ i \in 1..Len(u)
      BY <1>1, <1>2, <1>3
    <3> QED BY <3>1 DEF Elements
  <2>3. \A i \in 1..Len(t) : t[i] \in Elements(u)
    <3> SUFFICES ASSUME NEW i \in 1..Len(t) PROVE t[i] \in Elements(u)
      OBVIOUS
    <3>1. u[Len(s) + i] = t[i] /\ Len(s) + i \in 1..Len(u)
      BY <1>1, <1>2, <1>4
    <3> QED BY <3>1 DEF Elements
  <2> QED BY <2>1, <2>2, <2>3 DEF Elements
<1> QED BY <1>2, <1>3, <1>4, <1>5 DEF IsSequence, u

LEMMA JoinedElements ==
    ASSUME NEW s, NEW t, IsSequence(s), IsSequence(t)
    PROVE  IsSequence(s \o t) /\ Elements(s \o t) = Elements(s) \cup Elements(t)
BY JoinedIsList

-----------------------------------------------------------------------------
(* What the operations ask *)

Wants == {"absent", "present", "refuse"}

LEMMA PresentList ==
    ASSUME NEW kind, NEW ids, IsSequence(ids)
    PROVE  /\ IsSequence(AllPresent(kind, ids))
           /\ Elements(AllPresent(kind, ids)) = {Present(Name(kind, id)) : id \in Elements(ids)}
<1> DEFINE f == [i \in 1..Len(ids) |-> Present(Name(kind, ids[i]))]
<1>1. f = [i \in 1..Len(ids) |-> f[i]]
  OBVIOUS
<1>2. Len(ids) \in Nat
  BY ListFacts
<1>3. IsSequence(f) /\ Len(f) = Len(ids)
  BY <1>1, <1>2, FunctionIsList
<1>4. Elements(f) = {f[i] : i \in 1..Len(ids)}
  BY <1>3 DEF Elements
<1>5. \A i \in 1..Len(ids) : f[i] = Present(Name(kind, ids[i]))
  OBVIOUS
<1>6. AllPresent(kind, ids) = f
  BY DEF AllPresent
<1> HIDE DEF f
<1> QED BY <1>3, <1>4, <1>5, <1>6 DEF Elements

LEMMA LeafList ==
    ASSUME NEW leaves, IsSequence(leaves)
    PROVE  /\ IsSequence(LeafLookUps(leaves))
           /\ \A l \in Elements(LeafLookUps(leaves)) : l.want \in Wants
           /\ \A leaf \in Elements(leaves) :
                IF leaf = Malformed THEN Refuse("InvalidResearchGraph") \in Elements(LeafLookUps(leaves))
                ELSE Present(leaf) \in Elements(LeafLookUps(leaves))
<1> DEFINE f == [i \in 1..Len(leaves) |-> IF leaves[i] = Malformed THEN Refuse("InvalidResearchGraph")
                                           ELSE Present(leaves[i])]
<1>1. f = [i \in 1..Len(leaves) |-> f[i]]
  OBVIOUS
<1>2. Len(leaves) \in Nat
  BY ListFacts
<1>3. IsSequence(f) /\ Len(f) = Len(leaves)
  BY <1>1, <1>2, FunctionIsList
<1>4. Elements(f) = {f[i] : i \in 1..Len(leaves)}
  BY <1>3 DEF Elements
<1>5. \A i \in 1..Len(leaves) : f[i] = IF leaves[i] = Malformed THEN Refuse("InvalidResearchGraph")
                                       ELSE Present(leaves[i])
  OBVIOUS
<1>6. LeafLookUps(leaves) = f
  BY DEF LeafLookUps
<1> HIDE DEF f
<1>7. ASSUME NEW i \in 1..Len(leaves) PROVE f[i].want \in Wants
  <2>1. CASE leaves[i] = Malformed
    BY <1>5, <2>1 DEF Wants, Refuse
  <2>2. CASE leaves[i] # Malformed
    <3>1. f[i] = Present(leaves[i])
      BY <1>5, <2>2
    <3> QED BY <3>1 DEF Wants, Present
  <2> QED BY <2>1, <2>2
<1> QED BY <1>3, <1>4, <1>5, <1>6, <1>7 DEF Elements

LEMMA TargetList ==
    ASSUME NEW targets, IsSequence(targets)
    PROVE  LET f == TargetLookUps(targets) IN
           /\ IsSequence(f)
           /\ \A k \in 1..Len(f) : f[k].want # "refuse"
           /\ \A k \in 1..Len(f) : f[k].want = "relation" =>
                /\ k - 2 \in 1..Len(f) /\ f[k - 2] = Present(f[k].name)
                /\ f[k].name[1] = "claim"
           /\ \A t \in Elements(targets) :
                /\ Present(Name("claim", t.claim)) \in Elements(f)
                /\ Present(Name("scope", t.scope)) \in Elements(f)
                /\ RelationOf(Name("claim", t.claim)) \in Elements(f)
<1> DEFINE n == Len(targets)
           f == TargetLookUps(targets)
           g(k) == TargetLookUp(targets[1 + (k - 1) \div 3], (k - 1) % 3)
<1>1. n \in Nat
  BY ListFacts
<1>2. f = [k \in 1 .. 3 * n |-> g(k)]
  BY DEF TargetLookUps
<1>3. \A k \in 1 .. 3 * n : f[k] = g(k)
  BY <1>2
<1>4. f = [k \in 1 .. 3 * n |-> f[k]]
  BY <1>2
<1> HIDE DEF f, n
<1>5. IsSequence(f) /\ Len(f) = 3 * n
  BY <1>1, <1>4, FunctionIsList
<1>6. ASSUME NEW i \in 1..n, NEW step \in 0..2
      PROVE  /\ 3 * i - 2 + step \in 1 .. 3 * n
             /\ f[3 * i - 2 + step] = TargetLookUp(targets[i], step)
  <2> DEFINE k == 3 * i - 2 + step
  <2>1. k \in 1 .. 3 * n /\ (k - 1) \div 3 = i - 1 /\ (k - 1) % 3 = step
    BY <1>1
  <2>2. 1 + (k - 1) \div 3 = i
    BY <2>1
  <2> HIDE DEF k
  <2>3. f[k] = TargetLookUp(targets[i], step)
    BY <1>3, <2>1, <2>2
  <2> QED BY <2>1, <2>3 DEF k
<1>7. ASSUME NEW k \in 1 .. 3 * n
      PROVE  \E i \in 1..n, step \in 0..2 : k = 3 * i - 2 + step
  <2>1. /\ 1 + (k - 1) \div 3 \in 1..n /\ (k - 1) % 3 \in 0..2
        /\ k = (3 * (1 + (k - 1) \div 3) - 2) + ((k - 1) % 3)
    BY <1>1
  <2> QED BY <2>1
<1>8. ASSUME NEW k \in 1..Len(f)
      PROVE  /\ f[k].want # "refuse"
             /\ f[k].want = "relation" =>
                  /\ k - 2 \in 1..Len(f) /\ f[k - 2] = Present(f[k].name)
                  /\ f[k].name[1] = "claim"
  <2>1. PICK i \in 1..n, step \in 0..2 : k = 3 * i - 2 + step
    BY <1>5, <1>7
  <2>2. f[k] = TargetLookUp(targets[i], step)
    BY <1>6, <2>1
  <2>3. f[k].want # "refuse" /\ (f[k].want = "relation" => step = 2)
    BY <2>2 DEF TargetLookUp, Present, RelationOf
  <2>4. CASE step = 2
    <3>1. k - 2 = 3 * i - 2 + 0 /\ k - 2 \in 1..Len(f)
      BY <1>1, <1>5, <2>1, <2>4
    <3>2. f[k - 2] = TargetLookUp(targets[i], 0)
      BY <1>6, <3>1
    <3> QED BY <2>2, <2>3, <2>4, <3>1, <3>2 DEF TargetLookUp, Present, RelationOf, Name
  <2> QED BY <2>3, <2>4
<1>9. ASSUME NEW t \in Elements(targets)
      PROVE  /\ Present(Name("claim", t.claim)) \in Elements(f)
             /\ Present(Name("scope", t.scope)) \in Elements(f)
             /\ RelationOf(Name("claim", t.claim)) \in Elements(f)
  <2>1. PICK i \in 1..n : t = targets[i]
    BY DEF Elements, n
  <2>2. \A step \in 0..2 : TargetLookUp(t, step) \in Elements(f)
    BY <1>5, <1>6, <2>1 DEF Elements
  <2> QED BY <2>2 DEF TargetLookUp
<1> QED BY <1>5, <1>8, <1>9 DEF f

LEMMA FalsifierList ==
    ASSUME NEW r, IsSequence(r.falsifiers)
    PROVE  LET f == [i \in 1..Len(r.falsifiers) |-> FalsifierLookUp(r, r.falsifiers[i])] IN
           /\ IsSequence(f)
           /\ \A l \in Elements(f) : l.want \in Wants
           /\ \A x \in Elements(r.falsifiers) :
                (\A d \in Elements(r.drafts) : d.local # x.local)
                   => Refuse("InvalidResearchGraph") \in Elements(f)
<1> DEFINE n == Len(r.falsifiers)
           f == [i \in 1..n |-> FalsifierLookUp(r, r.falsifiers[i])]
<1>1. f = [i \in 1..n |-> f[i]]
  OBVIOUS
<1>2. n \in Nat
  BY ListFacts
<1>3. \A i \in 1..n : f[i] = FalsifierLookUp(r, r.falsifiers[i])
  OBVIOUS
<1> HIDE DEF f
<1>4. IsSequence(f) /\ Len(f) = n
  BY <1>1, <1>2, FunctionIsList
<1>5. Elements(f) = {f[i] : i \in 1..n}
  BY <1>4 DEF Elements
<1>6. ASSUME NEW i \in 1..n
      PROVE  /\ f[i].want \in Wants
             /\ (\A d \in Elements(r.drafts) : d.local # r.falsifiers[i].local)
                  => f[i] = Refuse("InvalidResearchGraph")
  <2>1. CASE \A d \in Elements(r.drafts) : d.local # r.falsifiers[i].local
    <3>1. f[i] = Refuse("InvalidResearchGraph")
      BY <1>3, <2>1 DEF FalsifierLookUp
    <3> QED BY <3>1 DEF Wants, Refuse
  <2>2. CASE ~ \A d \in Elements(r.drafts) : d.local # r.falsifiers[i].local
    <3>1. f[i] = Absent(Name("falsifier", r.falsifiers[i].id))
      BY <1>3, <2>2 DEF FalsifierLookUp
    <3> QED BY <2>2, <3>1 DEF Wants, Absent
  <2> QED BY <2>1, <2>2
<1>7. \A l \in Elements(f) : l.want \in Wants
  BY <1>5, <1>6
<1>8. ASSUME NEW x \in Elements(r.falsifiers), \A d \in Elements(r.drafts) : d.local # x.local
      PROVE  Refuse("InvalidResearchGraph") \in Elements(f)
  <2>1. PICK i \in 1..n : x = r.falsifiers[i]
    BY DEF Elements
  <2> QED BY <1>5, <1>6, <1>8, <2>1
<1> QED BY <1>4, <1>7, <1>8 DEF f

\* What an operation asks before it writes, all of it together.
Asks(r, asked) ==
    /\ IsSequence(asked)
    /\ \A n \in References(r) :
         n[1] \notin Provisional => Present(n) \in Elements(asked)
    /\ IllFormed(r) /\ ~(r.kind = "evidence" /\ r.targets = <<>>) =>
         \E l \in Elements(asked) : l.want = "refuse"
    /\ r.kind = "evidence" =>
         \A t \in Elements(r.targets) : RelationOf(Name("claim", t.claim)) \in Elements(asked)
    /\ \A k \in 1..Len(asked) : asked[k].want = "relation" =>
         /\ k - 2 \in 1..Len(asked)
         /\ asked[k - 2] = Present(asked[k].name)
         /\ asked[k].name[1] = "claim"

LEMMA OnlyPlain ==
    ASSUME NEW asked, \A l \in Elements(asked) : l.want \in Wants
    PROVE  \A k \in 1..Len(asked) : asked[k].want # "relation"
BY DEF Elements, Wants

LEMMA LookUpsAsk ==
    ASSUME NEW r \in Offered
    PROVE  /\ Asks(r, LookUps(r))
           /\ Len(LookUps(r)) \in Nat \ {0}
           /\ LookUps(r)[1].want = "absent"
<1> DEFINE first == <<Absent(Name(r.kind, r.id))>>
<1>0. IsRecord(r)
  BY OfferedAreRecords
<1>1. /\ IsSequence(first) /\ Len(first) = 1 /\ Elements(first) = {Absent(Name(r.kind, r.id))}
      /\ first[1] = Absent(Name(r.kind, r.id))
  BY OneIsList
<1>2. Absent(Name(r.kind, r.id)).want = "absent"
  BY DEF Absent
<1>3. ASSUME NEW rest, IsSequence(rest), LookUps(r) = first \o rest,
             \A l \in Elements(rest) : l.want \in Wants,
             \A n \in References(r) : n[1] \notin Provisional => Present(n) \in Elements(rest),
             IllFormed(r) => \E l \in Elements(rest) : l.want = "refuse",
             r.kind # "evidence"
      PROVE  /\ Asks(r, LookUps(r))
             /\ Len(LookUps(r)) \in Nat \ {0}
             /\ LookUps(r)[1].want = "absent"
  <2>1. /\ IsSequence(LookUps(r)) /\ Len(LookUps(r)) = 1 + Len(rest)
        /\ Elements(LookUps(r)) = Elements(first) \cup Elements(rest)
        /\ LookUps(r)[1] = first[1]
    BY <1>1, <1>3, JoinedIsList
  <2>2. Len(rest) \in Nat
    BY <1>3, ListFacts
  <2>3. \A l \in Elements(LookUps(r)) : l.want \in Wants
    BY <1>1, <1>2, <1>3, <2>1 DEF Wants
  <2>4. \A k \in 1..Len(LookUps(r)) : LookUps(r)[k].want # "relation"
    BY <2>3, OnlyPlain
  <2> QED BY <1>1, <1>2, <1>3, <2>1, <2>2, <2>4 DEF Asks
<1>4. CASE r.kind \in {"schema", "scope", "receipt"}
  <2>1. LookUps(r) = first \o <<>>
    BY <1>4 DEF LookUps
  <2>2. References(r) = {} /\ ~IllFormed(r)
    BY <1>4 DEF References, ForeignKeys, IllFormed
  <2> QED BY <1>3, <1>4, <2>1, <2>2, EmptyIsList
<1>5. CASE r.kind = "claim"
  <2> DEFINE both == <<Present(Name("schema", r.relation)), Present(Name("scope", r.scope))>>
             old == IF r.supersedes = None THEN <<>> ELSE <<Present(Name("claim", r.supersedes))>>
  <2>1. LookUps(r) = first \o (both \o old)
    BY <1>5 DEF LookUps, ClaimLookUps
  <2>2. IsSequence(both)
        /\ Elements(both) = {Present(Name("schema", r.relation)), Present(Name("scope", r.scope))}
    BY TwoIsList
  <2>3. IsSequence(old)
        /\ Elements(old) = IF r.supersedes = None THEN {} ELSE {Present(Name("claim", r.supersedes))}
    BY EmptyIsList, OneIsList
  <2> HIDE DEF both, old
  <2>4. IsSequence(both \o old) /\ Elements(both \o old) = Elements(both) \cup Elements(old)
    BY <2>2, <2>3, JoinedElements
  <2>5. \A n : Present(n).want \in Wants
    BY DEF Present, Wants
  <2>6. References(r) = {Name("schema", r.relation), Name("scope", r.scope)}
                         \cup (IF r.supersedes = None THEN {} ELSE {Name("claim", r.supersedes)})
    BY <1>5 DEF References, ForeignKeys
  <2>7. ~IllFormed(r)
    BY <1>5 DEF IllFormed
  <2>8. \A n \in References(r) : Present(n) \in Elements(both \o old)
    BY <2>2, <2>3, <2>4, <2>6
  <2>9. \A l \in Elements(both \o old) : l.want \in Wants
    BY <2>2, <2>3, <2>4, <2>5
  <2> QED BY <1>3, <1>5, <2>1, <2>4, <2>7, <2>8, <2>9
<1>6. CASE r.kind = "circuit"
  <2> DEFINE one == <<Present(Name("claim", r.claim))>>
             leaves == LeafLookUps(r.leaves)
  <2>1. LookUps(r) = first \o (one \o leaves)
    BY <1>6 DEF LookUps
  <2>2. IsSequence(one) /\ Elements(one) = {Present(Name("claim", r.claim))}
    BY OneIsList
  <2>3. IsSequence(r.leaves)
    BY <1>0, <1>6 DEF IsRecord
  <2>4. /\ IsSequence(leaves)
        /\ \A l \in Elements(leaves) : l.want \in Wants
        /\ \A leaf \in Elements(r.leaves) :
             IF leaf = Malformed THEN Refuse("InvalidResearchGraph") \in Elements(leaves)
             ELSE Present(leaf) \in Elements(leaves)
    BY <2>3, LeafList
  <2> HIDE DEF one, leaves
  <2>5. IsSequence(one \o leaves) /\ Elements(one \o leaves) = Elements(one) \cup Elements(leaves)
    BY <2>2, <2>4, JoinedElements
  <2>6. References(r) = {Name("claim", r.claim)} \cup (Elements(r.leaves) \ {Malformed})
    BY <1>6 DEF References, ForeignKeys
  <2>7. IllFormed(r) => \E l \in Elements(one \o leaves) : l.want = "refuse"
    BY <1>6, <2>4, <2>5 DEF IllFormed, Refuse
  <2>8. \A n \in References(r) : Present(n) \in Elements(one \o leaves)
    BY <2>2, <2>4, <2>5, <2>6
  <2>9. \A l \in Elements(one \o leaves) : l.want \in Wants
    BY <2>2, <2>4, <2>5 DEF Present, Wants
  <2> QED BY <1>3, <1>6, <2>1, <2>5, <2>7, <2>8, <2>9
<1>7. CASE r.kind = "challenge"
  <2> DEFINE both == <<Present(Name("claim", r.claim)), Present(Name("scope", r.scope))>>
             leaves == LeafLookUps(r.leaves)
  <2>1. LookUps(r) = first \o (both \o leaves)
    BY <1>7 DEF LookUps
  <2>2. IsSequence(both)
        /\ Elements(both) = {Present(Name("claim", r.claim)), Present(Name("scope", r.scope))}
    BY TwoIsList
  <2>3. IsSequence(r.leaves)
    BY <1>0, <1>7 DEF IsRecord
  <2>4. /\ IsSequence(leaves)
        /\ \A l \in Elements(leaves) : l.want \in Wants
        /\ \A leaf \in Elements(r.leaves) :
             IF leaf = Malformed THEN Refuse("InvalidResearchGraph") \in Elements(leaves)
             ELSE Present(leaf) \in Elements(leaves)
    BY <2>3, LeafList
  <2> HIDE DEF both, leaves
  <2>5. IsSequence(both \o leaves) /\ Elements(both \o leaves) = Elements(both) \cup Elements(leaves)
    BY <2>2, <2>4, JoinedElements
  <2>6. References(r) = {Name("claim", r.claim), Name("scope", r.scope)}
                         \cup (Elements(r.leaves) \ {Malformed})
    BY <1>7 DEF References, ForeignKeys
  <2>7. IllFormed(r) => \E l \in Elements(both \o leaves) : l.want = "refuse"
    BY <1>7, <2>4, <2>5 DEF IllFormed, Refuse
  <2>8. \A n \in References(r) : Present(n) \in Elements(both \o leaves)
    BY <2>2, <2>4, <2>5, <2>6
  <2>9. \A l \in Elements(both \o leaves) : l.want \in Wants
    BY <2>2, <2>4, <2>5 DEF Present, Wants
  <2> QED BY <1>3, <1>7, <2>1, <2>5, <2>7, <2>8, <2>9
<1>8. CASE r.kind \in {"plan", "assessment"}
  <2> DEFINE n0 == IF r.kind = "plan" THEN Name("proposal", r.proposal) ELSE Name("claim", r.claim)
  <2>1. LookUps(r) = first \o <<Present(n0)>>
    BY <1>8 DEF LookUps
  <2>2. References(r) = {n0} /\ ~IllFormed(r)
    BY <1>8 DEF References, ForeignKeys, IllFormed
  <2> HIDE DEF n0
  <2>3. IsSequence(<<Present(n0)>>) /\ Elements(<<Present(n0)>>) = {Present(n0)}
    BY OneIsList
  <2>4. Present(n0).want \in Wants
    BY DEF Present, Wants
  <2> QED BY <1>3, <1>8, <2>1, <2>2, <2>3, <2>4
<1>9. CASE r.kind = "run"
  <2> DEFINE one == <<Present(Name("plan", r.plan))>>
             a == AllPresent("receipt", r.receipts)
             b == AllPresent("claim", r.claims)
             c == AllPresent("evidence", r.evidence)
  <2>1. LookUps(r) = first \o (one \o a \o b \o c)
    BY <1>9 DEF LookUps, RunLookUps
  <2>2. IsSequence(r.receipts) /\ IsSequence(r.claims) /\ IsSequence(r.evidence)
    BY <1>0, <1>9 DEF IsRecord
  <2>3. /\ IsSequence(a) /\ Elements(a) = {Present(Name("receipt", id)) : id \in Elements(r.receipts)}
        /\ IsSequence(b) /\ Elements(b) = {Present(Name("claim", id)) : id \in Elements(r.claims)}
        /\ IsSequence(c) /\ Elements(c) = {Present(Name("evidence", id)) : id \in Elements(r.evidence)}
    BY <2>2, PresentList
  <2>4. IsSequence(one) /\ Elements(one) = {Present(Name("plan", r.plan))}
    BY OneIsList
  <2> DEFINE rest == one \o a \o b \o c
  <2> HIDE DEF one, a, b, c
  <2>5. /\ IsSequence(rest)
        /\ Elements(rest) = Elements(one) \cup Elements(a) \cup Elements(b) \cup Elements(c)
    <3>1. IsSequence(one \o a) /\ Elements(one \o a) = Elements(one) \cup Elements(a)
      BY <2>3, <2>4, JoinedElements
    <3>2. IsSequence(one \o a \o b) /\ Elements(one \o a \o b) = Elements(one \o a) \cup Elements(b)
      BY <2>3, <3>1, JoinedElements
    <3>3. IsSequence(rest) /\ Elements(rest) = Elements(one \o a \o b) \cup Elements(c)
      BY <2>3, <3>2, JoinedElements
    <3> QED BY <3>1, <3>2, <3>3
  <2> HIDE DEF rest
  <2>6. References(r) = {Name("plan", r.plan)} \cup {Name("receipt", id) : id \in Elements(r.receipts)}
                        \cup {Name("claim", id) : id \in Elements(r.claims)}
                        \cup {Name("evidence", id) : id \in Elements(r.evidence)}
    BY <1>9 DEF References, NamesOf
  <2>7. ~IllFormed(r)
    BY <1>9 DEF IllFormed
  <2>8. \A n \in References(r) : Present(n) \in Elements(rest)
    BY <2>3, <2>4, <2>5, <2>6
  <2>9. \A l \in Elements(rest) : \E n : l = Present(n)
    BY <2>3, <2>4, <2>5
  <2>10. \A n : Present(n).want \in Wants
    BY DEF Present, Wants
  <2>11. \A l \in Elements(rest) : l.want \in Wants
    BY <2>9, <2>10
  <2> QED BY <1>3, <1>9, <2>1, <2>5, <2>7, <2>8, <2>11 DEF rest
<1>10. CASE r.kind = "proposal"
  <2> DEFINE relations == [i \in 1..Len(r.drafts) |-> r.drafts[i].relation]
             one == <<Present(Name("receipt", r.receipt))>>
             twice == IF DuplicateLocals(r.drafts) THEN <<Refuse("InvalidResearchGraph")>> ELSE <<>>
             schemas == AllPresent("schema", relations)
             f == [i \in 1..Len(r.falsifiers) |-> FalsifierLookUp(r, r.falsifiers[i])]
             rest == one \o twice \o schemas \o f
  <2>1. LookUps(r) = first \o rest
    BY <1>10 DEF LookUps, ProposalLookUps
  <2>2. IsSequence(r.drafts) /\ IsSequence(r.falsifiers)
    BY <1>0, <1>10 DEF IsRecord
  <2>3. /\ IsSequence(relations)
        /\ \A d \in Elements(r.drafts) : d.relation \in Elements(relations)
    <3>1. relations = [i \in 1..Len(r.drafts) |-> relations[i]]
      OBVIOUS
    <3>2. Len(r.drafts) \in Nat
      BY <2>2, ListFacts
    <3>3. \A i \in 1..Len(r.drafts) : relations[i] = r.drafts[i].relation
      OBVIOUS
    <3> HIDE DEF relations
    <3>4. IsSequence(relations) /\ Len(relations) = Len(r.drafts)
      BY <3>1, <3>2, FunctionIsList
    <3> QED BY <3>3, <3>4 DEF Elements
  <2> HIDE DEF relations
  <2>4. /\ IsSequence(schemas)
        /\ Elements(schemas) = {Present(Name("schema", id)) : id \in Elements(relations)}
    BY <2>3, PresentList
  <2>5. IsSequence(one) /\ Elements(one) = {Present(Name("receipt", r.receipt))}
    BY OneIsList
  <2>6. /\ IsSequence(twice)
        /\ Elements(twice) = IF DuplicateLocals(r.drafts) THEN {Refuse("InvalidResearchGraph")} ELSE {}
    BY EmptyIsList, OneIsList
  <2>7. /\ IsSequence(f)
        /\ \A l \in Elements(f) : l.want \in Wants
        /\ \A x \in Elements(r.falsifiers) :
             (\A d \in Elements(r.drafts) : d.local # x.local)
                => Refuse("InvalidResearchGraph") \in Elements(f)
    BY <2>2, FalsifierList
  <2> HIDE DEF one, twice, schemas, f
  <2>8. /\ IsSequence(rest)
        /\ Elements(rest) = Elements(one) \cup Elements(twice) \cup Elements(schemas) \cup Elements(f)
    <3>1. IsSequence(one \o twice) /\ Elements(one \o twice) = Elements(one) \cup Elements(twice)
      BY <2>5, <2>6, JoinedElements
    <3>2. /\ IsSequence(one \o twice \o schemas)
          /\ Elements(one \o twice \o schemas) = Elements(one \o twice) \cup Elements(schemas)
      BY <2>4, <3>1, JoinedElements
    <3>3. IsSequence(rest) /\ Elements(rest) = Elements(one \o twice \o schemas) \cup Elements(f)
      BY <2>7, <3>2, JoinedElements
    <3> QED BY <3>1, <3>2, <3>3
  <2> HIDE DEF rest
  <2>9. References(r) = {Name("receipt", r.receipt)}
                          \cup {Name("schema", id) : id \in {d.relation : d \in Elements(r.drafts)}}
    BY <1>10 DEF References, NamesOf
  <2>10. \A n \in References(r) : Present(n) \in Elements(rest)
    BY <2>3, <2>4, <2>5, <2>8, <2>9
  <2>11. IllFormed(r) => Refuse("InvalidResearchGraph") \in Elements(rest)
    <3>1. IllFormed(r) => \/ DuplicateLocals(r.drafts)
                          \/ \E x \in Elements(r.falsifiers) : \A d \in Elements(r.drafts) : d.local # x.local
      BY <1>10 DEF IllFormed, DuplicateLocals
    <3> QED BY <2>6, <2>7, <2>8, <3>1
  <2>12. \A n : Present(n).want \in Wants
    BY DEF Present, Wants
  <2>13. Refuse("InvalidResearchGraph").want = "refuse"
    BY DEF Refuse
  <2>14. \A l \in Elements(rest) : l.want \in Wants
    <3>1. \A l \in Elements(one) \cup Elements(schemas) : \E n : l = Present(n)
      BY <2>4, <2>5
    <3>2. \A l \in Elements(twice) : l.want \in Wants
      BY <2>6, <2>13 DEF Wants
    <3> QED BY <2>7, <2>8, <2>12, <3>1, <3>2
  <2> QED BY <1>3, <1>10, <2>1, <2>8, <2>10, <2>11, <2>13, <2>14
<1>11. CASE r.kind = "evidence"
  <2> DEFINE one == <<Present(Name("receipt", r.receipt))>>
             f == TargetLookUps(r.targets)
             head == first \o one
             all == head \o f
  <2>1. IsSequence(one) /\ Len(one) = 1 /\ Elements(one) = {Present(Name("receipt", r.receipt))}
        /\ one[1] = Present(Name("receipt", r.receipt))
    BY OneIsList
  <2>2. IsSequence(r.targets)
    BY <1>0, <1>11 DEF IsRecord
  <2>3. /\ IsSequence(f)
        /\ \A k \in 1..Len(f) : f[k].want # "refuse"
        /\ \A k \in 1..Len(f) : f[k].want = "relation" =>
             /\ k - 2 \in 1..Len(f) /\ f[k - 2] = Present(f[k].name)
             /\ f[k].name[1] = "claim"
        /\ \A t \in Elements(r.targets) :
             /\ Present(Name("claim", t.claim)) \in Elements(f)
             /\ Present(Name("scope", t.scope)) \in Elements(f)
             /\ RelationOf(Name("claim", t.claim)) \in Elements(f)
    BY <2>2, TargetList
  <2> HIDE DEF first, one, f
  <2>4. LookUps(r) = all
    <3>1. LookUps(r) = first \o (one \o f)
      BY <1>11 DEF LookUps, first, one, f
    <3>2. first \o (one \o f) = all
      <4> DEFINE S == Elements(first) \cup Elements(one) \cup Elements(f)
      <4>1. first \in Seq(S) /\ one \in Seq(S) /\ f \in Seq(S)
        BY <1>1, <2>1, <2>3, ListFacts
      <4> HIDE DEF S
      <4> QED BY <4>1, ConcatAssociative
    <3> QED BY <3>1, <3>2
  <2>5. /\ IsSequence(head) /\ Len(head) = 2
        /\ Elements(head) = Elements(first) \cup Elements(one)
        /\ head[1] = first[1] /\ head[2] = one[1]
    <3>1. /\ IsSequence(head) /\ Len(head) = Len(first) + Len(one)
          /\ Elements(head) = Elements(first) \cup Elements(one)
          /\ \A i \in 1..Len(first) : head[i] = first[i]
          /\ \A i \in 1..Len(one) : head[Len(first) + i] = one[i]
      BY <1>1, <2>1, JoinedIsList
    <3>2. head[1] = first[1] /\ head[Len(first) + 1] = one[1] /\ Len(first) + 1 = 2
      BY <1>1, <2>1, <3>1
    <3> QED BY <1>1, <2>1, <3>1, <3>2
  <2>6. head[1].want = "absent" /\ head[2].want = "present"
    BY <1>1, <1>2, <2>1, <2>5 DEF Present
  <2> HIDE DEF head
  <2>7. /\ IsSequence(all) /\ Len(all) = 2 + Len(f)
        /\ Elements(all) = Elements(head) \cup Elements(f)
        /\ \A i \in 1..2 : all[i] = head[i]
        /\ \A i \in 1..Len(f) : all[2 + i] = f[i]
    <3>1. /\ IsSequence(all) /\ Len(all) = Len(head) + Len(f)
          /\ Elements(all) = Elements(head) \cup Elements(f)
          /\ \A i \in 1..Len(head) : all[i] = head[i]
          /\ \A i \in 1..Len(f) : all[Len(head) + i] = f[i]
      <4>1. IsSequence(head) /\ IsSequence(f)
        BY <2>3, <2>5
      <4> QED BY <4>1, JoinedIsList
    <3> HIDE DEF all
    <3> QED BY <2>5, <3>1
  <2> HIDE DEF all
  <2>8. Len(f) \in Nat
    BY <2>3, ListFacts
  <2>9. all[1].want = "absent" /\ all[2].want = "present"
    BY <2>6, <2>7
  <2>10. ASSUME NEW k \in 1..Len(all), all[k].want = "relation"
         PROVE  /\ k - 2 \in 1..Len(all)
                /\ all[k - 2] = Present(all[k].name)
                /\ all[k].name[1] = "claim"
    <3>1. k - 2 \in 1..Len(f)
      BY <2>7, <2>8, <2>9, <2>10
    <3>2. all[k] = f[k - 2]
      BY <2>7, <3>1
    <3>3. k - 4 \in 1..Len(f) /\ f[k - 4] = Present(f[k - 2].name) /\ f[k - 2].name[1] = "claim"
      BY <2>3, <2>10, <3>1, <3>2
    <3>4. all[k - 2] = f[k - 4]
      BY <2>7, <2>8, <3>3
    <3> QED BY <2>7, <2>8, <3>1, <3>2, <3>3, <3>4
  <2>11. \A n \in References(r) : Present(n) \in Elements(all)
    <3>1. References(r) = {Name("receipt", r.receipt)}
            \cup {Name("claim", id) : id \in {t.claim : t \in Elements(r.targets)}}
            \cup {Name("scope", id) : id \in {t.scope : t \in Elements(r.targets)}}
      BY <1>11 DEF References, NamesOf
    <3> QED BY <2>1, <2>3, <2>5, <2>7, <3>1
  <2>12. \A t \in Elements(r.targets) : RelationOf(Name("claim", t.claim)) \in Elements(all)
    BY <2>3, <2>7
  <2>13. IllFormed(r) => r.targets = <<>>
    BY <1>11 DEF IllFormed
  <2> QED BY <1>11, <2>4, <2>7, <2>8, <2>9, <2>10, <2>11, <2>12, <2>13 DEF Asks
<1>12. r.kind \in Kinds
  BY <1>0 DEF IsRecord
<1> QED BY <1>4, <1>5, <1>6, <1>7, <1>8, <1>9, <1>10, <1>11, <1>12 DEF Kinds

-----------------------------------------------------------------------------
(* What the operations write *)

LEMMA RowsList ==
    ASSUME NEW r \in Offered
    PROVE  /\ IsSequence(Rows(r)) /\ Len(Rows(r)) \in Nat \ {0}
           /\ Elements(Rows(r)) =
                {r} \cup (IF r.kind = "evidence" THEN {TargetRow(r, i) : i \in 1..Len(r.targets)} ELSE {})
                    \cup (IF r.kind = "proposal"
                          THEN {FalsifierRow(r, i) : i \in 1..Len(r.falsifiers)} ELSE {})
           /\ ~Transactional(r) => Rows(r) = <<r>>
<1>0. IsRecord(r)
  BY OfferedAreRecords
<1>1. IsSequence(<<r>>) /\ Len(<<r>>) = 1 /\ Elements(<<r>>) = {r}
  BY OneIsList
<1>2. CASE r.kind = "evidence"
  <2> DEFINE n == Len(r.targets)
             f == [i \in 1..n |-> TargetRow(r, i)]
  <2>1. n \in Nat
    BY <1>0, <1>2, ListFacts DEF IsRecord
  <2>2. f = [i \in 1..n |-> f[i]] /\ \A i \in 1..n : f[i] = TargetRow(r, i)
    OBVIOUS
  <2>3. Rows(r) = <<r>> \o f
    BY <1>2 DEF Rows
  <2> HIDE DEF f, n
  <2>4. IsSequence(f) /\ Len(f) = n
    BY <2>1, <2>2, FunctionIsList
  <2>5. Elements(f) = {TargetRow(r, i) : i \in 1..n}
    BY <2>2, <2>4 DEF Elements
  <2>6. /\ IsSequence(<<r>> \o f) /\ Len(<<r>> \o f) = Len(<<r>>) + Len(f)
        /\ Elements(<<r>> \o f) = Elements(<<r>>) \cup Elements(f)
    BY <1>1, <2>4, JoinedIsList
  <2> QED BY <1>1, <1>2, <2>1, <2>3, <2>4, <2>5, <2>6 DEF n, Transactional
<1>3. CASE r.kind = "proposal"
  <2> DEFINE n == Len(r.falsifiers)
             f == [i \in 1..n |-> FalsifierRow(r, i)]
  <2>1. n \in Nat
    BY <1>0, <1>3, ListFacts DEF IsRecord
  <2>2. f = [i \in 1..n |-> f[i]] /\ \A i \in 1..n : f[i] = FalsifierRow(r, i)
    OBVIOUS
  <2>3. Rows(r) = <<r>> \o f
    BY <1>3 DEF Rows
  <2> HIDE DEF f, n
  <2>4. IsSequence(f) /\ Len(f) = n
    BY <2>1, <2>2, FunctionIsList
  <2>5. Elements(f) = {FalsifierRow(r, i) : i \in 1..n}
    BY <2>2, <2>4 DEF Elements
  <2>6. /\ IsSequence(<<r>> \o f) /\ Len(<<r>> \o f) = Len(<<r>>) + Len(f)
        /\ Elements(<<r>> \o f) = Elements(<<r>>) \cup Elements(f)
    BY <1>1, <2>4, JoinedIsList
  <2> QED BY <1>1, <1>3, <2>1, <2>3, <2>4, <2>5, <2>6 DEF n, Transactional
<1>4. CASE r.kind \notin {"evidence", "proposal"}
  <2>1. Rows(r) = <<r>>
    BY <1>4 DEF Rows
  <2> QED BY <1>1, <1>4, <2>1
<1> QED BY <1>2, <1>3, <1>4

LEMMA RowsAreStored ==
    ASSUME NEW r \in Offered
    PROVE  r \in StoredRows /\ Elements(Rows(r)) \subseteq StoredRows
BY RowsList DEF StoredRows

From(s, k) == SubSeq(s, k + 1, Len(s))

LEMMA FromFacts ==
    ASSUME NEW s, IsSequence(s), NEW k \in 0..Len(s)
    PROVE  /\ From(s, 0) = s
           /\ From(s, k) = <<>> <=> k = Len(s)
           /\ k < Len(s) => Head(From(s, k)) = s[k + 1] /\ Tail(From(s, k)) = From(s, k + 1)
<1>1. s \in Seq(Elements(s)) /\ Len(s) \in Nat /\ \A i \in 1..Len(s) : s[i] \in Elements(s)
  BY ListFacts
<1>2. From(s, 0) = s
  BY <1>1, SubSeqFull DEF From
<1>3. CASE k = Len(s)
  <2>1. From(s, k) = <<>>
    BY <1>1, <1>3, SubSeqEmpty DEF From
  <2> QED BY <1>1, <1>2, <1>3, <2>1
<1>4. CASE k < Len(s)
  <2>1. Len(From(s, k)) = Len(s) - k
    <3>1. /\ k + 1 \in Int /\ Len(s) \in Int /\ \A i \in k + 1 .. Len(s) : s[i] \in Elements(s)
          /\ k + 1 <= Len(s)
      BY <1>1, <1>4
    <3>2. Len(SubSeq(s, k + 1, Len(s))) = Len(s) - (k + 1) + 1
      BY <3>1, SubSeqProperties
    <3> QED BY <1>1, <3>2 DEF From
  <2>2. From(s, k) # <<>>
    BY <1>1, <1>4, <2>1, EmptyIsList
  <2>3. Head(From(s, k)) = s[k + 1] /\ Tail(From(s, k)) = From(s, k + 1)
    <3>1. k + 1 \in 1..Len(s) /\ Len(s) \in k + 1 .. Len(s)
      BY <1>1, <1>4
    <3> QED BY <1>1, <3>1, HeadTailOfSubSeq DEF From
  <2> QED BY <1>2, <1>4, <2>2, <2>3
<1> QED BY <1>1, <1>3, <1>4

-----------------------------------------------------------------------------
(* The invariant *)

NamesUnique(rows) == \A s, t \in rows : NameOf(s) = NameOf(t) => s = t

\* A look-up that was answered, by rows the operation remembers.
Settled(l, read) ==
    /\ l.want # "refuse"
    /\ l.want = "present" /\ l.name[1] \notin Provisional => \E s \in read : NameOf(s) = l.name
    /\ l.want = "relation" =>
         \E claim, schema \in read :
            NameOf(claim) = l.name /\ NameOf(schema) = Name("schema", claim.relation)

\* The first k look-ups of the record are answered, and what was read and
\* cannot be discarded is still stored.
Checked(r, k, read) ==
    /\ read \subseteq StoredRows
    /\ Fits(r, read)
    /\ \A s \in read : s.kind \notin Provisional => s \in db
    /\ \A i \in 1..k : Settled(LookUps(r)[i], read)

Looking(j) ==
    /\ j = [at |-> "look", record |-> j.record, pending |-> j.pending, read |-> j.read]
    /\ \E k \in 0 .. Len(LookUps(j.record)) - 1 :
         /\ j.pending = From(LookUps(j.record), k)
         /\ LookUps(j.record)[k + 1].want # "refuse"
         /\ Checked(j.record, k, j.read)

Firsts(s, k) == {s[i] : i \in 1..k}

Writing(c, j) ==
    /\ j = [at |-> "write", record |-> j.record, rows |-> j.rows]
    /\ \E read \in SUBSET StoredRows : Checked(j.record, Len(LookUps(j.record)), read)
    /\ Transactional(j.record) =>
         \E k \in 0 .. Len(Rows(j.record)) :
            /\ j.rows = From(Rows(j.record), k)
            /\ Written(c) = Firsts(Rows(j.record), k)
            /\ k > 0 => tx # None /\ tx.by = c

JobInv(c) ==
    job[c] # None =>
        /\ job[c].record \in Offered
        /\ job[c].record.kind = "evidence" => job[c].record.targets # <<>>
        /\ Looking(job[c]) \/ Writing(c, job[c])

DbInv == db \subseteq StoredRows /\ NamesUnique(db)

TxInv ==
    tx # None =>
        /\ tx \in [by : Connections, rows : SUBSET StoredRows]
        /\ NamesUnique(tx.rows)
        /\ \A s \in db, t \in tx.rows : NameOf(s) # NameOf(t)
        /\ At(tx.by, "write") /\ Transactional(job[tx.by].record)

IInv == DbInv /\ TxInv /\ DOMAIN job = Connections /\ \A c \in Connections : JobInv(c)

-----------------------------------------------------------------------------
(* What was checked before the write still holds at the write *)

LEMMA NameKinds ==
    ASSUME NEW r \in Offered, NEW s \in Elements(Rows(r))
    PROVE  NameOf(s)[1] = s.kind
<1>1. \A kind, id : Name(kind, id)[1] = kind
  BY DEF Name
<1>2. CASE s.kind = "target"
  BY <1>2 DEF NameOf
<1>3. CASE s.kind # "target"
  BY <1>1, <1>3 DEF NameOf
<1> QED BY <1>2, <1>3

LEMMA StoredNames == \A s \in StoredRows : NameOf(s)[1] = s.kind
BY NameKinds DEF StoredRows

LEMMA NamesKind == \A kind, id : Name(kind, id)[1] = kind
BY DEF Name

\* What was read under a durable name is the stored row of that name.
LEMMA ReadIsStored ==
    ASSUME DbInv, NEW r, NEW k, NEW read, Checked(r, k, read),
           NEW n, n[1] \notin Provisional, NEW s \in read, NameOf(s) = n
    PROVE  s \in db /\ \A t \in db : NameOf(t) = n => t = s
<1>1. s \in StoredRows /\ s.kind \notin Provisional
  BY StoredNames DEF Checked
<1> QED BY <1>1 DEF Checked, DbInv, NamesUnique

LEMMA CheckedAdmits ==
    ASSUME DbInv, NEW r \in Offered, NEW read, Checked(r, Len(LookUps(r)), read),
           r.kind = "evidence" => r.targets # <<>>
    PROVE  /\ ~IllFormed(r)
           /\ \A n \in References(r) : n[1] \notin Provisional => Stores(db, n)
           /\ Fits(r, db)
<1> DEFINE asked == LookUps(r)
<1>1. Asks(r, asked)
  BY LookUpsAsk
<1>2. \A l \in Elements(asked) : Settled(l, read)
  BY DEF Checked, Elements
<1> HIDE DEF asked
<1>3. ~IllFormed(r)
  BY <1>1, <1>2 DEF Asks, Settled
<1>4. ASSUME NEW n \in References(r), n[1] \notin Provisional
      PROVE  \E s \in read : NameOf(s) = n
  <2>1. Settled(Present(n), read)
    BY <1>1, <1>2, <1>4 DEF Asks
  <2>2. Present(n).want = "present" /\ Present(n).name = n
    BY DEF Present
  <2> QED BY <1>4, <2>1, <2>2 DEF Settled
<1>5. ASSUME NEW n \in References(r), n[1] \notin Provisional
      PROVE  Stores(db, n)
  <2>1. PICK s \in read : NameOf(s) = n
    BY <1>4, <1>5
  <2>2. s \in db
    BY <1>5, <2>1, ReadIsStored
  <2> QED BY <2>1, <2>2 DEF Stores
\* Anything stored under a durable name the record refers to was read.
<1>6. ASSUME NEW n \in References(r), n[1] \notin Provisional, NEW t \in db, NameOf(t) = n
      PROVE  t \in read
  <2>1. PICK s \in read : NameOf(s) = n
    BY <1>4, <1>6
  <2>2. t = s
    BY <1>6, <2>1, ReadIsStored
  <2> QED BY <2>1, <2>2
<1>7. "schema" \notin Provisional /\ "scope" \notin Provisional /\ "claim" \notin Provisional
  BY DEF Provisional
<1>8. Fits(r, read)
  BY DEF Checked
<1>9. ASSUME r.kind = "claim", NEW schema \in db, NEW scope \in db,
             NameOf(schema) = Name("schema", r.relation), NameOf(scope) = Name("scope", r.scope)
      PROVE  ValidClaim(schema, r.args, scope.explicit)
  <2>1. Name("schema", r.relation) \in References(r) /\ Name("scope", r.scope) \in References(r)
    BY <1>9 DEF References, ForeignKeys
  <2>2. schema \in read /\ scope \in read
    BY <1>6, <1>7, <1>9, <2>1, NamesKind
  <2> QED BY <1>8, <1>9, <2>2 DEF Fits
<1>10. ASSUME r.kind = "evidence", NEW i \in 1..Len(r.targets), NEW claim \in db, NEW schema \in db,
              NameOf(claim) = Name("claim", r.targets[i].claim),
              NameOf(schema) = Name("schema", claim.relation)
       PROVE  ValidEvidenceClass(schema, r.class)
  <2> DEFINE n == Name("claim", r.targets[i].claim)
  <2>1. RelationOf(n) \in Elements(asked)
    BY <1>1, <1>10 DEF Asks, Elements
  <2>2. RelationOf(n).want = "relation" /\ RelationOf(n).name = n
    BY DEF RelationOf
  <2>3. PICK c, s \in read : NameOf(c) = n /\ NameOf(s) = Name("schema", c.relation)
    BY <1>2, <2>1, <2>2 DEF Settled
  <2>4. c = claim
    BY <1>7, <1>10, <2>3, NamesKind, ReadIsStored
  <2>5. s = schema
    BY <1>7, <1>10, <2>3, <2>4, NamesKind, ReadIsStored
  <2> QED BY <1>8, <1>10, <2>3, <2>4, <2>5 DEF Fits
<1>11. ASSUME r.kind = "proposal", NEW i \in 1..Len(r.drafts), NEW schema \in db,
              NameOf(schema) = Name("schema", r.drafts[i].relation)
       PROVE  ValidClaim(schema, r.drafts[i].args, r.drafts[i].explicit)
  <2>1. Name("schema", r.drafts[i].relation) \in References(r)
    BY <1>11 DEF References, NamesOf, Elements
  <2>2. schema \in read
    BY <1>6, <1>7, <1>11, <2>1, NamesKind
  <2> QED BY <1>8, <1>11, <2>2 DEF Fits
<1>12. Fits(r, db)
  BY <1>9, <1>10, <1>11 DEF Fits
<1> QED BY <1>3, <1>5, <1>12

-----------------------------------------------------------------------------
(* Steps of one connection, as the others see them *)

\* No step removes a row that is not provisional.
Durable == \A s \in db : s.kind \notin Provisional => s \in db'

LEMMA CheckedStays ==
    ASSUME NEW r, NEW k, NEW read, Checked(r, k, read), Durable
    PROVE  Checked(r, k, read)'
BY DEF Checked, Durable

\* The transaction is not this connection's, neither before nor after.
NotOwner(d) == (tx # None => tx.by # d) /\ (tx' # None => tx'.by # d)

LEMMA OthersKept ==
    ASSUME NEW d \in Connections, JobInv(d), Durable, job'[d] = job[d],
           tx' = tx \/ NotOwner(d)
    PROVE  JobInv(d)'
<1>1. CASE job[d] = None
  BY <1>1 DEF JobInv
<1>2. CASE Looking(job[d]) /\ job[d] # None
  <2>1. Looking(job[d])'
    BY <1>2, CheckedStays DEF Looking
  <2> QED BY <1>2, <2>1 DEF JobInv
<1>3. CASE Writing(d, job[d]) /\ job[d] # None
  <2> DEFINE r == job[d].record
  <2>1. /\ Written(d)' = Written(d)
        /\ (tx # None /\ tx.by = d) => tx' # None /\ tx'.by = d
    BY DEF Written, NotOwner
  <2>2. PICK read \in SUBSET StoredRows : Checked(r, Len(LookUps(r)), read)
    BY <1>3 DEF Writing
  <2>3. Checked(r, Len(LookUps(r)), read)'
    BY <2>2, CheckedStays DEF Durable
  <2>4. Transactional(r) =>
          \E k \in 0 .. Len(Rows(r)) :
            /\ job[d].rows = From(Rows(r), k)
            /\ Written(d) = Firsts(Rows(r), k)
            /\ k > 0 => tx # None /\ tx.by = d
    BY <1>3 DEF Writing
  <2>5. Writing(d, job[d])'
    BY <1>3, <2>1, <2>3, <2>4 DEF Writing
  <2> QED BY <1>3, <2>5 DEF JobInv
<1> QED BY <1>1, <1>2, <1>3 DEF JobInv

LEMMA ProceedKeeps ==
    ASSUME DOMAIN job = Connections,
           NEW c \in Connections, NEW r \in Offered, r.kind = "evidence" => r.targets # <<>>,
           NEW k \in 0 .. Len(LookUps(r)), NEW read, Checked(r, k, read),
           Proceed(c, r, From(LookUps(r), k), read),
           db' = db, tx' = tx, tx # None => tx.by # c
    PROVE  JobInv(c)'
<1> DEFINE pending == From(LookUps(r), k)
<1>1. IsSequence(LookUps(r)) /\ Len(LookUps(r)) \in Nat
  BY LookUpsAsk DEF Asks
<1>2. /\ pending = <<>> <=> k = Len(LookUps(r))
      /\ k < Len(LookUps(r)) => Head(pending) = LookUps(r)[k + 1]
  BY <1>1, FromFacts
<1>3. Checked(r, k, read)'
  BY CheckedStays DEF Durable
<1>4. Written(c)' = {}
  BY DEF Written
<1>5. CASE pending = <<>>
  <2>1. job'[c] = [at |-> "write", record |-> r, rows |-> Rows(r)]
    BY <1>5 DEF Proceed, Continue
  <2>2. k = Len(LookUps(r)) /\ read \in SUBSET StoredRows
    BY <1>2, <1>5 DEF Checked
  <2>3. IsSequence(Rows(r)) /\ Len(Rows(r)) \in Nat
    BY RowsList
  <2>4. From(Rows(r), 0) = Rows(r) /\ 0 \in 0 .. Len(Rows(r)) /\ Firsts(Rows(r), 0) = {}
    BY <2>3, FromFacts DEF Firsts
  <2>5. Writing(c, job[c])'
    BY <1>3, <1>4, <2>1, <2>2, <2>4 DEF Writing
  <2> QED BY <2>1, <2>5 DEF JobInv
<1>6. CASE pending # <<>> /\ Head(pending).want = "refuse"
  BY <1>6 DEF Proceed, Answer, JobInv
<1>7. CASE pending # <<>> /\ Head(pending).want # "refuse"
  <2>1. job'[c] = [at |-> "look", record |-> r, pending |-> pending, read |-> read]
    BY <1>7 DEF Proceed, Continue
  <2>2. k \in 0 .. Len(LookUps(r)) - 1 /\ LookUps(r)[k + 1].want # "refuse"
    BY <1>1, <1>2, <1>7
  <2>3. Looking(job[c])'
    BY <1>3, <2>1, <2>2 DEF Looking
  <2> QED BY <2>1, <2>3 DEF JobInv
<1> QED BY <1>5, <1>6, <1>7

\* Only the job and answer of the connection change when it proceeds.
LEMMA ProceedFrame ==
    ASSUME DOMAIN job = Connections, NEW c \in Connections, NEW r, NEW pending, NEW read,
           Proceed(c, r, pending, read)
    PROVE  DOMAIN job' = Connections /\ \A d \in Connections \ {c} : job'[d] = job[d]
BY DEF Proceed, Answer, Continue

\* Steps that write nothing.
LEMMA ReadersKeep ==
    ASSUME IInv, NEW c \in Connections, db' = db, tx' = tx, tx # None => tx.by # c,
           DOMAIN job' = Connections, \A d \in Connections \ {c} : job'[d] = job[d],
           JobInv(c)'
    PROVE  IInv'
<1>1. \A d \in Connections : JobInv(d)'
  <2> SUFFICES ASSUME NEW d \in Connections, d # c PROVE JobInv(d)'
    OBVIOUS
  <2> QED BY OthersKept DEF IInv, Durable
<1>2. DbInv'
  BY DEF IInv, DbInv
<1>3. TxInv'
  <2>1. CASE tx = None
    BY <2>1 DEF TxInv
  <2>2. CASE tx # None
    <3>1. tx.by \in Connections /\ job'[tx.by] = job[tx.by]
      BY <2>2 DEF IInv, TxInv
    <3> QED BY <2>2, <3>1 DEF IInv, TxInv, At
  <2> QED BY <2>1, <2>2
<1> QED BY <1>1, <1>2, <1>3 DEF IInv

LEMMA NotOwning ==
    ASSUME IInv, NEW c \in Connections, ~At(c, "write")
    PROVE  tx # None => tx.by # c
BY DEF IInv, TxInv

LEMMA InsertKeeps == ASSUME IInv, NEW c \in Connections, Insert(c) PROVE IInv'
<1>1. db' = db /\ tx' = tx /\ job[c] = None
  BY DEF Insert
<1>2. tx # None => tx.by # c
  BY <1>1, NotOwning DEF At
<1>3. DOMAIN job = Connections
  BY DEF IInv
<1>4. PICK r \in Offered :
        IF r.kind = "evidence" /\ r.targets = <<>>
        THEN Answer(c, "InvalidResearchSchema") ELSE Proceed(c, r, LookUps(r), {})
  BY DEF Insert
<1>5. CASE r.kind = "evidence" /\ r.targets = <<>>
  <2>1. job'[c] = None /\ DOMAIN job' = Connections /\ \A d \in Connections \ {c} : job'[d] = job[d]
    BY <1>3, <1>4, <1>5 DEF Answer
  <2>2. JobInv(c)'
    BY <2>1 DEF JobInv
  <2> QED BY <1>1, <1>2, <2>1, <2>2, ReadersKeep
<1>6. CASE ~(r.kind = "evidence" /\ r.targets = <<>>)
  <2>1. Proceed(c, r, LookUps(r), {})
    BY <1>4, <1>6
  <2>2. IsSequence(LookUps(r)) /\ Len(LookUps(r)) \in Nat
    BY LookUpsAsk DEF Asks
  <2>3. From(LookUps(r), 0) = LookUps(r) /\ 0 \in 0 .. Len(LookUps(r))
    BY <2>2, FromFacts
  <2>4. Checked(r, 0, {})
    BY DEF Checked, Fits
  <2>5. Proceed(c, r, From(LookUps(r), 0), {})
    BY <2>1, <2>3
  <2>6. JobInv(c)'
    BY <1>1, <1>2, <1>3, <1>6, <2>3, <2>4, <2>5, ProceedKeeps
  <2>7. DOMAIN job' = Connections /\ \A d \in Connections \ {c} : job'[d] = job[d]
    BY <1>3, <2>1, ProceedFrame
  <2> QED BY <1>1, <1>2, <2>6, <2>7, ReadersKeep
<1> QED BY <1>5, <1>6

LEMMA LookUpKeeps == ASSUME IInv, NEW c \in Connections, LookUp(c) PROVE IInv'
<1> DEFINE r == job[c].record
           lookUp == Head(job[c].pending)
           found == Found(lookUp, job[c].read)
<1>1. db' = db /\ tx' = tx /\ job[c] # None /\ job[c].at = "look"
  BY DEF LookUp, At
<1>2. tx # None => tx.by # c
  BY <1>1, NotOwning DEF At
<1>3. DOMAIN job = Connections
  BY DEF IInv
<1>4. r \in Offered /\ (r.kind = "evidence" => r.targets # <<>>) /\ Looking(job[c])
  <2>1. JobInv(c)
    BY DEF IInv
  <2>2. ~Writing(c, job[c])
    BY <1>1 DEF Writing
  <2> QED BY <1>1, <2>1, <2>2 DEF JobInv
<1>5. PICK k \in 0 .. Len(LookUps(r)) - 1 :
        /\ job[c].pending = From(LookUps(r), k)
        /\ LookUps(r)[k + 1].want # "refuse"
        /\ Checked(r, k, job[c].read)
  BY <1>4 DEF Looking
<1>6. Asks(r, LookUps(r)) /\ IsSequence(LookUps(r)) /\ Len(LookUps(r)) \in Nat
  BY <1>4, LookUpsAsk DEF Asks
<1>7. /\ lookUp = LookUps(r)[k + 1] /\ Tail(job[c].pending) = From(LookUps(r), k + 1)
      /\ k + 1 \in 0 .. Len(LookUps(r)) /\ k + 1 \in 1 .. Len(LookUps(r))
  <2>1. k \in 0 .. Len(LookUps(r)) /\ k < Len(LookUps(r))
    BY <1>6
  <2>2. Head(From(LookUps(r), k)) = LookUps(r)[k + 1]
        /\ Tail(From(LookUps(r), k)) = From(LookUps(r), k + 1)
    BY <1>6, <2>1, FromFacts
  <2> QED BY <1>5, <1>6, <2>1, <2>2
<1> HIDE DEF r, lookUp, found
<1>8. ASSUME job'[c] = None, DOMAIN job' = Connections,
             \A d \in Connections \ {c} : job'[d] = job[d]
      PROVE  IInv'
  <2>1. JobInv(c)'
    BY <1>8 DEF JobInv
  <2> QED BY <1>1, <1>2, <1>8, <2>1, ReadersKeep
<1>9. ASSUME NEW code, Answer(c, code)
      PROVE  IInv'
  <2>1. job'[c] = None /\ DOMAIN job' = Connections /\ \A d \in Connections \ {c} : job'[d] = job[d]
    BY <1>3, <1>9 DEF Answer
  <2> QED BY <1>8, <2>1
<1>10. ASSUME NEW read, Checked(r, k + 1, read), Proceed(c, r, Tail(job[c].pending), read)
       PROVE  IInv'
  <2>1. Proceed(c, r, From(LookUps(r), k + 1), read)
    BY <1>7, <1>10
  <2>2. JobInv(c)'
    BY <1>1, <1>2, <1>3, <1>4, <1>7, <1>10, <2>1, ProceedKeeps
  <2>3. DOMAIN job' = Connections /\ \A d \in Connections \ {c} : job'[d] = job[d]
    BY <1>3, <1>10, ProceedFrame
  <2> QED BY <1>1, <1>2, <2>2, <2>3, ReadersKeep
<1>11. IF lookUp.want = "absent"
       THEN IF found # {} THEN Answer(c, "DuplicateResearchRecord")
            ELSE Proceed(c, r, Tail(job[c].pending), job[c].read)
       ELSE IF found = {} THEN Answer(c, "MissingResearchRecord")
       ELSE IF ~Fits(r, job[c].read \cup found) THEN Answer(c, "InvalidResearchSchema")
       ELSE Proceed(c, r, Tail(job[c].pending), job[c].read \cup found)
  BY DEF LookUp, r, lookUp, found
<1>12. CASE lookUp.want = "absent" /\ found = {}
  <2>1. Checked(r, k + 1, job[c].read)
    <3>1. Settled(lookUp, job[c].read)
      BY <1>12 DEF Settled
    <3>2. \A i \in 1 .. k + 1 : i \in 1..k \/ i = k + 1
      BY <1>5, <1>6
    <3> QED BY <1>5, <1>7, <3>1, <3>2 DEF Checked
  <2> QED BY <1>10, <1>11, <1>12, <2>1
<1>13. CASE lookUp.want # "absent" /\ found # {} /\ Fits(r, job[c].read \cup found)
  <2> DEFINE old == job[c].read
             read == old \cup found
  <2>1. found \subseteq db
    BY DEF found, Found
  <2>2. \A l : Settled(l, old) => Settled(l, read)
    BY DEF Settled
  <2>3. Settled(lookUp, read)
    <3>1. lookUp.want # "refuse"
      BY <1>5, <1>7
    <3>2. CASE lookUp.want # "relation"
      <4>1. found = {s \in db : NameOf(s) = lookUp.name}
        BY <3>2 DEF found, Found
      <4> QED BY <1>13, <3>1, <3>2, <4>1 DEF Settled
    <3>3. CASE lookUp.want = "relation"
      <4>1. /\ k - 1 \in 1 .. Len(LookUps(r)) /\ k - 1 \in 1..k
            /\ LookUps(r)[k - 1] = Present(lookUp.name) /\ lookUp.name[1] = "claim"
        <5>1. /\ (k + 1) - 2 \in 1 .. Len(LookUps(r))
              /\ LookUps(r)[(k + 1) - 2] = Present(lookUp.name)
              /\ lookUp.name[1] = "claim"
          BY <1>6, <1>7, <3>3 DEF Asks
        <5>2. (k + 1) - 2 = k - 1
          BY <1>5
        <5> QED BY <1>5, <1>6, <5>1, <5>2
      <4>2. Settled(Present(lookUp.name), old)
        BY <1>5, <4>1 DEF Checked
      <4>3. \E s \in old : NameOf(s) = lookUp.name
        BY <4>1, <4>2 DEF Settled, Present, Provisional
      <4> DEFINE claim == CHOOSE s \in old : NameOf(s) = lookUp.name
      <4>4. claim \in old /\ NameOf(claim) = lookUp.name
        BY <4>3
      <4>5. found = {s \in db : NameOf(s) = Name("schema", claim.relation)}
        BY <3>3 DEF found, Found
      <4> HIDE DEF claim
      <4>6. PICK schema \in found : TRUE
        BY <1>13
      <4>7. NameOf(schema) = Name("schema", claim.relation)
        BY <4>5, <4>6
      <4> QED BY <3>3, <4>4, <4>6, <4>7 DEF Settled
    <3> QED BY <3>2, <3>3
  <2>4. Checked(r, k + 1, read)
    <3>1. read \subseteq StoredRows /\ \A s \in read : s.kind \notin Provisional => s \in db
      BY <1>5, <2>1 DEF Checked, IInv, DbInv
    <3>2. \A i \in 1 .. k + 1 : i \in 1..k \/ i = k + 1
      BY <1>5, <1>6
    <3>3. \A i \in 1 .. k + 1 : Settled(LookUps(r)[i], read)
      BY <1>5, <1>7, <2>2, <2>3, <3>2 DEF Checked
    <3> QED BY <1>13, <3>1, <3>3 DEF Checked
  <2> QED BY <1>10, <1>11, <1>13, <2>4
<1> QED BY <1>9, <1>11, <1>12, <1>13

LEMMA StepKeeps ==
    ASSUME IInv, NEW c \in Connections, Durable,
           DOMAIN job' = Connections, \A d \in Connections \ {c} : job'[d] = job[d],
           \A d \in Connections \ {c} : tx' = tx \/ NotOwner(d),
           JobInv(c)', DbInv', TxInv'
    PROVE  IInv'
<1>1. \A d \in Connections : JobInv(d)'
  <2> SUFFICES ASSUME NEW d \in Connections, d # c PROVE JobInv(d)'
    OBVIOUS
  <2> QED BY OthersKept DEF IInv
<1> QED BY <1>1 DEF IInv

LEMMA WritingJob ==
    ASSUME IInv, NEW c \in Connections, At(c, "write")
    PROVE  /\ job[c].record \in Offered
           /\ job[c].record.kind = "evidence" => job[c].record.targets # <<>>
           /\ Writing(c, job[c])
<1>1. JobInv(c)
  BY DEF IInv
<1>2. ~Looking(job[c])
  BY DEF At, Looking
<1> QED BY <1>1, <1>2 DEF JobInv, At

LEMMA WriteRecordKeeps == ASSUME IInv, NEW c \in Connections, WriteRecord(c) PROVE IInv'
<1> DEFINE r == job[c].record
<1>1. tx = None /\ tx' = tx /\ At(c, "write")
  BY DEF WriteRecord
<1>2. r \in Offered
  BY <1>1, WritingJob
<1>3. /\ job'[c] = None /\ DOMAIN job' = Connections
      /\ \A d \in Connections \ {c} : job'[d] = job[d]
  BY DEF WriteRecord, Answer, IInv
<1>4. db' = db \/ (~Violates(r, db) /\ db' = db \cup {r})
  BY DEF WriteRecord
<1>5. Durable
  BY <1>4 DEF Durable
<1>6. DbInv'
  <2>1. CASE db' = db
    BY <2>1 DEF IInv, DbInv
  <2>2. CASE ~Violates(r, db) /\ db' = db \cup {r}
    <3>1. \A s \in db : NameOf(s) # NameOf(r)
      BY <2>2 DEF Violates
    <3>2. r \in StoredRows
      BY <1>2, RowsAreStored
    <3> HIDE DEF r
    <3> QED BY <2>2, <3>1, <3>2 DEF IInv, DbInv, NamesUnique
  <2> QED BY <1>4, <2>1, <2>2
<1>7. TxInv'
  BY <1>1 DEF TxInv
<1>8. JobInv(c)'
  BY <1>3 DEF JobInv
<1> QED BY <1>1, <1>3, <1>5, <1>6, <1>7, <1>8, StepKeeps

LEMMA RowsReplaced ==
    ASSUME NEW j, NEW r, NEW rest, j = [at |-> "write", record |-> r, rows |-> j.rows]
    PROVE  [j EXCEPT !.rows = rest] = [at |-> "write", record |-> r, rows |-> rest]
OBVIOUS

LEMMA WriteRowKeeps == ASSUME IInv, NEW c \in Connections, WriteRow(c) PROVE IInv'
<1> DEFINE row == Head(job[c].rows)
<1>0. PICK r : r = job[c].record
  OBVIOUS
<1>1. /\ At(c, "write") /\ Transactional(r) /\ job[c].rows # <<>>
      /\ (tx # None => tx.by = c) /\ db' = db
  BY <1>0 DEF WriteRow
<1>2. r \in Offered /\ (r.kind = "evidence" => r.targets # <<>>) /\ Writing(c, job[c])
  BY <1>0, <1>1, WritingJob
<1>3. DOMAIN job = Connections /\ DbInv
  BY DEF IInv
<1>4. Durable
  BY <1>1 DEF Durable
<1>5. PICK read \in SUBSET StoredRows : Checked(r, Len(LookUps(r)), read)
  BY <1>0, <1>2 DEF Writing
<1>6. PICK k \in 0 .. Len(Rows(r)) :
        /\ job[c].rows = From(Rows(r), k)
        /\ Written(c) = Firsts(Rows(r), k)
        /\ k > 0 => tx # None /\ tx.by = c
  BY <1>0, <1>1, <1>2 DEF Writing
<1>7. IsSequence(Rows(r)) /\ Len(Rows(r)) \in Nat
  BY <1>2, RowsList
<1>8. /\ k + 1 \in 1 .. Len(Rows(r)) /\ k + 1 \in 0 .. Len(Rows(r)) /\ k + 1 > 0
      /\ row = Rows(r)[k + 1] /\ Tail(job[c].rows) = From(Rows(r), k + 1)
  <2>1. k < Len(Rows(r))
    BY <1>1, <1>6, <1>7, FromFacts
  <2>2. Head(From(Rows(r), k)) = Rows(r)[k + 1] /\ Tail(From(Rows(r), k)) = From(Rows(r), k + 1)
    BY <1>7, <2>1, FromFacts
  <2> QED BY <1>6, <1>7, <2>1, <2>2
<1>9. job[c] = [at |-> "write", record |-> r, rows |-> job[c].rows]
  BY <1>0, <1>2 DEF Writing
<1>10. row \in StoredRows
  <2>1. row \in Elements(Rows(r))
    BY <1>8 DEF Elements
  <2> QED BY <1>2, <2>1, RowsAreStored
<1>11. /\ Written(c) \subseteq StoredRows /\ NamesUnique(Written(c))
       /\ \A s \in db, t \in Written(c) : NameOf(s) # NameOf(t)
  <2>1. CASE tx = None
    BY <2>1 DEF Written, NamesUnique
  <2>2. CASE tx # None
    BY <1>1, <2>2 DEF Written, IInv, TxInv
  <2> QED BY <2>1, <2>2
<1> HIDE DEF row
<1>12. CASE Violates(row, db \cup Written(c))
  <2>1. Answer(c, "Sql") /\ Rollback(c)
    BY <1>12 DEF WriteRow, row
  <2>2. /\ job'[c] = None /\ DOMAIN job' = Connections
        /\ \A d \in Connections \ {c} : job'[d] = job[d]
    BY <1>3, <2>1 DEF Answer
  <2>3. tx' = None
    BY <1>1, <2>1 DEF Rollback
  <2>4. \A d \in Connections \ {c} : NotOwner(d)
    BY <1>1, <2>3 DEF NotOwner
  <2>5. TxInv' /\ DbInv' /\ JobInv(c)'
    BY <1>1, <1>3, <2>2, <2>3 DEF TxInv, DbInv, JobInv
  <2> QED BY <1>4, <2>2, <2>4, <2>5, StepKeeps
<1>13. CASE ~Violates(row, db \cup Written(c))
  <2>1. /\ Continue(c, [job[c] EXCEPT !.rows = Tail(@)])
        /\ tx' = [by |-> c, rows |-> Written(c) \cup {row}]
    BY <1>13 DEF WriteRow, row
  <2>2. [job[c] EXCEPT !.rows = Tail(@)] = [at |-> "write", record |-> r, rows |-> Tail(job[c].rows)]
    BY <1>9, RowsReplaced
  <2>3. /\ job'[c] = [at |-> "write", record |-> r, rows |-> Tail(job[c].rows)]
        /\ DOMAIN job' = Connections
        /\ \A d \in Connections \ {c} : job'[d] = job[d]
    BY <1>3, <2>1, <2>2 DEF Continue
  <2>4. tx' \in [by : Connections, rows : SUBSET StoredRows] /\ tx' # None
    <3>1. tx' \in [by : Connections, rows : SUBSET StoredRows]
      BY <1>10, <1>11, <2>1
    <3> QED BY <3>1, NoneIsNothing
  <2>5. tx'.by = c /\ tx'.rows = Written(c) \cup {row}
    BY <2>1
  <2>6. \A d \in Connections \ {c} : NotOwner(d)
    BY <1>1, <2>4, <2>5 DEF NotOwner
  <2>7. \A s \in db \cup Written(c) : NameOf(s) # NameOf(row)
    BY <1>13 DEF Violates
  <2>8. NamesUnique(tx'.rows) /\ \A s \in db, t \in tx'.rows : NameOf(s) # NameOf(t)
    BY <1>11, <2>5, <2>7 DEF NamesUnique
  <2>9. job'[c] # None
    <3>1. Tail(job[c].rows) \in Seq(StoredRows)
      <4>1. \A i \in k + 2 .. Len(Rows(r)) : Rows(r)[i] \in StoredRows
        BY <1>2, <1>6, <1>7, RowsAreStored DEF Elements
      <4>2. k + 2 \in Int /\ Len(Rows(r)) \in Int /\ (k + 1) + 1 = k + 2
        BY <1>6, <1>7
      <4>3. SubSeq(Rows(r), k + 2, Len(Rows(r))) \in Seq(StoredRows)
        BY <4>1, <4>2, SubSeqProperties
      <4> QED BY <1>8, <4>2, <4>3 DEF From
    <3>2. job'[c] \in [at : {"write"}, record : Offered, rows : Seq(StoredRows)]
      BY <1>2, <2>3, <3>1
    <3> QED BY <3>2, NoneIsNothing
  <2>10. TxInv'
    BY <1>1, <2>3, <2>4, <2>5, <2>8, <2>9 DEF TxInv, At
  <2>11. Firsts(Rows(r), k + 1) = Firsts(Rows(r), k) \cup {Rows(r)[k + 1]}
    <3>1. \A i \in 1 .. k + 1 : i \in 1..k \/ i = k + 1
      BY <1>6, <1>7
    <3>2. 1..k \subseteq 1 .. k + 1 /\ k + 1 \in 1 .. k + 1
      BY <1>6, <1>7
    <3> QED BY <3>1, <3>2 DEF Firsts
  <2>12. Written(c)' = Firsts(Rows(r), k + 1)
    BY <1>6, <1>8, <2>4, <2>5, <2>11 DEF Written
  <2>13. Checked(r, Len(LookUps(r)), read)'
    BY <1>4, <1>5, CheckedStays
  <2>14. Writing(c, job[c])'
    <3>1. /\ job'[c].record = r /\ job'[c].rows = From(Rows(r), k + 1)
          /\ job'[c] = [at |-> "write", record |-> job'[c].record, rows |-> job'[c].rows]
      BY <1>8, <2>3
    <3>2. k + 1 > 0 => tx' # None /\ tx'.by = c
      BY <2>4, <2>5
    <3> QED BY <1>5, <1>8, <2>12, <2>13, <3>1, <3>2 DEF Writing
  <2>15. JobInv(c)'
    BY <1>2, <2>3, <2>14 DEF JobInv
  <2> QED BY <1>1, <1>3, <1>4, <2>3, <2>6, <2>10, <2>15, StepKeeps DEF DbInv
<1> QED BY <1>12, <1>13

\* At the commit the transaction holds all the rows of its record.
LEMMA Committing ==
    ASSUME IInv, NEW c \in Connections, Commit(c), NEW r, r = job[c].record
    PROVE  /\ r \in Offered /\ (r.kind = "evidence" => r.targets # <<>>)
           /\ Transactional(r)
           /\ \E read : Checked(r, Len(LookUps(r)), read)
           /\ tx # None /\ tx.by = c /\ tx.rows = Elements(Rows(r))
           /\ db' = db \cup tx.rows /\ tx' = None
<1>1. /\ At(c, "write") /\ Transactional(r) /\ job[c].rows = <<>>
      /\ db' = db \cup tx.rows /\ tx' = None
  BY DEF Commit
<1>2. r \in Offered /\ (r.kind = "evidence" => r.targets # <<>>) /\ Writing(c, job[c])
  BY <1>1, WritingJob
<1>3. \E read : Checked(r, Len(LookUps(r)), read)
  BY <1>2 DEF Writing
<1>4. PICK k \in 0 .. Len(Rows(r)) :
        /\ job[c].rows = From(Rows(r), k)
        /\ Written(c) = Firsts(Rows(r), k)
        /\ k > 0 => tx # None /\ tx.by = c
  BY <1>1, <1>2 DEF Writing
<1>5. IsSequence(Rows(r)) /\ Len(Rows(r)) \in Nat \ {0}
  BY <1>2, RowsList
<1>6. k = Len(Rows(r))
  BY <1>1, <1>4, <1>5, FromFacts
<1>7. tx # None /\ tx.by = c
  BY <1>4, <1>5, <1>6
<1>8. tx.rows = Elements(Rows(r))
  BY <1>4, <1>6, <1>7 DEF Written, Firsts, Elements
<1> QED BY <1>1, <1>2, <1>3, <1>7, <1>8

LEMMA CommitKeeps == ASSUME IInv, NEW c \in Connections, Commit(c) PROVE IInv'
<1>1. tx # None /\ tx.by = c /\ db' = db \cup tx.rows /\ tx' = None
  BY Committing
<1>2. /\ job'[c] = None /\ DOMAIN job' = Connections
      /\ \A d \in Connections \ {c} : job'[d] = job[d]
  BY DEF Commit, Answer, IInv
<1>3. Durable
  BY <1>1 DEF Durable
<1>4. \A d \in Connections \ {c} : NotOwner(d)
  BY <1>1 DEF NotOwner
<1>5. TxInv' /\ JobInv(c)'
  BY <1>1, <1>2 DEF TxInv, JobInv
<1>6. DbInv'
  <2>1. /\ tx.rows \subseteq StoredRows /\ NamesUnique(tx.rows)
        /\ \A s \in db, t \in tx.rows : NameOf(s) # NameOf(t)
    BY <1>1 DEF IInv, TxInv
  <2> QED BY <1>1, <2>1 DEF IInv, DbInv, NamesUnique
<1> QED BY <1>2, <1>3, <1>4, <1>5, <1>6, StepKeeps

\* A connection that fails or is lost gives up its job and its transaction.
LEMMA GivesUp ==
    ASSUME IInv, NEW c \in Connections, job' = [job EXCEPT ![c] = None], Rollback(c), db' = db
    PROVE  IInv'
<1>1. /\ job'[c] = None /\ DOMAIN job' = Connections
      /\ \A d \in Connections \ {c} : job'[d] = job[d]
  BY DEF IInv
<1>2. Durable /\ DbInv' /\ JobInv(c)'
  BY <1>1 DEF Durable, IInv, DbInv, JobInv
<1>3. CASE tx # None /\ tx.by = c
  <2>1. tx' = None
    BY <1>3 DEF Rollback
  <2> QED BY <1>1, <1>2, <1>3, <2>1, StepKeeps DEF NotOwner, TxInv
<1>4. CASE ~(tx # None /\ tx.by = c)
  <2>1. tx' = tx /\ (tx # None => tx.by # c)
    BY <1>4 DEF Rollback
  <2> QED BY <1>1, <1>2, <2>1, ReadersKeep
<1> QED BY <1>3, <1>4

LEMMA DiscardKeeps == ASSUME IInv, NEW row \in db, DiscardRow(row) PROVE IInv'
<1>1. /\ tx = None /\ tx' = tx /\ job' = job /\ db' = db \ {row}
      /\ row.kind \in Provisional
  BY DEF DiscardRow
<1>2. Durable
  BY <1>1 DEF Durable
<1>3. \A d \in Connections : JobInv(d)'
  BY <1>1, <1>2, OthersKept DEF IInv
<1>4. DbInv' /\ TxInv'
  BY <1>1 DEF IInv, DbInv, NamesUnique, TxInv
<1> QED BY <1>1, <1>3, <1>4 DEF IInv

LEMMA Initially == Init => IInv
BY DEF Init, IInv, DbInv, NamesUnique, TxInv, JobInv

LEMMA StepsKeep == IInv /\ [Next]_vars => IInv'
<1> SUFFICES ASSUME IInv, [Next]_vars PROVE IInv'
  OBVIOUS
<1>1. CASE UNCHANGED vars
  <2>1. \A d \in Connections : JobInv(d)'
    BY <1>1, OthersKept DEF IInv, vars, Durable
  <2> QED BY <1>1, <2>1 DEF IInv, DbInv, TxInv, At, vars
<1>2. ASSUME NEW c \in Connections, StatementFails(c) PROVE IInv'
  BY <1>2, GivesUp DEF StatementFails, Answer
<1>3. ASSUME NEW c \in Connections, CallerLost(c) PROVE IInv'
  BY <1>3, GivesUp DEF CallerLost
<1> QED
  BY <1>1, <1>2, <1>3, InsertKeeps, LookUpKeeps, WriteRecordKeeps, WriteRowKeeps, CommitKeeps,
     DiscardKeeps DEF Next

\* In every reachable state, what a connection is executing has looked up
\* what it says, and a transaction holds rows that may be committed.
THEOREM Inductive == Spec => []IInv
BY Initially, StepsKeep, PTL DEF Spec

-----------------------------------------------------------------------------
(* The log *)

\* The log's operators are the store's.
LEMMA LogNames ==
    /\ \A kind, id : Log!Name(kind, id) = Name(kind, id)
    /\ \A row : Log!NameOf(row) = NameOf(row)
    /\ \A s : Log!Elements(s) = Elements(s)
    /\ \A kind, ids : Log!NamesOf(kind, ids) = NamesOf(kind, ids)
    /\ Log!Keyed = Keyed /\ Log!Provisional = Provisional
    /\ \A rows, n : Log!Stores(rows, n) <=> Stores(rows, n)
BY DEF Log!Name, Name, Log!NameOf, NameOf, Log!Elements, Elements, Log!NamesOf, NamesOf,
       Log!Keyed, Keyed, Log!Provisional, Provisional, Log!Stores, Stores

LEMMA LogRows == \A r : Log!Rows(r) = Rows(r)
BY DEF Log!Rows, Rows, Log!TargetRow, TargetRow, Log!FalsifierRow, FalsifierRow

LEMMA LogKeys == \A r : Log!ForeignKeys(r) = ForeignKeys(r)
BY LogNames DEF Log!ForeignKeys, ForeignKeys

LEMMA LogReferences == \A r : Log!References(r) = References(r)
BY LogNames, LogKeys DEF Log!References, References

LEMMA LogForm == \A r : Log!IllFormed(r) <=> IllFormed(r)
BY LogNames DEF Log!IllFormed, IllFormed

LEMMA LogFits == \A r, rows : Log!Fits(r, rows) <=> Fits(r, rows)
BY LogNames DEF Log!Fits, Fits, Log!ValidClaim, ValidClaim,
                Log!ValidEvidenceClass, ValidEvidenceClass

LEMMA LogAdmissible ==
    ASSUME NEW r, ~IllFormed(r),
           \A row \in Elements(Rows(r)) : \A s \in db : NameOf(s) # NameOf(row),
           r.kind \in Keyed => \A s \in db : s.kind = r.kind => s.key # r.key,
           \A n \in References(r) : Stores(db, n),
           Fits(r, db)
    PROVE  Log!Admissible(db, r)
BY LogNames, LogRows, LogReferences, LogForm, LogFits DEF Log!Admissible

\* Only columns refer to provisional rows.
LEMMA ReferenceKinds ==
    ASSUME NEW r \in Offered, NEW n \in References(r)
    PROVE  n \in ForeignKeys(r) \/ n[1] \notin Provisional
<1>0. IsRecord(r)
  BY OfferedAreRecords
<1>1. \A kind, ids : \A m \in NamesOf(kind, ids) : m[1] = kind
  BY NamesKind DEF NamesOf
<1>2. CASE r.kind \in {"circuit", "challenge"}
  <2>1. n \in ForeignKeys(r) \/ n \in Elements(r.leaves) \ {Malformed}
    BY <1>2 DEF References
  <2>2. \A leaf \in Elements(r.leaves) \ {Malformed} : leaf[1] \in {"evidence", "claim"}
    BY <1>0, <1>2 DEF IsRecord
  <2> QED BY <2>1, <2>2 DEF Provisional
<1>3. CASE r.kind = "evidence"
  BY <1>1, <1>3 DEF References, ForeignKeys, Provisional
<1>4. CASE r.kind = "proposal"
  BY <1>1, <1>4 DEF References, ForeignKeys, Provisional
<1>5. CASE r.kind = "run"
  BY <1>1, <1>5 DEF References, ForeignKeys, Provisional
<1>6. CASE r.kind \notin {"circuit", "challenge", "evidence", "proposal", "run"}
  BY <1>6 DEF References
<1> QED BY <1>2, <1>3, <1>4, <1>5, <1>6

LEMMA RecordEnters ==
    ASSUME IInv, NEW c \in Connections, WriteRecord(c)
    PROVE  Log!Next \/ db' = db
<1> DEFINE r == job[c].record
<1>1. At(c, "write") /\ ~Transactional(r)
  BY DEF WriteRecord
<1>2. r \in Offered /\ (r.kind = "evidence" => r.targets # <<>>) /\ Writing(c, job[c])
  BY <1>1, WritingJob
<1>3. db' = db \/ (~Violates(r, db) /\ db' = db \cup {r})
  BY DEF WriteRecord
<1>4. PICK read : Checked(r, Len(LookUps(r)), read)
  BY <1>2 DEF Writing
<1> HIDE DEF r
<1>5. Rows(r) = <<r>> /\ Elements(Rows(r)) = {r}
  BY <1>1, <1>2, RowsList, OneIsList
<1>6. CASE ~Violates(r, db) /\ db' = db \cup {r}
  <2>1. /\ ~IllFormed(r)
        /\ \A n \in References(r) : n[1] \notin Provisional => Stores(db, n)
        /\ Fits(r, db)
    BY <1>2, <1>4, CheckedAdmits DEF IInv
  <2>2. \A n \in ForeignKeys(r) : Stores(db, n)
    BY <1>6 DEF Violates, Stores
  <2>3. \A n \in References(r) : Stores(db, n)
    BY <1>2, <2>1, <2>2, ReferenceKinds
  <2>4. \A row \in Elements(Rows(r)) : \A s \in db : NameOf(s) # NameOf(row)
    BY <1>5, <1>6 DEF Violates
  <2>5. r.kind \in Keyed => \A s \in db : s.kind = r.kind => s.key # r.key
    BY <1>6 DEF Violates
  <2>6. Log!Admissible(db, r)
    BY <2>1, <2>3, <2>4, <2>5, LogAdmissible
  <2>7. Log!Enter(r)
    BY <1>5, <1>6, <2>6, LogNames, LogRows DEF Log!Enter
  <2> QED BY <1>2, <2>7 DEF Log!Next
<1> QED BY <1>3, <1>6

LEMMA TransactionEnters ==
    ASSUME IInv, NEW c \in Connections, Commit(c)
    PROVE  Log!Next
<1>0. PICK r : r = job[c].record
  OBVIOUS
<1>1. /\ r \in Offered /\ (r.kind = "evidence" => r.targets # <<>>)
      /\ Transactional(r)
      /\ \E read : Checked(r, Len(LookUps(r)), read)
      /\ tx # None /\ tx.by = c /\ tx.rows = Elements(Rows(r))
      /\ db' = db \cup tx.rows
  BY <1>0, Committing
<1>2. /\ ~IllFormed(r)
      /\ \A n \in References(r) : n[1] \notin Provisional => Stores(db, n)
      /\ Fits(r, db)
  BY <1>1, CheckedAdmits DEF IInv
<1>3. \A n \in References(r) : n[1] \notin Provisional
  <2>1. \A n \in ForeignKeys(r) : n[1] = "receipt"
    BY <1>1, NamesKind DEF ForeignKeys, Transactional
  <2> QED BY <1>1, <2>1, ReferenceKinds DEF Provisional
<1>4. \A row \in Elements(Rows(r)) : \A s \in db : NameOf(s) # NameOf(row)
  BY <1>1 DEF IInv, TxInv
<1>5. r.kind \notin Keyed
  BY <1>1 DEF Transactional, Keyed
<1>6. Log!Admissible(db, r)
  BY <1>2, <1>3, <1>4, <1>5, LogAdmissible
<1>7. Log!Enter(r)
  BY <1>1, <1>6, LogNames, LogRows DEF Log!Enter
<1> QED BY <1>1, <1>7 DEF Log!Next

LEMMA RowDiscarded ==
    ASSUME NEW row \in db, DiscardRow(row)
    PROVE  Log!Next
<1>1. Log!Discardable(db, row)
  BY LogNames, LogKeys DEF DiscardRow, Log!Discardable
<1>2. Log!Discard(row)
  BY <1>1 DEF DiscardRow, Log!Discard
<1> QED BY <1>2 DEF Log!Next

LEMMA StepsAreLogged == IInv /\ [Next]_vars => [Log!Next]_db
<1> SUFFICES ASSUME IInv, [Next]_vars PROVE Log!Next \/ db' = db
  OBVIOUS
<1>1. ASSUME NEW c \in Connections,
             Insert(c) \/ LookUp(c) \/ WriteRow(c) \/ StatementFails(c) \/ CallerLost(c)
      PROVE  db' = db
  BY <1>1 DEF Insert, LookUp, WriteRow, StatementFails, CallerLost
<1>2. UNCHANGED vars => db' = db
  BY DEF vars
<1> QED BY <1>1, <1>2, RecordEnters, TransactionEnters, RowDiscarded DEF Next

\* The store implements the log, for every set of callers and every set of
\* records they may offer: although it validates outside the transaction,
\* a record only enters whole and if the log admits it then.
THEOREM StoreKeepsLog == Spec => KeepsLog
<1>1. Init => Log!Init
  BY DEF Init, Log!Init
<1> QED BY <1>1, Inductive, StepsAreLogged, PTL DEF Spec, KeepsLog, Log!Spec

-----------------------------------------------------------------------------
(* The links between stored records *)

Whole(s, rows) ==
    /\ s.kind = "target" \/ ~IllFormed(s)
    /\ \A n \in References(s) : Stores(rows, n)
    /\ Fits(s, rows)

LEMMA IntactMeans == RecordsIntact <=> \A s \in db : Whole(s, db)
BY LogNames, LogReferences, LogForm, LogFits DEF RecordsIntact, Log!Intact, Whole

LEMMA CompleteMeans ==
    TargetsComplete <=>
      \A row : (row \in db /\ row.kind = "target") <=>
        \E e \in db : e.kind = "evidence" /\ \E i \in 1..Len(e.targets) : row = TargetRow(e, i)
<1> DEFINE targets == {row \in db : row.kind = "target"}
           named == UNION {{TargetRow(e, i) : i \in 1..Len(e.targets)} :
                           e \in {x \in db : x.kind = "evidence"}}
<1>1. TargetsComplete <=> targets = named
  BY DEF TargetsComplete, Log!TargetsIndexed, Log!TargetRow, TargetRow
<1>2. \A row : row \in targets <=> row \in db /\ row.kind = "target"
  OBVIOUS
<1>3. \A row : row \in named <=>
        \E e \in db : e.kind = "evidence" /\ \E i \in 1..Len(e.targets) : row = TargetRow(e, i)
  OBVIOUS
<1> HIDE DEF targets, named
<1> QED BY <1>1, <1>2, <1>3

Supersession(rows) ==
    \A S \in SUBSET {r \in rows : r.kind = "claim"} : S # {} =>
        \E r \in S : \A s \in S : r.supersedes # s.id

LEMMA SupersessionMeans == NoCircularSupersession <=> Supersession(db)
BY DEF NoCircularSupersession, Log!SupersessionEnds, Supersession

\* The same of the next state.
LEMMA NextMeans ==
    /\ RecordsIntact' <=> \A s \in db' : Whole(s, db')
    /\ TargetsComplete' <=>
         \A row : (row \in db' /\ row.kind = "target") <=>
           \E e \in db' : e.kind = "evidence" /\ \E i \in 1..Len(e.targets) : row = TargetRow(e, i)
    /\ NoCircularSupersession' <=> Supersession(db')
<1>1. (RecordsIntact <=> \A s \in db : Whole(s, db))'
  BY IntactMeans, PTL
<1>2. (TargetsComplete <=>
         \A row : (row \in db /\ row.kind = "target") <=>
           \E e \in db : e.kind = "evidence" /\ \E i \in 1..Len(e.targets) : row = TargetRow(e, i))'
  BY CompleteMeans, PTL
<1>3. (NoCircularSupersession <=> Supersession(db))'
  BY SupersessionMeans, PTL
<1> QED BY <1>1, <1>2, <1>3

\* The rows of one insertion beside the record itself.
LEMMA RowKinds ==
    ASSUME NEW r \in Offered, NEW s \in Elements(Rows(r))
    PROVE  \/ s = r /\ s.kind \in Kinds
           \/ /\ s.kind = "target" /\ r.kind = "evidence"
              /\ \E i \in 1..Len(r.targets) : s = TargetRow(r, i)
           \/ /\ s.kind = "falsifier" /\ r.kind = "proposal"
              /\ \E i \in 1..Len(r.falsifiers) : s = FalsifierRow(r, i)
<1>1. r.kind \in Kinds
  BY OfferedAreRecords DEF IsRecord
<1>2. \A i : TargetRow(r, i).kind = "target" /\ FalsifierRow(r, i).kind = "falsifier"
  BY DEF TargetRow, FalsifierRow
<1>3. \/ s = r
      \/ r.kind = "evidence" /\ s \in {TargetRow(r, i) : i \in 1..Len(r.targets)}
      \/ r.kind = "proposal" /\ s \in {FalsifierRow(r, i) : i \in 1..Len(r.falsifiers)}
  BY RowsList
<1> QED BY <1>1, <1>2, <1>3

LEMMA StoredKinds ==
    ASSUME NEW s \in StoredRows
    PROVE  s \in Offered \/ s.kind \in {"target", "falsifier"}
BY RowKinds DEF StoredRows

\* An entry, in the store's terms.
Enters(r) ==
    /\ db' = db \cup Elements(Rows(r))
    /\ ~IllFormed(r)
    /\ \A row \in Elements(Rows(r)) : \A s \in db : NameOf(s) # NameOf(row)
    /\ \A n \in References(r) : Stores(db, n)
    /\ Fits(r, db)

LEMMA EnterMeans == ASSUME NEW r, Log!Enter(r) PROVE Enters(r)
BY LogNames, LogRows, LogReferences, LogForm, LogFits DEF Log!Enter, Log!Admissible, Enters

LEMMA RowReferences ==
    ASSUME NEW s, s.kind \in {"target", "falsifier"}
    PROVE  References(s) = ForeignKeys(s) /\ ~IllFormed(s) /\ \A rows : Fits(s, rows)
BY DEF References, IllFormed, Fits

\* A new row has no name that anything refers to, so what fits still fits.
LEMMA StaysWhole ==
    ASSUME db \subseteq StoredRows, \A s \in db : Whole(s, db),
           NEW r \in Offered, Enters(r), NEW s, Whole(s, db)
    PROVE  Whole(s, db')
<1>1. \A n : Stores(db, n) => Stores(db', n)
  BY DEF Stores, Enters
<1>2. \A t \in db' : \A n : Stores(db, n) /\ NameOf(t) = n => t \in db
  BY DEF Stores, Enters
<1>3. \A n \in References(s) : Stores(db, n)
  BY DEF Whole
<1>4. Fits(s, db)
  BY DEF Whole
<1>5. ASSUME s.kind = "claim", NEW schema \in db', NEW scope \in db',
             NameOf(schema) = Name("schema", s.relation), NameOf(scope) = Name("scope", s.scope)
      PROVE  ValidClaim(schema, s.args, scope.explicit)
  <2>1. Name("schema", s.relation) \in References(s) /\ Name("scope", s.scope) \in References(s)
    BY <1>5 DEF References, ForeignKeys
  <2>2. schema \in db /\ scope \in db
    BY <1>2, <1>3, <1>5, <2>1
  <2> QED BY <1>4, <1>5, <2>2 DEF Fits
<1>6. ASSUME s.kind = "evidence", NEW i \in 1..Len(s.targets), NEW claim \in db', NEW schema \in db',
             NameOf(claim) = Name("claim", s.targets[i].claim),
             NameOf(schema) = Name("schema", claim.relation)
      PROVE  ValidEvidenceClass(schema, s.class)
  <2>1. Name("claim", s.targets[i].claim) \in References(s)
    BY <1>6 DEF References, NamesOf, Elements
  <2>2. claim \in db
    BY <1>2, <1>3, <1>6, <2>1
  <2>3. claim.kind = "claim"
    BY <1>6, <2>2, StoredNames, NamesKind
  <2>4. Name("schema", claim.relation) \in References(claim)
    BY <2>3 DEF References, ForeignKeys
  <2>5. schema \in db
    BY <1>2, <1>6, <2>2, <2>4 DEF Whole
  <2> QED BY <1>4, <1>6, <2>2, <2>5 DEF Fits
<1>7. ASSUME s.kind = "proposal", NEW i \in 1..Len(s.drafts), NEW schema \in db',
             NameOf(schema) = Name("schema", s.drafts[i].relation)
      PROVE  ValidClaim(schema, s.drafts[i].args, s.drafts[i].explicit)
  <2>1. Name("schema", s.drafts[i].relation) \in References(s)
    BY <1>7 DEF References, NamesOf, Elements
  <2>2. schema \in db
    BY <1>2, <1>3, <1>7, <2>1
  <2> QED BY <1>4, <1>7, <2>2 DEF Fits
<1>8. Fits(s, db')
  BY <1>5, <1>6, <1>7 DEF Fits
<1> QED BY <1>1, <1>3, <1>8 DEF Whole

LEMMA EntryIntact ==
    ASSUME db \subseteq StoredRows, \A s \in db : Whole(s, db), NEW r \in Offered, Enters(r)
    PROVE  \A s \in db' : Whole(s, db')
<1>1. Whole(r, db')
  BY StaysWhole DEF Enters, Whole
<1>2. Stores(db', NameOf(r)) /\ r.kind \in Kinds
  <2>1. r \in db'
    BY RowsList DEF Enters
  <2> QED BY <2>1, OfferedAreRecords DEF Stores, IsRecord
<1>3. ASSUME NEW s, NEW i \in 1..Len(r.targets), r.kind = "evidence", s = TargetRow(r, i)
      PROVE  Whole(s, db')
  <2>1. /\ s.kind = "target"
        /\ s.id = r.id /\ s.claim = r.targets[i].claim /\ s.scope = r.targets[i].scope
    BY <1>3 DEF TargetRow
  <2>2. ForeignKeys(s) = {Name("evidence", r.id), Name("claim", r.targets[i].claim),
                          Name("scope", r.targets[i].scope)}
    BY <2>1 DEF ForeignKeys
  <2>3. Name("evidence", r.id) = NameOf(r)
    BY <1>3 DEF NameOf
  <2>4. /\ Name("claim", r.targets[i].claim) \in References(r)
        /\ Name("scope", r.targets[i].scope) \in References(r)
    BY <1>3 DEF References, NamesOf, Elements
  <2> QED BY <1>1, <1>2, <2>1, <2>2, <2>3, <2>4, RowReferences DEF Whole
<1>4. ASSUME NEW s, NEW i \in 1..Len(r.falsifiers), r.kind = "proposal", s = FalsifierRow(r, i)
      PROVE  Whole(s, db')
  <2>1. s.kind = "falsifier" /\ s.proposal = r.id
    BY <1>4 DEF FalsifierRow
  <2>2. ForeignKeys(s) = {NameOf(r)}
    BY <1>4, <2>1 DEF ForeignKeys, NameOf
  <2> QED BY <1>2, <2>1, <2>2, RowReferences DEF Whole
<1>5. \A s \in db : Whole(s, db')
  BY StaysWhole
<1>6. \A s \in Elements(Rows(r)) : Whole(s, db')
  BY <1>1, <1>3, <1>4, RowKinds
<1> QED BY <1>5, <1>6 DEF Enters

LEMMA EntryComplete ==
    ASSUME NEW r \in Offered, Enters(r), TargetsComplete
    PROVE  TargetsComplete'
<1>1. \A row : (row \in db /\ row.kind = "target") <=>
        \E e \in db : e.kind = "evidence" /\ \E i \in 1..Len(e.targets) : row = TargetRow(e, i)
  BY CompleteMeans
<1>2. \A s \in Elements(Rows(r)) : s.kind = "evidence" => s = r
  BY RowKinds
<1>3. \A row : (row \in Elements(Rows(r)) /\ row.kind = "target") <=>
        r.kind = "evidence" /\ \E i \in 1..Len(r.targets) : row = TargetRow(r, i)
  <2>1. r.kind # "target"
    BY OfferedAreRecords DEF IsRecord, Kinds
  <2>2. \A row \in Elements(Rows(r)) : row.kind = "target" =>
          r.kind = "evidence" /\ \E i \in 1..Len(r.targets) : row = TargetRow(r, i)
    BY <2>1, RowKinds
  <2>3. \A i : TargetRow(r, i).kind = "target"
    BY DEF TargetRow
  <2>4. r.kind = "evidence" => \A i \in 1..Len(r.targets) : TargetRow(r, i) \in Elements(Rows(r))
    BY RowsList
  <2> QED BY <2>2, <2>3, <2>4
<1>4. r \in Elements(Rows(r))
  BY RowsList
<1>5. \A row : (row \in db' /\ row.kind = "target") <=>
        \E e \in db' : e.kind = "evidence" /\ \E i \in 1..Len(e.targets) : row = TargetRow(e, i)
  BY <1>1, <1>2, <1>3, <1>4 DEF Enters
<1> QED BY <1>5, NextMeans

\* The claim that enters supersedes a stored one if any, and nothing stored
\* supersedes it.
LEMMA EntryEnds ==
    ASSUME db \subseteq StoredRows, \A s \in db : Whole(s, db), Supersession(db),
           NEW r \in Offered, Enters(r)
    PROVE  Supersession(db')
<1> SUFFICES ASSUME NEW S \in SUBSET {x \in db' : x.kind = "claim"}, S # {}
             PROVE  \E x \in S : \A s \in S : x.supersedes # s.id
  BY DEF Supersession
<1>1. \A x \in S : x = r \/ x \in db
  BY RowKinds DEF Enters
<1>2. CASE r \notin S
  BY <1>1, <1>2 DEF Supersession
<1>3. CASE r \in S
  <2>1. r.kind = "claim" /\ r.id # None /\ NameOf(r) = Name("claim", r.id)
    BY <1>3, OfferedAreRecords DEF IsRecord, NameOf
  <2>2. \A s \in db : NameOf(s) # NameOf(r)
    BY RowsList DEF Enters
  <2>3. ASSUME NEW x, x.kind = "claim", \A n \in References(x) : Stores(db, n)
        PROVE  x.supersedes # r.id
    <3>1. CASE x.supersedes = None
      BY <2>1, <3>1
    <3>2. CASE x.supersedes # None
      <4>1. Name("claim", x.supersedes) \in References(x)
        BY <2>3, <3>2 DEF References, ForeignKeys
      <4>2. Name("claim", x.supersedes) # Name("claim", r.id)
        BY <2>1, <2>2, <2>3, <4>1 DEF Stores
      <4> QED BY <4>2
    <3> QED BY <3>1, <3>2
  <2>4. CASE S = {r}
    <3>1. r.supersedes # r.id
      BY <2>1, <2>3 DEF Enters
    <3> QED BY <2>4, <3>1
  <2>5. CASE S # {r}
    <3>1. S \ {r} \in SUBSET {x \in db : x.kind = "claim"} /\ S \ {r} # {}
      BY <1>1, <1>3, <2>5
    <3>2. PICK x \in S \ {r} : \A s \in S \ {r} : x.supersedes # s.id
      BY <3>1 DEF Supersession
    <3>3. x.supersedes # r.id
      BY <2>3, <3>1, <3>2 DEF Whole
    <3> QED BY <3>2, <3>3
  <2> QED BY <2>4, <2>5
<1> QED BY <1>2, <1>3

LEMMA DiscardSound ==
    ASSUME db \subseteq StoredRows, LinksSound, NEW row \in db, Log!Discard(row)
    PROVE  LinksSound'
<1>1. /\ row.kind \in Provisional /\ db' = db \ {row}
      /\ \A s \in db : NameOf(row) \notin ForeignKeys(s)
  BY LogNames, LogKeys DEF Log!Discard, Log!Discardable
<1>2. \A s \in db : Whole(s, db)
  BY IntactMeans DEF LinksSound
<1>3. NameOf(row)[1] \in Provisional
  BY <1>1, StoredNames
<1>4. ASSUME NEW s \in db', NEW n \in References(s)
      PROVE  Stores(db', n)
  <2>1. s \in StoredRows /\ s \in db
    BY <1>1
  <2>2. n \in ForeignKeys(s) \/ n[1] \notin Provisional
    BY <1>4, <2>1, StoredKinds, ReferenceKinds, RowReferences
  <2>3. n # NameOf(row)
    BY <1>1, <1>3, <2>1, <2>2
  <2>4. Stores(db, n)
    BY <1>2, <1>4, <2>1 DEF Whole
  <2> QED BY <1>1, <2>3, <2>4 DEF Stores
<1>5. \A s \in db' : Fits(s, db')
  <2>1. \A s \in db' : Fits(s, db)
    BY <1>1, <1>2 DEF Whole
  <2> QED BY <1>1, <2>1 DEF Fits
<1>6. RecordsIntact'
  <2>1. \A s \in db' : Whole(s, db')
    BY <1>1, <1>2, <1>4, <1>5 DEF Whole
  <2> QED BY <2>1, NextMeans
<1>7. TargetsComplete'
  <2>1. row.kind # "target" /\ row.kind # "evidence"
    BY <1>1 DEF Provisional
  <2>2. \A t : (t \in db /\ t.kind = "target") <=>
          \E e \in db : e.kind = "evidence" /\ \E i \in 1..Len(e.targets) : t = TargetRow(e, i)
    BY CompleteMeans DEF LinksSound
  <2>3. \A t : (t \in db' /\ t.kind = "target") <=>
          \E e \in db' : e.kind = "evidence" /\ \E i \in 1..Len(e.targets) : t = TargetRow(e, i)
    BY <1>1, <2>1, <2>2
  <2> QED BY <2>3, NextMeans
<1>8. NoCircularSupersession'
  <2>1. Supersession(db)
    BY SupersessionMeans DEF LinksSound
  <2>2. Supersession(db')
    BY <1>1, <2>1 DEF Supersession
  <2> QED BY <2>2, NextMeans
<1> QED BY <1>6, <1>7, <1>8 DEF LinksSound

LEMMA EntrySound ==
    ASSUME db \subseteq StoredRows, LinksSound, NEW r \in Offered, Log!Enter(r)
    PROVE  LinksSound'
<1>1. Enters(r) /\ \A s \in db : Whole(s, db)
  BY EnterMeans, IntactMeans DEF LinksSound
<1>2. \A s \in db' : Whole(s, db')
  BY <1>1, EntryIntact
<1>3. TargetsComplete'
  BY <1>1, EntryComplete DEF LinksSound
<1>4. Supersession(db')
  BY <1>1, EntryEnds, SupersessionMeans DEF LinksSound
<1>5. RecordsIntact' /\ NoCircularSupersession'
  BY <1>2, <1>4, NextMeans
<1> QED BY <1>3, <1>5 DEF LinksSound

LEMMA EmptySound == Init => LinksSound
<1> SUFFICES ASSUME Init PROVE LinksSound
  OBVIOUS
<1>1. db = {}
  BY DEF Init
<1>2. RecordsIntact
  BY <1>1, IntactMeans
<1>3. TargetsComplete
  BY <1>1, CompleteMeans
<1>4. NoCircularSupersession
  BY <1>1, SupersessionMeans DEF Supersession
<1> QED BY <1>2, <1>3, <1>4 DEF LinksSound

\* The links between stored records stay sound, however look-ups, commits,
\* failures and discards of other callers fall between the look-ups and the
\* writes of an insertion.
THEOREM LinksStaySound == Spec => []LinksSound
<1>1. IInv => db \subseteq StoredRows
  BY DEF IInv, DbInv
<1>2. db \subseteq StoredRows /\ LinksSound /\ [Log!Next]_db => LinksSound'
  <2> SUFFICES ASSUME db \subseteq StoredRows, LinksSound, [Log!Next]_db PROVE LinksSound'
    OBVIOUS
  <2>1. CASE db' = db
    <3>1. (\A s \in db' : Whole(s, db')) /\ Supersession(db')
      BY <2>1, IntactMeans, SupersessionMeans DEF LinksSound
    <3>2. \A t : (t \in db' /\ t.kind = "target") <=>
            \E e \in db' : e.kind = "evidence" /\ \E i \in 1..Len(e.targets) : t = TargetRow(e, i)
      BY <2>1, CompleteMeans DEF LinksSound
    <3> QED BY <3>1, <3>2, NextMeans DEF LinksSound
  <2> QED BY <2>1, EntrySound, DiscardSound DEF Log!Next
<1> QED BY <1>1, <1>2, EmptySound, Inductive, StepsAreLogged, PTL DEF Spec
===============================================================================
