---------------------------- MODULE FactStoreProofs ----------------------------
(***************************************************************************)
(* Theorems about FactStore, for any number of connections and facts.      *)
(*                                                                         *)
(* The inductive invariant says of every connection that what it found out *)
(* and what it returned hold of the store as it is now.  Both survive a    *)
(* commit because a commit adds one fact under a free id, so each action   *)
(* is proved for the connection that takes it, and the others follow.      *)
(***************************************************************************)
EXTENDS FactStore, TLAPS

-----------------------------------------------------------------------------
(* The trust calculus, for every set of facts *)

\* Strength orders the four warrants.
LEMMA StrengthType == \A w \in FactWarrant : Strength[w] \in Int
BY DEF FactWarrant, Strength

\* Weaker is the meet: one of its arguments and stronger than neither.
LEMMA WeakerIsMeet ==
    ASSUME NEW v \in FactWarrant, NEW w \in FactWarrant
    PROVE  /\ Weaker(v, w) \in {v, w}
           /\ ~IsStrongerThan(Weaker(v, w), v)
           /\ ~IsStrongerThan(Weaker(v, w), w)
BY StrengthType DEF Weaker, IsStrongerThan

\* Strongest is the join of any set of warrants, empty or infinite.
LEMMA StrongestIsJoin ==
    ASSUME NEW ws \in SUBSET FactWarrant
    PROVE  /\ Strongest(ws) \in ws \cup {"Heuristic"}
           /\ \A v \in ws : ~IsStrongerThan(v, Strongest(ws))
<1> DEFINE Top(w) == \A v \in ws \cup {"Heuristic"} : ~IsStrongerThan(v, w)
<1>1. \E w \in ws \cup {"Heuristic"} : Top(w)
  <2>1. CASE "Proved" \in ws
    <3>1. Top("Proved")
      BY DEF IsStrongerThan, FactWarrant, Strength
    <3> QED BY <2>1, <3>1
  <2>2. CASE "Proved" \notin ws /\ "Structural" \in ws
    <3>1. Top("Structural")
      BY <2>2 DEF IsStrongerThan, FactWarrant, Strength
    <3> QED BY <2>2, <3>1
  <2>3. CASE ws \subseteq {"Asserted", "Heuristic"} /\ "Asserted" \in ws
    <3>1. Top("Asserted")
      BY <2>3 DEF IsStrongerThan, FactWarrant, Strength
    <3> QED BY <2>3, <3>1
  <2>4. CASE ws \subseteq {"Heuristic"}
    <3>1. Top("Heuristic")
      BY <2>4 DEF IsStrongerThan, FactWarrant, Strength
    <3> QED BY <3>1
  <2> QED BY <2>1, <2>2, <2>3, <2>4 DEF FactWarrant
<1>2. Strongest(ws) = CHOOSE w \in ws \cup {"Heuristic"} : Top(w)
  BY DEF Strongest
<1> HIDE DEF Top
<1>3. Strongest(ws) \in ws \cup {"Heuristic"} /\ Top(Strongest(ws))
  BY <1>1, <1>2
<1> QED BY <1>3 DEF Top

-----------------------------------------------------------------------------
(* Rows on disk *)

\* Names and warrants correspond.
LEMMA NamesParse == \A w \in FactWarrant : ParseWarrant(WarrantName[w]) = w
<1> DEFINE Named(w, v) == WarrantName[v] = WarrantName[w]
<1> SUFFICES ASSUME NEW w \in FactWarrant
             PROVE  ParseWarrant(WarrantName[w]) = w
  OBVIOUS
<1>1. \A v \in FactWarrant : Named(w, v) => v = w
  BY DEF FactWarrant, WarrantName
<1>2. ParseWarrant(WarrantName[w]) = CHOOSE v \in FactWarrant : Named(w, v)
  BY DEF ParseWarrant
<1>3. Named(w, w)
  OBVIOUS
<1> HIDE DEF Named
<1> QED BY <1>1, <1>2, <1>3

LEMMA HeadersRow ==
    ASSUME NEW id \in FactIds, NEW h \in Headers, NEW a \in ArgLists
    PROVE  /\ ParseWarrant(h.warrant) \in FactWarrant
           /\ Row(id, h, a) \in FactRows
           /\ Row(id, h, a) # None
           /\ h # None
<1>1. PICK w \in FactWarrant : h.warrant = WarrantName[w]
  BY DEF Headers
<1>2. ParseWarrant(h.warrant) \in FactWarrant
  BY <1>1, NamesParse
<1>3. Row(id, h, a) \in FactRows
  BY <1>2 DEF Row, FactRows, Headers
<1> QED BY <1>2, <1>3, NoneIsNoRow, NoneIsNothing

LEMMA RowsHeader ==
    ASSUME NEW row \in FactRows
    PROVE  Header(row) \in Headers /\ Row(row.id, Header(row), row.args) = row
<1>1. row = [id |-> row.id, relation |-> row.relation, args |-> row.args,
             warrant |-> row.warrant, provenance |-> row.provenance]
  BY DEF FactRows
<1>2. /\ row.warrant \in FactWarrant /\ row.relation \in Relations
      /\ row.provenance \in Provenances
  BY DEF FactRows
<1>3. ParseWarrant(WarrantName[row.warrant]) = row.warrant
  BY <1>2, NamesParse
<1> QED BY <1>1, <1>2, <1>3 DEF Header, Headers, Row

-----------------------------------------------------------------------------
(* The invariant *)

TablesType ==
    /\ facts \in [FactIds -> Headers \cup {None}]
    /\ factArgs \in [FactIds -> ArgLists]
    /\ tx \in Transactions \cup {None}

LockHeld == tx # None => At(tx.by, "args") \/ At(tx.by, "commit")

Found(c) ==
    /\ At(c, "support") =>
         job[c].row \in Offered /\ IntrinsicallyValid(job[c].row) /\ Established(job[c])
    /\ job[c] \in WriteJobs => job[c].row \in Offered /\ Admissible(Stored, job[c].row)
    /\ At(c, "args") \/ At(c, "commit") =>
         /\ tx # None /\ tx.by = c
         /\ tx.id = job[c].row.id /\ tx.header = Header(job[c].row)
         /\ facts[tx.id] = None
    /\ At(c, "commit") => tx.args = job[c].row.args
    /\ At(c, "factArgs") => facts[job[c].id] = job[c].header
    /\ At(c, "scanArgs") =>
         /\ \A id \in DOMAIN job[c].headers : facts[id] = job[c].headers[id]
         /\ \A row \in job[c].rows : Stored[row.id] = row

Sound(c) == job[c] # None => IsJob(job[c]) /\ Found(c)

Refused(c, row) ==
    /\ answer[c].code = "DuplicateFact" => Stored[row.id] # None
    /\ answer[c].code = "InvalidFact" /\ IntrinsicallyValid(row) =>
         \A d \in Derivations(row.provenance) :
            /\ \A i \in d : Stored[i] # None
            /\ \E i \in d : IsStrongerThan(row.warrant, Stored[i].warrant)

Told(c) ==
    answer[c] # None =>
        /\ answer[c] \in Answers
        /\ answer[c].code = "Ok" => \A row \in answer[c].rows : Stored[row.id] = row
        /\ \A row \in answer[c].rows : Refused(c, row)

IInv ==
    /\ TablesType /\ LockHeld
    /\ DOMAIN job = Connections
    /\ answer \in [Connections -> Answers \cup {None}]
    /\ \A c \in Connections : Sound(c) /\ Told(c)

LEMMA InvariantImplies ==
    IInv => TypeOK /\ JobsSound /\ AnswersHold /\ RefusalsHold
<1> SUFFICES ASSUME IInv PROVE TypeOK /\ JobsSound /\ AnswersHold /\ RefusalsHold
  OBVIOUS
<1>1. TypeOK
  BY DEF IInv, TypeOK, TablesType, Sound
<1>2. JobsSound
  BY DEF IInv, JobsSound, LockHeld, Sound, Found
<1>3. AnswersHold
  BY DEF IInv, AnswersHold, Told
<1>4. RefusalsHold
  BY DEF IInv, RefusalsHold, Told, Refused
<1> QED BY <1>1, <1>2, <1>3, <1>4

LEMMA Initially == Init => IInv
<1> SUFFICES ASSUME Init PROVE IInv
  OBVIOUS
<1>1. TablesType /\ LockHeld
  BY NoArgsIsAnArgList DEF Init, TablesType, LockHeld
<1>2. \A c \in Connections : Sound(c) /\ Told(c)
  BY DEF Init, Sound, Told
<1> QED BY <1>1, <1>2 DEF Init, IInv

-----------------------------------------------------------------------------
(* The store only grows *)

Grows ==
    /\ TablesType'
    /\ \A id \in FactIds : facts[id] # None =>
          facts'[id] = facts[id] /\ factArgs'[id] = factArgs[id]

\* A stored row is a row, and an id without a header has none.
LEMMA StoredRows ==
    ASSUME TablesType, NEW id \in FactIds
    PROVE  /\ Stored[id] # None <=> facts[id] # None
           /\ facts[id] # None =>
                /\ facts[id] \in Headers
                /\ Stored[id] = Row(id, facts[id], factArgs[id])
                /\ Stored[id] \in FactRows
                /\ Stored[id].warrant = Warrant(id)
                /\ Warrant(id) \in FactWarrant
<1>1. CASE facts[id] = None
  BY <1>1 DEF Stored
<1>2. CASE facts[id] # None
  <2>1. facts[id] \in Headers /\ factArgs[id] \in ArgLists
    BY <1>2 DEF TablesType
  <2>2. Stored[id] = Row(id, facts[id], factArgs[id])
    BY <1>2 DEF Stored
  <2>3. Row(id, facts[id], factArgs[id]).warrant = Warrant(id)
    BY DEF Row, Warrant
  <2> QED BY <1>2, <2>1, <2>2, <2>3, HeadersRow DEF Warrant
<1> QED BY <1>1, <1>2

LEMMA GrowingKeeps ==
    ASSUME TablesType, Grows, NEW id \in FactIds, Stored[id] # None
    PROVE  /\ facts[id] # None /\ facts'[id] = facts[id]
           /\ Stored'[id] = Stored[id] /\ Warrant(id)' = Warrant(id)
<1>1. facts[id] # None
  BY StoredRows
<1>2. facts'[id] = facts[id] /\ factArgs'[id] = factArgs[id]
  BY <1>1 DEF Grows
<1>3. Stored'[id] = Stored[id]
  BY <1>1, <1>2 DEF Stored
<1> QED BY <1>1, <1>2, <1>3 DEF Warrant

\* The inputs of an offered fact are fact ids.
LEMMA InputsAreIds ==
    ASSUME NEW row \in FactRows, NEW d \in Derivations(row.provenance)
    PROVE  d \subseteq FactIds
BY DEF FactRows, Provenances, Derivations

\* What a connection knows and what it returned survive growth.
LEMMA OthersKept ==
    ASSUME IInv, Grows, NEW c \in Connections,
           job'[c] = job[c], answer'[c] = answer[c],
           At(c, "args") \/ At(c, "commit") => tx' = tx /\ facts' = facts
    PROVE  Sound(c)' /\ Told(c)'
<1> USE DEF IInv
<1>1. Sound(c)'
  <2> SUFFICES ASSUME job[c] # None PROVE IsJob(job[c]) /\ Found(c)'
    BY DEF Sound
  <2>1. IsJob(job[c]) /\ Found(c)
    BY DEF Sound
  <2>2. \A place : At(c, place)' <=> At(c, place)
    BY DEF At
  <2>3. ASSUME At(c, "support") PROVE Established(job[c])'
    <3>1. SupportJob(job[c]) /\ Established(job[c])
      BY <2>1, <2>3 DEF At, IsJob, WriteJobs, ReadJobs, ScanJob, Found
    <3>2. ASSUME NEW d \in DOMAIN job[c].supported, NEW i \in d, facts[i] # None
          PROVE  facts'[i] # None /\ Warrant(i)' = Warrant(i)
      <4>1. i \in FactIds
        BY <3>1, <3>2, InputsAreIds DEF SupportJob
      <4> QED BY <3>2, <4>1, StoredRows, GrowingKeeps
    <3> QED BY <3>1, <3>2 DEF Established
  <2>4. ASSUME job[c] \in WriteJobs PROVE Admissible(Stored', job[c].row)
    <3>1. Admissible(Stored, job[c].row) /\ job[c].row \in FactRows
      BY <2>1, <2>4 DEF Found, WriteJobs
    <3>2. ASSUME NEW d \in Derivations(job[c].row.provenance), NEW i \in d,
                 Stored[i] # None
          PROVE  Stored'[i] = Stored[i]
      BY <3>1, <3>2, InputsAreIds, GrowingKeeps
    <3> QED BY <3>1, <3>2 DEF Admissible, Supports
  <2>5. ASSUME At(c, "factArgs") PROVE facts'[job[c].id] = job[c].header
    <3>1. job[c].id \in FactIds /\ job[c].header \in Headers
      BY <2>1, <2>5 DEF At, IsJob, SupportJob, WriteJobs, ReadJobs, ScanJob
    <3>2. facts[job[c].id] # None
      BY <2>1, <2>5, <3>1, NoneIsNothing DEF Found
    <3> QED BY <2>1, <2>5, <3>1, <3>2 DEF Found, Grows
  <2>6. ASSUME At(c, "scanArgs")
        PROVE  /\ \A id \in DOMAIN job[c].headers : facts'[id] = job[c].headers[id]
               /\ \A row \in job[c].rows : Stored'[row.id] = row
    <3>1. ScanJob(job[c])
      BY <2>1, <2>6 DEF At, IsJob, SupportJob, WriteJobs, ReadJobs
    <3>2. ASSUME NEW id \in DOMAIN job[c].headers
          PROVE  facts'[id] = job[c].headers[id]
      <4>1. id \in FactIds /\ job[c].headers[id] \in Headers
        BY <3>1 DEF ScanJob
      <4>2. facts[id] = job[c].headers[id] /\ facts[id] # None
        BY <2>1, <2>6, <4>1, NoneIsNothing DEF Found
      <4> QED BY <4>1, <4>2 DEF Grows
    <3>3. ASSUME NEW row \in job[c].rows PROVE Stored'[row.id] = row
      <4>1. row \in FactRows /\ row.id \in FactIds /\ row # None
        BY <3>1, NoneIsNoRow DEF ScanJob, FactRows
      <4>2. Stored[row.id] = row
        BY <2>1, <2>6 DEF Found
      <4> QED BY <4>1, <4>2, GrowingKeeps
    <3> QED BY <3>2, <3>3
  <2> QED BY <2>1, <2>2, <2>3, <2>4, <2>5, <2>6 DEF Found
<1>2. Told(c)'
  <2> SUFFICES ASSUME answer[c] # None
               PROVE  /\ answer[c] \in Answers
                      /\ answer[c].code = "Ok" =>
                           \A row \in answer[c].rows : Stored'[row.id] = row
                      /\ \A row \in answer[c].rows : Refused(c, row)'
    BY DEF Told
  <2>1. answer[c] \in Answers /\ Told(c)
    OBVIOUS
  <2> SUFFICES ASSUME NEW row \in answer[c].rows
               PROVE  /\ answer[c].code = "Ok" => Stored'[row.id] = row
                      /\ Refused(c, row)'
    BY <2>1
  <2>2. row \in FactRows /\ row.id \in FactIds /\ row # None
    BY <2>1, NoneIsNoRow DEF Answers, FactRows
  <2>3. answer[c].code = "Ok" => Stored'[row.id] = row
    BY <2>1, <2>2, GrowingKeeps DEF Told
  <2>4. Refused(c, row)
    BY <2>1 DEF Told
  <2>5. answer[c].code = "DuplicateFact" => Stored'[row.id] # None
    BY <2>2, <2>4, GrowingKeeps DEF Refused
  <2>6. \A d \in Derivations(row.provenance) : \A i \in d :
            Stored[i] # None => Stored'[i] = Stored[i]
    BY <2>2, InputsAreIds, GrowingKeeps
  <2> QED BY <2>3, <2>4, <2>5, <2>6 DEF Refused
<1> QED BY <1>1, <1>2

-----------------------------------------------------------------------------
(* One step of one connection *)

LEMMA Assemble ==
    ASSUME IInv, Grows, NEW c \in Connections, NEW j, NEW a \in Answers \cup {None},
           job' = [job EXCEPT ![c] = j], answer' = [answer EXCEPT ![c] = a],
           \A d \in Connections \ {c} :
              At(d, "args") \/ At(d, "commit") => tx' = tx /\ facts' = facts,
           LockHeld', Sound(c)', Told(c)'
    PROVE  IInv'
<1>1. TablesType'
  BY DEF Grows
<1>2. DOMAIN job' = Connections /\ answer' \in [Connections -> Answers \cup {None}]
  BY DEF IInv
<1>3. ASSUME NEW d \in Connections, d # c PROVE Sound(d)' /\ Told(d)'
  <2>1. job'[d] = job[d] /\ answer'[d] = answer[d]
    BY <1>3 DEF IInv
  <2> QED BY <1>3, <2>1, OthersKept
<1> QED BY <1>1, <1>2, <1>3 DEF IInv

Quiet == UNCHANGED <<facts, factArgs, tx>>

\* Connections outside a transaction, and steps that leave the tables alone.
Outside(c) == ~At(c, "args") /\ ~At(c, "commit")

LEMMA QuietStep ==
    ASSUME IInv, Quiet, NEW c \in Connections, Outside(c),
           NEW j, NEW a \in Answers \cup {None},
           job' = [job EXCEPT ![c] = j], answer' = [answer EXCEPT ![c] = a],
           Sound(c)', Told(c)'
    PROVE  IInv'
<1>1. Grows
  BY DEF IInv, Quiet, TablesType, Grows
<1>2. LockHeld'
  <2> SUFFICES ASSUME tx # None PROVE At(tx.by, "args")' \/ At(tx.by, "commit")'
    BY DEF LockHeld, Quiet
  <2>1. At(tx.by, "args") \/ At(tx.by, "commit")
    BY DEF IInv, LockHeld
  <2>2. tx.by \in Connections /\ tx.by # c
    BY <2>1 DEF IInv, TablesType, Transactions, Outside
  <2>3. job'[tx.by] = job[tx.by] /\ tx' = tx
    BY <2>2 DEF IInv, Quiet
  <2> QED BY <2>1, <2>3 DEF At
<1> QED BY <1>1, <1>2, Assemble DEF Quiet

LEMMA ContinueQuietly ==
    ASSUME IInv, Quiet, NEW c \in Connections, Outside(c), NEW j, Continue(c, j),
           IsJob(j), Found(c)'
    PROVE  IInv'
<1>1. job' = [job EXCEPT ![c] = j] /\ answer' = [answer EXCEPT ![c] = None]
  BY DEF Continue
<1>2. job'[c] = j /\ answer'[c] = None
  BY <1>1 DEF IInv
<1>3. Sound(c)' /\ Told(c)'
  BY <1>2 DEF Sound, Told
<1> QED BY <1>1, <1>3, QuietStep

LEMMA AnswerQuietly ==
    ASSUME IInv, Quiet, NEW c \in Connections, Outside(c),
           NEW code \in Codes, NEW rows \in SUBSET FactRows, Answer(c, code, rows),
           code = "Ok" => \A row \in rows : Stored[row.id] = row,
           code = "DuplicateFact" => \A row \in rows : Stored[row.id] # None,
           code = "InvalidFact" => \A row \in rows : IntrinsicallyValid(row) =>
              \A d \in Derivations(row.provenance) :
                 /\ \A i \in d : Stored[i] # None
                 /\ \E i \in d : IsStrongerThan(row.warrant, Stored[i].warrant)
    PROVE  IInv'
<1> DEFINE a == [code |-> code, rows |-> rows]
<1>1. job' = [job EXCEPT ![c] = None] /\ answer' = [answer EXCEPT ![c] = a]
  BY DEF Answer
<1>2. job'[c] = None /\ answer'[c] = a /\ a \in Answers
  BY <1>1 DEF IInv, Answers
<1>3. Stored' = Stored
  BY DEF Quiet, Stored
<1>4. Told(c)'
  <2>1. \A row \in rows : Refused(c, row)'
    BY <1>2, <1>3 DEF Refused
  <2> QED BY <1>2, <1>3, <2>1 DEF Told
<1>5. Sound(c)'
  BY <1>2 DEF Sound
<1> HIDE DEF a
<1> QED BY <1>1, <1>2, <1>4, <1>5, QuietStep

-----------------------------------------------------------------------------
(* Validation *)

\* Validation that comes to its end decides as the log would.
LEMMA Decides ==
    ASSUME TablesType, NEW row \in FactRows, IntrinsicallyValid(row),
           NEW supported \in [Derivations(row.provenance) -> FactWarrant],
           Established([at |-> "support", row |-> row, pending |-> {},
                        supported |-> supported])
    PROVE  /\ ~TooStrong(row, supported) => Admissible(Stored, row)
           /\ TooStrong(row, supported) =>
                \A d \in Derivations(row.provenance) :
                   /\ \A i \in d : Stored[i] # None
                   /\ \E i \in d : IsStrongerThan(row.warrant, Stored[i].warrant)
<1> DEFINE ws == {supported[d] : d \in DOMAIN supported}
           ds == Derivations(row.provenance)
<1>1. DOMAIN supported = ds /\ ws \in SUBSET FactWarrant
  OBVIOUS
<1>2. row.warrant \in FactWarrant
  BY DEF FactRows
<1>3. ASSUME NEW d \in ds, NEW i \in d
      PROVE  /\ Stored[i] # None /\ Stored[i].warrant = Warrant(i)
             /\ Warrant(i) \in FactWarrant
             /\ ~IsStrongerThan(supported[d], Stored[i].warrant)
  <2>1. i \in FactIds
    BY InputsAreIds
  <2>2. facts[i] # None /\ ~IsStrongerThan(supported[d], Warrant(i))
    BY <1>1 DEF Established
  <2> QED BY <2>1, <2>2, StoredRows
<1>4. ASSUME NEW d \in ds
      PROVE  supported[d] = "Structural" \/ \E i \in d : supported[d] = Stored[i].warrant
  <2>1. supported[d] = "Structural" \/ \E i \in d : supported[d] = Warrant(i)
    BY <1>1 DEF Established
  <2> QED BY <1>3, <2>1
<1>5. /\ Strongest(ws) \in ws \cup {"Heuristic"}
      /\ \A w \in ws : ~IsStrongerThan(w, Strongest(ws))
  BY <1>1, StrongestIsJoin
<1>6. Strongest(ws) \in FactWarrant
  BY <1>1, <1>5 DEF FactWarrant
<1> HIDE DEF ws
<1>7. ASSUME ~TooStrong(row, supported) PROVE Admissible(Stored, row)
  <2>1. CASE row.provenance.kind # "Derived"
    BY <2>1 DEF Admissible, Derivations
  <2>2. CASE row.provenance.kind = "Derived"
    <3>1. ~IsStrongerThan(row.warrant, Strongest(ws))
      BY <1>7, <2>2 DEF TooStrong, ws
    <3>2. ds # {}
      BY <2>2 DEF FactRows, Provenances, Derivations
    <3>3. \E d \in ds : Supports(Stored, d, row.warrant)
      <4>1. CASE Strongest(ws) \in ws
        <5>1. PICK d \in ds : supported[d] = Strongest(ws)
          BY <1>1, <4>1 DEF ws
        <5>2. ASSUME NEW i \in d PROVE ~IsStrongerThan(row.warrant, Stored[i].warrant)
          <6>1. /\ ~IsStrongerThan(supported[d], Stored[i].warrant)
                /\ Stored[i].warrant \in FactWarrant
            BY <1>3
          <6> QED BY <1>2, <1>6, <3>1, <5>1, <6>1, StrengthType DEF IsStrongerThan
        <5> QED BY <1>3, <5>2 DEF Supports
      <4>2. CASE Strongest(ws) = "Heuristic"
        <5>1. PICK d \in ds : TRUE
          BY <3>2
        <5>2. \A w \in FactWarrant : ~IsStrongerThan(row.warrant, w)
          BY <1>2, <3>1, <4>2 DEF IsStrongerThan, FactWarrant, Strength
        <5>3. ASSUME NEW i \in d
              PROVE  Stored[i] # None /\ ~IsStrongerThan(row.warrant, Stored[i].warrant)
          <6>1. Stored[i] # None /\ Stored[i].warrant \in FactWarrant
            BY <1>3
          <6> QED BY <5>2, <6>1
        <5> QED BY <5>3 DEF Supports
      <4> QED BY <1>5, <4>1, <4>2
    <3> QED BY <1>3, <3>3 DEF Admissible
  <2> QED BY <2>1, <2>2
<1>8. ASSUME TooStrong(row, supported), NEW d \in ds
      PROVE  \E i \in d : IsStrongerThan(row.warrant, Stored[i].warrant)
  <2>1. IsStrongerThan(row.warrant, Strongest(ws)) /\ row.provenance.kind = "Derived"
    BY <1>8 DEF TooStrong, ws
  <2>2. supported[d] \in ws /\ supported[d] \in FactWarrant
    BY <1>1 DEF ws
  <2>3. IsStrongerThan(row.warrant, supported[d])
    BY <1>2, <1>5, <1>6, <2>1, <2>2, StrengthType DEF IsStrongerThan
  <2>4. ~IsStrongerThan(row.warrant, "Structural")
    BY <2>1 DEF IntrinsicallyValid, StrongestIntrinsicWarrant
  <2> QED BY <1>4, <2>3, <2>4
<1> QED BY <1>3, <1>7, <1>8

LEMMA ValidateKeeps ==
    ASSUME IInv, Quiet, NEW c \in Connections, Outside(c),
           NEW row \in Offered, IntrinsicallyValid(row),
           NEW pending \in SUBSET Inputs(row),
           NEW supported \in [Derivations(row.provenance) -> FactWarrant],
           Established([at |-> "support", row |-> row, pending |-> pending,
                        supported |-> supported]),
           Validate(c, row, pending, supported)
    PROVE  IInv'
<1> DEFINE j == [at |-> "support", row |-> row, pending |-> pending,
                 supported |-> supported]
<1>1. row \in FactRows /\ TablesType
  BY OfferedAreRows DEF IInv
<1>2. CASE pending # {}
  <2>1. Continue(c, j)
    BY <1>2 DEF Validate
  <2>2. IsJob(j)
    BY <1>1 DEF IsJob, SupportJob
  <2>3. job'[c] = j
    BY <2>1 DEF Continue, IInv
  <2>4. Established(j)'
    BY DEF Established, Quiet, Warrant
  <2>5. Found(c)'
    BY <2>3, <2>4 DEF Found, At, WriteJobs
  <2> QED BY <2>1, <2>2, <2>5, ContinueQuietly
<1>3. CASE pending = {} /\ TooStrong(row, supported)
  <2>1. Answer(c, "InvalidFact", {row})
    BY <1>3 DEF Validate
  <2>2. \A d \in Derivations(row.provenance) :
           /\ \A i \in d : Stored[i] # None
           /\ \E i \in d : IsStrongerThan(row.warrant, Stored[i].warrant)
    BY <1>1, <1>3, Decides
  <2> QED BY <1>1, <2>1, <2>2, AnswerQuietly DEF Codes
<1>4. CASE pending = {} /\ ~TooStrong(row, supported)
  <2> DEFINE k == [at |-> "duplicate", row |-> row]
  <2>1. Continue(c, k)
    BY <1>4 DEF Validate
  <2>2. k \in WriteJobs /\ IsJob(k)
    BY <1>1 DEF IsJob, WriteJobs
  <2>3. job'[c] = k
    BY <2>1 DEF Continue, IInv
  <2>4. Admissible(Stored, row) /\ Stored' = Stored
    BY <1>1, <1>4, Decides DEF Quiet, Stored
  <2>5. Found(c)'
    BY <2>3, <2>4 DEF Found, At
  <2> QED BY <2>1, <2>2, <2>5, ContinueQuietly
<1> QED BY <1>2, <1>3, <1>4

-----------------------------------------------------------------------------
(* insert_fact *)

LEMMA InsertFactKeeps ==
    ASSUME IInv, NEW c \in Connections, InsertFact(c)
    PROVE  IInv'
<1>1. Quiet /\ job[c] = None /\ Outside(c)
  BY DEF InsertFact, Quiet, Outside, At
<1>2. PICK row \in Offered :
         IF ~IntrinsicallyValid(row)
         THEN Answer(c, "InvalidFact", {row})
         ELSE Validate(c, row, Inputs(row),
                       [d \in Derivations(row.provenance) |-> "Structural"])
  BY DEF InsertFact
<1>3. row \in FactRows
  BY OfferedAreRows
<1>4. CASE ~IntrinsicallyValid(row)
  <2>1. Answer(c, "InvalidFact", {row}) /\ {row} \in SUBSET FactRows
    BY <1>2, <1>3, <1>4
  <2> QED BY <1>1, <1>4, <2>1, AnswerQuietly DEF Codes
<1>5. CASE IntrinsicallyValid(row)
  <2> DEFINE supported == [d \in Derivations(row.provenance) |-> "Structural"]
  <2>1. supported \in [Derivations(row.provenance) -> FactWarrant]
    BY DEF FactWarrant
  <2>2. Established([at |-> "support", row |-> row, pending |-> Inputs(row),
                     supported |-> supported])
    <3>1. \A d \in Derivations(row.provenance) : \A i \in d : <<d, i>> \in Inputs(row)
      BY DEF Inputs
    <3> QED BY <3>1 DEF Established
  <2>3. Validate(c, row, Inputs(row), supported)
    BY <1>2, <1>5
  <2> HIDE DEF supported
  <2> QED BY <1>1, <1>5, <2>1, <2>2, <2>3, ValidateKeeps
<1> QED BY <1>4, <1>5

LEMMA LookUpSupportKeeps ==
    ASSUME IInv, NEW c \in Connections, LookUpSupport(c)
    PROVE  IInv'
<1> DEFINE row == job[c].row
           pending == job[c].pending
           supported == job[c].supported
<1>1. At(c, "support") /\ Quiet /\ Outside(c)
  BY DEF LookUpSupport, Quiet, Outside, At
<1>2. /\ SupportJob(job[c]) /\ row \in Offered /\ row \in FactRows
      /\ IntrinsicallyValid(row) /\ Established(job[c])
  BY <1>1, OfferedAreRows
     DEF IInv, Sound, Found, At, IsJob, WriteJobs, ReadJobs, ScanJob
<1>3a. PICK d \in DOMAIN supported : \E i \in d :
          <<d, i>> \in pending /\ LookUp(c, row, pending, supported, d, i)
  BY DEF LookUpSupport
<1>3. PICK i \in d : <<d, i>> \in pending /\ LookUp(c, row, pending, supported, d, i)
  BY <1>3a
<1>4. /\ DOMAIN supported = Derivations(row.provenance)
      /\ supported \in [Derivations(row.provenance) -> FactWarrant]
      /\ pending \subseteq Inputs(row) /\ i \in FactIds
  BY <1>2, <1>3, InputsAreIds DEF SupportJob
<1>5. CASE facts[i] = None
  <2>1. Answer(c, "MissingSupport", {row}) /\ {row} \in SUBSET FactRows
    BY <1>2, <1>3, <1>5 DEF LookUp
  <2> QED BY <1>1, <2>1, AnswerQuietly DEF Codes
<1>6. CASE facts[i] # None
  <2> DEFINE rest == pending \ {<<d, i>>}
             w == Weaker(supported[d], Warrant(i))
             found == [supported EXCEPT ![d] = w]
  <2>1. Validate(c, row, rest, found)
    BY <1>3, <1>6 DEF LookUp
  <2>2. Warrant(i) \in FactWarrant /\ supported[d] \in FactWarrant
    BY <1>3, <1>4, <1>6, StoredRows DEF IInv
  <2>3. /\ w \in {supported[d], Warrant(i)} /\ w \in FactWarrant
        /\ ~IsStrongerThan(w, supported[d]) /\ ~IsStrongerThan(w, Warrant(i))
    BY <2>2, WeakerIsMeet
  <2>4. found \in [Derivations(row.provenance) -> FactWarrant] /\ rest \in SUBSET Inputs(row)
    BY <1>4, <2>3
  <2>5. Established([at |-> "support", row |-> row, pending |-> rest, supported |-> found])
    <3> SUFFICES ASSUME NEW e \in Derivations(row.provenance)
                 PROVE  /\ \A k \in e : <<e, k>> \notin rest =>
                              facts[k] # None /\ ~IsStrongerThan(found[e], Warrant(k))
                        /\ \/ found[e] = "Structural"
                           \/ \E k \in e : facts[k] # None /\ found[e] = Warrant(k)
      BY <2>4 DEF Established
    <3>1. /\ \A k \in e : <<e, k>> \notin pending =>
                facts[k] # None /\ ~IsStrongerThan(supported[e], Warrant(k))
          /\ \/ supported[e] = "Structural"
             \/ \E k \in e : facts[k] # None /\ supported[e] = Warrant(k)
      BY <1>2, <1>4 DEF Established
    <3>2. CASE e # d
      BY <1>4, <3>1, <3>2
    <3>3. CASE e = d
      <4>1. found[e] = w
        BY <1>4, <3>3
      <4>2. ASSUME NEW k \in e, <<e, k>> \notin rest
            PROVE  facts[k] # None /\ ~IsStrongerThan(w, Warrant(k))
        <5>1. CASE k = i
          BY <1>6, <2>3, <5>1
        <5>2. CASE k # i
          <6>1. facts[k] # None /\ ~IsStrongerThan(supported[d], Warrant(k))
            BY <3>1, <3>3, <4>2, <5>2
          <6>2. Warrant(k) \in FactWarrant
            BY <1>2, <6>1, InputsAreIds, StoredRows DEF IInv
          <6> QED BY <2>2, <2>3, <6>1, <6>2, StrengthType DEF IsStrongerThan
        <5> QED BY <5>1, <5>2
      <4>3. w = "Structural" \/ \E k \in e : facts[k] # None /\ w = Warrant(k)
        BY <1>3, <1>6, <2>3, <3>1, <3>3
      <4> QED BY <4>1, <4>2, <4>3
    <3> QED BY <3>2, <3>3
  <2> HIDE DEF rest, found
  <2> QED BY <1>1, <1>2, <2>1, <2>4, <2>5, ValidateKeeps
<1> QED BY <1>5, <1>6

\* An execution past its validation.
LEMMA Writing ==
    ASSUME IInv, NEW c \in Connections,
           NEW place \in {"duplicate", "insert", "args", "commit"}, At(c, place)
    PROVE  /\ job[c] \in WriteJobs /\ job[c] = [at |-> place, row |-> job[c].row]
           /\ job[c].row \in Offered /\ job[c].row \in FactRows
           /\ job[c].row.id \in FactIds
           /\ Admissible(Stored, job[c].row)
<1>1. job[c] \in WriteJobs
  BY DEF IInv, Sound, At, IsJob, SupportJob, WriteJobs, ReadJobs, ScanJob
<1>2. job[c].row \in Offered /\ Admissible(Stored, job[c].row)
  BY <1>1 DEF IInv, Sound, Found, At
<1>3. job[c].row \in FactRows /\ job[c].row.id \in FactIds
  BY <1>2, OfferedAreRows DEF FactRows
<1> QED BY <1>1, <1>2, <1>3 DEF WriteJobs, At

LEMMA LookUpDuplicateKeeps ==
    ASSUME IInv, NEW c \in Connections, LookUpDuplicate(c)
    PROVE  IInv'
<1>1. At(c, "duplicate") /\ Quiet /\ Outside(c)
  BY DEF LookUpDuplicate, Quiet, Outside, At
<1>2. /\ job[c] = [at |-> "duplicate", row |-> job[c].row]
      /\ job[c].row \in Offered /\ job[c].row \in FactRows /\ job[c].row.id \in FactIds
      /\ Admissible(Stored, job[c].row)
  BY <1>1, Writing
<1>3. CASE facts[job[c].row.id] # None
  <2>1. Answer(c, "DuplicateFact", {job[c].row}) /\ Stored[job[c].row.id] # None
    BY <1>2, <1>3, StoredRows DEF LookUpDuplicate, IInv
  <2> QED BY <1>1, <1>2, <2>1, AnswerQuietly DEF Codes
<1>4. CASE facts[job[c].row.id] = None
  <2> DEFINE j == [at |-> "insert", row |-> job[c].row]
  <2>1. [job[c] EXCEPT !.at = "insert"] = j
    BY <1>2
  <2>2. Continue(c, j)
    BY <1>4, <2>1 DEF LookUpDuplicate
  <2>3. IsJob(j) /\ job'[c] = j
    BY <1>2, <2>2 DEF IsJob, WriteJobs, Continue, IInv
  <2>4. Found(c)'
    <3>1. Stored' = Stored
      BY <1>1 DEF Quiet, Stored
    <3> QED BY <1>2, <2>3, <3>1 DEF Found, At
  <2> QED BY <1>1, <2>2, <2>3, <2>4, ContinueQuietly
<1> QED BY <1>3, <1>4

LEMMA InsertHeaderKeeps ==
    ASSUME IInv, NEW c \in Connections, InsertHeader(c)
    PROVE  IInv' /\ Grows
<1> DEFINE row == job[c].row
<1>1. At(c, "insert") /\ tx = None /\ Outside(c)
  BY DEF InsertHeader, Outside, At
<1>2. /\ job[c] = [at |-> "insert", row |-> row]
      /\ row \in Offered /\ row \in FactRows /\ row.id \in FactIds
      /\ Admissible(Stored, row)
  BY <1>1, Writing
<1>3. CASE Conflicts(row.id)
  <2>1. Answer(c, "Sql", {row}) /\ Quiet
    BY <1>3 DEF InsertHeader, Quiet
  <2>2. Grows
    BY <2>1 DEF IInv, Quiet, TablesType, Grows
  <2> QED BY <1>1, <1>2, <2>1, <2>2, AnswerQuietly DEF Codes
<1>4. CASE ~Conflicts(row.id)
  <2> DEFINE j == [at |-> "args", row |-> row]
             t == [by |-> c, id |-> row.id, header |-> Header(row), args |-> NoArgs]
  <2>1. [job[c] EXCEPT !.at = "args"] = j
    BY <1>2
  <2>2. /\ job' = [job EXCEPT ![c] = j] /\ answer' = [answer EXCEPT ![c] = None]
        /\ tx' = t /\ facts' = facts /\ factArgs' = factArgs
    BY <1>4, <2>1 DEF InsertHeader, Continue, Begin
  <2>3. t \in Transactions /\ t # None /\ t.by = c
    BY <1>2, RowsHeader, NoArgsIsAnArgList, NoneIsNothing DEF Transactions
  <2>4. j \in WriteJobs /\ j # None /\ job'[c] = j /\ answer'[c] = None
    BY <1>2, <2>2, NoneIsNothing DEF WriteJobs, IInv
  <2>5. Grows
    BY <2>2, <2>3 DEF IInv, TablesType, Grows
  <2>6. LockHeld'
    BY <2>2, <2>3, <2>4 DEF LockHeld, At
  <2>7. Sound(c)' /\ Told(c)'
    <3>1. Stored' = Stored
      BY <2>2 DEF Stored
    <3>2. Found(c)'
      BY <1>2, <1>4, <2>2, <2>3, <2>4, <3>1 DEF Found, At, Conflicts
    <3> QED BY <2>4, <3>2 DEF Sound, Told, IsJob
  <2>8. \A d \in Connections : ~At(d, "args") /\ ~At(d, "commit")
    BY <1>1 DEF IInv, Sound, Found, At
  <2> HIDE DEF j, t
  <2> QED BY <2>2, <2>5, <2>6, <2>7, <2>8, Assemble
<1> QED BY <1>3, <1>4

\* Under the write lock nobody else is inserting.
LEMMA LockedOut ==
    ASSUME IInv, NEW c \in Connections, At(c, "args") \/ At(c, "commit")
    PROVE  /\ tx \in Transactions /\ tx.by = c /\ tx.id = job[c].row.id
           /\ tx.header = Header(job[c].row) /\ facts[tx.id] = None
           /\ \A d \in Connections \ {c} : ~At(d, "args") /\ ~At(d, "commit")
<1>1. \A d \in Connections : At(d, "args") \/ At(d, "commit") => tx # None /\ tx.by = d
  BY DEF IInv, Sound, Found, At
<1>2. /\ tx # None /\ tx.by = c /\ tx.id = job[c].row.id
      /\ tx.header = Header(job[c].row) /\ facts[tx.id] = None
  BY DEF IInv, Sound, Found, At
<1> QED BY <1>1, <1>2 DEF IInv, TablesType

LEMMA InsertArgsKeeps ==
    ASSUME IInv, NEW c \in Connections, InsertArgs(c)
    PROVE  IInv' /\ Grows
<1> DEFINE row == job[c].row
           j == [at |-> "commit", row |-> row]
           t == [tx EXCEPT !.args = row.args]
<1>1. At(c, "args")
  BY DEF InsertArgs
<1>2. /\ job[c] = [at |-> "args", row |-> row]
      /\ row \in Offered /\ row \in FactRows /\ row.id \in FactIds /\ row.args \in ArgLists
      /\ Admissible(Stored, row)
  BY <1>1, Writing DEF FactRows
<1>3. /\ tx \in Transactions /\ tx.by = c /\ tx.id = row.id
      /\ tx.header = Header(row) /\ facts[tx.id] = None
      /\ \A d \in Connections \ {c} : ~At(d, "args") /\ ~At(d, "commit")
  BY <1>1, LockedOut
<1>4. [job[c] EXCEPT !.at = "commit"] = j
  BY <1>2
<1>5. /\ job' = [job EXCEPT ![c] = j] /\ answer' = [answer EXCEPT ![c] = None]
      /\ tx' = t /\ facts' = facts /\ factArgs' = factArgs
  BY <1>4 DEF InsertArgs, Continue
<1>6. /\ t \in Transactions /\ t # None /\ t.by = c /\ t.id = row.id
      /\ t.header = Header(row) /\ t.args = row.args
  BY <1>2, <1>3, NoneIsNothing DEF Transactions
<1>7. j \in WriteJobs /\ j # None /\ job'[c] = j /\ answer'[c] = None
  BY <1>2, <1>5, NoneIsNothing DEF WriteJobs, IInv
<1>8. Grows
  BY <1>5, <1>6 DEF IInv, TablesType, Grows
<1>9. LockHeld'
  BY <1>5, <1>6, <1>7 DEF LockHeld, At
<1>10. Sound(c)' /\ Told(c)'
  <2>1. Stored' = Stored
    BY <1>5 DEF Stored
  <2>2. Found(c)'
    BY <1>2, <1>3, <1>5, <1>6, <1>7, <2>1 DEF Found, At
  <2> QED BY <1>7, <2>2 DEF Sound, Told, IsJob
<1> HIDE DEF j, t
<1> QED BY <1>3, <1>5, <1>8, <1>9, <1>10, Assemble

\* A commit adds the row that was offered, under its free id.
LEMMA CommitStores ==
    ASSUME IInv, NEW c \in Connections, Commit(c)
    PROVE  /\ job[c].row \in Offered /\ Admissible(Stored, job[c].row)
           /\ Stored[job[c].row.id] = None
           /\ Stored' = [Stored EXCEPT ![job[c].row.id] = job[c].row]
           /\ Grows /\ tx' = None
           /\ \A d \in Connections \ {c} : ~At(d, "args") /\ ~At(d, "commit")
<1> DEFINE row == job[c].row
<1>1. At(c, "commit")
  BY DEF Commit
<1>2. row \in Offered /\ row \in FactRows /\ row.id \in FactIds /\ Admissible(Stored, row)
  BY <1>1, Writing
<1>3. /\ tx \in Transactions /\ tx.by = c /\ tx.id = row.id
      /\ tx.header = Header(row) /\ facts[tx.id] = None
      /\ \A d \in Connections \ {c} : ~At(d, "args") /\ ~At(d, "commit")
  BY <1>1, LockedOut
<1>4. tx.args = row.args
  BY <1>1 DEF IInv, Sound, Found, At
<1>5. /\ facts' = [facts EXCEPT ![row.id] = Header(row)]
      /\ factArgs' = [factArgs EXCEPT ![row.id] = row.args]
      /\ tx' = None
  BY <1>3, <1>4 DEF Commit
<1>6. Header(row) \in Headers /\ Header(row) # None /\ row.args \in ArgLists
      /\ Row(row.id, Header(row), row.args) = row
  BY <1>2, RowsHeader, NoneIsNothing DEF FactRows
<1>7. /\ facts' \in [FactIds -> Headers \cup {None}] /\ factArgs' \in [FactIds -> ArgLists]
      /\ facts'[row.id] = Header(row) /\ factArgs'[row.id] = row.args
      /\ \A id \in FactIds : id # row.id => facts'[id] = facts[id] /\ factArgs'[id] = factArgs[id]
  BY <1>2, <1>5, <1>6 DEF IInv, TablesType
<1>8. Grows
  BY <1>3, <1>5, <1>7 DEF TablesType, Grows
<1>9. Stored' = [Stored EXCEPT ![row.id] = row]
  <2>1. Stored'[row.id] = row
    BY <1>2, <1>6, <1>7 DEF Stored
  <2>2. \A id \in FactIds : id # row.id => Stored'[id] = Stored[id]
    BY <1>7 DEF Stored
  <2>3. Stored = [id \in FactIds |-> Stored[id]] /\ Stored' = [id \in FactIds |-> Stored'[id]]
    BY DEF Stored
  <2> QED BY <1>2, <2>1, <2>2, <2>3
<1>10. Stored[row.id] = None
  BY <1>2, <1>3 DEF Stored
<1> QED BY <1>2, <1>3, <1>5, <1>8, <1>9, <1>10

LEMMA CommitKeeps ==
    ASSUME IInv, NEW c \in Connections, Commit(c)
    PROVE  IInv' /\ Grows
<1> DEFINE row == job[c].row
           a == [code |-> "Ok", rows |-> {row}]
<1>1. /\ Grows /\ tx' = None /\ Stored' = [Stored EXCEPT ![row.id] = row]
      /\ \A d \in Connections \ {c} : ~At(d, "args") /\ ~At(d, "commit")
  BY CommitStores
<1>2. row \in FactRows /\ row.id \in FactIds
  BY CommitStores, OfferedAreRows DEF FactRows
<1>3. job' = [job EXCEPT ![c] = None] /\ answer' = [answer EXCEPT ![c] = a]
  BY DEF Commit, Answer
<1>4. job'[c] = None /\ answer'[c] = a /\ a \in Answers
  BY <1>2, <1>3 DEF IInv, Answers, Codes
<1>5. Stored'[row.id] = row
  BY <1>1, <1>2 DEF Stored
<1>6. Sound(c)' /\ Told(c)' /\ LockHeld'
  BY <1>1, <1>4, <1>5 DEF Sound, Told, Refused, LockHeld
<1> HIDE DEF a
<1> QED BY <1>1, <1>3, <1>4, <1>6, Assemble

-----------------------------------------------------------------------------
(* fact and scan *)

LEMMA FactKeeps ==
    ASSUME IInv, NEW c \in Connections, Fact(c)
    PROVE  IInv'
<1>1. Quiet /\ Outside(c)
  BY DEF Fact, Quiet, Outside, At
<1>2. PICK id \in FactIds : Continue(c, [at |-> "header", id |-> id])
  BY DEF Fact
<1> DEFINE j == [at |-> "header", id |-> id]
<1>3. IsJob(j) /\ job'[c] = j
  BY <1>2 DEF IsJob, ReadJobs, Continue, IInv
<1>4. Found(c)'
  BY <1>3 DEF Found, At, WriteJobs
<1> QED BY <1>1, <1>2, <1>3, <1>4, ContinueQuietly

LEMMA ReadHeaderKeeps ==
    ASSUME IInv, NEW c \in Connections, ReadHeader(c)
    PROVE  IInv'
<1> DEFINE id == job[c].id
<1>1. At(c, "header") /\ Quiet /\ Outside(c)
  BY DEF ReadHeader, Quiet, Outside, At
<1>2. id \in FactIds
  BY <1>1 DEF IInv, Sound, At, IsJob, SupportJob, WriteJobs, ReadJobs, ScanJob
<1>3. CASE facts[id] = None
  <2>1. Answer(c, "Ok", {})
    BY <1>3 DEF ReadHeader
  <2> QED BY <1>1, <2>1, AnswerQuietly DEF Codes
<1>4. CASE facts[id] # None
  <2> DEFINE j == [at |-> "factArgs", id |-> id, header |-> facts[id]]
  <2>1. Continue(c, j)
    BY <1>4 DEF ReadHeader
  <2>2. IsJob(j) /\ job'[c] = j
    BY <1>2, <1>4, <2>1, StoredRows DEF IsJob, ReadJobs, Continue, IInv
  <2>3. Found(c)'
    BY <1>1, <2>2 DEF Found, At, WriteJobs, Quiet
  <2> QED BY <1>1, <2>1, <2>2, <2>3, ContinueQuietly
<1> QED BY <1>3, <1>4

LEMMA ReadArgsKeeps ==
    ASSUME IInv, NEW c \in Connections, ReadArgs(c)
    PROVE  IInv'
<1> DEFINE id == job[c].id
           row == Row(id, job[c].header, factArgs[id])
<1>1. At(c, "factArgs") /\ Quiet /\ Outside(c) /\ Answer(c, "Ok", {row})
  BY DEF ReadArgs, Quiet, Outside, At
<1>2. id \in FactIds /\ job[c].header \in Headers /\ facts[id] = job[c].header
  BY <1>1 DEF IInv, Sound, Found, At, IsJob, SupportJob, WriteJobs, ReadJobs, ScanJob
<1>3. Stored[id] = row /\ row \in FactRows /\ row.id = id
  BY <1>2, StoredRows, NoneIsNothing DEF IInv, Row
<1> HIDE DEF row
<1> QED BY <1>1, <1>3, AnswerQuietly DEF Codes

LEMMA ScanFromKeeps ==
    ASSUME IInv, Quiet, NEW c \in Connections, Outside(c),
           NEW headers, NEW rows \in SUBSET FactRows, ScanFrom(c, headers, rows),
           DOMAIN headers \subseteq FactIds, headers \in [DOMAIN headers -> Headers],
           \A id \in DOMAIN headers : facts[id] = headers[id],
           \A row \in rows : Stored[row.id] = row
    PROVE  IInv'
<1>1. CASE DOMAIN headers = {}
  <2>1. Answer(c, "Ok", rows)
    BY <1>1 DEF ScanFrom
  <2> QED BY <2>1, AnswerQuietly DEF Codes
<1>2. CASE DOMAIN headers # {}
  <2> DEFINE j == [at |-> "scanArgs", headers |-> headers, rows |-> rows]
  <2>1. Continue(c, j)
    BY <1>2 DEF ScanFrom
  <2>2. IsJob(j) /\ job'[c] = j
    BY <2>1 DEF IsJob, ScanJob, Continue, IInv
  <2>3. Stored' = Stored /\ facts' = facts
    BY DEF Quiet, Stored
  <2>4. Found(c)'
    BY <2>2, <2>3 DEF Found, At, WriteJobs
  <2> QED BY <2>1, <2>2, <2>4, ContinueQuietly
<1> QED BY <1>1, <1>2

LEMMA ScanKeeps ==
    ASSUME IInv, NEW c \in Connections, Scan(c)
    PROVE  IInv'
<1>1. Quiet /\ Outside(c)
  BY DEF Scan, Quiet, Outside, At
<1>2. PICK relation \in Relations :
         LET found == {id \in FactIds : facts[id] # None /\ facts[id].relation = relation}
         IN ScanFrom(c, [id \in found |-> facts[id]], {})
  BY DEF Scan
<1> DEFINE found == {id \in FactIds : facts[id] # None /\ facts[id].relation = relation}
           headers == [id \in found |-> facts[id]]
<1>3. /\ DOMAIN headers \subseteq FactIds /\ headers \in [DOMAIN headers -> Headers]
      /\ \A id \in DOMAIN headers : facts[id] = headers[id]
  BY StoredRows DEF IInv
<1>4. ScanFrom(c, headers, {})
  BY <1>2
<1> HIDE DEF headers
<1> QED BY <1>1, <1>3, <1>4, ScanFromKeeps

LEMMA ScanArgsKeeps ==
    ASSUME IInv, NEW c \in Connections, ScanArgs(c)
    PROVE  IInv'
<1>1. At(c, "scanArgs") /\ Quiet /\ Outside(c)
  BY DEF ScanArgs, Quiet, Outside, At
<1>2. /\ ScanJob(job[c])
      /\ \A id \in DOMAIN job[c].headers : facts[id] = job[c].headers[id]
      /\ \A row \in job[c].rows : Stored[row.id] = row
  BY <1>1 DEF IInv, Sound, Found, At, IsJob, SupportJob, WriteJobs, ReadJobs
<1>3. PICK id \in DOMAIN job[c].headers :
         ScanFrom(c, [i \in DOMAIN job[c].headers \ {id} |-> job[c].headers[i]],
                  job[c].rows \cup {Row(id, job[c].headers[id], factArgs[id])})
  BY DEF ScanArgs
<1> DEFINE row == Row(id, job[c].headers[id], factArgs[id])
           headers == [i \in DOMAIN job[c].headers \ {id} |-> job[c].headers[i]]
<1>4. id \in FactIds /\ job[c].headers[id] \in Headers /\ facts[id] = job[c].headers[id]
  BY <1>2 DEF ScanJob
<1>5. Stored[id] = row /\ row \in FactRows /\ row.id = id
  BY <1>4, StoredRows, NoneIsNothing DEF IInv, Row
<1>6. /\ DOMAIN headers \subseteq FactIds /\ headers \in [DOMAIN headers -> Headers]
      /\ \A i \in DOMAIN headers : facts[i] = headers[i]
  BY <1>2 DEF ScanJob
<1>7. job[c].rows \cup {row} \in SUBSET FactRows
  BY <1>2, <1>5 DEF ScanJob
<1>8. \A r \in job[c].rows \cup {row} : Stored[r.id] = r
  BY <1>2, <1>5
<1>9. ScanFrom(c, headers, job[c].rows \cup {row})
  BY <1>3
<1> HIDE DEF headers, row
<1> QED BY <1>1, <1>6, <1>7, <1>8, <1>9, ScanFromKeeps

-----------------------------------------------------------------------------
(* Failures *)

\* Whoever stops executing gives up the write lock, and nobody else does.
LEMMA ReleaseKeeps ==
    ASSUME IInv, NEW c \in Connections, Rollback(c), UNCHANGED <<facts, factArgs>>,
           NEW a \in Answers \cup {None},
           job' = [job EXCEPT ![c] = None], answer' = [answer EXCEPT ![c] = a], Told(c)'
    PROVE  IInv' /\ Grows
<1>1. tx' \in {tx, None} /\ (tx # None /\ tx.by # c => tx' = tx)
  BY DEF Rollback
<1>2. Grows
  BY <1>1 DEF IInv, TablesType, Grows
<1>3. job'[c] = None /\ Sound(c)'
  BY DEF IInv, Sound
<1>4. \A d \in Connections : At(d, "args") \/ At(d, "commit") => tx # None /\ tx.by = d
  BY DEF IInv, Sound, Found, At
<1>5. LockHeld'
  <2> SUFFICES ASSUME tx' # None
               PROVE  job'[tx'.by] # None /\ job'[tx'.by].at \in {"args", "commit"}
    BY DEF LockHeld, At
  <2>1. tx' = tx /\ tx # None /\ tx.by # c
    BY <1>1 DEF Rollback
  <2>2. job[tx.by] # None /\ job[tx.by].at \in {"args", "commit"}
    BY <2>1 DEF IInv, LockHeld, At
  <2>3. job'[tx.by] = job[tx.by]
    BY <2>1 DEF IInv, TablesType, Transactions
  <2> QED BY <2>1, <2>2, <2>3
<1>6. \A d \in Connections \ {c} :
         At(d, "args") \/ At(d, "commit") => tx' = tx /\ facts' = facts
  BY <1>1, <1>4
<1> QED BY <1>2, <1>3, <1>5, <1>6, Assemble

LEMMA StatementFailsKeeps ==
    ASSUME IInv, NEW c \in Connections, StatementFails(c)
    PROVE  IInv' /\ Grows
<1> DEFINE a == [code |-> "Sql", rows |-> {}]
<1>1. /\ Rollback(c) /\ UNCHANGED <<facts, factArgs>>
      /\ job' = [job EXCEPT ![c] = None] /\ answer' = [answer EXCEPT ![c] = a]
  BY DEF StatementFails, Answer
<1>2. a \in Answers /\ answer'[c] = a
  BY <1>1 DEF Answers, Codes, IInv
<1>3. Told(c)'
  BY <1>2 DEF Told
<1> HIDE DEF a
<1> QED BY <1>1, <1>2, <1>3, ReleaseKeeps

LEMMA CallerLostKeeps ==
    ASSUME IInv, NEW c \in Connections, CallerLost(c)
    PROVE  IInv' /\ Grows
<1>1. answer'[c] = None /\ Told(c)'
  BY DEF CallerLost, IInv, Told
<1> QED BY <1>1, ReleaseKeeps DEF CallerLost

-----------------------------------------------------------------------------
(* Theorems *)

LEMMA QuietGrows == IInv /\ Quiet => Grows
BY DEF IInv, Quiet, TablesType, Grows

\* Every step keeps the invariant, and only a commit touches the tables.
LEMMA StepKeeps ==
    ASSUME IInv, NEW c \in Connections,
           \/ InsertFact(c) \/ LookUpSupport(c) \/ LookUpDuplicate(c)
           \/ InsertHeader(c) \/ InsertArgs(c)
           \/ Fact(c) \/ ReadHeader(c) \/ ReadArgs(c)
           \/ Scan(c) \/ ScanArgs(c)
           \/ StatementFails(c) \/ CallerLost(c)
    PROVE  IInv' /\ Grows /\ Stored' = Stored
<1> USE QuietGrows
<1>1. CASE InsertFact(c)
  BY <1>1, InsertFactKeeps DEF InsertFact, Quiet, Stored
<1>2. CASE LookUpSupport(c)
  BY <1>2, LookUpSupportKeeps DEF LookUpSupport, Quiet, Stored
<1>3. CASE LookUpDuplicate(c)
  BY <1>3, LookUpDuplicateKeeps DEF LookUpDuplicate, Quiet, Stored
<1>4. CASE InsertHeader(c)
  <2>1. facts' = facts /\ factArgs' = factArgs
    BY <1>4 DEF InsertHeader, Begin
  <2> QED BY <1>4, <2>1, InsertHeaderKeeps DEF Stored
<1>5. CASE InsertArgs(c)
  BY <1>5, InsertArgsKeeps DEF InsertArgs, Stored
<1>6. CASE Fact(c)
  BY <1>6, FactKeeps DEF Fact, Quiet, Stored
<1>7. CASE ReadHeader(c)
  BY <1>7, ReadHeaderKeeps DEF ReadHeader, Quiet, Stored
<1>8. CASE ReadArgs(c)
  BY <1>8, ReadArgsKeeps DEF ReadArgs, Quiet, Stored
<1>9. CASE Scan(c)
  BY <1>9, ScanKeeps DEF Scan, Quiet, Stored
<1>10. CASE ScanArgs(c)
  BY <1>10, ScanArgsKeeps DEF ScanArgs, Quiet, Stored
<1>11. CASE StatementFails(c)
  BY <1>11, StatementFailsKeeps DEF StatementFails, Stored
<1>12. CASE CallerLost(c)
  BY <1>12, CallerLostKeeps DEF CallerLost, Stored
<1> QED BY <1>1, <1>2, <1>3, <1>4, <1>5, <1>6, <1>7, <1>8, <1>9, <1>10, <1>11, <1>12

LEMMA NextKeeps == IInv /\ [Next]_vars => IInv' /\ Grows
<1> SUFFICES ASSUME IInv, [Next]_vars PROVE IInv' /\ Grows
  OBVIOUS
<1>1. CASE UNCHANGED vars
  <2>1. Grows
    BY <1>1 DEF vars, IInv, TablesType, Grows
  <2>2. \A c \in Connections : (Sound(c) /\ Told(c))'
    <3> SUFFICES ASSUME NEW c \in Connections PROVE (Sound(c) /\ Told(c))'
      OBVIOUS
    <3>1. job'[c] = job[c] /\ answer'[c] = answer[c] /\ tx' = tx /\ facts' = facts
      BY <1>1 DEF vars
    <3> QED BY <2>1, <3>1, OthersKept
  <2>3. LockHeld'
    BY <1>1 DEF vars, IInv, LockHeld, At
  <2> QED BY <1>1, <2>1, <2>2, <2>3 DEF IInv, vars, Grows
<1>2. ASSUME NEW c \in Connections, Commit(c) PROVE IInv' /\ Grows
  BY <1>2, CommitKeeps
<1> QED BY <1>1, <1>2, StepKeeps DEF Next

\* The strengthened invariant holds in every reachable state.
THEOREM StoreInductive == Spec => []IInv
BY Initially, NextKeeps, PTL DEF Spec

\* Every variable keeps its type.
THEOREM StoreTypeCorrect == Spec => []TypeOK
BY StoreInductive, InvariantImplies, PTL

\* What an execution found out is still true when it uses it, for any number
\* of connections.
THEOREM FindingsStay == Spec => []JobsSound
BY StoreInductive, InvariantImplies, PTL

\* What a caller was told is stored as it was told.
THEOREM AnswersStay == Spec => []AnswersHold
BY StoreInductive, InvariantImplies, PTL

\* A refusal was justified and stays so.
THEOREM RefusalsStay == Spec => []RefusalsHold
BY StoreInductive, InvariantImplies, PTL

\* What a caller was told stays true, a confirmation and a refusal alike.
THEOREM VerdictsStay == Spec => []VerdictsHold
<1>1. AnswersHold /\ RefusalsHold => VerdictsHold
  BY DEF VerdictsHold
<1> QED
  BY <1>1, AnswersStay, RefusalsStay, PTL

\* No step of any caller changes a stored fact.
THEOREM StoredFactsStay == Spec => FactsImmutable
<1>1. IInv /\ [Next]_vars =>
        [\A id \in FactIds : facts[id] # None =>
            facts'[id] = facts[id] /\ factArgs'[id] = factArgs[id]]_vars
  BY NextKeeps DEF Grows
<1> QED BY <1>1, StoreInductive, PTL DEF Spec, FactsImmutable
-----------------------------------------------------------------------------
(* The abstract log *)

LEMMA SameAdmissible ==
    ASSUME NEW row PROVE Log!Admissible(Stored, row) <=> Admissible(Stored, row)
BY DEF Admissible, Supports, IntrinsicallyValid, StrongestIntrinsicWarrant,
       StrongestWarrant, IsStrongerThan, Strength, Derivations,
       Log!Admissible, Log!Supports, Log!IntrinsicallyValid,
       Log!StrongestIntrinsicWarrant, Log!StrongestWarrant,
       Log!IsStrongerThan, Log!Strength, Log!Derivations

LEMMA CommitAppends ==
    ASSUME IInv, NEW c \in Connections, Commit(c)
    PROVE  Log!Next
BY CommitStores, SameAdmissible DEF Log!Next, Log!Append

-----------------------------------------------------------------------------
(* Groundedness is inductive in the log beside the type: a set closed in   *)
(* the longer log is closed in the shorter one, hence holds the inputs of  *)
(* the new fact, hence the new fact.                                       *)

\* The log and the store mean the same by facts and warrants.
LEMMA SameFacts ==
    /\ Log!FactRows = FactRows /\ Log!Provenances = Provenances
    /\ Log!FactWarrant = FactWarrant
    /\ \A v, w : Log!IsStrongerThan(v, w) <=> IsStrongerThan(v, w)
BY DEF Log!FactRows, Log!Provenances, Log!SourceEvidence, Log!FactWarrant,
       Log!IsStrongerThan, Log!Strength,
       FactRows, Provenances, SourceEvidence, FactWarrant, IsStrongerThan, Strength

LEMMA LogInitially == Log!Init => Log!LogInv
<1> SUFFICES ASSUME Log!Init PROVE Log!LogInv
  OBVIOUS
<1>1. Log!LogType
  BY DEF Log!Init, Log!LogType
<1>2. Log!StoredIds = {}
  BY DEF Log!Init, Log!StoredIds
<1>3. Log!Grounded
  BY <1>2 DEF Log!Grounded
<1> QED BY <1>1, <1>3 DEF Log!LogInv

\* Appending a fact keeps every other fact as it is.
LEMMA AppendGrows ==
    ASSUME Log!LogType, NEW row \in FactRows, Log!Append(row)
    PROVE  /\ Log!LogType'
           /\ Stored'[row.id] = row
           /\ \A id \in FactIds : id # row.id => Stored'[id] = Stored[id]
           /\ Log!StoredIds' = Log!StoredIds \cup {row.id}
           /\ row.id \in FactIds
<1>1. row.id \in FactIds
  BY DEF FactRows
<1>2. row # None
  BY NoneIsNoRow
<1> QED BY <1>1, <1>2, SameFacts DEF Log!Append, Log!LogType, Log!StoredIds

LEMMA AppendKeepsGrounded ==
    ASSUME Log!LogInv, NEW row \in FactRows, Log!Append(row)
    PROVE  Log!Grounded'
<1> USE DEF Log!LogInv
<1>1. /\ Stored'[row.id] = row
      /\ \A id \in FactIds : id # row.id => Stored'[id] = Stored[id]
      /\ Log!StoredIds' = Log!StoredIds \cup {row.id}
      /\ row.id \in FactIds
  BY AppendGrows
<1> SUFFICES ASSUME NEW w \in FactWarrant, NEW facs \in SUBSET FactIds,
                    Log!ClosedFor(facs, w)',
                    NEW id \in Log!StoredIds', ~IsStrongerThan(w, Stored'[id].warrant)
             PROVE  id \in facs
  BY SameFacts DEF Log!Grounded
<1>2. Stored[row.id] = None /\ Admissible(Stored, row)
  BY SameAdmissible DEF Log!Append
<1>3. Log!StoredIds = {i \in FactIds : Stored[i] # None}
  BY DEF Log!StoredIds
<1>4. \A i \in Log!StoredIds' :
         \/ IsStrongerThan(w, Stored'[i].warrant)
         \/ i \in facs
         \/ /\ Stored'[i].provenance.kind = "Derived"
            /\ \A d \in Stored'[i].provenance.derivations : ~(d \subseteq facs)
  BY SameFacts DEF Log!ClosedFor
<1>5. Log!ClosedFor(facs, w)
  <2> SUFFICES ASSUME NEW i \in Log!StoredIds
               PROVE  \/ IsStrongerThan(w, Stored[i].warrant)
                      \/ i \in facs
                      \/ /\ Stored[i].provenance.kind = "Derived"
                         /\ \A d \in Stored[i].provenance.derivations : ~(d \subseteq facs)
    BY SameFacts DEF Log!ClosedFor
  <2>1. Stored'[i] = Stored[i] /\ i \in Log!StoredIds'
    BY <1>1, <1>2, <1>3
  <2> QED BY <1>4, <2>1
<1>6. \A i \in Log!StoredIds : ~IsStrongerThan(w, Stored[i].warrant) => i \in facs
  BY <1>5, SameFacts DEF Log!Grounded
<1>7. CASE id # row.id
  BY <1>1, <1>3, <1>6, <1>7
<1>8. CASE id = row.id
  <2>1. \/ id \in facs
        \/ /\ row.provenance.kind = "Derived"
           /\ \A d \in row.provenance.derivations : ~(d \subseteq facs)
    BY <1>1, <1>4, <1>8
  <2> SUFFICES ASSUME row.provenance.kind = "Derived"
               PROVE  \E d \in row.provenance.derivations : d \subseteq facs
    BY <2>1
  <2>2. PICK d \in row.provenance.derivations : Supports(Stored, d, row.warrant)
    BY <1>2 DEF Admissible, Derivations
  <2>3. d \subseteq FactIds
    BY <2>2 DEF FactRows, Provenances
  <2>4. ASSUME NEW i \in d PROVE i \in facs
    <3>1. Stored[i] # None /\ ~IsStrongerThan(row.warrant, Stored[i].warrant)
      BY <2>2 DEF Supports
    <3>2. Stored[i] \in FactRows
      BY <2>3, <3>1, SameFacts DEF Log!LogType
    <3>3. /\ Strength[w] \in Int /\ Strength[row.warrant] \in Int
          /\ Strength[Stored[i].warrant] \in Int
      BY <3>2, StrengthType DEF FactRows
    <3>4. ~IsStrongerThan(w, row.warrant)
      BY <1>1, <1>8
    <3>5. ~IsStrongerThan(w, Stored[i].warrant)
      BY <3>1, <3>3, <3>4 DEF IsStrongerThan
    <3> QED BY <1>3, <1>6, <2>3, <3>1, <3>5
  <2> QED BY <2>2, <2>4
<1> QED BY <1>7, <1>8

LEMMA LogInductive == Log!LogInv /\ [Log!Next]_Stored => Log!LogInv'
<1> SUFFICES ASSUME Log!LogInv, [Log!Next]_Stored PROVE Log!LogInv'
  OBVIOUS
<1>1. CASE UNCHANGED Stored
  BY <1>1 DEF Log!LogInv, Log!LogType, Log!Grounded, Log!ClosedFor, Log!StoredIds
<1>2. ASSUME NEW row \in Offered, Log!Append(row) PROVE Log!LogInv'
  BY <1>2, OfferedAreRows, AppendGrows, AppendKeepsGrounded DEF Log!LogInv
<1> QED BY <1>1, <1>2 DEF Log!Next

\* In every log that grows by admissible facts, every warrant is grounded in
\* facts that rest on evidence of their own.
THEOREM LogGrounded == Log!Spec => []Log!Grounded
<1>1. Log!Spec => []Log!LogInv
  BY LogInitially, LogInductive, PTL DEF Log!Spec
<1> QED BY <1>1, PTL DEF Log!LogInv

-----------------------------------------------------------------------------
(* Refinement *)

\* Every step of the store appends one admissible fact to the log or leaves
\* it as it is: what was validated before the transaction still holds in it.
THEOREM StoreKeepsLog == Spec => KeepsLog
<1>1. Init => Log!Init
  BY DEF Init, Stored, Log!Init
<1>2. IInv /\ [Next]_vars => [Log!Next]_Stored
  <2> SUFFICES ASSUME IInv, [Next]_vars PROVE Log!Next \/ Stored' = Stored
    OBVIOUS
  <2>1. CASE UNCHANGED vars
    BY <2>1 DEF vars, Stored
  <2>2. ASSUME NEW c \in Connections, Commit(c) PROVE Log!Next
    BY <2>2, CommitAppends
  <2> QED BY <2>1, <2>2, StepKeeps DEF Next
<1> QED BY <1>1, <1>2, StoreInductive, PTL DEF Spec, KeepsLog, Log!Spec

\* Whatever is inserted by whom and in which order, every stored warrant is
\* grounded in evidence: the store keeps a log, and every log is grounded.
THEOREM StoreGrounded == Spec => []WarrantsGrounded
<1>1. Log!Grounded => WarrantsGrounded
  BY DEF WarrantsGrounded
<1> QED BY <1>1, LogGrounded, StoreKeepsLog, PTL DEF KeepsLog
=============================================================================
