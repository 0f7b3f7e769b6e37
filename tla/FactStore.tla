------------------------------- MODULE FactStore -------------------------------
(***************************************************************************)
(* The fact half of crates/atlas-store/src/lib.rs: connections to one      *)
(* SQLite file, each running insert_fact, fact or scan.                    *)
(*                                                                         *)
(* A connection belongs to one caller (`&mut self`), and a step of it is   *)
(* one SQL statement, which SQLite runs against one state of the file.     *)
(* insert_fact validates and looks for duplicates outside its transaction, *)
(* and a fact is read in two statements, so other connections' commits     *)
(* fall between.  One transaction writes at a time; nobody sees it before  *)
(* it commits.  A statement may fail, and a caller may be lost anywhere,   *)
(* which rolls its transaction back.                                       *)
(***************************************************************************)
EXTENDS Facts

CONSTANT Connections

VARIABLES facts,      \* table facts: the header stored under each id, or None
          factArgs,   \* table fact_args: the arguments stored for each id
          tx,         \* the transaction that holds the write lock, or None
          job,        \* what each connection is executing, or None
          answer      \* what each connection returned, until its next call, or None

vars == <<facts, factArgs, tx, job, answer>>

\* Arguments are selected by fact id: none are found before they are stored.
NoArgs == <<>>

ASSUME NoArgsIsAnArgList == NoArgs \in ArgLists

-----------------------------------------------------------------------------
(* Rows on disk *)

WarrantName ==
    [Proved |-> "proved", Structural |-> "structural",
     Asserted |-> "asserted", Heuristic |-> "heuristic"]

ParseWarrant(name) == CHOOSE w \in FactWarrant : WarrantName[w] = name

Headers ==
    [relation : Relations, warrant : {WarrantName[w] : w \in FactWarrant},
     provenance : Provenances]

Header(row) ==
    [relation |-> row.relation, warrant |-> WarrantName[row.warrant],
     provenance |-> row.provenance]

Row(id, header, args) ==
    [id |-> id, relation |-> header.relation, args |-> args,
     warrant |-> ParseWarrant(header.warrant), provenance |-> header.provenance]

Warrant(id) == ParseWarrant(facts[id].warrant)

Stored ==
    [id \in FactIds |->
        IF facts[id] = None THEN None ELSE Row(id, facts[id], factArgs[id])]

Transactions == [by : Connections, id : FactIds, header : Headers, args : ArgLists]

-----------------------------------------------------------------------------
(* Executions and answers *)

\* The inputs still to be looked up, each with the derivation that needs it.
Inputs(row) ==
    UNION {{d} \X d : d \in Derivations(row.provenance)}

\* What an execution holds at each of its statements.
SupportJob(j) ==
    /\ j = [at |-> "support", row |-> j.row, pending |-> j.pending, supported |-> j.supported]
    /\ j.row \in FactRows
    /\ j.pending \subseteq Inputs(j.row)
    /\ j.supported \in [Derivations(j.row.provenance) -> FactWarrant]

WriteJobs == [at : {"duplicate", "insert", "args", "commit"}, row : FactRows]

ReadJobs ==
       [at : {"header"}, id : FactIds]
  \cup [at : {"factArgs"}, id : FactIds, header : Headers]

ScanJob(j) ==
    /\ j = [at |-> "scanArgs", headers |-> j.headers, rows |-> j.rows]
    /\ DOMAIN j.headers \subseteq FactIds
    /\ j.headers \in [DOMAIN j.headers -> Headers]
    /\ j.rows \subseteq FactRows

IsJob(j) ==
    \/ j.at = "support" /\ SupportJob(j)
    \/ j \in WriteJobs
    \/ j \in ReadJobs
    \/ j.at = "scanArgs" /\ ScanJob(j)

ASSUME NoneIsNothing == None \notin Headers \cup Transactions \cup WriteJobs

Codes == {"Ok", "InvalidFact", "MissingSupport", "DuplicateFact", "Sql"}

\* Of an insert: the row that was offered.  Of a read: the rows that were found.
Answers == [code : Codes, rows : SUBSET FactRows]

Answer(c, code, rows) ==
    /\ job' = [job EXCEPT ![c] = None]
    /\ answer' = [answer EXCEPT ![c] = [code |-> code, rows |-> rows]]

Continue(c, next) ==
    /\ job' = [job EXCEPT ![c] = next]
    /\ answer' = [answer EXCEPT ![c] = None]

At(c, place) == job[c] # None /\ job[c].at = place

Init ==
    /\ facts = [id \in FactIds |-> None]
    /\ factArgs = [id \in FactIds |-> NoArgs]
    /\ tx = None
    /\ job = [c \in Connections |-> None]
    /\ answer = [c \in Connections |-> None]

-----------------------------------------------------------------------------
(* insert_fact *)

\* The faulty variant takes derivations as required together.
TooStrongForAny(row, supported) ==
    /\ row.provenance.kind = "Derived"
    /\ \E d \in DOMAIN supported : IsStrongerThan(row.warrant, supported[d])

TooStrong(row, supported) ==
    /\ row.provenance.kind = "Derived"
    /\ IsStrongerThan(row.warrant, Strongest({supported[d] : d \in DOMAIN supported}))

\* Look up the next input; when none is left, compare the claimed warrant
\* with the strongest derivation.
Validate(c, row, pending, supported) ==
    IF pending # {}
    THEN Continue(c, [at |-> "support", row |-> row, pending |-> pending,
                      supported |-> supported])
    ELSE IF TooStrong(row, supported)
    THEN Answer(c, "InvalidFact", {row})
    ELSE Continue(c, [at |-> "duplicate", row |-> row])

InsertFact(c) ==
    /\ job[c] = None
    /\ \E row \in Offered :
         IF ~IntrinsicallyValid(row)
         THEN Answer(c, "InvalidFact", {row})
         ELSE Validate(c, row, Inputs(row),
                       [d \in Derivations(row.provenance) |-> "Structural"])
    /\ UNCHANGED <<facts, factArgs, tx>>

\* The faulty variant passes over an input that is not stored.
LookUpSkipping(c, row, pending, supported, d, i) ==
    IF facts[i] = None
    THEN Validate(c, row, pending \ {<<d, i>>}, supported)
    ELSE Validate(c, row, pending \ {<<d, i>>},
                  [supported EXCEPT ![d] = Weaker(@, Warrant(i))])

LookUp(c, row, pending, supported, d, i) ==
    IF facts[i] = None
    THEN Answer(c, "MissingSupport", {row})
    ELSE Validate(c, row, pending \ {<<d, i>>},
                  [supported EXCEPT ![d] = Weaker(@, Warrant(i))])

LookUpSupport(c) ==
    /\ At(c, "support")
    /\ \E d \in DOMAIN job[c].supported : \E i \in d :
         /\ <<d, i>> \in job[c].pending
         /\ LookUp(c, job[c].row, job[c].pending, job[c].supported, d, i)
    /\ UNCHANGED <<facts, factArgs, tx>>

LookUpDuplicate(c) ==
    /\ At(c, "duplicate")
    /\ IF facts[job[c].row.id] # None
       THEN Answer(c, "DuplicateFact", {job[c].row})
       ELSE Continue(c, [job[c] EXCEPT !.at = "insert"])
    /\ UNCHANGED <<facts, factArgs, tx>>

\* PRIMARY KEY of facts; the faulty variant replaces the row instead.
ReplacesRow(id) == FALSE

Conflicts(id) == facts[id] # None

Begin(c, row) ==
    /\ tx' = [by |-> c, id |-> row.id, header |-> Header(row), args |-> NoArgs]
    /\ UNCHANGED facts

\* The first statement of the transaction takes the write lock.
InsertHeader(c) ==
    /\ At(c, "insert")
    /\ tx = None
    /\ IF Conflicts(job[c].row.id)
       THEN Answer(c, "Sql", {job[c].row}) /\ UNCHANGED <<tx, facts>>
       ELSE /\ Continue(c, [job[c] EXCEPT !.at = "args"])
            /\ Begin(c, job[c].row)
    /\ UNCHANGED factArgs

InsertArgs(c) ==
    /\ At(c, "args")
    /\ tx' = [tx EXCEPT !.args = job[c].row.args]
    /\ Continue(c, [job[c] EXCEPT !.at = "commit"])
    /\ UNCHANGED <<facts, factArgs>>

Commit(c) ==
    /\ At(c, "commit")
    /\ facts' = [facts EXCEPT ![tx.id] = tx.header]
    /\ factArgs' = [factArgs EXCEPT ![tx.id] = tx.args]
    /\ tx' = None
    /\ Answer(c, "Ok", {job[c].row})

-----------------------------------------------------------------------------
(* fact and scan *)

Fact(c) ==
    /\ job[c] = None
    /\ \E id \in FactIds : Continue(c, [at |-> "header", id |-> id])
    /\ UNCHANGED <<facts, factArgs, tx>>

ReadHeader(c) ==
    /\ At(c, "header")
    /\ LET id == job[c].id IN
         IF facts[id] = None
         THEN Answer(c, "Ok", {})
         ELSE Continue(c, [at |-> "factArgs", id |-> id, header |-> facts[id]])
    /\ UNCHANGED <<facts, factArgs, tx>>

ReadArgs(c) ==
    /\ At(c, "factArgs")
    /\ Answer(c, "Ok", {Row(job[c].id, job[c].header, factArgs[job[c].id])})
    /\ UNCHANGED <<facts, factArgs, tx>>

ScanFrom(c, headers, rows) ==
    IF DOMAIN headers = {}
    THEN Answer(c, "Ok", rows)
    ELSE Continue(c, [at |-> "scanArgs", headers |-> headers, rows |-> rows])

Scan(c) ==
    /\ job[c] = None
    /\ \E relation \in Relations :
         LET found == {id \in FactIds : facts[id] # None /\ facts[id].relation = relation}
         IN ScanFrom(c, [id \in found |-> facts[id]], {})
    /\ UNCHANGED <<facts, factArgs, tx>>

ScanArgs(c) ==
    /\ At(c, "scanArgs")
    /\ \E id \in DOMAIN job[c].headers :
         ScanFrom(c, [i \in DOMAIN job[c].headers \ {id} |-> job[c].headers[i]],
                  job[c].rows \cup {Row(id, job[c].headers[id], factArgs[id])})
    /\ UNCHANGED <<facts, factArgs, tx>>

-----------------------------------------------------------------------------
(* Failures *)

Rollback(c) == tx' = IF tx # None /\ tx.by = c THEN None ELSE tx

\* A statement fails, a writer waited too long for the lock, or a commit
\* for its readers: the error is returned, and dropping the transaction
\* rolls it back.
StatementFails(c) ==
    /\ job[c] # None
    /\ Rollback(c)
    /\ Answer(c, "Sql", {})
    /\ UNCHANGED <<facts, factArgs>>

\* The caller's process is lost, or it drops the store.
CallerLost(c) ==
    /\ Rollback(c)
    /\ job' = [job EXCEPT ![c] = None]
    /\ answer' = [answer EXCEPT ![c] = None]
    /\ UNCHANGED <<facts, factArgs>>

Next ==
    \E c \in Connections :
        \/ InsertFact(c) \/ LookUpSupport(c) \/ LookUpDuplicate(c)
        \/ InsertHeader(c) \/ InsertArgs(c) \/ Commit(c)
        \/ Fact(c) \/ ReadHeader(c) \/ ReadArgs(c)
        \/ Scan(c) \/ ScanArgs(c)
        \/ StatementFails(c) \/ CallerLost(c)

Spec == Init /\ [][Next]_vars

-----------------------------------------------------------------------------
(* Properties *)

\* Every variable keeps its type.
TypeOK ==
    /\ facts \in [FactIds -> Headers \cup {None}]
    /\ factArgs \in [FactIds -> ArgLists]
    /\ tx \in Transactions \cup {None}
    /\ DOMAIN job = Connections
    /\ \A c \in Connections : job[c] # None => IsJob(job[c])
    /\ answer \in [Connections -> Answers \cup {None}]

\* What a caller was told stays true: a fact whose insertion was confirmed
\* is stored as it was offered, and a fact that was read is stored with
\* these arguments (two statements never mix two facts, and nothing that
\* was rolled back was seen).
AnswersHold ==
    \A c \in Connections :
        answer[c] # None /\ answer[c].code = "Ok" =>
            \A row \in answer[c].rows : Stored[row.id] = row

\* A refusal is justified for good.  A duplicate is stored.  A derived fact
\* refused for its warrant has all its inputs stored, and whichever
\* derivation is taken has an input that is too weak.
RefusalsHold ==
    \A c \in Connections : answer[c] # None => \A row \in answer[c].rows :
        /\ answer[c].code = "DuplicateFact" => Stored[row.id] # None
        /\ answer[c].code = "InvalidFact" /\ IntrinsicallyValid(row) =>
             \A d \in Derivations(row.provenance) :
                /\ \A i \in d : Stored[i] # None
                /\ \E i \in d : IsStrongerThan(row.warrant, Stored[i].warrant)

\* What a caller was told stays true, a confirmation and a refusal alike.
VerdictsHold == AnswersHold /\ RefusalsHold

Log == INSTANCE FactLog WITH log <- Stored

\* What validation has established of the derivations so far: each input
\* looked up is stored, and a derivation counts as its weakest one.
Established(j) ==
    \A d \in DOMAIN j.supported :
        /\ \A i \in d : <<d, i>> \notin j.pending =>
              facts[i] # None /\ ~IsStrongerThan(j.supported[d], Warrant(i))
        /\ \/ j.supported[d] = "Structural"
           \/ \E i \in d : facts[i] # None /\ j.supported[d] = Warrant(i)

\* What an execution found out in earlier statements is still true when it
\* goes on, whatever was committed meanwhile: supports, the admissibility of
\* the row, the free id under the write lock, headers read before arguments.
\* The write lock is held by the execution that is inserting.
JobsSound ==
    /\ \A c \in Connections : job[c] # None =>
         /\ At(c, "support") =>
              job[c].row \in Offered /\ IntrinsicallyValid(job[c].row) /\ Established(job[c])
         /\ job[c] \in WriteJobs => job[c].row \in Offered /\ Admissible(Stored, job[c].row)
         /\ At(c, "args") \/ At(c, "commit") =>
              /\ tx # None /\ tx.by = c
              /\ tx.id = job[c].row.id /\ tx.header = Header(job[c].row)
              /\ facts[tx.id] = None
         /\ At(c, "commit") => tx.args = job[c].row.args
         /\ At(c, "factArgs") => facts[job[c].id] = job[c].header
         /\ At(c, "scanArgs") =>
              /\ \A id \in DOMAIN job[c].headers : facts[id] = job[c].headers[id]
              /\ \A row \in job[c].rows : Stored[row.id] = row
    /\ tx # None => At(tx.by, "args") \/ At(tx.by, "commit")

\* "facts are immutable": a stored fact keeps its header and its arguments,
\* whatever is inserted under its id by callers that looked for it earlier.
FactsImmutable ==
    [][\A id \in FactIds : facts[id] # None =>
          facts'[id] = facts[id] /\ factArgs'[id] = factArgs[id]]_vars

\* No sequence of inserts makes a warrant stronger than what it rests on.
WarrantsGrounded == Log!Grounded

\* The store is a log of admissible facts: validation outside the
\* transaction admits no fact that validation inside would refuse.
KeepsLog == Log!Spec
=============================================================================
