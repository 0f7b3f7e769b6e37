----------------------------- MODULE ResearchStore -----------------------------
(***************************************************************************)
(* crates/atlas-store/src/research.rs: connections to one SQLite file,     *)
(* each running one of the insert operations, one SQL statement a step.    *)
(*                                                                         *)
(* Every operation looks up what its record refers to, one SELECT at a     *)
(* time and outside any transaction, validates it on the way and then      *)
(* writes: one INSERT, or for evidence and proposals a transaction of      *)
(* several.  Other connections commit in between, provisional rows may be  *)
(* discarded, a statement may fail and a caller may be lost.  One writer   *)
(* holds the file's write lock.  Completeness witnesses, a table no other   *)
(* record refers to, and updates of provisional rows are left out.         *)
(***************************************************************************)
EXTENDS ResearchRecords

CONSTANT Connections

\* The rows there can ever be.
StoredRows == UNION {Elements(Rows(r)) : r \in Offered}

ASSUME NoneIsNothing ==
    /\ None \notin [by : Connections, rows : SUBSET StoredRows]
    /\ None \notin [at : {"write"}, record : Offered, rows : Seq(StoredRows)]

VARIABLES db,      \* the committed rows of all tables
          tx,      \* the transaction that holds the write lock, or None
          job,     \* what each connection is executing, or None
          answer   \* what each connection returned, until its next call, or None

vars == <<db, tx, job, answer>>

-----------------------------------------------------------------------------
(* What each operation looks up, in order *)

Absent(name) == [want |-> "absent", name |-> name]
Present(name) == [want |-> "present", name |-> name]
\* The schema of the relation of the claim read under this name.
RelationOf(name) == [want |-> "relation", name |-> name]
\* Not a statement: the operation returns this error when it comes here.
Refuse(code) == [want |-> "refuse", code |-> code]

AllPresent(kind, ids) == [i \in 1..Len(ids) |-> Present(Name(kind, ids[i]))]

\* validate_evidence_expr
LeafLookUps(leaves) ==
    [i \in 1..Len(leaves) |->
        IF leaves[i] = Malformed THEN Refuse("InvalidResearchGraph") ELSE Present(leaves[i])]

ClaimLookUps(r) ==
    <<Present(Name("schema", r.relation)), Present(Name("scope", r.scope))>>
      \o IF r.supersedes = None THEN <<>> ELSE <<Present(Name("claim", r.supersedes))>>

\* What is looked up for a target, first to last.
TargetLookUp(target, step) ==
    CASE step = 0 -> Present(Name("claim", target.claim))
      [] step = 1 -> Present(Name("scope", target.scope))
      [] OTHER -> RelationOf(Name("claim", target.claim))

\* The faulty variant never asks which evidence the relation admits.
TargetLookUpsUnclassed(targets) ==
    [k \in 1 .. 2 * Len(targets) |-> TargetLookUp(targets[1 + (k - 1) \div 2], (k - 1) % 2)]

TargetLookUps(targets) ==
    [k \in 1 .. 3 * Len(targets) |-> TargetLookUp(targets[1 + (k - 1) \div 3], (k - 1) % 3)]

DuplicateLocals(drafts) ==
    \E i, j \in 1..Len(drafts) : i # j /\ drafts[i].local = drafts[j].local

FalsifierLookUp(r, falsifier) ==
    IF \A d \in Elements(r.drafts) : d.local # falsifier.local
    THEN Refuse("InvalidResearchGraph")
    ELSE Absent(Name("falsifier", falsifier.id))

ProposalLookUps(r) ==
    <<Present(Name("receipt", r.receipt))>>
      \o (IF DuplicateLocals(r.drafts) THEN <<Refuse("InvalidResearchGraph")>> ELSE <<>>)
      \o AllPresent("schema", [i \in 1..Len(r.drafts) |-> r.drafts[i].relation])
      \o [i \in 1..Len(r.falsifiers) |-> FalsifierLookUp(r, r.falsifiers[i])]

\* The faulty variant leaves a run to the columns of its table.
RunLookUpsPlan(r) == <<Present(Name("plan", r.plan))>>

RunLookUps(r) ==
    <<Present(Name("plan", r.plan))>>
      \o AllPresent("receipt", r.receipts) \o AllPresent("claim", r.claims)
      \o AllPresent("evidence", r.evidence)

LookUps(r) ==
    <<Absent(Name(r.kind, r.id))>> \o
    CASE r.kind = "claim" -> ClaimLookUps(r)
      [] r.kind = "evidence" ->
           <<Present(Name("receipt", r.receipt))>> \o TargetLookUps(r.targets)
      [] r.kind = "circuit" -> <<Present(Name("claim", r.claim))>> \o LeafLookUps(r.leaves)
      [] r.kind = "challenge" ->
           <<Present(Name("claim", r.claim)), Present(Name("scope", r.scope))>>
             \o LeafLookUps(r.leaves)
      [] r.kind = "proposal" -> ProposalLookUps(r)
      [] r.kind = "plan" -> <<Present(Name("proposal", r.proposal))>>
      [] r.kind = "run" -> RunLookUps(r)
      [] r.kind = "assessment" -> <<Present(Name("claim", r.claim))>>
      [] OTHER -> <<>>

-----------------------------------------------------------------------------
(* Executions *)

Codes == {"Ok", "DuplicateResearchRecord", "MissingResearchRecord",
          "InvalidResearchSchema", "InvalidResearchGraph", "Sql"}

Answer(c, code) ==
    /\ job' = [job EXCEPT ![c] = None]
    /\ answer' = [answer EXCEPT ![c] = code]

Continue(c, next) ==
    /\ job' = [job EXCEPT ![c] = next]
    /\ answer' = [answer EXCEPT ![c] = None]

At(c, place) == job[c] # None /\ job[c].at = place

Init ==
    /\ db = {}
    /\ tx = None
    /\ job = [c \in Connections |-> None]
    /\ answer = [c \in Connections |-> None]

\* On to the next look-up, and after the last one to the writes.
Proceed(c, r, pending, read) ==
    IF pending = <<>>
    THEN Continue(c, [at |-> "write", record |-> r, rows |-> Rows(r)])
    ELSE IF Head(pending).want = "refuse"
    THEN Answer(c, Head(pending).code)
    ELSE Continue(c, [at |-> "look", record |-> r, pending |-> pending, read |-> read])

\* Evidence is validated by itself first.
Insert(c) ==
    /\ job[c] = None
    /\ \E r \in Offered :
         IF r.kind = "evidence" /\ r.targets = <<>>
         THEN Answer(c, "InvalidResearchSchema")
         ELSE Proceed(c, r, LookUps(r), {})
    /\ UNCHANGED <<db, tx>>

Found(lookUp, read) ==
    IF lookUp.want = "relation"
    THEN LET claim == CHOOSE s \in read : NameOf(s) = lookUp.name
         IN {s \in db : NameOf(s) = Name("schema", claim.relation)}
    ELSE {s \in db : NameOf(s) = lookUp.name}

LookUp(c) ==
    /\ At(c, "look")
    /\ LET r == job[c].record
           lookUp == Head(job[c].pending)
           found == Found(lookUp, job[c].read)
           read == job[c].read \cup found
       IN IF lookUp.want = "absent"
          THEN IF found # {} THEN Answer(c, "DuplicateResearchRecord")
               ELSE Proceed(c, r, Tail(job[c].pending), job[c].read)
          ELSE IF found = {} THEN Answer(c, "MissingResearchRecord")
          ELSE IF ~Fits(r, read) THEN Answer(c, "InvalidResearchSchema")
          ELSE Proceed(c, r, Tail(job[c].pending), read)
    /\ UNCHANGED <<db, tx>>

-----------------------------------------------------------------------------
(* Writes *)

Transactional(r) == r.kind \in {"evidence", "proposal"}

\* One INSERT that commits by itself.
WriteRecord(c) ==
    /\ At(c, "write")
    /\ ~Transactional(job[c].record)
    /\ tx = None
    /\ IF Violates(job[c].record, db)
       THEN Answer(c, "Sql") /\ UNCHANGED db
       ELSE Answer(c, "Ok") /\ db' = db \cup {job[c].record}
    /\ UNCHANGED tx

Written(c) == IF tx # None /\ tx.by = c THEN tx.rows ELSE {}

Rollback(c) == tx' = IF tx # None /\ tx.by = c THEN None ELSE tx

\* The next INSERT of a transaction; the first one takes the write lock.
WriteRow(c) ==
    /\ At(c, "write")
    /\ Transactional(job[c].record)
    /\ job[c].rows # <<>>
    /\ tx # None => tx.by = c
    /\ LET row == Head(job[c].rows) IN
         IF Violates(row, db \cup Written(c))
         THEN Answer(c, "Sql") /\ Rollback(c)
         ELSE /\ Continue(c, [job[c] EXCEPT !.rows = Tail(@)])
              /\ tx' = [by |-> c, rows |-> Written(c) \cup {row}]
    /\ UNCHANGED db

Commit(c) ==
    /\ At(c, "write")
    /\ Transactional(job[c].record)
    /\ job[c].rows = <<>>
    /\ db' = db \cup tx.rows
    /\ tx' = None
    /\ Answer(c, "Ok")

-----------------------------------------------------------------------------
(* Failures, and users of the file that revise the workflow *)

\* A statement fails, or a writer waited too long for the lock.
StatementFails(c) ==
    /\ job[c] # None
    /\ Rollback(c)
    /\ Answer(c, "Sql")
    /\ UNCHANGED db

CallerLost(c) ==
    /\ job[c] # None
    /\ Rollback(c)
    /\ job' = [job EXCEPT ![c] = None]
    /\ UNCHANGED <<db, answer>>

\* DELETE of a provisional row; triggers keep the others.
DiscardRow(row) ==
    /\ tx = None
    /\ row.kind \in Provisional
    /\ \A s \in db : NameOf(row) \notin ForeignKeys(s)
    /\ db' = db \ {row}
    /\ UNCHANGED <<tx, job, answer>>

Next ==
    \/ \E c \in Connections :
         \/ Insert(c) \/ LookUp(c) \/ WriteRecord(c) \/ WriteRow(c) \/ Commit(c)
         \/ StatementFails(c) \/ CallerLost(c)
    \/ \E row \in db : DiscardRow(row)

Spec == Init /\ [][Next]_vars

-----------------------------------------------------------------------------
(* Properties *)

Log == INSTANCE ResearchLog WITH log <- db

\* However look-ups, commits, failures and discards of other callers fall
\* between the look-ups and the writes of an insertion, what a stored record
\* refers to is stored, and it fits that.
RecordsIntact == Log!Intact

\* Evidence is never stored without the rows it is found by, nor those rows
\* without it.
TargetsComplete == Log!TargetsIndexed

\* Two callers cannot make two claims supersede one another.
NoCircularSupersession == Log!SupersessionEnds

\* The links between records stay sound: they end at stored records that fit,
\* targets are whole, and supersession has an end.
LinksSound == RecordsIntact /\ TargetsComplete /\ NoCircularSupersession

\* Validation outside the transaction admits what validation inside would
\* admit, and records enter whole: the store implements the log.
KeepsLog == Log!Spec
=============================================================================
