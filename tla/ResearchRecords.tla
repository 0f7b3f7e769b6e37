---------------------------- MODULE ResearchRecords ----------------------------
(***************************************************************************)
(* The research records of crates/atlas-schema/src/research.rs as far as   *)
(* the store looks at them: what each kind refers to, what has to fit, and *)
(* the rows it is stored as (crates/atlas-store/src/migration.rs, V2).     *)
(*                                                                         *)
(* A record has a kind, an id and the fields of its kind; what it says is  *)
(* left out.  Argument lists are compared as a whole, their length with    *)
(* their types.  A support expression is the sequence of the leaves its    *)
(* traversal meets, with Malformed where it meets a node that has no       *)
(* inputs or an impossible threshold.                                      *)
(***************************************************************************)
EXTENDS Naturals, Sequences, FiniteSets

CONSTANTS Offered,   \* the records that callers may insert
          None,      \* no record, row or transaction
          Malformed  \* a node of an expression that no store accepts

\* Rows are named by table, id and position; only targets have positions.
Name(kind, id) == <<kind, id, 0>>
NameOf(row) == IF row.kind = "target" THEN <<"target", row.id, row.position>>
               ELSE Name(row.kind, row.id)

Provisional == {"proposal", "falsifier", "plan", "run", "assessment"}

Elements(s) == {s[i] : i \in 1..Len(s)}
IsSequence(s) == s \in Seq(Elements(s))
NamesOf(kind, ids) == {Name(kind, id) : id \in ids}

-----------------------------------------------------------------------------
(* What callers offer *)

Kinds == {"schema", "scope", "receipt", "claim", "evidence", "circuit", "challenge",
          "proposal", "plan", "run", "assessment"}

\* The lists of a record are lists, and the leaves of an expression name
\* evidence or claims.
IsRecord(r) ==
    /\ r.kind \in Kinds
    /\ r.id # None
    /\ r.kind = "evidence" => IsSequence(r.targets)
    /\ r.kind \in {"circuit", "challenge"} =>
         /\ IsSequence(r.leaves)
         /\ \A leaf \in Elements(r.leaves) \ {Malformed} :
              leaf[1] \in {"evidence", "claim"} /\ leaf = Name(leaf[1], leaf[2])
    /\ r.kind = "proposal" => IsSequence(r.drafts) /\ IsSequence(r.falsifiers)
    /\ r.kind = "run" => IsSequence(r.receipts) /\ IsSequence(r.claims) /\ IsSequence(r.evidence)

ASSUME OfferedAreRecords == \A r \in Offered : IsRecord(r)

-----------------------------------------------------------------------------
(* Rows *)

\* The row of the evidence, and one for each of its targets.
TargetRow(evidence, position) ==
    [kind |-> "target", id |-> evidence.id, position |-> position,
     claim |-> evidence.targets[position].claim,
     scope |-> evidence.targets[position].scope]

FalsifierRow(proposal, position) ==
    [kind |-> "falsifier", id |-> proposal.falsifiers[position].id,
     proposal |-> proposal.id]

\* What one insertion writes, in order.
Rows(r) ==
    CASE r.kind = "evidence" ->
           <<r>> \o [i \in 1..Len(r.targets) |-> TargetRow(r, i)]
      [] r.kind = "proposal" ->
           <<r>> \o [i \in 1..Len(r.falsifiers) |-> FalsifierRow(r, i)]
      [] OTHER -> <<r>>

\* REFERENCES clauses.
ForeignKeys(row) ==
    CASE row.kind = "claim" ->
           {Name("schema", row.relation), Name("scope", row.scope)}
             \cup (IF row.supersedes = None THEN {} ELSE {Name("claim", row.supersedes)})
      [] row.kind \in {"evidence", "proposal"} -> {Name("receipt", row.receipt)}
      [] row.kind = "target" ->
           {Name("evidence", row.id), Name("claim", row.claim), Name("scope", row.scope)}
      [] row.kind \in {"circuit", "assessment"} -> {Name("claim", row.claim)}
      [] row.kind = "challenge" -> {Name("claim", row.claim), Name("scope", row.scope)}
      [] row.kind \in {"falsifier", "plan"} -> {Name("proposal", row.proposal)}
      [] row.kind = "run" -> {Name("plan", row.plan)}
      [] OTHER -> {}

\* UNIQUE clauses: a wire name and version, a scope's content, a claim's key
\* and content.
Keyed == {"schema", "scope", "claim"}

\* The faulty variant has no primary keys.
ViolatesKeys(row, rows) ==
    \/ row.kind \in Keyed /\ \E s \in rows : s.kind = row.kind /\ s.key = row.key
    \/ \E n \in ForeignKeys(row) : \A s \in rows : NameOf(s) # n

\* The row cannot be inserted beside these.
Violates(row, rows) ==
    \/ \E s \in rows : NameOf(s) = NameOf(row)
    \/ row.kind \in Keyed /\ \E s \in rows : s.kind = row.kind /\ s.key = row.key
    \/ \E n \in ForeignKeys(row) : \A s \in rows : NameOf(s) # n

-----------------------------------------------------------------------------
(* What validation looks at *)

\* A claim's arguments are those of its relation, and its scope is explicit
\* if the relation requires one.
ValidClaim(schema, args, explicit) ==
    /\ args = schema.args
    /\ schema.scoped => explicit

ValidEvidenceClass(schema, class) == class \in schema.admits

\* As far as these rows tell, the record fits what it refers to.
Fits(r, rows) ==
    /\ r.kind = "claim" =>
         \A schema \in rows, scope \in rows :
            /\ NameOf(schema) = Name("schema", r.relation)
            /\ NameOf(scope) = Name("scope", r.scope)
            => ValidClaim(schema, r.args, scope.explicit)
    /\ r.kind = "evidence" =>
         \A i \in 1..Len(r.targets) : \A claim \in rows, schema \in rows :
            /\ NameOf(claim) = Name("claim", r.targets[i].claim)
            /\ NameOf(schema) = Name("schema", claim.relation)
            => ValidEvidenceClass(schema, r.class)
    /\ r.kind = "proposal" =>
         \A i \in 1..Len(r.drafts) : \A schema \in rows :
            NameOf(schema) = Name("schema", r.drafts[i].relation)
            => ValidClaim(schema, r.drafts[i].args, r.drafts[i].explicit)

\* What a record says that no other row can make right: evidence without a
\* target, a malformed expression, two local claims of one id, a falsifier of
\* no local claim.
IllFormed(r) ==
    \/ r.kind = "evidence" /\ r.targets = <<>>
    \/ r.kind \in {"circuit", "challenge"} /\ Malformed \in Elements(r.leaves)
    \/ /\ r.kind = "proposal"
       /\ \/ \E i, j \in 1..Len(r.drafts) : i # j /\ r.drafts[i].local = r.drafts[j].local
          \/ \E f \in Elements(r.falsifiers) : \A d \in Elements(r.drafts) : d.local # f.local

\* Everything the record refers to, in columns or inside its JSON.
References(r) ==
    CASE r.kind = "evidence" ->
           {Name("receipt", r.receipt)}
             \cup NamesOf("claim", {t.claim : t \in Elements(r.targets)})
             \cup NamesOf("scope", {t.scope : t \in Elements(r.targets)})
      [] r.kind \in {"circuit", "challenge"} ->
           ForeignKeys(r) \cup (Elements(r.leaves) \ {Malformed})
      [] r.kind = "proposal" ->
           {Name("receipt", r.receipt)}
             \cup NamesOf("schema", {d.relation : d \in Elements(r.drafts)})
      [] r.kind = "run" ->
           {Name("plan", r.plan)} \cup NamesOf("receipt", Elements(r.receipts))
             \cup NamesOf("claim", Elements(r.claims))
             \cup NamesOf("evidence", Elements(r.evidence))
      [] OTHER -> ForeignKeys(r)

Stores(rows, name) == \E s \in rows : NameOf(s) = name
=============================================================================
