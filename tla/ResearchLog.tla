------------------------------ MODULE ResearchLog ------------------------------
(***************************************************************************)
(* What a research store promises its callers.  A record enters whole or   *)
(* not at all, under ids and keys that are free, once everything it refers *)
(* to is stored and it fits what it refers to.  Claims, evidence and what  *)
(* they rest on stay; a provisional row may be discarded while no other    *)
(* row's columns refer to it.                                              *)
(***************************************************************************)
EXTENDS ResearchRecords

VARIABLE log    \* the stored rows

Init == log = {}

Admissible(rows, r) ==
    /\ ~IllFormed(r)
    /\ \A row \in Elements(Rows(r)) : \A s \in rows : NameOf(s) # NameOf(row)
    /\ r.kind \in Keyed => \A s \in rows : s.kind = r.kind => s.key # r.key
    /\ \A n \in References(r) : Stores(rows, n)
    /\ Fits(r, rows)

Enter(r) ==
    /\ log' = log \cup Elements(Rows(r))
    /\ Admissible(log, r)

Discardable(rows, row) ==
    /\ row.kind \in Provisional
    /\ \A s \in rows : NameOf(row) \notin ForeignKeys(s)

Discard(row) ==
    /\ Discardable(log, row)
    /\ log' = log \ {row}

Next ==
    \/ \E r \in Offered : Enter(r)
    \/ \E row \in log : Discard(row)

Spec == Init /\ [][Next]_log

-----------------------------------------------------------------------------

\* Every stored record is well-formed, what it refers to is stored, and it
\* fits that.  Only columns refer to what may be discarded.
Intact ==
    \A r \in log :
        /\ ~(r.kind # "target" /\ IllFormed(r))
        /\ \A n \in References(r) : Stores(log, n)
        /\ Fits(r, log)

\* The targets of evidence that can be found by claim are those it names.
TargetsIndexed ==
    {row \in log : row.kind = "target"} =
        UNION {{TargetRow(r, i) : i \in 1..Len(r.targets)} :
               r \in {e \in log : e.kind = "evidence"}}

\* Superseding claims leads to one that supersedes nothing: in every set of
\* claims there is one that supersedes none of them.
SupersessionEnds ==
    \A S \in SUBSET {r \in log : r.kind = "claim"} : S # {} =>
        \E r \in S : \A s \in S : r.supersedes # s.id
=============================================================================
