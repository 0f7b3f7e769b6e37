---------------------------- MODULE MCResearchStore ----------------------------
(* Instances of ResearchStore for TLC. *)
EXTENDS ResearchStore, TLC

CONSTANTS c1, c2

MCSymmetry == Permutations(Connections)

Schema(id, key, args, scoped, admits) ==
    [kind |-> "schema", id |-> id, key |-> key, args |-> args, scoped |-> scoped,
     admits |-> admits]
Scope(id, key, explicit) == [kind |-> "scope", id |-> id, key |-> key, explicit |-> explicit]
Claim(id, key, relation, scope, args, supersedes) ==
    [kind |-> "claim", id |-> id, key |-> key, relation |-> relation, scope |-> scope,
     args |-> args, supersedes |-> supersedes]
Evidence(id, class, targets) ==
    [kind |-> "evidence", id |-> id, class |-> class, receipt |-> 1, targets |-> targets]
Target(claim) == [claim |-> claim, scope |-> 1]

MCOffered ==
    {Schema(1, "r", "text", TRUE, {"Formal"}),
     Scope(1, "s", TRUE),
     [kind |-> "receipt", id |-> 1],
     Claim(1, "a", 1, 1, "text", None), Claim(1, "b", 1, 1, "text", 2),
     Claim(2, "c", 1, 1, "text", 1),
     Evidence(1, "Formal", <<Target(1), Target(2)>>),
     Evidence(1, "Empirical", <<Target(1)>>), Evidence(1, "Formal", <<>>),
     [kind |-> "circuit", id |-> 1, claim |-> 1,
      leaves |-> <<Name("evidence", 1), Name("claim", 2)>>],
     [kind |-> "challenge", id |-> 1, claim |-> 1, scope |-> 1, leaves |-> <<Malformed>>],
     [kind |-> "proposal", id |-> 1, receipt |-> 1,
      drafts |-> <<[local |-> 1, relation |-> 1, args |-> "text", explicit |-> TRUE]>>,
      falsifiers |-> <<[id |-> 1, local |-> 1]>>],
     [kind |-> "plan", id |-> 1, proposal |-> 1],
     [kind |-> "run", id |-> 1, plan |-> 1, receipts |-> <<1>>, claims |-> <<1>>,
      evidence |-> <<>>],
     [kind |-> "assessment", id |-> 1, claim |-> 1]}
=============================================================================
