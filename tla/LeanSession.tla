----------------------------- MODULE LeanSession -----------------------------
(***************************************************************************)
(* What atlasd promises of a project session, whatever happens inside it:  *)
(* the recorded documents are the truth; a Lean process that serves them   *)
(* serves exactly those; and a generation is served by at most one Lean    *)
(* process, so that a generation number a client read names the process it *)
(* was read from for as long as the project stays open.  Architecture v2,  *)
(* "daemon and project ownership" states it; AtlasDaemon is shown to       *)
(* implement it.                                                           *)
(***************************************************************************)
EXTENDS Naturals

CONSTANTS Projects, Uris, Texts, None

VARIABLE session

Documents == [Uris -> Texts \cup {None}]

Views == [pid : Nat, docs : Documents]

\* Documents on record, the current generation, whether a Lean process has
\* served it ("used"), and the process that serves it now with its view.
Sessions == [docs : Documents, gen : Nat, used : BOOLEAN,
             view : Views \cup {None}]

\* The record changes at one document at most.
Edited(old, new) ==
  \A u, w \in Uris : new[u] # old[u] /\ new[w] # old[w] => u = w

Faithful(s) == s.view # None => s.view.docs = s.docs

Init == session = [p \in Projects |-> None]

\* A project opens in its first generation with no documents.
OpenSession(p) ==
  /\ session[p] = None
  /\ session'[p] # None
  /\ session'[p].gen = 1
  /\ session'[p].docs = [u \in Uris |-> None]
  /\ Faithful(session'[p])

CloseSession(p) == session'[p] = None

\* The same generation goes on: its process may leave, and a process may come
\* only if the generation had none before.
SameGeneration(s, t) ==
  /\ t.gen = s.gen
  /\ s.used => t.used
  /\ t.view # None => /\ t.used
                      /\ \/ s.view # None /\ s.view.pid = t.view.pid
                         \/ ~s.used

\* A later generation begins, without a process.
NextGeneration(s, t) == t.gen = s.gen + 1 /\ ~t.used /\ t.view = None

Continue(p) ==
  /\ session[p] # None
  /\ session'[p] # None
  /\ Edited(session[p].docs, session'[p].docs)
  /\ Faithful(session'[p])
  /\ \/ SameGeneration(session[p], session'[p])
     \/ NextGeneration(session[p], session'[p])

Step(p) == OpenSession(p) \/ CloseSession(p) \/ Continue(p)

Next ==
  /\ session' \in [Projects -> Sessions \cup {None}]
  /\ \A p \in Projects : Step(p) \/ session'[p] = session[p]

Spec == Init /\ [][Next]_session
=============================================================================
