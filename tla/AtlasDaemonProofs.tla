-------------------------- MODULE AtlasDaemonProofs --------------------------
(***************************************************************************)
(* Theorems about AtlasDaemon, for every value of its constants.  Every    *)
(* step of the daemon changes one project at most, the one its execution   *)
(* works on, so each piece of an execution is shown once to preserve the   *)
(* invariant (the Preserves lemmas) and the actions cite the pieces they   *)
(* are built from.                                                         *)
(***************************************************************************)
EXTENDS AtlasDaemon, SequenceTheorems, TLAPS

-----------------------------------------------------------------------------
(* The inductive invariant *)

Calls == [who : Clients, req : Requests]

\* A child holds exactly these overlays and has one of them selected.
Serves(lean, overlays) ==
  /\ lean.docs = overlays
  /\ IF Open(overlays) = {} THEN lean.uri = None ELSE lean.uri \in Open(overlays)

\* A child that a project owns serves its overlays and is reported ready.
Sound(r) ==
  r.lean # None => Serves(r.lean, r.overlays) /\ r.state = "ready" /\ ~r.err

\* A project at rest without a child is reported degraded.
Rested(r) == r.lean = None => r.state = "degraded" /\ r.err

\* A stopped daemon has no projects: that is what its successor starts from.
ProjectsInv ==
  \A p \in Projects : proj[p] # None =>
    phase # "stopped" /\ Sound(proj[p]) /\ (Settled(p) => Rested(proj[p]))

IInv == TypeOK /\ JobShape /\ ProjectsInv

-----------------------------------------------------------------------------
(* Types of the values the pieces build *)

LEMMA NewLeanType ==
  ASSUME NEW pid \in Nat
  PROVE  NewLean(pid) \in LeanClients
BY DEF NewLean, LeanClients, Overlays, NoOverlays

LEMMA ConnectedType ==
  ASSUME NEW lean \in LeanClients, lean.uri \in Uris, lean.docs[lean.uri] # None
  PROVE  /\ Connected(lean) \in LeanClients
         /\ Connected(lean).docs = lean.docs
         /\ Connected(lean).uri = lean.uri
         /\ Connected(lean).alive = lean.alive
<1>1. [uri |-> lean.uri, text |-> lean.docs[lean.uri]] \in Sessions
  BY DEF LeanClients, Overlays, Sessions
<1> QED
  BY <1>1 DEF Connected, LeanClients

LEMMA NewProjectType ==
  ASSUME NEW launch \in Launches
  PROVE  NewProject(launch) \in ProjectRecords
BY DEF NewProject, ProjectRecords, Overlays, NoOverlays, LeanStates

LEMMA SnapshotType ==
  ASSUME TypeOK, NEW r \in ProjectRecords
  PROVE  Snapshot(r) \in Snapshots
BY DEF TypeOK, Snapshot, Snapshots, ProjectRecords, LeanClients

LEMMA RequestProject ==
  ASSUME NEW req \in Requests
  PROVE  req.project \in Projects
BY DEF Requests, OpenProjectRequests, StatusRequests, DocumentRequests,
       CloseDocumentRequests, FencedRequests

LEMMA NewJobType ==
  ASSUME TypeOK, NEW call \in Calls, NEW pc \in Awaits
  PROVE  /\ NewJob(call, pc) \in Jobs
         /\ NewJob(call, pc).req = call.req
         /\ NewJob(call, pc).pc = pc
         /\ NewJob(call, pc).held = None
         /\ NewJob(call, pc).todo = {}
BY RequestProject DEF TypeOK, NewJob, Jobs, ProjectRecords, Calls

LEMMA AnswerType ==
  ASSUME TypeOK, NEW who \in Clients, NEW p \in Projects, NEW code \in Codes,
         NEW snap \in Snapshots \cup {None}, Respond(who, p, code, snap)
  PROVE  answer' \in [Clients -> Answers \cup {None}] /\ job' = None
BY DEF TypeOK, Respond, Answers

-----------------------------------------------------------------------------
(* One project changes, the others stay as they are *)

\* The surroundings of every piece: the mutex is held for project p.
Frame(p) ==
  /\ IInv
  /\ Running
  /\ p \in Projects
  /\ job # None => JobProject = p
  /\ UNCHANGED <<phase, daemon, connected, seen>>
  /\ queue' \in Seq(Calls)

LEMMA Assemble ==
  ASSUME NEW p, Frame(p), NEW x \in ProjectRecords \cup {None}, Put(p, x),
         x # None => Sound(x),
         job' \in Jobs \cup {None},
         job' # None => job'.req.project = p /\ Shape(job', x),
         job' = None /\ x # None => Rested(x),
         answer' \in [Clients -> Answers \cup {None}],
         spawned' \in Nat, unreaped' \subseteq Nat
  PROVE  IInv'
<1>1. TypeOK'
  BY DEF Frame, IInv, TypeOK, Put, Calls
<1>2. proj'[p] = x /\ \A q \in Projects \ {p} : proj'[q] = proj[q]
  BY DEF Frame, IInv, TypeOK, Put
<1>3. Running'
  BY DEF Frame, Running
<1>4. JobShape'
  BY <1>2, <1>3 DEF JobShape, Frame, JobProject
<1>5. ASSUME NEW q \in Projects, proj'[q] # None
      PROVE  /\ phase' # "stopped" /\ Sound(proj'[q])
             /\ Settled(q)' => Rested(proj'[q])
  <2>1. CASE q = p
    BY <1>2, <1>3, <1>5, <2>1 DEF Settled, JobProject, Running
  <2>2. CASE q # p
    BY <1>2, <1>3, <1>5, <2>2 DEF Frame, IInv, ProjectsInv, Settled, Running
  <2> QED
    BY <2>1, <2>2
<1>6. ProjectsInv'
  BY <1>5 DEF ProjectsInv
<1> QED
  BY <1>1, <1>4, <1>6 DEF IInv

LEMMA StartLeanType ==
  ASSUME TypeOK, NEW j \in Jobs, NEW r \in ProjectRecords \cup {None},
         StartLean(j, r)
  PROVE  /\ job' \in Jobs
         /\ job'.req = j.req
         /\ job'.pc = "initialize"
         /\ job'.todo = Replayable(r)
         /\ job'.held # None => job'.held = NewLean(spawned + 1)
         /\ spawned' \in Nat
         /\ answer' = answer
<1>1. Replayable(r) \in SUBSET Uris
  BY DEF Replayable, Open
<1>2. PICK started \in {TRUE, "spawn" \notin Faults} :
        /\ spawned' = IF started THEN spawned + 1 ELSE spawned
        /\ job' = [j EXCEPT !.pc = "initialize",
                            !.held = IF started THEN NewLean(spawned + 1) ELSE None,
                            !.todo = Replayable(r)]
  BY DEF StartLean
<1>3. /\ spawned' \in Nat
      /\ (IF started THEN NewLean(spawned + 1) ELSE None) \in LeanClients \cup {None}
  BY <1>2, NewLeanType DEF TypeOK
<1>4. /\ job' \in Jobs
      /\ job'.req = j.req
      /\ job'.pc = "initialize"
      /\ job'.todo = Replayable(r)
      /\ job'.held # None => job'.held = NewLean(spawned + 1)
  BY <1>1, <1>2, <1>3 DEF Jobs, Awaits
<1> QED
  BY <1>3, <1>4 DEF StartLean, Replayable

LEMMA StartLeanPreserves ==
  ASSUME NEW j \in Jobs, NEW r \in ProjectRecords \cup {None},
         Frame(j.req.project), StartLean(j, r),
         IF Opening(j) THEN r = None ELSE r # None /\ r.lean = None,
         unreaped' \subseteq Nat
  PROVE  IInv'
<1>1. TypeOK
  BY DEF Frame, IInv
<1>2. /\ job' \in Jobs
      /\ job'.req = j.req
      /\ job'.pc = "initialize"
      /\ job'.todo = Replayable(r)
      /\ job'.held # None => job'.held = NewLean(spawned + 1)
      /\ spawned' \in Nat
      /\ answer' = answer
  BY <1>1, StartLeanType
<1>3. ASSUME job'.held # None
      PROVE  job'.held.docs = NoOverlays /\ job'.held.uri = None
  BY <1>2, <1>3 DEF NewLean
<1>4. ASSUME r # None
      PROVE  NoOverlays = [u \in Uris |-> IF u \in Open(r.overlays) THEN None
                                          ELSE r.overlays[u]]
  BY <1>4 DEF NoOverlays, Open, ProjectRecords, Overlays
<1>5. Shape(job', r)
  BY <1>2, <1>3, <1>4 DEF Shape, Opening, UsesLean, StartsLean, Replayable
<1>6. r # None => Sound(r)
  BY DEF Sound, Opening
<1>7. Put(j.req.project, r)
  BY DEF StartLean
<1>8. job' # None
  BY <1>2, NoneAssumption
<1> QED
  BY <1>1, <1>2, <1>5, <1>6, <1>7, <1>8, Assemble DEF TypeOK

LEMMA RestartLeanPreserves ==
  ASSUME NEW j \in Jobs, NEW r \in ProjectRecords, Frame(j.req.project),
         RestartLean(j, r), ~Opening(j)
  PROVE  IInv'
<1> DEFINE p == j.req.project
<1>1. TypeOK
  BY DEF Frame, IInv
<1>2. CASE r.lean # None /\ Put(p, [r EXCEPT !.lean = None])
           /\ job' = [j EXCEPT !.pc = "shutdown", !.held = r.lean]
           /\ UNCHANGED <<answer, spawned, unreaped>>
  <2> DEFINE x == [r EXCEPT !.lean = None]
  <2>1. x \in ProjectRecords /\ x.lean = None
    BY DEF ProjectRecords
  <2>2. r.lean \in LeanClients \cup {None}
    BY DEF ProjectRecords
  <2>3. /\ job' \in Jobs /\ job'.req = j.req /\ job'.pc = "shutdown"
        /\ job'.held # None
    BY <1>2, <2>2 DEF Jobs, Awaits
  <2>4. job' # None /\ x # None
    BY <2>1, <2>3, NoneAssumption
  <2>5. Shape(job', x)
    BY <2>1, <2>3, <2>4 DEF Shape, Opening, UsesLean, StartsLean
  <2>6. Sound(x)
    BY <2>1 DEF Sound
  <2> QED
    BY <1>1, <1>2, <2>1, <2>3, <2>4, <2>5, <2>6, Assemble DEF TypeOK
<1>3. CASE r.lean = None /\ StartLean(j, Restarting(r)) /\ UNCHANGED unreaped
  <2> DEFINE next == r.gen + 1
  <2>a. next \in Nat
    BY DEF ProjectRecords
  <2>b. Restarting(r) = [r EXCEPT !.lean = None, !.gen = next, !.state = "restarting"]
    BY DEF Restarting, ProjectRecords
  <2> HIDE DEF next
  <2>1. Restarting(r) \in ProjectRecords /\ Restarting(r).lean = None
    BY <2>a, <2>b DEF ProjectRecords, LeanStates
  <2>2. Restarting(r) # None
    BY <2>1, NoneAssumption
  <2> QED
    BY <1>1, <1>3, <2>1, <2>2, StartLeanPreserves DEF TypeOK
<1> QED
  BY <1>2, <1>3 DEF RestartLean

LEMMA RecoverPreserves ==
  ASSUME NEW j \in Jobs, NEW r \in ProjectRecords, Frame(j.req.project),
         Recover(j, r), ~Opening(j)
  PROVE  IInv'
<1> DEFINE k == [j EXCEPT !.why = "recover"]
           x == [r EXCEPT !.err = TRUE, !.state = "degraded"]
<1>1. k \in Jobs /\ k.req = j.req
  BY DEF Jobs
<1>2. x \in ProjectRecords
  BY DEF ProjectRecords, LeanStates
<1>3. ~Opening(k)
  BY <1>1 DEF Opening
<1> QED
  BY <1>1, <1>2, <1>3, RestartLeanPreserves DEF Recover

LEMMA RespondPreserves ==
  ASSUME NEW p, Frame(p), NEW who \in Clients, NEW code \in Codes,
         NEW snap \in Snapshots \cup {None}, Respond(who, p, code, snap),
         NEW x \in ProjectRecords \cup {None}, Put(p, x),
         x # None => Sound(x) /\ Rested(x),
         spawned' \in Nat, unreaped' \subseteq Nat
  PROVE  IInv'
<1>1. TypeOK /\ p \in Projects
  BY DEF Frame, IInv
<1>2. answer' \in [Clients -> Answers \cup {None}] /\ job' = None
  BY <1>1, AnswerType
<1> QED
  BY <1>2, Assemble

LEMMA BaseType ==
  ASSUME TypeOK, NEW j \in Jobs, Opening(j) \/ proj[j.req.project] # None
  PROVE  Base(j) \in ProjectRecords
<1>1. CASE Opening(j)
  <2>1. j.req.launch \in Launches
    BY <1>1 DEF Opening, Jobs, Requests, OpenProjectRequests, StatusRequests,
                DocumentRequests, CloseDocumentRequests, FencedRequests,
                DocumentCommands, FencedCommands
  <2> QED
    BY <1>1, <2>1, NewProjectType DEF Base
<1>2. CASE ~Opening(j)
  <2>1. j.req.project \in Projects
    BY RequestProject DEF Jobs
  <2> QED
    BY <1>2, <2>1 DEF TypeOK, Base
<1> QED
  BY <1>1, <1>2

LEMMA StartFailedPreserves ==
  ASSUME NEW j \in Jobs, Frame(j.req.project), JobProject = j.req.project,
         StartFailed(j), Opening(j) \/ proj[j.req.project] # None
  PROVE  IInv'
<1> DEFINE p == j.req.project
           r == Degraded(Base(j))
<1>1. TypeOK /\ p \in Projects
  BY DEF Frame, IInv
<1>2. Base(j) \in ProjectRecords
  BY <1>1, BaseType
<1>3. /\ r \in ProjectRecords /\ r.lean = None /\ r.state = "degraded" /\ r.err
  BY <1>2 DEF Degraded, ProjectRecords, LeanStates
<1>4. Sound(r) /\ Rested(r)
  BY <1>3 DEF Sound, Rested
<1>5. Dropped(j.held) \subseteq Nat
  BY DEF Dropped, Jobs, LeanClients
<1>6. /\ Put(p, r)
      /\ unreaped' = unreaped \cup Dropped(j.held)
      /\ spawned' = spawned
      /\ \E code \in Codes : Respond(j.who, p, code, Snapshot(r))
  BY DEF StartFailed, Opening, Codes, Base
<1>7. unreaped' \subseteq Nat /\ spawned' \in Nat
  BY <1>1, <1>5, <1>6 DEF TypeOK
<1>8. j.who \in Clients /\ Snapshot(r) \in Snapshots
  BY <1>1, <1>3, SnapshotType DEF Jobs
<1> QED
  BY <1>3, <1>4, <1>6, <1>7, <1>8, RespondPreserves

LEMMA StartSucceededPreserves ==
  ASSUME NEW j \in Jobs, Frame(j.req.project), JobProject = j.req.project,
         StartSucceeded(j), Opening(j) \/ proj[j.req.project] # None,
         j.held # None, Serves(j.held, Base(j).overlays)
  PROVE  IInv'
<1> DEFINE p == j.req.project
           r == Ready(Base(j), j.held)
<1>1. TypeOK /\ p \in Projects
  BY DEF Frame, IInv
<1>2. Base(j) \in ProjectRecords /\ j.held \in LeanClients
  BY <1>1, BaseType DEF Jobs
<1>3. /\ r \in ProjectRecords /\ r.lean = j.held /\ r.overlays = Base(j).overlays
      /\ r.state = "ready" /\ ~r.err
  BY <1>2 DEF Ready, ProjectRecords, LeanStates
<1>4. Sound(r) /\ Rested(r) /\ r # None
  BY <1>3, NoneAssumption DEF Sound, Rested
<1>5. Put(p, r) /\ spawned' \in Nat /\ unreaped' \subseteq Nat
  BY <1>1 DEF StartSucceeded, Opening, Base, TypeOK
<1>6. CASE /\ j.req.cmd = "query"
           /\ job' = [j EXCEPT !.pc = "query", !.held = None]
           /\ answer' = answer
  <2>1. /\ job' \in Jobs /\ job'.req = j.req /\ job'.pc = "query"
        /\ job'.held = None
    BY <1>6 DEF Jobs, Awaits
  <2>2. Shape(job', r) /\ job' # None
    BY <1>3, <1>4, <1>6, <2>1, NoneAssumption DEF Shape, Opening, UsesLean, StartsLean
  <2> QED
    BY <1>1, <1>3, <1>4, <1>5, <1>6, <2>1, <2>2, Assemble DEF TypeOK
<1>7. CASE \E code \in Codes : Respond(j.who, p, code, Snapshot(r))
  <2>1. j.who \in Clients /\ Snapshot(r) \in Snapshots
    BY <1>1, <1>3, SnapshotType DEF Jobs
  <2> QED
    BY <1>3, <1>4, <1>5, <1>7, <2>1, RespondPreserves
<1> QED
  BY <1>6, <1>7 DEF StartSucceeded, Codes, Opening, Base

\* How far the replay loop got: the child holds the overlays that are no longer
\* to do, and the last of them is selected.
Replaying(j) ==
  /\ j.held # None
  /\ j.todo \subseteq Open(Base(j).overlays)
  /\ j.held.docs = [u \in Uris |-> IF u \in j.todo THEN None
                                   ELSE Base(j).overlays[u]]
  /\ j.todo = {} => IF Open(Base(j).overlays) = {} THEN j.held.uri = None
                    ELSE j.held.uri \in Open(Base(j).overlays)

LEMMA ReplayFromPreserves ==
  ASSUME NEW j \in Jobs, Frame(j.req.project), JobProject = j.req.project,
         ReplayFrom(j), Replaying(j),
         IF Opening(j) THEN proj[j.req.project] = None /\ j.todo = {}
         ELSE proj[j.req.project] # None /\ proj[j.req.project].lean = None
  PROVE  IInv'
<1> DEFINE p == j.req.project
           o == Base(j).overlays
<1>1. TypeOK /\ p \in Projects
  BY DEF Frame, IInv
<1>2. Base(j) \in ProjectRecords /\ j.held \in LeanClients /\ o \in Overlays
  BY <1>1, BaseType DEF Jobs, Replaying, ProjectRecords
<1>3. CASE j.todo = {} /\ StartSucceeded(j)
  <2>1. j.held.docs = o
    BY <1>2, <1>3 DEF Replaying, Overlays, LeanClients
  <2>2. Serves(j.held, o)
    BY <1>3, <2>1 DEF Serves, Replaying
  <2> QED
    BY <1>3, <2>2, StartSucceededPreserves DEF Replaying
<1>4. ASSUME NEW u \in j.todo,
             job' = [j EXCEPT !.pc = "replay", !.todo = @ \ {u},
                              !.held = Notified(j.held, u, o[u])],
             UNCHANGED <<proj, answer, spawned, unreaped>>
      PROVE  IInv'
  <2> DEFINE lean == Notified(j.held, u, o[u])
             rest == j.todo \ {u}
             docs == [w \in Uris |-> IF w \in rest THEN None ELSE o[w]]
  <2>1. ~Opening(j) /\ proj[p] # None /\ Base(j) = proj[p] /\ proj[p].lean = None
    BY <1>4 DEF Base
  <2>2. u \in Uris /\ u \in Open(o)
    BY <1>4 DEF Replaying, Jobs, Open
  <2>3. [j.held.docs EXCEPT ![u] = o[u]] = docs
    BY <1>2, <2>2 DEF Replaying, Overlays, LeanClients
  <2>4. docs \in Overlays
    BY <1>2 DEF Overlays
  <2>5. lean = [j.held EXCEPT !.uri = u, !.docs = docs]
    BY <1>2, <2>3 DEF Notified, LeanClients
  <2>6. lean \in LeanClients /\ lean.docs = docs /\ lean.uri = u
    BY <1>2, <2>2, <2>4, <2>5 DEF LeanClients
  <2>7. rest \in SUBSET Uris
    BY DEF Jobs
  <2>8. job' = [j EXCEPT !.pc = "replay", !.todo = rest, !.held = lean]
    BY <1>2, <1>4, <2>1 DEF Jobs, LeanClients
  <2> HIDE DEF lean, rest, docs
  <2>9. /\ job' \in Jobs /\ job'.req = j.req /\ job'.pc = "replay"
        /\ job'.todo = rest /\ job'.held = lean
    BY <2>6, <2>7, <2>8 DEF Jobs, Awaits
  <2>10. rest \subseteq Open(o) /\ u \notin rest /\ lean # None
    BY <2>6, NoneAssumption DEF rest, Replaying
  <2>11. job' # None /\ Shape(job', proj[p])
    BY <2>1, <2>2, <2>6, <2>9, <2>10, NoneAssumption
    DEF Shape, Opening, UsesLean, StartsLean, docs
  <2>12. Put(p, proj[p]) /\ proj[p] \in ProjectRecords
    BY <1>1, <1>4, <2>1 DEF TypeOK, Put
  <2>13. Sound(proj[p])
    BY <2>1 DEF Sound
  <2> QED
    BY <1>1, <1>4, <2>9, <2>11, <2>12, <2>13, Assemble DEF TypeOK
<1> QED
  BY <1>3, <1>4 DEF ReplayFrom

-----------------------------------------------------------------------------
(* Commands up to their first await *)

LEMMA GrantedFrame ==
  ASSUME IInv, NEW cmds, Granted(cmds)
  PROVE  /\ TypeOK /\ job = None
         /\ Call \in Calls /\ Call.who \in Clients /\ Call.req \in Requests
         /\ Call.req.cmd \in cmds
         /\ Call.req.project \in Projects
         /\ Frame(Call.req.project)
<1>1. TypeOK /\ queue \in Seq(Calls) /\ queue # <<>>
  BY DEF IInv, TypeOK, Granted, Calls
<1>2. Call \in Calls /\ Tail(queue) \in Seq(Calls)
  BY <1>1, HeadTailProperties DEF Call
<1>3. Call.who \in Clients /\ Call.req \in Requests
  BY <1>2 DEF Calls
<1>4. Call.req.project \in Projects
  BY <1>3, RequestProject
<1> QED
  BY <1>1, <1>2, <1>3, <1>4 DEF Granted, Frame

LEMMA ReplyPreserves ==
  ASSUME IInv, NEW cmds, Granted(cmds), NEW code \in Codes,
         NEW snap \in Snapshots \cup {None}, Reply(code, snap)
  PROVE  IInv'
<1> DEFINE p == Call.req.project
<1>1. /\ TypeOK /\ job = None /\ Call.who \in Clients /\ p \in Projects
      /\ Frame(p)
  BY GrantedFrame
<1>2. proj[p] \in ProjectRecords \cup {None} /\ Put(p, proj[p])
  BY <1>1 DEF TypeOK, Put, Reply
<1>3. proj[p] # None => Sound(proj[p]) /\ Rested(proj[p])
  BY <1>1 DEF IInv, ProjectsInv, Settled, Frame
<1>4. /\ Respond(Call.who, p, code, snap)
      /\ spawned' \in Nat /\ unreaped' \subseteq Nat
  BY <1>1 DEF Reply, TypeOK
<1> QED
  BY <1>1, <1>2, <1>3, <1>4, RespondPreserves

LEMMA PingPreserves == IInv /\ Ping => IInv'
BY ReplyPreserves DEF Ping, Codes

LEMMA RejectedPreserves == IInv /\ Rejected => IInv'
BY ReplyPreserves DEF Rejected, Codes

LEMMA OpenProjectPreserves == IInv /\ OpenProject => IInv'
<1> SUFFICES ASSUME IInv, OpenProject
             PROVE  IInv'
  OBVIOUS
<1> DEFINE r == proj[Call.req.project]
<1>1. Granted({"openProject"})
  BY DEF OpenProject
<1>2. /\ TypeOK /\ Call \in Calls /\ Call.req.cmd = "openProject"
      /\ Call.req.project \in Projects /\ Frame(Call.req.project)
  BY <1>1, GrantedFrame
<1>3. CASE \E code \in Codes : Reply(code, None)
  BY <1>1, <1>3, ReplyPreserves
<1>4. CASE r # None /\ \E code \in Codes : Reply(code, Snapshot(r))
  <2>1. Snapshot(r) \in Snapshots
    BY <1>2, <1>4, SnapshotType DEF TypeOK
  <2> QED
    BY <1>1, <1>4, <2>1, ReplyPreserves
<1>5. CASE r = None /\ StartLean(NewJob(Call, "initialize"), None) /\ UNCHANGED unreaped
  <2> DEFINE j == NewJob(Call, "initialize")
  <2>1. j \in Jobs /\ j.req = Call.req
    BY <1>2, NewJobType DEF Awaits
  <2> HIDE DEF j
  <2>2. Opening(j) /\ unreaped' \subseteq Nat
    BY <1>2, <1>5, <2>1 DEF Opening, TypeOK
  <2> QED
    BY <1>2, <1>5, <2>1, <2>2, StartLeanPreserves DEF j
<1> QED
  BY <1>3, <1>4, <1>5 DEF OpenProject, Codes

\* What an admitted command finds: a project at rest.
LEMMA AdmittedFrame ==
  ASSUME IInv, NEW cmds, Admitted(cmds), "openProject" \notin cmds, NEW pc \in Awaits
  PROVE  /\ Granted(cmds)
         /\ TypeOK /\ job = None
         /\ Call.who \in Clients /\ Call.req \in Requests /\ Call.req.cmd \in cmds
         /\ Call.req.project \in Projects /\ Frame(Call.req.project)
         /\ proj[Call.req.project] \in ProjectRecords
         /\ Sound(proj[Call.req.project]) /\ Rested(proj[Call.req.project])
         /\ Snapshot(proj[Call.req.project]) \in Snapshots
         /\ NewJob(Call, pc) \in Jobs /\ NewJob(Call, pc).req = Call.req
         /\ NewJob(Call, pc).pc = pc /\ NewJob(Call, pc).held = None
         /\ ~Opening(NewJob(Call, pc))
<1>1. Granted(cmds)
  BY DEF Admitted
<1>2. /\ TypeOK /\ job = None /\ Call \in Calls
      /\ Call.who \in Clients /\ Call.req \in Requests /\ Call.req.cmd \in cmds
      /\ Call.req.project \in Projects /\ Frame(Call.req.project)
  BY <1>1, GrantedFrame
<1>3. proj[Call.req.project] \in ProjectRecords
  BY <1>2 DEF Admitted, TypeOK
<1>4. Sound(proj[Call.req.project]) /\ Rested(proj[Call.req.project])
  BY <1>2 DEF Admitted, IInv, ProjectsInv, Settled, Frame
<1>5. Snapshot(proj[Call.req.project]) \in Snapshots
  BY <1>2, <1>3, SnapshotType
<1>6. /\ NewJob(Call, pc) \in Jobs /\ NewJob(Call, pc).req = Call.req
      /\ NewJob(Call, pc).pc = pc /\ NewJob(Call, pc).held = None
  BY <1>2, NewJobType
<1> QED
  BY <1>1, <1>2, <1>3, <1>4, <1>5, <1>6 DEF Opening

LEMMA ProjectStatusPreserves == IInv /\ ProjectStatus => IInv'
<1> SUFFICES ASSUME IInv, ProjectStatus
             PROVE  IInv'
  OBVIOUS
<1> DEFINE r == proj[Call.req.project]
<1>1. Admitted({"projectStatus"})
  BY DEF ProjectStatus
<1>2. CASE Reply("ok", Snapshot(r))
  BY <1>1, <1>2, AdmittedFrame, ReplyPreserves DEF Codes, Awaits
<1>3. CASE Recover(NewJob(Call, "shutdown"), r)
  <2> DEFINE j == NewJob(Call, "shutdown")
  <2>1. /\ j \in Jobs /\ j.req = Call.req /\ ~Opening(j)
        /\ r \in ProjectRecords /\ Frame(Call.req.project)
    BY <1>1, AdmittedFrame DEF Awaits
  <2> HIDE DEF j
  <2> QED
    BY <1>3, <2>1, RecoverPreserves DEF j
<1> QED
  BY <1>2, <1>3 DEF ProjectStatus

LEMMA QueryPreserves == IInv /\ Query => IInv'
<1> SUFFICES ASSUME IInv, Query
             PROVE  IInv'
  OBVIOUS
<1> DEFINE p == Call.req.project
           r == proj[p]
           j == NewJob(Call, "query")
<1>1. Admitted({"query"})
  BY DEF Query
<1>2. /\ Granted({"query"}) /\ TypeOK /\ p \in Projects
      /\ j \in Jobs /\ j.req = Call.req /\ ~Opening(j) /\ j.pc = "query"
      /\ j.held = None
      /\ r \in ProjectRecords /\ Frame(p) /\ Sound(r) /\ Rested(r)
      /\ Snapshot(r) \in Snapshots
  BY <1>1, AdmittedFrame DEF Awaits
<1> HIDE DEF j
<1>3. CASE Reply("invalidRequest", Snapshot(r))
  BY <1>2, <1>3, ReplyPreserves DEF Codes
<1>4. CASE RestartLean(j, r)
  BY <1>2, <1>4, RestartLeanPreserves
<1>5. CASE Recover(j, r)
  BY <1>2, <1>5, RecoverPreserves
<1>6. CASE r.lean # None /\ job' = j /\ UNCHANGED <<proj, answer, spawned, unreaped>>
  <2>1. Put(p, r) /\ r # None /\ j # None
    BY <1>2, <1>6, NoneAssumption DEF Put, TypeOK
  <2>2. Shape(j, r)
    BY <1>2, <1>6, <2>1 DEF Shape, UsesLean, StartsLean
  <2> QED
    BY <1>2, <1>6, <2>1, <2>2, Assemble DEF TypeOK
<1> QED
  BY <1>3, <1>4, <1>5, <1>6 DEF Query, j

LEMMA RestartRequestedPreserves == IInv /\ RestartRequested => IInv'
<1> SUFFICES ASSUME IInv, RestartRequested
             PROVE  IInv'
  OBVIOUS
<1> DEFINE j == NewJob(Call, "shutdown")
<1>1. /\ j \in Jobs /\ j.req = Call.req /\ ~Opening(j)
      /\ proj[Call.req.project] \in ProjectRecords /\ Frame(Call.req.project)
  BY AdmittedFrame DEF RestartRequested, Awaits
<1>2. RestartLean(j, proj[Call.req.project])
  BY DEF RestartRequested
<1> HIDE DEF j
<1> QED
  BY <1>1, <1>2, RestartLeanPreserves

LEMMA CloseProjectPreserves == IInv /\ CloseProject => IInv'
<1> SUFFICES ASSUME IInv, CloseProject
             PROVE  IInv'
  OBVIOUS
<1> DEFINE p == Call.req.project
           j == NewJob(Call, "closing")
<1>1. /\ TypeOK /\ p \in Projects /\ Call.who \in Clients
      /\ j \in Jobs /\ j.req = Call.req /\ ~Opening(j) /\ j.pc = "closing"
      /\ proj[p] \in ProjectRecords /\ Frame(p)
  BY AdmittedFrame DEF CloseProject, Awaits
<1> HIDE DEF j
<1>2. Put(p, None) /\ spawned' \in Nat /\ unreaped' \subseteq Nat
  BY <1>1 DEF CloseProject, TypeOK
<1>3. CASE Respond(Call.who, p, "closed", None)
  BY <1>1, <1>2, <1>3, RespondPreserves DEF Codes
<1>4. CASE /\ proj[p].lean # None
           /\ job' = [j EXCEPT !.held = proj[p].lean]
           /\ UNCHANGED answer
  <2>1. proj[p].lean \in LeanClients \cup {None}
    BY <1>1 DEF ProjectRecords
  <2>2. /\ job' \in Jobs /\ job'.req = j.req /\ job'.pc = "closing"
        /\ job'.held # None
    BY <1>1, <1>4, <2>1 DEF Jobs
  <2>3. job' # None /\ Shape(job', None)
    BY <1>1, <2>2, NoneAssumption DEF Shape, Opening, UsesLean, StartsLean
  <2> QED
    BY <1>1, <1>2, <1>4, <2>2, <2>3, Assemble DEF TypeOK
<1> QED
  BY <1>3, <1>4 DEF CloseProject, j

LEMMA OpenDocumentPreserves == IInv /\ OpenDocument => IInv'
<1> SUFFICES ASSUME IInv, OpenDocument
             PROVE  IInv'
  OBVIOUS
<1> DEFINE p == Call.req.project
           u == Call.req.uri
           t == Call.req.text
           r == proj[p]
           o == [r.overlays EXCEPT ![u] = t]
           edited == [r EXCEPT !.overlays = o]
           j == NewJob(Call, "document")
<1>1. Admitted(DocumentCommands)
  BY DEF OpenDocument
<1>2. /\ Granted(DocumentCommands) /\ TypeOK /\ p \in Projects
      /\ j \in Jobs /\ j.req = Call.req /\ ~Opening(j) /\ j.pc = "document"
      /\ j.held = None /\ Call.req \in Requests /\ Call.req.cmd \in DocumentCommands
      /\ r \in ProjectRecords /\ Frame(p) /\ Sound(r)
  BY <1>1, AdmittedFrame DEF Awaits, DocumentCommands
<1>3. u \in Uris /\ t \in Texts
  BY <1>2 DEF Requests, OpenProjectRequests, StatusRequests, DocumentRequests,
              CloseDocumentRequests, FencedRequests, DocumentCommands, FencedCommands
<1>4. o \in Overlays /\ o[u] = t /\ u \in Open(o)
  BY <1>2, <1>3, NoneAssumption DEF ProjectRecords, Overlays, Open
<1>5. edited = [r EXCEPT !.overlays[u] = t]
  BY <1>2 DEF ProjectRecords
<1> HIDE DEF j, o
<1>6. edited \in ProjectRecords /\ edited.lean = r.lean
  BY <1>2, <1>4 DEF ProjectRecords
<1>7. CASE Reply("invalidRequest", None)
  BY <1>2, <1>7, ReplyPreserves DEF Codes
<1>8. CASE RestartLean(j, edited)
  BY <1>2, <1>6, <1>8, RestartLeanPreserves
<1>9. CASE Recover(j, edited)
  BY <1>2, <1>6, <1>9, RecoverPreserves
<1>10. CASE /\ r.lean # None
            /\ Put(p, [edited EXCEPT !.lean = Notified(r.lean, u, t)])
            /\ job' = j
            /\ UNCHANGED <<answer, spawned, unreaped>>
  <2> DEFINE lean == Notified(r.lean, u, t)
             x == [edited EXCEPT !.lean = lean]
  <2>1. r.lean \in LeanClients /\ r.lean.docs = r.overlays
    BY <1>2, <1>10 DEF ProjectRecords, Sound, Serves
  <2>2. [r.lean.docs EXCEPT ![u] = t] = o
    BY <2>1 DEF o
  <2>3. lean = [r.lean EXCEPT !.docs = o, !.uri = u]
    BY <2>1, <2>2 DEF Notified, LeanClients
  <2>4. lean \in LeanClients /\ lean.docs = o /\ lean.uri = u
    BY <1>3, <1>4, <2>1, <2>3 DEF LeanClients
  <2> HIDE DEF lean
  <2>5. /\ x \in ProjectRecords /\ x.lean = lean /\ x.overlays = o
        /\ x.state = r.state /\ x.err = r.err
    BY <1>2, <1>4, <1>6, <2>4 DEF ProjectRecords
  <2>6. Sound(x)
    BY <1>2, <1>4, <1>10, <2>4, <2>5 DEF Sound, Serves
  <2>7. x # None /\ j # None /\ lean # None /\ u # None
    BY <1>2, <1>3, <2>4, <2>5, NoneAssumption
  <2>8. Shape(j, x)
    BY <1>2, <2>4, <2>5, <2>7 DEF Shape, UsesLean, StartsLean
  <2>9. Put(p, x)
    BY <1>10 DEF lean
  <2> QED
    BY <1>2, <1>10, <2>5, <2>6, <2>7, <2>8, <2>9, Assemble DEF TypeOK
<1> QED
  BY <1>5, <1>7, <1>8, <1>9, <1>10 DEF OpenDocument, j

LEMMA CloseDocumentPreserves == IInv /\ CloseDocument => IInv'
<1> SUFFICES ASSUME IInv, CloseDocument
             PROVE  IInv'
  OBVIOUS
<1> DEFINE p == Call.req.project
           u == Call.req.uri
           r == proj[p]
           o == [r.overlays EXCEPT ![u] = None]
           edited == [r EXCEPT !.overlays = o]
           gone == Deselected(r.lean, u)
           closed == [edited EXCEPT !.lean = gone]
           rest == Remaining(r.overlays, u)
           j == NewJob(Call, "select")
<1>1. Admitted({"closeDocument"})
  BY DEF CloseDocument
<1>2. /\ Granted({"closeDocument"}) /\ TypeOK /\ p \in Projects
      /\ j \in Jobs /\ j.req = Call.req /\ ~Opening(j) /\ j.pc = "select"
      /\ j.held = None /\ Call.req \in Requests /\ Call.req.cmd = "closeDocument"
      /\ Call.who \in Clients
      /\ r \in ProjectRecords /\ Frame(p) /\ Sound(r) /\ Rested(r)
  BY <1>1, AdmittedFrame DEF Awaits
<1>3. u \in Uris
  BY <1>2 DEF Requests, OpenProjectRequests, StatusRequests, DocumentRequests,
              CloseDocumentRequests, FencedRequests, DocumentCommands, FencedCommands
<1>4. o \in Overlays /\ rest = Open(o) /\ rest = Open(r.overlays) \ {u}
      /\ rest \subseteq Uris
  BY <1>2, <1>3 DEF ProjectRecords, Overlays, Open, Remaining
<1>5. edited = [r EXCEPT !.overlays[u] = None]
  BY <1>2 DEF ProjectRecords
<1> HIDE DEF j, o
<1>6. /\ edited \in ProjectRecords /\ edited.lean = r.lean /\ edited.overlays = o
      /\ edited.state = r.state /\ edited.err = r.err
  BY <1>2, <1>4 DEF ProjectRecords
<1>7. ASSUME r.lean # None
      PROVE  /\ gone \in LeanClients /\ gone.docs = o
             /\ gone.uri = IF r.lean.uri = u THEN None ELSE r.lean.uri
             /\ closed \in ProjectRecords /\ closed.lean = gone
             /\ closed.overlays = o /\ closed.state = "ready" /\ ~closed.err
  <2>1. r.lean \in LeanClients /\ r.lean.docs = r.overlays
    BY <1>2, <1>7 DEF ProjectRecords, Sound, Serves
  <2>2. [r.lean.docs EXCEPT ![u] = None] = o
    BY <2>1 DEF o
  <2>3. gone = IF r.lean.uri = u
               THEN [r.lean EXCEPT !.docs = o, !.uri = None, !.session = None]
               ELSE [r.lean EXCEPT !.docs = o]
    BY <2>1, <2>2 DEF Deselected, LeanClients
  <2>4. /\ gone \in LeanClients /\ gone.docs = o
        /\ gone.uri = IF r.lean.uri = u THEN None ELSE r.lean.uri
    BY <1>4, <2>1, <2>3 DEF LeanClients
  <2> HIDE DEF gone
  <2>5. /\ closed \in ProjectRecords /\ closed.lean = gone
        /\ closed.overlays = o /\ closed.state = r.state /\ closed.err = r.err
    BY <1>6, <2>4 DEF ProjectRecords
  <2> QED
    BY <1>2, <1>7, <2>4, <2>5 DEF Sound
<1> HIDE DEF gone, edited
<1>8. CASE Reply("invalidRequest", None)
  BY <1>2, <1>8, ReplyPreserves DEF Codes
<1>9. CASE /\ r.lean = None /\ Put(p, edited)
           /\ Respond(Call.who, p, "ok", Snapshot(edited))
           /\ UNCHANGED <<spawned, unreaped>>
  <2>1. Sound(edited) /\ Rested(edited) /\ Snapshot(edited) \in Snapshots
    BY <1>2, <1>6, <1>9, SnapshotType DEF Sound, Rested
  <2> QED
    BY <1>2, <1>6, <1>9, <2>1, RespondPreserves DEF Codes, TypeOK
<1>10. CASE Recover(j, edited)
  BY <1>2, <1>6, <1>10, RecoverPreserves
<1>11. CASE /\ r.lean # None /\ rest = {} /\ Put(p, closed)
            /\ Respond(Call.who, p, "ok", Snapshot(closed))
            /\ UNCHANGED <<spawned, unreaped>>
  <2>1. gone.uri = None
    BY <1>2, <1>4, <1>7, <1>11 DEF Sound, Serves
  <2>2. Sound(closed) /\ Rested(closed) /\ Snapshot(closed) \in Snapshots
    BY <1>2, <1>4, <1>7, <1>11, <2>1, NoneAssumption, SnapshotType
    DEF Sound, Serves, Rested
  <2> HIDE DEF closed
  <2> QED
    BY <1>2, <1>7, <1>11, <2>2, RespondPreserves DEF Codes, TypeOK
<1>12. ASSUME r.lean # None, NEW next \in rest,
              Put(p, [closed EXCEPT !.lean.uri = next]),
              job' = j, UNCHANGED <<answer, spawned, unreaped>>
       PROVE  IInv'
  <2> DEFINE lean == [gone EXCEPT !.uri = next]
             x == [closed EXCEPT !.lean = lean]
  <2>1. lean \in LeanClients /\ lean.docs = o /\ lean.uri = next /\ next \in Open(o)
    BY <1>4, <1>7, <1>12 DEF LeanClients
  <2>2. x = [closed EXCEPT !.lean.uri = next]
    BY <1>7, <1>12 DEF ProjectRecords, LeanClients
  <2> HIDE DEF lean, closed
  <2>3. /\ x \in ProjectRecords /\ x.lean = lean /\ x.overlays = o
        /\ x.state = "ready" /\ ~x.err
    BY <1>7, <1>12, <2>1 DEF ProjectRecords
  <2>4. Sound(x)
    BY <2>1, <2>3 DEF Sound, Serves
  <2>5. x # None /\ j # None /\ lean # None /\ next # None
    BY <1>2, <1>4, <1>12, <2>1, <2>3, NoneAssumption
  <2>6. Shape(j, x)
    BY <1>2, <2>1, <2>3, <2>5 DEF Shape, UsesLean, StartsLean
  <2>7. Put(p, x)
    BY <1>12, <2>2
  <2> HIDE DEF x
  <2> QED
    BY <1>2, <1>12, <2>3, <2>4, <2>5, <2>6, <2>7, Assemble DEF TypeOK
<1> QED
  BY <1>5, <1>6, <1>8, <1>9, <1>10, <1>11, <1>12 DEF CloseDocument, j, gone, edited

-----------------------------------------------------------------------------
(* An await completes *)

LEMMA AwaitingFrame ==
  ASSUME IInv, NEW pc, Awaiting(pc)
  PROVE  /\ TypeOK /\ job # None /\ job \in Jobs /\ job.pc = pc
         /\ job.who \in Clients
         /\ JobProject \in Projects /\ JobProject = job.req.project
         /\ Frame(JobProject)
         /\ Shape(job, proj[JobProject])
         /\ proj[JobProject] \in ProjectRecords \cup {None}
         /\ proj[JobProject] # None => Sound(proj[JobProject])
<1>1. TypeOK /\ job # None /\ job \in Jobs /\ job.pc = pc
  BY DEF IInv, TypeOK, Awaiting
<1>2. job.who \in Clients /\ JobProject \in Projects /\ JobProject = job.req.project
  BY <1>1, RequestProject DEF Jobs, JobProject
<1>3. queue' \in Seq(Calls)
  BY <1>1 DEF TypeOK, Awaiting, Calls
<1>4. Frame(JobProject)
  BY <1>1, <1>2, <1>3 DEF Frame, Awaiting
<1> QED
  BY <1>1, <1>2, <1>4 DEF IInv, JobShape, ProjectsInv, TypeOK

LEMMA ShutdownFinishedPreserves == IInv /\ ShutdownFinished => IInv'
<1> SUFFICES ASSUME IInv, ShutdownFinished
             PROVE  IInv'
  OBVIOUS
<1> DEFINE r == proj[JobProject]
           next == r.gen + 1
<1>1. Awaiting("shutdown")
  BY DEF ShutdownFinished
<1>2. /\ TypeOK /\ job \in Jobs /\ JobProject = job.req.project /\ Frame(JobProject)
      /\ r # None /\ r \in ProjectRecords /\ ~Opening(job) /\ job.held \in LeanClients
  BY <1>1, AwaitingFrame DEF Shape, Jobs
<1>3. unreaped' \subseteq Nat
  BY <1>2 DEF ShutdownFinished, Unreaped, Dropped, TypeOK, LeanClients
<1>4. next \in Nat
  BY <1>2 DEF ProjectRecords
<1>5. Restarting(r) = [r EXCEPT !.lean = None, !.gen = next, !.state = "restarting"]
  BY <1>2 DEF Restarting, ProjectRecords
<1> HIDE DEF next
<1>6. Restarting(r) \in ProjectRecords /\ Restarting(r).lean = None
  BY <1>2, <1>4, <1>5 DEF ProjectRecords, LeanStates
<1>7. StartLean(job, Restarting(r)) /\ Restarting(r) # None
  BY <1>6, NoneAssumption DEF ShutdownFinished
<1> QED
  BY <1>2, <1>3, <1>6, <1>7, StartLeanPreserves

LEMMA ProjectClosedPreserves == IInv /\ ProjectClosed => IInv'
<1> SUFFICES ASSUME IInv, ProjectClosed
             PROVE  IInv'
  OBVIOUS
<1>1. Awaiting("closing")
  BY DEF ProjectClosed
<1>2. /\ TypeOK /\ job \in Jobs /\ job.who \in Clients /\ Frame(JobProject)
      /\ JobProject \in Projects
      /\ proj[JobProject] = None /\ job.held \in LeanClients
  BY <1>1, AwaitingFrame DEF Shape, Jobs
<1>3. unreaped' \subseteq Nat /\ spawned' \in Nat
  BY <1>2 DEF ProjectClosed, Unreaped, Dropped, TypeOK, LeanClients
<1>4. Put(JobProject, None) /\ Respond(job.who, JobProject, "closed", None)
  BY <1>2 DEF ProjectClosed, Put, TypeOK
<1> QED
  BY <1>2, <1>3, <1>4, RespondPreserves DEF Codes

LEMMA InitializedPreserves == IInv /\ Initialized => IInv'
<1> SUFFICES ASSUME IInv, Initialized
             PROVE  IInv'
  OBVIOUS
<1> DEFINE r == proj[JobProject]
<1>1. Awaiting("initialize")
  BY DEF Initialized
<1>2. /\ TypeOK /\ job \in Jobs /\ JobProject = job.req.project /\ Frame(JobProject)
      /\ Shape(job, r) /\ job.pc = "initialize" /\ r \in ProjectRecords \cup {None}
  BY <1>1, AwaitingFrame
<1>3. IF Opening(job) THEN r = None /\ job.todo = {} ELSE r # None /\ r.lean = None
  BY <1>2 DEF Shape, StartsLean
<1>4. CASE StartFailed(job)
  BY <1>2, <1>3, <1>4, StartFailedPreserves
<1>5. CASE job.held # None /\ ReplayFrom(job)
  <2>3. Replaying(job)
    <3>1. CASE Opening(job)
      <4>1. Base(job).overlays = NoOverlays /\ Open(NoOverlays) = {}
        BY <3>1 DEF Base, NewProject, NoOverlays, Open
      <4>2. job.held.docs = NoOverlays /\ job.held.uri = None /\ job.todo = {}
        BY <1>2, <1>5, <3>1 DEF Shape, StartsLean
      <4>3. NoOverlays = [u \in Uris |-> IF u \in {} THEN None ELSE NoOverlays[u]]
        BY DEF NoOverlays
      <4> QED
        BY <1>5, <4>1, <4>2, <4>3 DEF Replaying
    <3>2. CASE ~Opening(job)
      BY <1>2, <1>5, <3>2 DEF Shape, StartsLean, Replaying, Base
    <3> QED
      BY <3>1, <3>2
  <2> QED
    BY <1>2, <1>3, <1>5, <2>3, ReplayFromPreserves
<1> QED
  BY <1>4, <1>5 DEF Initialized

LEMMA ReplayedPreserves == IInv /\ Replayed => IInv'
<1> SUFFICES ASSUME IInv, Replayed
             PROVE  IInv'
  OBVIOUS
<1> DEFINE r == proj[JobProject]
           lean == Connected(job.held)
           j == [job EXCEPT !.held = lean]
<1>1. Awaiting("replay")
  BY DEF Replayed
<1>2. /\ TypeOK /\ job \in Jobs /\ JobProject = job.req.project /\ Frame(JobProject)
      /\ Shape(job, r) /\ job.pc = "replay" /\ r \in ProjectRecords \cup {None}
  BY <1>1, AwaitingFrame
<1>3. /\ ~Opening(job) /\ r # None /\ r.lean = None
      /\ job.held # None /\ job.held \in LeanClients
      /\ job.held.uri \in Open(r.overlays) \ job.todo
      /\ job.todo \subseteq Open(r.overlays)
      /\ job.held.docs = [u \in Uris |-> IF u \in job.todo THEN None ELSE r.overlays[u]]
  BY <1>2 DEF Shape, StartsLean, Jobs
<1>4. CASE StartFailed(job)
  BY <1>2, <1>3, <1>4, StartFailedPreserves
<1>5. CASE ReplayFrom(j)
  <2>1. job.held.uri \in Uris /\ job.held.docs[job.held.uri] # None
    BY <1>3 DEF Open
  <2>2. /\ lean \in LeanClients /\ lean.docs = job.held.docs
        /\ lean.uri = job.held.uri
    BY <1>3, <2>1, ConnectedType
  <2>3. lean # None
    BY <2>2, NoneAssumption
  <2> HIDE DEF lean
  <2>4. /\ j \in Jobs /\ j.req = job.req /\ j.todo = job.todo /\ j.held = lean
    BY <1>2, <2>2 DEF Jobs
  <2>5. ~Opening(j)
    BY <1>3, <2>4 DEF Opening
  <2>6. Base(j) = r
    BY <1>2, <2>4, <2>5 DEF Base
  <2>7. Replaying(j)
    BY <1>3, <2>2, <2>3, <2>4, <2>6 DEF Replaying
  <2> QED
    BY <1>2, <1>3, <1>5, <2>4, <2>5, <2>7, ReplayFromPreserves
<1> QED
  BY <1>4, <1>5 DEF Replayed

\* A connect request answered on a child that serves the overlays.
LEMMA ConnectedPreserves ==
  ASSUME IInv, NEW pc \in {"document", "select"}, Awaiting(pc),
         NEW x, x = [proj[JobProject] EXCEPT !.lean = Connected(proj[JobProject].lean)],
         NEW y, y = x \/ y = Ready(proj[JobProject], Connected(proj[JobProject].lean)),
         Put(JobProject, y), Respond(job.who, JobProject, "ok", Snapshot(y)),
         UNCHANGED <<spawned, unreaped>>
  PROVE  IInv'
<1> DEFINE r == proj[JobProject]
           lean == Connected(r.lean)
<1>1. /\ TypeOK /\ job.who \in Clients /\ Frame(JobProject)
      /\ r \in ProjectRecords /\ Sound(r) /\ r.lean # None /\ r.lean.uri # None
  BY AwaitingFrame DEF Shape, UsesLean
<1>2. /\ r.lean \in LeanClients /\ r.lean.docs = r.overlays
      /\ r.lean.uri \in Open(r.overlays)
  BY <1>1 DEF ProjectRecords, Sound, Serves
<1>3. r.lean.uri \in Uris /\ r.lean.docs[r.lean.uri] # None
  BY <1>2 DEF Open
<1>4. /\ lean \in LeanClients /\ lean.docs = r.lean.docs /\ lean.uri = r.lean.uri
  BY <1>2, <1>3, ConnectedType
<1> HIDE DEF lean
<1>5. x = [r EXCEPT !.lean = lean] /\ (y = x \/ y = Ready(r, lean))
  BY DEF lean
<1>6. /\ x \in ProjectRecords /\ x.lean = lean /\ x.overlays = r.overlays
      /\ x.state = "ready" /\ ~x.err
  BY <1>1, <1>4, <1>5 DEF ProjectRecords, Sound
<1>7. /\ y \in ProjectRecords /\ y.lean = lean /\ y.overlays = r.overlays
      /\ y.state = "ready" /\ ~y.err
  BY <1>1, <1>4, <1>5, <1>6 DEF Ready, ProjectRecords, LeanStates
<1>8. Sound(y) /\ Rested(y)
  BY <1>1, <1>2, <1>4, <1>7, NoneAssumption DEF Sound, Serves, Rested
<1>9. Snapshot(y) \in Snapshots
  BY <1>1, <1>7, SnapshotType
<1> QED
  BY <1>1, <1>7, <1>8, <1>9, RespondPreserves DEF Codes, TypeOK

\* The three awaits that use a child share their other outcomes.
LEMMA UseEndedPreserves ==
  ASSUME IInv, NEW pc \in UsesLean, Awaiting(pc),
         \/ \E code \in Codes, snap \in {None, Snapshot(proj[JobProject])} :
              Respond(job.who, JobProject, code, snap)
                /\ UNCHANGED <<proj, spawned, unreaped>>
         \/ Recover(job, proj[JobProject])
  PROVE  IInv'
<1> DEFINE r == proj[JobProject]
<1>1. /\ TypeOK /\ job \in Jobs /\ job.who \in Clients
      /\ JobProject \in Projects /\ JobProject = job.req.project
      /\ Frame(JobProject) /\ r \in ProjectRecords /\ Sound(r)
      /\ r.lean # None /\ ~Opening(job)
  BY AwaitingFrame DEF Shape
<1>2. CASE Recover(job, r)
  BY <1>1, <1>2, RecoverPreserves
<1>3. ASSUME NEW code \in Codes, NEW snap \in {None, Snapshot(r)},
             Respond(job.who, JobProject, code, snap),
             UNCHANGED <<proj, spawned, unreaped>>
      PROVE  IInv'
  <2>1. Put(JobProject, r) /\ snap \in Snapshots \cup {None}
    BY <1>1, <1>3, SnapshotType DEF Put, TypeOK
  <2>2. Sound(r) /\ Rested(r)
    BY <1>1 DEF Rested
  <2> QED
    BY <1>1, <1>3, <2>1, <2>2, RespondPreserves DEF TypeOK
<1> QED
  BY <1>2, <1>3

LEMMA DocumentConnectedPreserves == IInv /\ DocumentConnected => IInv'
<1> SUFFICES ASSUME IInv, DocumentConnected
             PROVE  IInv'
  OBVIOUS
<1> DEFINE r == proj[JobProject]
           x == [r EXCEPT !.lean = Connected(r.lean)]
           y == Ready(r, Connected(r.lean))
<1>1. Awaiting("document")
  BY DEF DocumentConnected
<1>2. CASE Put(JobProject, y) /\ Respond(job.who, JobProject, "ok", Snapshot(y))
           /\ UNCHANGED <<spawned, unreaped>>
  BY <1>1, <1>2, ConnectedPreserves
<1>3. CASE Respond(job.who, JobProject, "oracleFailure", Snapshot(r))
           /\ UNCHANGED <<proj, spawned, unreaped>>
  BY <1>1, <1>3, UseEndedPreserves DEF Codes, UsesLean
<1>4. CASE Recover(job, r)
  BY <1>1, <1>4, UseEndedPreserves DEF UsesLean
<1> QED
  BY <1>2, <1>3, <1>4 DEF DocumentConnected

LEMMA DocumentSelectedPreserves == IInv /\ DocumentSelected => IInv'
<1> SUFFICES ASSUME IInv, DocumentSelected
             PROVE  IInv'
  OBVIOUS
<1> DEFINE r == proj[JobProject]
           x == [r EXCEPT !.lean = Connected(r.lean)]
<1>1. Awaiting("select")
  BY DEF DocumentSelected
<1>2. CASE Put(JobProject, x) /\ Respond(job.who, JobProject, "ok", Snapshot(x))
           /\ UNCHANGED <<spawned, unreaped>>
  BY <1>1, <1>2, ConnectedPreserves
<1>3. CASE Respond(job.who, JobProject, "oracleFailure", Snapshot(r))
           /\ UNCHANGED <<proj, spawned, unreaped>>
  BY <1>1, <1>3, UseEndedPreserves DEF Codes, UsesLean
<1>4. CASE Recover(job, r)
  BY <1>1, <1>4, UseEndedPreserves DEF UsesLean
<1> QED
  BY <1>2, <1>3, <1>4 DEF DocumentSelected

LEMMA QueryAnsweredPreserves == IInv /\ QueryAnswered => IInv'
<1> SUFFICES ASSUME IInv, QueryAnswered
             PROVE  IInv'
  OBVIOUS
<1>1. Awaiting("query")
  BY DEF QueryAnswered
<1> QED
  BY <1>1, UseEndedPreserves DEF QueryAnswered, Codes, UsesLean

-----------------------------------------------------------------------------
(* The environment, the frontends and the daemon's own life *)

\* Steps that leave the execution and the projects alone.
LEMMA StepAsidePreserves ==
  ASSUME IInv, TypeOK', UNCHANGED <<job, proj>>, Running <=> Running',
         phase' = "stopped" => phase = "stopped"
  PROVE  IInv'
BY DEF IInv, JobShape, ProjectsInv, Settled, JobProject

LEMMA SendPreserves ==
  ASSUME NEW c \in Clients, IInv, Send(c)
  PROVE  IInv'
<1>1. PICK req \in Offered(c) : queue' = Append(queue, [who |-> c, req |-> req])
  BY DEF Send
<1>2. Known(c) \subseteq Expected
  BY DEF Known, Expected, IInv, TypeOK, Snapshots
<1>3. req \in Requests
  BY <1>1, <1>2 DEF Offered, Requests, DocumentRequests, CloseDocumentRequests,
                    FencedRequests
<1>4. [who |-> c, req |-> req] \in Calls /\ queue \in Seq(Calls)
  BY <1>3 DEF Calls, IInv, TypeOK
<1>5. queue' \in Seq(Calls)
  BY <1>1, <1>4, AppendProperties
<1>6. TypeOK'
  BY <1>5 DEF IInv, TypeOK, Send, Calls
<1> QED
  BY <1>6, StepAsidePreserves DEF Send, Running

LEMMA ReceivePreserves ==
  ASSUME NEW c \in Clients, IInv, Receive(c)
  PROVE  IInv'
<1>1. TypeOK /\ answer[c] \in Answers
  BY DEF IInv, TypeOK, Receive
<1>2. seen' \in [Clients -> [Projects -> Snapshots \cup {None}]]
  <2>1. answer[c].project \in Projects /\ answer[c].snap \in Snapshots \cup {None}
    BY <1>1 DEF Answers
  <2>2. CASE answer[c].snap = None
    BY <1>1, <2>2 DEF Receive, TypeOK
  <2>3. CASE answer[c].snap # None
    <3> DEFINE row == [seen[c] EXCEPT ![answer[c].project] = answer[c].snap]
    <3>1. row \in [Projects -> Snapshots \cup {None}]
      BY <1>1, <2>1 DEF TypeOK
    <3>2. seen' = [seen EXCEPT ![c] = row]
      BY <1>1, <2>3 DEF Receive, TypeOK
    <3> HIDE DEF row
    <3> QED
      BY <1>1, <3>1, <3>2 DEF TypeOK
  <2> QED
    BY <2>2, <2>3
<1>3. TypeOK'
  BY <1>1, <1>2 DEF TypeOK, Receive
<1> QED
  BY <1>3, StepAsidePreserves DEF Receive, Running

\* A child that exits keeps its documents and its place.
LEMMA LeanExitsPreserves == IInv /\ LeanExits => IInv'
<1> SUFFICES ASSUME IInv, LeanExits
             PROVE  IInv'
  OBVIOUS
<1>1. TypeOK
  BY DEF IInv
<1>2. ASSUME NEW p \in Projects, proj[p] # None, proj[p].lean # None,
             Put(p, [proj[p] EXCEPT !.lean.alive = FALSE]), UNCHANGED job
      PROVE  IInv'
  <2> DEFINE r == proj[p]
             lean == [r.lean EXCEPT !.alive = FALSE]
             x == [r EXCEPT !.lean = lean]
  <2>1. r \in ProjectRecords /\ r.lean \in LeanClients
    BY <1>1, <1>2 DEF TypeOK, ProjectRecords
  <2>2. /\ lean \in LeanClients /\ lean.docs = r.lean.docs /\ lean.uri = r.lean.uri
        /\ lean # None
    BY <2>1, NoneAssumption DEF LeanClients
  <2>3. x = [r EXCEPT !.lean.alive = FALSE]
    BY <2>1 DEF ProjectRecords
  <2> HIDE DEF lean
  <2>4. /\ x \in ProjectRecords /\ x.lean = lean /\ x.overlays = r.overlays
        /\ x.state = r.state /\ x.err = r.err /\ x # None
    BY <2>1, <2>2, NoneAssumption DEF ProjectRecords
  <2> HIDE DEF x
  <2>5. proj' = [proj EXCEPT ![p] = x]
    BY <1>2, <2>3 DEF Put
  <2>6. TypeOK'
    BY <1>1, <1>2, <2>4, <2>5 DEF TypeOK, LeanExits
  <2>7. proj'[p] = x /\ \A q \in Projects \ {p} : proj'[q] = proj[q]
    BY <1>1, <2>5 DEF TypeOK
  <2>8. Sound(x) /\ Rested(x)
    BY <1>2, <2>2, <2>4 DEF Sound, Serves, Rested, IInv, ProjectsInv
  <2>9. ProjectsInv'
    BY <1>2, <2>7, <2>8 DEF IInv, ProjectsInv, Settled, JobProject, Running, LeanExits
  <2>10. JobShape'
    <3> SUFFICES ASSUME job # None
                 PROVE  Running' /\ Shape(job, proj'[JobProject])
      BY <1>2 DEF JobShape, JobProject
    <3>1. Running /\ Shape(job, proj[JobProject]) /\ JobProject \in Projects
      BY <1>1, RequestProject DEF IInv, JobShape, TypeOK, Jobs, JobProject
    <3>2. CASE JobProject # p
      BY <2>7, <3>1, <3>2 DEF Running, LeanExits
    <3>3. CASE JobProject = p
      <4>1. Shape(job, r) /\ job \in Jobs
        BY <1>1, <3>1, <3>3 DEF TypeOK
      <4>2. job.pc \in UsesLean
        BY <1>2, <4>1 DEF Shape, Jobs, Awaits, UsesLean, StartsLean
      <4>3. Shape(job, x)
        BY <1>2, <2>2, <2>4, <4>1, <4>2 DEF Shape, UsesLean, StartsLean
      <4> QED
        BY <2>7, <3>1, <3>3, <4>3 DEF Running, LeanExits
    <3> QED
      BY <3>2, <3>3
  <2> QED
    BY <2>6, <2>9, <2>10 DEF IInv
<1>3. ASSUME job # None, job.held # None,
             job' = [job EXCEPT !.held.alive = FALSE], UNCHANGED proj
      PROVE  IInv'
  <2> DEFINE lean == [job.held EXCEPT !.alive = FALSE]
             k == [job EXCEPT !.held = lean]
  <2>1. job \in Jobs /\ job.held \in LeanClients
    BY <1>1, <1>3 DEF TypeOK, Jobs
  <2>2. /\ lean \in LeanClients /\ lean.docs = job.held.docs
        /\ lean.uri = job.held.uri /\ lean # None
    BY <2>1, NoneAssumption DEF LeanClients
  <2>3. job' = k
    BY <1>3, <2>1 DEF Jobs
  <2> HIDE DEF lean
  <2>4. /\ k \in Jobs /\ k.held = lean /\ k.req = job.req /\ k.pc = job.pc
        /\ k.todo = job.todo
    BY <2>1, <2>2 DEF Jobs
  <2> HIDE DEF k
  <2>5. TypeOK'
    BY <1>1, <1>3, <2>3, <2>4 DEF TypeOK, LeanExits
  <2>6. Running /\ Shape(job, proj[job.req.project])
    BY <1>3 DEF IInv, JobShape, JobProject
  <2>7. Shape(k, proj[job.req.project])
    BY <1>3, <2>2, <2>4, <2>6 DEF Shape, Opening, UsesLean, StartsLean
  <2>8. JobShape'
    BY <1>3, <2>3, <2>4, <2>6, <2>7 DEF JobShape, JobProject, Running, LeanExits
  <2>9. job' # None
    BY <2>3, <2>4, NoneAssumption
  <2>10. ProjectsInv'
    BY <1>3, <2>3, <2>4, <2>9 DEF IInv, ProjectsInv, Settled, JobProject, Running, LeanExits
  <2> QED
    BY <2>5, <2>8, <2>10 DEF IInv
<1> QED
  BY <1>2, <1>3 DEF LeanExits

\* Once no execution runs and the daemon no longer serves, only the types and
\* the soundness of the remaining projects are left to show.
LEMMA NotRunningPreserves ==
  ASSUME TypeOK', job' = None, ~Running',
         \A p \in Projects : proj'[p] # None =>
           phase' # "stopped" /\ Sound(proj'[p])
  PROVE  IInv'
BY DEF IInv, JobShape, ProjectsInv, Settled

LEMMA LifecyclePreserves ==
  ASSUME IInv,
         \/ OrphanReaped \/ StopRequested \/ AbortConnections \/ DrainProject
         \/ Stopped \/ DaemonLost \/ Relaunch
  PROVE  IInv'
<1>1. TypeOK
  BY DEF IInv
<1>2. \A p \in Projects : proj[p] # None => Sound(proj[p])
  BY DEF IInv, ProjectsInv
<1>3. ~Running => job = None
  BY DEF IInv, JobShape
<1>4. CASE OrphanReaped
  BY <1>1, <1>4, StepAsidePreserves DEF OrphanReaped, TypeOK, Running
<1>5. CASE StopRequested
  BY <1>1, <1>5, StepAsidePreserves DEF StopRequested, TypeOK, Running
<1>6. CASE AbortConnections
  <2>1. job # None => Dropped(job.held) \subseteq Nat
    BY <1>1 DEF Dropped, TypeOK, Jobs, LeanClients
  <2>2. TypeOK'
    BY <1>1, <1>6, <2>1, EmptySeq DEF AbortConnections, Disconnected, TypeOK
  <2> QED
    BY <1>2, <1>6, <2>2, NotRunningPreserves DEF AbortConnections, Disconnected, Running
<1>7. CASE DrainProject
  <2>1. PICK p \in Projects, reaped \in Reaped :
          /\ proj[p] # None /\ Put(p, None) /\ unreaped' = Unreaped(reaped, proj[p].lean)
    BY <1>7 DEF DrainProject
  <2>2. Unreaped(reaped, proj[p].lean) \subseteq Nat
    BY <1>1, <2>1 DEF Unreaped, Dropped, TypeOK, ProjectRecords, LeanClients
  <2>3. TypeOK'
    BY <1>1, <1>7, <2>1, <2>2 DEF DrainProject, TypeOK, Put
  <2>4. \A q \in Projects : proj'[q] # None => Sound(proj'[q])
    BY <1>1, <1>2, <2>1 DEF Put, TypeOK
  <2> QED
    BY <1>3, <1>7, <2>3, <2>4, NotRunningPreserves DEF DrainProject, Running
<1>8. CASE Stopped
  <2>1. TypeOK'
    BY <1>1, <1>8 DEF Stopped, TypeOK
  <2> QED
    BY <1>2, <1>3, <1>8, <2>1, NotRunningPreserves DEF Stopped, Running
<1>9. CASE DaemonLost
  <2>1. TypeOK'
    BY <1>1, <1>9, EmptySeq DEF DaemonLost, Disconnected, TypeOK
  <2> QED
    BY <1>9, <2>1, NotRunningPreserves DEF DaemonLost, Disconnected, Running
<1>10. CASE Relaunch
  <2>1. TypeOK'
    BY <1>1, <1>10 DEF Relaunch, TypeOK
  <2>2. job = None /\ \A p \in Projects : proj[p] = None
    BY <1>3, <1>10 DEF Relaunch, Running, IInv, ProjectsInv
  <2> QED
    BY <1>10, <2>1, <2>2 DEF Relaunch, IInv, JobShape, ProjectsInv
<1> QED
  BY <1>4, <1>5, <1>6, <1>7, <1>8, <1>9, <1>10

-----------------------------------------------------------------------------
(* The invariant holds throughout *)

LEMMA InitEstablishes == Init => IInv
<1> SUFFICES ASSUME Init
             PROVE  IInv
  OBVIOUS
<1>1. TypeOK
  BY EmptySeq DEF Init, TypeOK
<1> QED
  BY <1>1 DEF Init, IInv, JobShape, ProjectsInv

LEMMA NextPreserves == IInv /\ [Next]_vars => IInv'
<1> SUFFICES ASSUME IInv, [Next]_vars
             PROVE  IInv'
  OBVIOUS
<1>1. CASE \E c \in Clients : Send(c) \/ Receive(c)
  BY <1>1, SendPreserves, ReceivePreserves
<1>2. CASE Begin
  BY <1>2, PingPreserves, OpenProjectPreserves, RejectedPreserves,
     ProjectStatusPreserves, OpenDocumentPreserves, CloseDocumentPreserves,
     QueryPreserves, RestartRequestedPreserves, CloseProjectPreserves DEF Begin
<1>3. CASE LeanAnswered
  BY <1>3, InitializedPreserves, ReplayedPreserves, DocumentConnectedPreserves,
     DocumentSelectedPreserves, QueryAnsweredPreserves DEF LeanAnswered
<1>4. CASE LeanReleased
  BY <1>4, ShutdownFinishedPreserves, ProjectClosedPreserves DEF LeanReleased
<1>5. CASE LeanExits
  BY <1>5, LeanExitsPreserves
<1>6. CASE \/ OrphanReaped \/ StopRequested \/ AbortConnections \/ DrainProject
           \/ Stopped \/ DaemonLost \/ Relaunch
  BY <1>6, LifecyclePreserves
<1>7. CASE UNCHANGED vars
  BY <1>7 DEF vars, IInv, TypeOK, JobShape, JobProject, ProjectsInv, Settled,
              Running, Shape, Opening, Sound, Rested
<1> QED
  BY <1>1, <1>2, <1>3, <1>4, <1>5, <1>6, <1>7 DEF Next

\* The strengthened invariant holds in every reachable state, for any number
\* of clients, projects, documents and Lean spawns and any set of faults.
THEOREM Inductive == Spec => []IInv
BY InitEstablishes, NextPreserves, PTL DEF Spec

\* Every variable keeps its type.
THEOREM TypeCorrect == Spec => []TypeOK
<1>1. IInv => TypeOK
  BY DEF IInv
<1> QED
  BY <1>1, Inductive, PTL

\* Whatever edits, refusals, crashes, restarts and replays happened, the Lean
\* child a project owns holds exactly the overlays the daemon recorded.
THEOREM MirrorsOverlays == Spec => []LeanMirrorsOverlays
<1>1. IInv => LeanMirrorsOverlays
  BY DEF IInv, ProjectsInv, Sound, Serves, LeanMirrorsOverlays, HasLean
<1> QED
  BY <1>1, Inductive, PTL

\* The document selected for RPC is an open one, and there is one whenever any
\* document is open.
THEOREM SelectionIsOpen == Spec => []SelectedIsOpen
<1>1. IInv => SelectedIsOpen
  BY DEF IInv, ProjectsInv, Sound, Serves, SelectedIsOpen, HasLean
<1> QED
  BY <1>1, Inductive, PTL

\* At rest a project is ready with a child or degraded without one.
THEOREM RestsReadyOrDegraded == Spec => []ReadyMeansLean
<1>1. ASSUME IInv, NEW p \in Projects, Settled(p)
      PROVE  /\ proj[p].state = IF proj[p].lean = None THEN "degraded" ELSE "ready"
             /\ proj[p].err = (proj[p].lean = None)
  <2>1. Sound(proj[p]) /\ Rested(proj[p]) /\ proj[p] \in ProjectRecords
    BY <1>1 DEF IInv, TypeOK, ProjectsInv, Settled
  <2>2. proj[p].err \in BOOLEAN
    BY <2>1 DEF ProjectRecords
  <2> QED
    BY <2>1, <2>2 DEF Sound, Rested
<1>2. IInv => ReadyMeansLean
  BY <1>1 DEF ReadyMeansLean
<1> QED
  BY <1>2, Inductive, PTL

\* An execution that holds a Lean child holds its project's only one.
THEOREM OneLean == Spec => []OneLeanPerProject
<1>1. IInv => OneLeanPerProject
  <2> SUFFICES ASSUME IInv, job # None, job.held # None
               PROVE  ~HasLean(JobProject)
    BY DEF OneLeanPerProject
  <2>1. Shape(job, proj[JobProject]) /\ job.pc \in Awaits
    BY DEF IInv, JobShape, TypeOK, Jobs
  <2> QED
    BY <2>1 DEF Shape, HasLean, Awaits, UsesLean, StartsLean
<1> QED
  BY <1>1, Inductive, PTL

\* Every await resumes in the situation its code relies on.
THEOREM AwaitsFindTheirShape == Spec => []JobShape
<1>1. IInv => JobShape
  BY DEF IInv
<1> QED
  BY <1>1, Inductive, PTL

\* No sequence of commands, refusals, crashes and cancelled restarts takes a
\* project out of the state its next command relies on.
THEOREM ProjectsStayCoherent == Spec => []ProjectsCoherent
<1>1. SelectedIsOpen /\ ReadyMeansLean /\ OneLeanPerProject /\ JobShape
        => ProjectsCoherent
  BY DEF ProjectsCoherent
<1> QED
  BY <1>1, SelectionIsOpen, RestsReadyOrDegraded, OneLean, AwaitsFindTheirShape, PTL

-----------------------------------------------------------------------------
(* What a step does to the project its execution works on *)

\* What the execution waits for at project p.
At(p) == IF job # None /\ JobProject = p THEN job.pc ELSE "rest"

SameChild(r, x) ==
  IF r.lean = None THEN x.lean = None
  ELSE x.lean # None /\ x.lean.pid = r.lean.pid

\* The generation goes on and its child with it; the child is taken out to be
\* shut down; the start of a child ends, with or without one.
GoesOn(p) ==
  /\ proj'[p].gen = proj[p].gen
  /\ \/ /\ SameChild(proj[p], proj'[p])
        /\ IF At(p) \in StartsLean THEN At(p)' \in StartsLean
           ELSE At(p) # "shutdown" /\ At(p)' \notin StartsLean \cup {"shutdown"}
     \/ /\ proj[p].lean # None /\ proj'[p].lean = None
        /\ At(p)' = "shutdown"
     \/ /\ proj[p].lean = None /\ At(p) \in StartsLean
        /\ At(p)' \notin StartsLean \cup {"shutdown"}

\* The next generation begins, and its child is being started.
GoesFurther(p) ==
  /\ proj'[p].gen = proj[p].gen + 1
  /\ proj[p].lean = None /\ At(p) \notin StartsLean
  /\ proj'[p].lean = None /\ At(p)' = "initialize"

Opened(p) ==
  /\ proj[p] = None /\ At(p) \in StartsLean
  /\ proj'[p].gen = 1 /\ proj'[p].overlays = NoOverlays
  /\ At(p)' \notin StartsLean \cup {"shutdown"}

Moves(p) ==
  \/ /\ proj'[p] = None
     /\ \/ proj[p] = None
        \/ job = None /\ queue # <<>> /\ Call.req.cmd = "closeProject"
  \/ proj'[p] # None /\ Opened(p)
  \/ /\ proj[p] # None /\ proj'[p] # None
     /\ Promise!Edited(proj[p].overlays, proj'[p].overlays)
     /\ GoesOn(p) \/ GoesFurther(p)

Replies(p) ==
  \/ answer' = answer
  \/ /\ job' = None
     /\ \E who \in Clients, code \in Codes,
           snap \in {None} \cup {Snapshot(x) : x \in {proj'[p]} \ {None}} :
          Respond(who, p, code, snap)

\* A document command records its edit when it starts, and nothing else is
\* recorded until it ends; it ends well only with a child.
Edits(p) ==
  /\ job = None /\ job' # None /\ job'.req.cmd \in DocumentCommands =>
       proj'[p] # None /\ proj'[p].overlays[job'.req.uri] = job'.req.text
  /\ job # None /\ proj[p] # None =>
       proj'[p] # None /\ proj'[p].overlays = proj[p].overlays
  /\ job # None /\ job' # None => job'.req = job.req
  /\ job # None /\ job' = None /\ job.req.cmd \in DocumentCommands
       /\ answer'[job.who] # None /\ answer'[job.who].code = "ok" =>
         proj'[p].lean # None
  /\ job = None /\ job' # None /\ job'.req.cmd = "query" =>
       proj'[p] # None /\ Open(proj'[p].overlays) # {}
  /\ job' # None /\ job'.pc = "query" => job'.req.cmd = "query"
  /\ job = None /\ job' # None => job'.req = Call.req

\* A child's session is that of the selected document as it is recorded.
Spoken(r) ==
  r.lean.session = [uri |-> r.lean.uri, text |-> r.overlays[r.lean.uri]]

SameSpoken(r, x) ==
  /\ r # None /\ r.lean # None
  /\ x.lean.uri = r.lean.uri /\ x.lean.session = r.lean.session
  /\ x.overlays = r.overlays

Connecting == {"document", "select"}

\* Unless it is being connected, a child that has a document selected was
\* connected to it or is as it was.
Connects(p) ==
  /\ "refuse" \notin Faults
  /\ proj'[p] # None /\ proj'[p].lean # None /\ proj'[p].lean.uri # None
  /\ At(p)' \notin Connecting
  => \/ Spoken(proj'[p])
     \/ At(p) \notin Connecting /\ SameSpoken(proj[p], proj'[p])

Locally(p) ==
  /\ p \in Projects
  /\ job # None => JobProject = p
  /\ job' # None => JobProject' = p
  /\ \A q \in Projects \ {p} : proj'[q] = proj[q]
  /\ UNCHANGED <<phase, daemon, seen>>

Works(p) == Locally(p) /\ Moves(p) /\ Replies(p) /\ Edits(p) /\ Connects(p)

LEMMA FrameLocally ==
  ASSUME NEW p, Frame(p), NEW x, Put(p, x) \/ (UNCHANGED proj /\ x = proj[p]),
         job' # None => job'.req.project = p
  PROVE  /\ Locally(p) /\ proj'[p] = x
         /\ At(p) = IF job = None THEN "rest" ELSE job.pc
         /\ At(p)' = IF job' = None THEN "rest" ELSE job'.pc
<1>1. p \in Projects /\ proj \in [Projects -> ProjectRecords \cup {None}]
  BY DEF Frame, IInv, TypeOK
<1>2. proj'[p] = x /\ \A q \in Projects \ {p} : proj'[q] = proj[q]
  BY <1>1 DEF Put
<1> QED
  BY <1>1, <1>2 DEF Frame, Locally, At, JobProject

\* The record an execution leaves behind carries the edits it stands for.
Carries(j, x) ==
  LET r == proj[j.req.project]
  IN /\ job # None => job.req = j.req
     /\ job = None => j.req = Call.req
     /\ job # None /\ r # None => x # None /\ x.overlays = r.overlays
     /\ job = None /\ j.req.cmd \in DocumentCommands =>
          x # None /\ x.overlays[j.req.uri] = j.req.text
     /\ job = None /\ j.req.cmd = "query" => x # None /\ Open(x.overlays) # {}

LEMMA StartLeanWorks ==
  ASSUME NEW j \in Jobs, NEW x \in ProjectRecords \cup {None},
         Frame(j.req.project), StartLean(j, x), Carries(j, x),
         \/ x = None /\ proj[j.req.project] = None
         \/ /\ x # None /\ proj[j.req.project] # None
            /\ x.gen = proj[j.req.project].gen + 1
            /\ x.lean = None /\ proj[j.req.project].lean = None
            /\ Promise!Edited(proj[j.req.project].overlays, x.overlays)
            /\ job # None => job.pc \notin StartsLean
  PROVE  Works(j.req.project)
<1> DEFINE p == j.req.project
<1>1. job' \in Jobs /\ job'.req = j.req /\ job'.pc = "initialize" /\ answer' = answer
  BY StartLeanType DEF Frame, IInv
<1>2. job' # None /\ Put(p, x)
  BY <1>1, NoneAssumption DEF StartLean
<1>3. /\ Locally(p) /\ proj'[p] = x /\ At(p)' = "initialize"
      /\ At(p) = IF job = None THEN "rest" ELSE job.pc
  BY <1>1, <1>2, FrameLocally
<1>4. Moves(p)
  BY <1>3 DEF Moves, GoesFurther, StartsLean
<1>5. Edits(p)
  BY <1>1, <1>2, <1>3 DEF Edits, Carries
<1>6. Connects(p)
  BY <1>3 DEF Connects
<1> QED
  BY <1>1, <1>3, <1>4, <1>5, <1>6 DEF Works, Replies

\* The record with which a command goes on, but for its Lean child and state.
Continues(j, e) ==
  LET r == proj[j.req.project]
  IN /\ r # None /\ e \in ProjectRecords
     /\ e.gen = r.gen /\ e.lean = r.lean
     /\ Promise!Edited(r.overlays, e.overlays)
     /\ job # None => job.pc \in UsesLean
     /\ Carries(j, e)

LEMMA RestartLeanWorks ==
  ASSUME NEW j \in Jobs, NEW e \in ProjectRecords, Frame(j.req.project),
         Continues(j, e), RestartLean(j, e)
  PROVE  Works(j.req.project)
<1> DEFINE p == j.req.project
<1>0. proj[p] \in ProjectRecords
  BY DEF Continues, Frame, IInv, TypeOK
<1>1. CASE e.lean # None /\ Put(p, [e EXCEPT !.lean = None])
           /\ job' = [j EXCEPT !.pc = "shutdown", !.held = e.lean]
           /\ UNCHANGED <<answer, spawned, unreaped>>
  <2> DEFINE x == [e EXCEPT !.lean = None]
  <2>1. /\ x \in ProjectRecords /\ x.lean = None /\ x.gen = e.gen
        /\ x.overlays = e.overlays
    BY DEF ProjectRecords
  <2>2. e.lean \in LeanClients \cup {None}
    BY DEF ProjectRecords
  <2>3. /\ job' \in Jobs /\ job'.req = j.req /\ job'.pc = "shutdown"
        /\ job'.held = e.lean
    BY <1>1, <2>2 DEF Jobs, Awaits
  <2>4. job' # None /\ x # None
    BY <2>1, <2>3, NoneAssumption
  <2> HIDE DEF x
  <2>5. /\ Locally(p) /\ proj'[p] = x /\ At(p)' = "shutdown"
    BY <1>1, <2>3, <2>4, FrameLocally DEF x
  <2>6. Moves(p)
    BY <1>1, <2>1, <2>3, <2>4, <2>5 DEF Moves, GoesOn, Continues
  <2>7. Edits(p)
    BY <2>1, <2>3, <2>4, <2>5 DEF Edits, Continues, Carries
  <2>8. Connects(p)
    BY <2>1, <2>5 DEF Connects
  <2> QED
    BY <1>1, <2>5, <2>6, <2>7, <2>8 DEF Works, Replies
<1>2. CASE e.lean = None /\ StartLean(j, Restarting(e)) /\ UNCHANGED unreaped
  <2> DEFINE next == e.gen + 1
             x == Restarting(e)
  <2>1. next \in Nat
    BY DEF ProjectRecords
  <2>2. x = [e EXCEPT !.lean = None, !.gen = next, !.state = "restarting"]
    BY DEF Restarting, ProjectRecords
  <2> HIDE DEF next, x
  <2>3. /\ x \in ProjectRecords /\ x.lean = None /\ x.gen = next
        /\ x.overlays = e.overlays
    BY <2>1, <2>2 DEF ProjectRecords, LeanStates
  <2>4. x # None /\ StartLean(j, x)
    BY <1>2, <2>3, NoneAssumption DEF x
  <2>5. Carries(j, x)
    BY <2>3, <2>4 DEF Continues, Carries
  <2>6. job # None => job.pc \notin StartsLean
    BY DEF Continues, UsesLean, StartsLean
  <2> QED
    BY <1>2, <2>3, <2>4, <2>5, <2>6, StartLeanWorks DEF Continues, next
<1> QED
  BY <1>1, <1>2 DEF RestartLean

LEMMA RecoverWorks ==
  ASSUME NEW j \in Jobs, NEW e \in ProjectRecords, Frame(j.req.project),
         Continues(j, e), Recover(j, e)
  PROVE  Works(j.req.project)
<1> DEFINE k == [j EXCEPT !.why = "recover"]
           x == [e EXCEPT !.err = TRUE, !.state = "degraded"]
<1>1. k \in Jobs /\ k.req = j.req
  BY DEF Jobs
<1>2. /\ x \in ProjectRecords /\ x.lean = e.lean /\ x.gen = e.gen
      /\ x.overlays = e.overlays /\ x # None /\ e # None
  BY NoneAssumption DEF ProjectRecords, LeanStates
<1>3. RestartLean(k, x)
  BY DEF Recover
<1> HIDE DEF k, x
<1>4. Continues(k, x)
  BY <1>1, <1>2 DEF Continues, Carries
<1> QED
  BY <1>1, <1>2, <1>3, <1>4, RestartLeanWorks

\* A reply that leaves the project with the child it has.
LEMMA RespondWorks ==
  ASSUME NEW p, Frame(p), NEW who \in Clients, NEW code \in Codes,
         NEW x \in ProjectRecords \cup {None}, Put(p, x) \/ (UNCHANGED proj /\ x = proj[p]),
         NEW snap \in {None} \cup {Snapshot(y) : y \in {x} \ {None}},
         Respond(who, p, code, snap),
         \/ x = None /\ proj[p] = None
         \/ /\ x # None /\ proj[p] # None
            /\ x.gen = proj[p].gen /\ SameChild(proj[p], x)
            /\ Promise!Edited(proj[p].overlays, x.overlays)
            /\ job # None => job.pc \in UsesLean,
         job # None => /\ proj[p] # None => x.overlays = proj[p].overlays
                       /\ job.req.cmd \in DocumentCommands => x # None /\ x.lean # None,
         "refuse" \notin Faults /\ x # None /\ x.lean # None /\ x.lean.uri # None =>
           \/ Spoken(x)
           \/ (job # None => job.pc \notin Connecting) /\ SameSpoken(proj[p], x)
  PROVE  Works(p)
<1>1. job' = None
  BY DEF Respond
<1>2. /\ Locally(p) /\ proj'[p] = x /\ At(p)' = "rest"
      /\ At(p) = IF job = None THEN "rest" ELSE job.pc
  BY <1>1, FrameLocally
<1>3. Moves(p)
  BY <1>2 DEF Moves, GoesOn, UsesLean, StartsLean
<1>4. Edits(p)
  BY <1>1, <1>2 DEF Edits
<1>5. Replies(p)
  BY <1>1, <1>2 DEF Replies
<1>6. Connects(p)
  BY <1>2 DEF Connects, Connecting
<1> QED
  BY <1>2, <1>3, <1>4, <1>5, <1>6 DEF Works

\* The start of a child ends, well or not.
LEMMA StartEndedWorks ==
  ASSUME NEW p, Frame(p), job # None, job.pc \in StartsLean, job.who \in Clients,
         NEW x \in ProjectRecords, Put(p, x),
         IF Opening(job) THEN /\ proj[p] = None
                              /\ x.gen = 1 /\ x.overlays = NoOverlays
         ELSE /\ proj[p] # None /\ proj[p].lean = None
              /\ x.gen = proj[p].gen /\ x.overlays = proj[p].overlays,
         x.lean # None /\ x.lean.uri # None => Spoken(x),
         \/ \E code \in Codes : /\ Respond(job.who, p, code, Snapshot(x))
                                /\ code = "ok" => Opening(job) \/ x.lean # None
         \/ /\ job' # None /\ job'.pc = "query" /\ job'.req = job.req
            /\ job.req.cmd = "query" /\ answer' = answer
  PROVE  Works(p)
<1>1. x # None /\ JobProject = p
  BY NoneAssumption DEF Frame
<1>2. job' # None => /\ job'.req.project = p /\ job'.pc = "query"
                     /\ job'.req = job.req /\ job.req.cmd = "query"
  BY <1>1 DEF Respond, JobProject
<1>3. /\ Locally(p) /\ proj'[p] = x /\ At(p) = job.pc
      /\ At(p)' \notin StartsLean \cup {"shutdown"}
  BY <1>2, FrameLocally DEF StartsLean
<1>4. Promise!Edited(x.overlays, x.overlays)
  BY DEF Promise!Edited
<1>5. Moves(p)
  BY <1>1, <1>3, <1>4 DEF Moves, GoesOn, Opened
<1>6. \A code : Respond(job.who, p, code, Snapshot(x)) => answer'[job.who].code = code
  BY DEF Respond, Frame, IInv, TypeOK
<1>7. Edits(p)
  BY <1>1, <1>2, <1>3, <1>6 DEF Edits, Opening, DocumentCommands, Respond
<1>8. Replies(p)
  <2>1. Snapshot(x) \in {None} \cup {Snapshot(y) : y \in {proj'[p]} \ {None}}
    BY <1>1, <1>3
  <2>2. \A code : Respond(job.who, p, code, Snapshot(x)) => job' = None
    BY DEF Respond
  <2> QED
    BY <2>1, <2>2 DEF Replies
<1>9. Connects(p)
  BY <1>3 DEF Connects
<1> QED
  BY <1>3, <1>5, <1>7, <1>8, <1>9 DEF Works

\* What an execution that starts a child finds when it resumes.
LEMMA StartingFrame ==
  ASSUME IInv, NEW pc \in StartsLean, Awaiting(pc), NEW j \in Jobs,
         NEW held, j = [job EXCEPT !.held = held]
  PROVE  /\ TypeOK /\ job # None /\ job.pc \in StartsLean /\ job.who \in Clients
         /\ j.req = job.req /\ j.who = job.who /\ j.held = held
         /\ JobProject \in Projects
         /\ JobProject = j.req.project /\ Frame(JobProject)
         /\ Opening(j) <=> Opening(job)
         /\ Base(j) \in ProjectRecords
         /\ IF Opening(job)
            THEN /\ proj[JobProject] = None /\ job.todo = {}
                 /\ Base(j).gen = 1 /\ Base(j).overlays = NoOverlays
            ELSE /\ proj[JobProject] # None /\ proj[JobProject].lean = None
                 /\ Base(j) = proj[JobProject]
<1>1. /\ TypeOK /\ job # None /\ job \in Jobs /\ job.pc = pc /\ job.who \in Clients
      /\ JobProject \in Projects /\ JobProject = job.req.project /\ Frame(JobProject)
      /\ Shape(job, proj[JobProject])
  BY AwaitingFrame
<1>2. j.req = job.req /\ j.who = job.who /\ j.held = held
  BY <1>1 DEF Jobs
<1>3. Opening(j) <=> Opening(job)
  BY <1>2 DEF Opening
<1>4. IF Opening(job) THEN proj[JobProject] = None /\ job.todo = {}
      ELSE proj[JobProject] # None /\ proj[JobProject].lean = None
  BY <1>1 DEF Shape
<1>5. Base(j) \in ProjectRecords
  BY <1>1, <1>2, <1>3, <1>4, BaseType
<1>6. Opening(job) => Base(j).gen = 1 /\ Base(j).overlays = NoOverlays
  BY <1>3 DEF Base, NewProject
<1>7. ~Opening(job) => Base(j) = proj[JobProject]
  BY <1>1, <1>2, <1>3 DEF Base
<1> QED
  BY <1>1, <1>2, <1>3, <1>4, <1>5, <1>6, <1>7

LEMMA StartFailedWorks ==
  ASSUME IInv, NEW p, p = JobProject, NEW pc \in StartsLean, Awaiting(pc), StartFailed(job)
  PROVE  Works(p)
<1> DEFINE b == Base(job)
           x == Degraded(b)
<1>1. job \in Jobs /\ job = [job EXCEPT !.held = job.held]
  BY AwaitingFrame DEF Jobs
<1>2. /\ job # None /\ job.pc \in StartsLean /\ job.who \in Clients
      /\ p = job.req.project /\ Frame(p) /\ b \in ProjectRecords
      /\ IF Opening(job)
         THEN /\ proj[p] = None /\ b.gen = 1 /\ b.overlays = NoOverlays
         ELSE /\ proj[p] # None /\ proj[p].lean = None
              /\ b = proj[p]
  BY <1>1, StartingFrame DEF JobProject
<1>3. /\ x \in ProjectRecords /\ x.gen = b.gen /\ x.overlays = b.overlays
      /\ x.lean = None
  BY <1>2 DEF Degraded, ProjectRecords, LeanStates
<1>4. /\ Put(p, x)
      /\ \E code \in Codes : /\ Respond(job.who, p, code, Snapshot(x))
                             /\ code = "ok" => Opening(job)
  BY DEF StartFailed, Codes
<1> HIDE DEF b, x
<1> QED
  BY <1>2, <1>3, <1>4, StartEndedWorks

LEMMA ReplayFromWorks ==
  ASSUME IInv, NEW p, p = JobProject, NEW pc \in StartsLean, Awaiting(pc), NEW j \in Jobs,
         NEW held \in LeanClients, j = [job EXCEPT !.held = held], ReplayFrom(j),
         j.todo = {} /\ held.uri # None =>
           held.session = [uri |-> held.uri, text |-> Base(j).overlays[held.uri]]
  PROVE  Works(p)
<1> DEFINE b == Base(j)
<1>1. /\ TypeOK /\ job # None /\ job.pc \in StartsLean /\ job.who \in Clients
      /\ j.req = job.req /\ j.who = job.who /\ j.held = held
      /\ p = job.req.project /\ p = j.req.project /\ Frame(p)
      /\ Opening(j) <=> Opening(job)
      /\ b \in ProjectRecords
      /\ IF Opening(job)
         THEN /\ proj[p] = None /\ job.todo = {}
              /\ b.gen = 1 /\ b.overlays = NoOverlays
         ELSE /\ proj[p] # None /\ proj[p].lean = None /\ b = proj[p]
  BY StartingFrame DEF JobProject
<1>2. held # None
  BY NoneAssumption
<1>3. CASE j.todo = {} /\ StartSucceeded(j)
  <2> DEFINE x == Ready(b, held)
  <2>1. /\ x \in ProjectRecords /\ x.gen = b.gen /\ x.overlays = b.overlays
        /\ x.lean = held
    BY <1>1 DEF Ready, ProjectRecords, LeanStates
  <2>2. Put(p, x)
    BY <1>1, <1>3 DEF StartSucceeded
  <2>5. held.uri # None => Spoken(x)
    BY <1>3, <2>1 DEF Spoken
  <2>3. CASE /\ job' = [j EXCEPT !.pc = "query", !.held = None] /\ answer' = answer
             /\ j.req.cmd = "query"
    <3>1. job' \in Jobs /\ job'.pc = "query" /\ job'.req = job.req
      BY <1>1, <2>3 DEF Jobs, Awaits
    <3>2. job' # None
      BY <3>1, NoneAssumption
    <3> HIDE DEF x, b
    <3> QED
      BY <1>1, <1>2, <2>1, <2>2, <2>3, <2>5, <3>1, <3>2, StartEndedWorks
  <2>4. CASE \E code \in Codes : Respond(j.who, p, code, Snapshot(x))
    <3> HIDE DEF x, b
    <3> QED
      BY <1>1, <1>2, <2>1, <2>2, <2>4, <2>5, StartEndedWorks
  <2> QED
    BY <1>1, <1>3, <2>3, <2>4 DEF StartSucceeded, Codes
<1>4. ASSUME NEW u \in j.todo,
             job' = [j EXCEPT !.pc = "replay", !.todo = @ \ {u},
                              !.held = Notified(held, u, b.overlays[u])],
             UNCHANGED <<proj, answer, spawned, unreaped>>
      PROVE  Works(p)
  <2> DEFINE lean == Notified(held, u, b.overlays[u])
             docs == [held.docs EXCEPT ![u] = b.overlays[u]]
             rest == j.todo \ {u}
  <2>a. u \in Uris /\ rest \in SUBSET Uris /\ b.overlays \in Overlays
    BY <1>1 DEF Jobs, ProjectRecords
  <2>b. docs \in Overlays
    BY <2>a DEF Overlays, LeanClients
  <2>c. lean = [held EXCEPT !.docs = docs, !.uri = u]
    BY DEF Notified, LeanClients
  <2> HIDE DEF docs
  <2>d. lean \in LeanClients
    BY <2>a, <2>b, <2>c DEF LeanClients
  <2>e. job' = [j EXCEPT !.pc = "replay", !.todo = rest, !.held = lean]
    BY <1>4 DEF Jobs
  <2> HIDE DEF lean, rest
  <2>1. job' \in Jobs /\ job'.pc = "replay" /\ job'.req = job.req
    BY <1>1, <2>a, <2>d, <2>e DEF Jobs, Awaits
  <2>2. j.todo = job.todo /\ ~Opening(job)
    BY <1>1, <1>4 DEF Jobs
  <2>3. job' # None
    BY <2>1, NoneAssumption
  <2>4. /\ Locally(p) /\ proj'[p] = proj[p] /\ At(p)' = "replay"
        /\ At(p) = job.pc
    <3>1. job'.req.project = p /\ Put(p, proj[p])
      BY <1>1, <1>4, <2>1 DEF Put, TypeOK, JobProject
    <3>2. /\ Locally(p) /\ proj'[p] = proj[p]
          /\ At(p) = IF job = None THEN "rest" ELSE job.pc
          /\ At(p)' = IF job' = None THEN "rest" ELSE job'.pc
      BY <1>1, <3>1, FrameLocally
    <3> QED
      BY <1>1, <2>1, <2>3, <3>2
  <2>5. Moves(p)
    BY <1>1, <2>2, <2>4 DEF Moves, GoesOn, SameChild, StartsLean, Promise!Edited
  <2>6. Edits(p)
    BY <1>1, <2>1, <2>3, <2>4 DEF Edits
  <2>7. Connects(p)
    BY <1>1, <2>2, <2>4 DEF Connects
  <2> QED
    BY <1>4, <2>4, <2>5, <2>6, <2>7 DEF Works, Replies
<1> QED
  BY <1>1, <1>3, <1>4 DEF ReplayFrom

LEMMA SameRecord ==
  ASSUME NEW r \in ProjectRecords
  PROVE  SameChild(r, r) /\ Promise!Edited(r.overlays, r.overlays)
BY DEF SameChild, Promise!Edited

LEMMA ReplyWorks ==
  ASSUME IInv, NEW cmds, Granted(cmds), NEW p, p = Call.req.project,
         NEW code \in Codes,
         NEW snap \in {None} \cup {Snapshot(y) : y \in {proj[p]} \ {None}},
         Reply(code, snap)
  PROVE  Works(p)
<1>1. /\ TypeOK /\ job = None /\ Call.who \in Clients /\ p \in Projects
      /\ Frame(p)
  BY GrantedFrame
<1>2. proj[p] \in ProjectRecords \cup {None}
  BY <1>1 DEF TypeOK
<1>3. UNCHANGED proj /\ Respond(Call.who, p, code, snap)
  BY DEF Reply
<1>4. proj[p] # None => SameChild(proj[p], proj[p])
                          /\ Promise!Edited(proj[p].overlays, proj[p].overlays)
  BY <1>2, SameRecord
<1> HIDE DEF Call
<1> QED
  BY <1>1, <1>2, <1>3, <1>4, RespondWorks DEF SameSpoken

LEMMA OpenProjectWorks ==
  ASSUME IInv, OpenProject, NEW p, p = Call.req.project
  PROVE  Works(p)
<1>1. Granted({"openProject"})
  BY DEF OpenProject
<1>2. /\ TypeOK /\ job = None /\ Call \in Calls /\ Call.req.cmd = "openProject"
      /\ p \in Projects /\ Frame(p)
  BY <1>1, GrantedFrame
<1>3. CASE \E code \in Codes : Reply(code, None)
  BY <1>1, <1>3, ReplyWorks
<1>4. CASE proj[p] # None /\ \E code \in Codes : Reply(code, Snapshot(proj[p]))
  BY <1>1, <1>4, ReplyWorks
<1>5. CASE proj[p] = None /\ StartLean(NewJob(Call, "initialize"), None)
  <2>1. PICK j : j = NewJob(Call, "initialize")
    OBVIOUS
  <2>2. j \in Jobs /\ j.req = Call.req
    BY <1>2, <2>1, NewJobType DEF Awaits
  <2>3. Carries(j, None)
    BY <1>2, <2>2 DEF Carries, DocumentCommands
  <2> QED
    BY <1>2, <1>5, <2>1, <2>2, <2>3, StartLeanWorks
<1> QED
  BY <1>3, <1>4, <1>5 DEF OpenProject, Codes

\* What an admitted command works with.
LEMMA AdmittedContinues ==
  ASSUME IInv, NEW cmds, Admitted(cmds), "openProject" \notin cmds, NEW pc \in Awaits,
         NEW p, p = Call.req.project, NEW j, j = NewJob(Call, pc)
  PROVE  /\ Granted(cmds) /\ job = None /\ TypeOK
         /\ Call.who \in Clients /\ Call.req \in Requests /\ Call.req.cmd \in cmds
         /\ p \in Projects /\ Frame(p)
         /\ proj[p] \in ProjectRecords /\ proj[p] # None
         /\ j \in Jobs /\ j # None /\ j.req = Call.req /\ j.req.project = p
         /\ j.pc = pc /\ j.held = None /\ j.who = Call.who
         /\ Call.req.cmd \notin DocumentCommands \cup {"query"} => Continues(j, proj[p])
<1>1. /\ Granted(cmds) /\ job = None /\ TypeOK
      /\ Call.who \in Clients /\ Call.req \in Requests /\ Call.req.cmd \in cmds
      /\ p \in Projects /\ Frame(p)
      /\ proj[p] \in ProjectRecords
      /\ j \in Jobs /\ j.req = Call.req /\ j.pc = pc /\ j.held = None
  BY AdmittedFrame
<1>2. proj[p] # None /\ j # None
  BY <1>1, NoneAssumption
<1>3. Promise!Edited(proj[p].overlays, proj[p].overlays)
  BY DEF Promise!Edited
<1>4. j.who = Call.who
  BY DEF NewJob
<1> QED
  BY <1>1, <1>2, <1>3, <1>4 DEF Continues, Carries

LEMMA ProjectStatusWorks ==
  ASSUME IInv, ProjectStatus, NEW p, p = Call.req.project
  PROVE  Works(p)
<1>1. Admitted({"projectStatus"})
  BY DEF ProjectStatus
<1>2. PICK j : j = NewJob(Call, "shutdown")
  OBVIOUS
<1>3. /\ Granted({"projectStatus"}) /\ Frame(p) /\ proj[p] \in ProjectRecords
      /\ proj[p] # None /\ j \in Jobs /\ j.req.project = p /\ Continues(j, proj[p])
  BY <1>1, <1>2, AdmittedContinues DEF Awaits, DocumentCommands
<1>4. CASE Reply("ok", Snapshot(proj[p]))
  BY <1>3, <1>4, ReplyWorks DEF Codes
<1>5. CASE Recover(j, proj[p])
  BY <1>3, <1>5, RecoverWorks
<1> QED
  BY <1>2, <1>4, <1>5 DEF ProjectStatus

\* The command goes on with a child in place.
LEMMA UsesWorks ==
  ASSUME IInv, NEW j \in Jobs, NEW x \in ProjectRecords, NEW p, p = j.req.project,
         Frame(p), job = None, job' = j, answer' = answer, j.pc \in UsesLean,
         Put(p, x) \/ (UNCHANGED proj /\ x = proj[p]), x # None, proj[p] # None,
         x.gen = proj[p].gen, SameChild(proj[p], x),
         Promise!Edited(proj[p].overlays, x.overlays), Carries(j, x),
         j.pc = "query" => x = proj[p] /\ j.req.cmd = "query"
  PROVE  Works(p)
<1>1. job' # None
  BY NoneAssumption
<1>2. /\ Locally(p) /\ proj'[p] = x /\ At(p) = "rest" /\ At(p)' = j.pc
  BY <1>1, FrameLocally
<1>3. Moves(p)
  BY <1>2 DEF Moves, GoesOn, UsesLean, StartsLean
<1>4. Edits(p)
  BY <1>1, <1>2 DEF Edits, Carries
<1>5. Connects(p)
  BY <1>2 DEF Connects, SameSpoken, UsesLean, Connecting
<1> QED
  BY <1>2, <1>3, <1>4, <1>5 DEF Works, Replies

LEMMA QueryWorks ==
  ASSUME IInv, Query, NEW p, p = Call.req.project
  PROVE  Works(p)
<1>1. Admitted({"query"})
  BY DEF Query
<1>2. PICK j : j = NewJob(Call, "query")
  OBVIOUS
<1>3. /\ Granted({"query"}) /\ Frame(p) /\ proj[p] \in ProjectRecords
      /\ proj[p] # None /\ j \in Jobs /\ j.req.project = p /\ j.pc = "query"
      /\ job = None /\ j.req.cmd = "query" /\ j.req = Call.req
  BY <1>1, <1>2, AdmittedContinues DEF Awaits
<1>4. Open(proj[p].overlays) # {} => Continues(j, proj[p])
  BY <1>3, SameRecord DEF Continues, Carries, DocumentCommands
<1>5. CASE Reply("invalidRequest", Snapshot(proj[p]))
  BY <1>3, <1>5, ReplyWorks DEF Codes
<1>6. CASE Open(proj[p].overlays) # {} /\ RestartLean(j, proj[p])
  BY <1>3, <1>4, <1>6, RestartLeanWorks
<1>7. CASE Open(proj[p].overlays) # {} /\ Recover(j, proj[p])
  BY <1>3, <1>4, <1>7, RecoverWorks
<1>8. CASE /\ Open(proj[p].overlays) # {}
           /\ job' = j /\ UNCHANGED <<proj, answer, spawned, unreaped>>
  BY <1>3, <1>4, <1>8, UsesWorks, SameRecord DEF Continues, UsesLean
<1> QED
  BY <1>2, <1>5, <1>6, <1>7, <1>8 DEF Query

LEMMA RestartRequestedWorks ==
  ASSUME IInv, RestartRequested, NEW p, p = Call.req.project
  PROVE  Works(p)
<1>1. PICK j : j = NewJob(Call, "shutdown")
  OBVIOUS
<1>2. /\ Frame(p) /\ proj[p] \in ProjectRecords
      /\ j \in Jobs /\ j.req.project = p /\ Continues(j, proj[p])
  BY <1>1, AdmittedContinues DEF RestartRequested, Awaits, DocumentCommands
<1> QED
  BY <1>1, <1>2, RestartLeanWorks DEF RestartRequested

LEMMA CloseProjectWorks ==
  ASSUME IInv, CloseProject, NEW p, p = Call.req.project
  PROVE  Works(p)
<1>1. Admitted({"closeProject"})
  BY DEF CloseProject
<1>2. PICK j : j = NewJob(Call, "closing")
  OBVIOUS
<1>3. /\ Granted({"closeProject"}) /\ Frame(p) /\ proj[p] \in ProjectRecords
      /\ proj[p] # None /\ j \in Jobs /\ j.req.project = p /\ job = None
      /\ Call.req.cmd = "closeProject" /\ Call.who \in Clients /\ j.req = Call.req
  BY <1>1, <1>2, AdmittedContinues DEF Awaits, DocumentCommands
<1>4. Put(p, None) /\ queue # <<>>
  BY <1>3 DEF CloseProject, Granted
<1>5. job' # None => /\ job'.req.project = p /\ job'.req.cmd = "closeProject"
                     /\ job'.pc = "closing" /\ job'.req = Call.req
  BY <1>2, <1>3, NewJobType DEF CloseProject, Respond, Jobs, NewJob
<1>6. Locally(p) /\ proj'[p] = None
  BY <1>3, <1>4, <1>5, FrameLocally
<1>7. Moves(p)
  BY <1>3, <1>4, <1>6 DEF Moves
<1>8. Edits(p)
  BY <1>2, <1>3, <1>5 DEF Edits, DocumentCommands
<1>9. Replies(p)
  BY <1>3 DEF CloseProject, Replies, Respond, Codes
<1>10. Connects(p)
  BY <1>6 DEF Connects
<1> QED
  BY <1>6, <1>7, <1>8, <1>9, <1>10 DEF Works

LEMMA OpenDocumentWorks ==
  ASSUME IInv, OpenDocument, NEW p, p = Call.req.project
  PROVE  Works(p)
<1> DEFINE u == Call.req.uri
           t == Call.req.text
           r == proj[p]
           o == [r.overlays EXCEPT ![u] = t]
           edited == [r EXCEPT !.overlays = o]
<1>1. Admitted(DocumentCommands)
  BY DEF OpenDocument
<1>2. PICK j : j = NewJob(Call, "document")
  OBVIOUS
<1>3. /\ Granted(DocumentCommands) /\ Frame(p) /\ r \in ProjectRecords
      /\ r # None /\ j \in Jobs /\ j.req = Call.req /\ j.req.project = p
      /\ j.pc = "document" /\ job = None /\ Call.req \in Requests
      /\ Call.req.cmd \in DocumentCommands /\ Sound(r)
  BY <1>1, <1>2, AdmittedContinues, AdmittedFrame DEF Awaits, DocumentCommands
<1>4. u \in Uris /\ t \in Texts
  BY <1>3 DEF Requests, OpenProjectRequests, StatusRequests, DocumentRequests,
              CloseDocumentRequests, FencedRequests, DocumentCommands, FencedCommands
<1>5. o \in Overlays /\ o[u] = t /\ Promise!Edited(r.overlays, o)
  BY <1>3, <1>4 DEF ProjectRecords, Overlays, Promise!Edited
<1>6. edited = [r EXCEPT !.overlays[u] = t]
  BY <1>3 DEF ProjectRecords
<1> HIDE DEF o
<1>7. /\ edited \in ProjectRecords /\ edited.lean = r.lean /\ edited.gen = r.gen
      /\ edited.overlays = o /\ edited # None
  BY <1>3, <1>5, NoneAssumption DEF ProjectRecords
<1>8. Continues(j, edited)
  BY <1>3, <1>5, <1>7 DEF Continues, Carries, DocumentCommands
<1>9. CASE Reply("invalidRequest", None)
  BY <1>3, <1>9, ReplyWorks DEF Codes
<1>10. CASE RestartLean(j, edited)
  BY <1>3, <1>7, <1>8, <1>10, RestartLeanWorks
<1>11. CASE Recover(j, edited)
  BY <1>3, <1>7, <1>8, <1>11, RecoverWorks
<1>12. CASE /\ r.lean # None
            /\ Put(p, [edited EXCEPT !.lean = Notified(r.lean, u, t)])
            /\ job' = j
            /\ UNCHANGED <<answer, spawned, unreaped>>
  <2> DEFINE lean == Notified(r.lean, u, t)
             docs == [r.lean.docs EXCEPT ![u] = t]
             x == [edited EXCEPT !.lean = lean]
  <2>1. r.lean \in LeanClients /\ docs \in Overlays
    BY <1>3, <1>4, <1>12 DEF ProjectRecords, LeanClients, Overlays
  <2>2. lean = [r.lean EXCEPT !.docs = docs, !.uri = u]
    BY <2>1 DEF Notified, LeanClients
  <2> HIDE DEF docs
  <2>3. lean \in LeanClients /\ lean.pid = r.lean.pid
    BY <1>4, <2>1, <2>2 DEF LeanClients
  <2> HIDE DEF lean
  <2>4. /\ x \in ProjectRecords /\ x.lean = lean /\ x.overlays = o /\ x.gen = r.gen
    BY <1>3, <1>7, <2>3 DEF ProjectRecords
  <2>5. x # None /\ lean # None /\ Put(p, x)
    BY <1>12, <2>3, <2>4, NoneAssumption DEF lean
  <2> HIDE DEF x
  <2>6. SameChild(r, x) /\ Carries(j, x)
    BY <1>3, <1>5, <1>12, <2>3, <2>4, <2>5 DEF SameChild, Carries, DocumentCommands
  <2> QED
    BY <1>3, <1>5, <1>12, <2>4, <2>5, <2>6, UsesWorks DEF UsesLean
<1> QED
  BY <1>2, <1>6, <1>9, <1>10, <1>11, <1>12 DEF OpenDocument

LEMMA CloseDocumentWorks ==
  ASSUME IInv, CloseDocument, NEW p, p = Call.req.project
  PROVE  Works(p)
<1> DEFINE u == Call.req.uri
           r == proj[p]
           o == [r.overlays EXCEPT ![u] = None]
           edited == [r EXCEPT !.overlays = o]
           gone == Deselected(r.lean, u)
           closed == [edited EXCEPT !.lean = gone]
           rest == Remaining(r.overlays, u)
<1>1. Admitted({"closeDocument"})
  BY DEF CloseDocument
<1>2. PICK j : j = NewJob(Call, "select")
  OBVIOUS
<1>3. /\ Granted({"closeDocument"}) /\ Frame(p) /\ r \in ProjectRecords
      /\ r # None /\ j \in Jobs /\ j.req = Call.req /\ j.req.project = p
      /\ j.pc = "select" /\ job = None /\ Call.req \in Requests
      /\ Call.req.cmd = "closeDocument" /\ Call.who \in Clients /\ Sound(r)
  BY <1>1, <1>2, AdmittedContinues, AdmittedFrame DEF Awaits, DocumentCommands
<1>4. u \in Uris
  BY <1>3 DEF Requests, OpenProjectRequests, StatusRequests, DocumentRequests,
              CloseDocumentRequests, FencedRequests, DocumentCommands, FencedCommands
<1>5. o \in Overlays /\ Promise!Edited(r.overlays, o) /\ rest \subseteq Uris
  BY <1>3, <1>4 DEF ProjectRecords, Overlays, Promise!Edited, Remaining, Open
<1>6. edited = [r EXCEPT !.overlays[u] = None]
  BY <1>3 DEF ProjectRecords
<1> HIDE DEF o, rest
<1>7. /\ edited \in ProjectRecords /\ edited.lean = r.lean /\ edited.gen = r.gen
      /\ edited.overlays = o /\ edited # None
  BY <1>3, <1>5, NoneAssumption DEF ProjectRecords
<1>8. Continues(j, edited)
  BY <1>3, <1>5, <1>7 DEF Continues, Carries, DocumentCommands
<1> HIDE DEF edited
<1>9. ASSUME r.lean # None
      PROVE  /\ gone \in LeanClients /\ gone.pid = r.lean.pid /\ gone # None
             /\ closed \in ProjectRecords /\ closed # None
             /\ closed.lean = gone /\ closed.gen = r.gen /\ closed.overlays = o
  <2> DEFINE docs == [r.lean.docs EXCEPT ![u] = None]
  <2>1. r.lean \in LeanClients /\ docs \in Overlays
    BY <1>3, <1>4, <1>9 DEF ProjectRecords, LeanClients, Overlays
  <2>2. gone = IF r.lean.uri = u
               THEN [r.lean EXCEPT !.docs = docs, !.uri = None, !.session = None]
               ELSE [r.lean EXCEPT !.docs = docs]
    BY <2>1 DEF Deselected, LeanClients
  <2> HIDE DEF docs
  <2>3. gone \in LeanClients /\ gone.pid = r.lean.pid /\ gone # None
    <3>1. gone \in LeanClients /\ gone.pid = r.lean.pid
      BY <2>1, <2>2 DEF LeanClients
    <3> QED
      BY <3>1, NoneAssumption
  <2> HIDE DEF gone
  <2>4. /\ closed \in ProjectRecords
        /\ closed.lean = gone /\ closed.gen = r.gen /\ closed.overlays = o
    BY <1>7, <2>3 DEF ProjectRecords
  <2> QED
    BY <2>3, <2>4, NoneAssumption
<1> HIDE DEF gone
<1>10. Promise!Edited(r.overlays, o) /\ Carries(j, closed)
  BY <1>3, <1>5 DEF Carries, DocumentCommands
<1>11. CASE Reply("invalidRequest", None)
  BY <1>3, <1>11, ReplyWorks DEF Codes
<1>12. CASE /\ r.lean = None /\ Put(p, edited)
            /\ Respond(Call.who, p, "ok", Snapshot(edited))
  <2>1. SameChild(r, edited)
    BY <1>7, <1>12 DEF SameChild
  <2> HIDE DEF Call
  <2> QED
    BY <1>3, <1>7, <1>10, <1>12, <2>1, RespondWorks DEF Codes
<1>13. CASE Recover(j, edited)
  BY <1>3, <1>7, <1>8, <1>13, RecoverWorks
<1>14. CASE /\ r.lean # None /\ rest = {} /\ Put(p, closed)
            /\ Respond(Call.who, p, "ok", Snapshot(closed))
  <2>1. SameChild(r, closed)
    BY <1>9, <1>14 DEF SameChild
  <2>2. gone.uri = None
    <3>1. r.lean.uri # None => r.lean.uri = u
      BY <1>3, <1>14 DEF rest, Remaining, Sound, Serves
    <3> QED
      BY <1>3, <3>1 DEF gone, Deselected, LeanClients, ProjectRecords
  <2> HIDE DEF Call, closed
  <2> QED
    BY <1>3, <1>9, <1>10, <1>14, <2>1, <2>2, RespondWorks DEF Codes
<1>15. ASSUME r.lean # None, NEW next \in rest,
              Put(p, [closed EXCEPT !.lean.uri = next]),
              job' = j, UNCHANGED <<answer, spawned, unreaped>>
       PROVE  Works(p)
  <2> DEFINE lean == [gone EXCEPT !.uri = next]
             x == [closed EXCEPT !.lean = lean]
  <2>1. lean \in LeanClients /\ lean.pid = r.lean.pid
    BY <1>5, <1>9, <1>15 DEF LeanClients
  <2>2. x = [closed EXCEPT !.lean.uri = next]
    BY <1>9, <1>15 DEF ProjectRecords, LeanClients
  <2> HIDE DEF lean, closed
  <2>3. x \in ProjectRecords /\ x.lean = lean /\ x.overlays = o /\ x.gen = r.gen
    BY <1>9, <1>15, <2>1 DEF ProjectRecords
  <2>4. x # None /\ lean # None /\ Put(p, x)
    BY <1>15, <2>1, <2>2, <2>3, NoneAssumption
  <2> HIDE DEF x
  <2>5. SameChild(r, x) /\ Carries(j, x)
    BY <1>3, <1>15, <2>1, <2>3, <2>4 DEF SameChild, Carries, DocumentCommands
  <2> QED
    BY <1>3, <1>10, <1>15, <2>3, <2>4, <2>5, UsesWorks DEF UsesLean
<1> QED
  BY <1>2, <1>6, <1>11, <1>12, <1>13, <1>14, <1>15 DEF CloseDocument, edited, gone, rest

LEMMA ShutdownFinishedWorks ==
  ASSUME IInv, ShutdownFinished, NEW p, p = JobProject
  PROVE  Works(p)
<1> DEFINE r == proj[p]
           next == r.gen + 1
           x == Restarting(r)
<1>1. PICK j : j = job
  OBVIOUS
<1>2. /\ TypeOK /\ job # None /\ j \in Jobs /\ j.pc = "shutdown" /\ p = j.req.project
      /\ Frame(p) /\ r # None /\ r \in ProjectRecords /\ r.lean = None
  BY <1>1, AwaitingFrame DEF ShutdownFinished, Shape
<1>3. next \in Nat
  BY <1>2 DEF ProjectRecords
<1>4. x = [r EXCEPT !.lean = None, !.gen = next, !.state = "restarting"]
  BY <1>2 DEF Restarting, ProjectRecords
<1> HIDE DEF next, x
<1>5. /\ x \in ProjectRecords /\ x.lean = None /\ x.gen = next
      /\ x.overlays = r.overlays
  BY <1>2, <1>3, <1>4 DEF ProjectRecords, LeanStates
<1>6. StartLean(j, x) /\ x # None
  BY <1>1, <1>2, <1>5, NoneAssumption DEF ShutdownFinished, x, JobProject
<1>7. Carries(j, x) /\ Promise!Edited(r.overlays, x.overlays)
  BY <1>1, <1>2, <1>5, <1>6 DEF Carries, Promise!Edited
<1> QED
  BY <1>1, <1>2, <1>5, <1>6, <1>7, StartLeanWorks DEF next, StartsLean

LEMMA ProjectClosedWorks ==
  ASSUME IInv, ProjectClosed, NEW p, p = JobProject
  PROVE  Works(p)
<1>1. /\ job # None /\ job.who \in Clients /\ Frame(p)
      /\ proj[p] = None /\ ~(job.req.cmd \in DocumentCommands /\ "closed" = "ok")
  BY AwaitingFrame DEF ProjectClosed, Shape
<1>2. UNCHANGED proj /\ Respond(job.who, p, "closed", None) /\ job' = None
  BY DEF ProjectClosed, Respond
<1>3. Locally(p) /\ proj'[p] = None
  BY <1>1, <1>2, FrameLocally
<1>4. answer'[job.who].code = "closed"
  BY <1>1, <1>2 DEF Respond, Frame, IInv, TypeOK
<1>5. Moves(p)
  BY <1>1, <1>3 DEF Moves
<1>6. Edits(p)
  BY <1>1, <1>2, <1>4 DEF Edits
<1>7. Replies(p)
  BY <1>1, <1>2 DEF Replies, Codes
<1>8. Connects(p)
  BY <1>3 DEF Connects
<1> QED
  BY <1>3, <1>5, <1>6, <1>7, <1>8 DEF Works

LEMMA InitializedWorks ==
  ASSUME IInv, Initialized, NEW p, p = JobProject
  PROVE  Works(p)
<1>1. Awaiting("initialize")
  BY DEF Initialized
<1>2. CASE StartFailed(job)
  BY <1>1, <1>2, StartFailedWorks DEF StartsLean
<1>3. CASE job.held # None /\ ReplayFrom(job)
  <2>1. PICK j, held : j = job /\ held = job.held
    OBVIOUS
  <2>2. j \in Jobs /\ held \in LeanClients /\ j = [job EXCEPT !.held = held]
    BY <1>1, <1>3, <2>1, AwaitingFrame DEF Jobs
  <2>3. held.uri = None
    <3>1. Shape(job, proj[JobProject]) /\ job.pc = "initialize"
      BY <1>1, AwaitingFrame
    <3> QED
      BY <1>3, <2>1, <3>1 DEF Shape, StartsLean
  <2> QED
    BY <1>1, <1>3, <2>1, <2>2, <2>3, ReplayFromWorks DEF StartsLean
<1> QED
  BY <1>2, <1>3 DEF Initialized

LEMMA ReplayedWorks ==
  ASSUME IInv, Replayed, NEW p, p = JobProject
  PROVE  Works(p)
<1>1. Awaiting("replay")
  BY DEF Replayed
<1>2. CASE StartFailed(job)
  BY <1>1, <1>2, StartFailedWorks DEF StartsLean
<1>3. CASE ReplayFrom([job EXCEPT !.held = Connected(job.held)])
  <2>1. PICK j, held : held = Connected(job.held) /\ j = [job EXCEPT !.held = held]
    OBVIOUS
  <2>2. /\ job \in Jobs /\ job.held \in LeanClients
        /\ job.held.uri \in Open(proj[JobProject].overlays) \ job.todo
        /\ job.held.docs = [u \in Uris |-> IF u \in job.todo THEN None
                                           ELSE proj[JobProject].overlays[u]]
    BY <1>1, AwaitingFrame DEF Shape, StartsLean, Jobs
  <2>3. job.held.uri \in Uris /\ job.held.docs[job.held.uri] # None
    BY <2>2 DEF Open
  <2>4. held \in LeanClients
    BY <2>1, <2>2, <2>3, ConnectedType
  <2>5. j \in Jobs
    BY <2>1, <2>2, <2>4 DEF Jobs
  <2>6. j.todo = {} =>
          held.session = [uri |-> held.uri, text |-> Base(j).overlays[held.uri]]
    <3>1. /\ held.uri = job.held.uri
          /\ held.session = [uri |-> job.held.uri, text |-> job.held.docs[job.held.uri]]
      BY <2>1, <2>2 DEF Connected, LeanClients
    <3>2. j.todo = job.todo /\ Base(j) = proj[JobProject]
      <4>1. job # None /\ job \in Jobs /\ Shape(job, proj[JobProject]) /\ job.pc = "replay"
        BY <1>1, AwaitingFrame
      <4> QED
        BY <2>1, <4>1 DEF Jobs, Base, Opening, JobProject, Shape, StartsLean
    <3> QED
      BY <2>2, <2>3, <3>1, <3>2
  <2> QED
    BY <1>1, <1>3, <2>1, <2>4, <2>5, <2>6, ReplayFromWorks DEF StartsLean
<1> QED
  BY <1>2, <1>3 DEF Replayed

\* The awaits that use a child end with a reply or with recovery.
LEMMA UseEndedWorks ==
  ASSUME IInv, NEW pc \in UsesLean, Awaiting(pc), NEW p, p = JobProject,
         \/ \E code \in Codes, snap \in {None, Snapshot(proj[p])} :
              /\ Respond(job.who, p, code, snap) /\ UNCHANGED proj
              /\ "refuse" \notin Faults => pc = "query"
         \/ Recover(job, proj[p])
  PROVE  Works(p)
<1> DEFINE r == proj[p]
<1>1. PICK j : j = job
  OBVIOUS
<1>2. /\ TypeOK /\ job # None /\ j \in Jobs /\ job.who \in Clients /\ p \in Projects
      /\ p = j.req.project /\ Frame(p) /\ r \in ProjectRecords /\ r # None
      /\ r.lean # None /\ j.pc \in UsesLean
  BY <1>1, AwaitingFrame DEF Shape
<1>3. SameChild(r, r) /\ Promise!Edited(r.overlays, r.overlays)
  BY <1>2, SameRecord
<1>4. CASE Recover(job, r)
  <2>1. Continues(j, r)
    BY <1>1, <1>2, <1>3 DEF Continues, Carries
  <2> QED
    BY <1>1, <1>2, <1>4, <2>1, RecoverWorks
<1>5. ASSUME NEW code \in Codes, NEW snap \in {None, Snapshot(r)},
             Respond(job.who, p, code, snap), UNCHANGED proj,
             "refuse" \notin Faults => pc = "query"
      PROVE  Works(p)
  <2>1. "refuse" \notin Faults => job.pc \notin Connecting /\ SameSpoken(r, r)
    BY <1>2, <1>5 DEF Awaiting, Connecting, SameSpoken
  <2> QED
    BY <1>1, <1>2, <1>3, <1>5, <2>1, RespondWorks
<1> QED
  BY <1>4, <1>5

\* A connect request answered.
LEMMA ConnectedWorks ==
  ASSUME IInv, NEW pc \in {"document", "select"}, Awaiting(pc),
         NEW p, p = JobProject,
         NEW lean, lean = Connected(proj[p].lean),
         NEW y, y = [proj[p] EXCEPT !.lean = lean] \/ y = Ready(proj[p], lean),
         Put(p, y), Respond(job.who, p, "ok", Snapshot(y))
  PROVE  Works(p)
<1> DEFINE r == proj[p]
<1>1. /\ TypeOK /\ job # None /\ job.who \in Clients /\ Frame(p)
      /\ r \in ProjectRecords /\ r # None /\ Sound(r) /\ r.lean # None
      /\ r.lean.uri # None /\ job.pc \in UsesLean
  BY AwaitingFrame DEF Shape, UsesLean
<1>2. /\ r.lean \in LeanClients /\ r.lean.docs = r.overlays
      /\ r.lean.uri \in Open(r.overlays)
  BY <1>1 DEF ProjectRecords, Sound, Serves
<1>3. r.lean.uri \in Uris /\ r.lean.docs[r.lean.uri] # None
  BY <1>2 DEF Open
<1>4. lean \in LeanClients /\ lean # None /\ lean.pid = r.lean.pid
  <2>1. lean \in LeanClients
    BY <1>2, <1>3, ConnectedType
  <2> QED
    BY <1>2, <2>1, NoneAssumption DEF Connected, LeanClients
<1>5. /\ y \in ProjectRecords /\ y.lean = lean /\ y.overlays = r.overlays
      /\ y.gen = r.gen
  BY <1>1, <1>4 DEF Ready, ProjectRecords, LeanStates
<1>7. Spoken(y)
  BY <1>2, <1>5 DEF Spoken, Connected, LeanClients
<1>6. y # None /\ SameChild(r, y) /\ Promise!Edited(r.overlays, y.overlays)
  BY <1>1, <1>4, <1>5, NoneAssumption DEF SameChild, Promise!Edited
<1> QED
  BY <1>1, <1>4, <1>5, <1>6, <1>7, RespondWorks DEF Codes

LEMMA DocumentConnectedWorks ==
  ASSUME IInv, DocumentConnected, NEW p, p = JobProject
  PROVE  Works(p)
<1>1. Awaiting("document")
  BY DEF DocumentConnected
<1>2. PICK lean, y : lean = Connected(proj[p].lean) /\ y = Ready(proj[p], lean)
  OBVIOUS
<1>3. CASE Put(p, y) /\ Respond(job.who, p, "ok", Snapshot(y))
  BY <1>1, <1>2, <1>3, ConnectedWorks
<1>4. CASE /\ Respond(job.who, p, "oracleFailure", Snapshot(proj[p])) /\ UNCHANGED proj
           /\ Refusing
  BY <1>1, <1>4, UseEndedWorks DEF Codes, UsesLean, Refusing
<1>5. CASE Recover(job, proj[p])
  BY <1>1, <1>5, UseEndedWorks DEF UsesLean
<1> QED
  BY <1>2, <1>3, <1>4, <1>5 DEF DocumentConnected

LEMMA DocumentSelectedWorks ==
  ASSUME IInv, DocumentSelected, NEW p, p = JobProject
  PROVE  Works(p)
<1>1. Awaiting("select")
  BY DEF DocumentSelected
<1>2. PICK lean, y : lean = Connected(proj[p].lean) /\ y = [proj[p] EXCEPT !.lean = lean]
  OBVIOUS
<1>3. CASE Put(p, y) /\ Respond(job.who, p, "ok", Snapshot(y))
  BY <1>1, <1>2, <1>3, ConnectedWorks
<1>4. CASE /\ Respond(job.who, p, "oracleFailure", Snapshot(proj[p])) /\ UNCHANGED proj
           /\ Refusing
  BY <1>1, <1>4, UseEndedWorks DEF Codes, UsesLean, Refusing
<1>5. CASE Recover(job, proj[p])
  BY <1>1, <1>5, UseEndedWorks DEF UsesLean
<1> QED
  BY <1>2, <1>3, <1>4, <1>5 DEF DocumentSelected

LEMMA QueryAnsweredWorks ==
  ASSUME IInv, QueryAnswered, NEW p, p = JobProject
  PROVE  Works(p)
<1>1. Awaiting("query")
  BY DEF QueryAnswered
<1>2. CASE Respond(job.who, p, "answered", None) /\ UNCHANGED proj
  BY <1>1, <1>2, UseEndedWorks DEF Codes, UsesLean
<1>3. CASE Respond(job.who, p, "oracleFailure", Snapshot(proj[p])) /\ UNCHANGED proj
  BY <1>1, <1>3, UseEndedWorks DEF Codes, UsesLean
<1>4. CASE Recover(job, proj[p])
  BY <1>1, <1>4, UseEndedWorks DEF UsesLean
<1> QED
  BY <1>2, <1>3, <1>4 DEF QueryAnswered

\* Whatever a command does up to its next await or to its reply, it does to one
\* project.
LEMMA Worked ==
  ASSUME IInv, Begin \/ LeanAnswered \/ LeanReleased
  PROVE  \E p \in Projects : Works(p)
<1>1. CASE Begin
  <2>1. PICK p : p = Call.req.project
    OBVIOUS
  <2>2. CASE Ping
    <3>1. Granted({"ping"}) /\ Reply("ok", None)
      BY <2>2 DEF Ping
    <3> QED
      BY <2>1, <3>1, ReplyWorks DEF Codes, Works, Locally
  <2>3. CASE Rejected
    BY <2>1, <2>3, ReplyWorks DEF Rejected, Codes, Works, Locally
  <2> QED
    BY <1>1, <2>1, <2>2, <2>3, OpenProjectWorks, ProjectStatusWorks,
       OpenDocumentWorks, CloseDocumentWorks, QueryWorks, RestartRequestedWorks,
       CloseProjectWorks DEF Begin, Works, Locally
<1>2. CASE LeanAnswered \/ LeanReleased
  <2>1. PICK p : p = JobProject
    OBVIOUS
  <2> QED
    BY <1>2, <2>1, InitializedWorks, ReplayedWorks, DocumentConnectedWorks,
       DocumentSelectedWorks, QueryAnsweredWorks, ShutdownFinishedWorks,
       ProjectClosedWorks DEF LeanAnswered, LeanReleased, Works, Locally
<1> QED
  BY <1>1, <1>2

-----------------------------------------------------------------------------
(* The daemon implements LeanSession *)

\* What the abstract session of a project is, by parts.
SessionParts(p) ==
  LET s == SessionOf(p)
      r == proj[p]
  IN /\ s \in Promise!Sessions \cup {None}
     /\ s = None <=> ~Running \/ r = None
     /\ s # None =>
          /\ s.docs = r.overlays /\ s.gen = r.gen
          /\ s.used <=> r.lean # None \/ At(p) = "shutdown"
          /\ s.view = None <=> r.lean = None
          /\ s.view # None => s.view.pid = r.lean.pid /\ s.view.docs = r.overlays

AllParts == \A p \in Projects : SessionParts(p)

LEMMA SessionsHaveParts == IInv => AllParts
<1> SUFFICES ASSUME IInv, NEW p \in Projects
             PROVE  SessionParts(p)
  BY DEF AllParts
<1> DEFINE r == proj[p]
           v == IF r.lean = None THEN None
                ELSE [pid |-> r.lean.pid, docs |-> r.lean.docs]
           used == r.lean # None \/ At(p) = "shutdown"
           s == [docs |-> r.overlays, gen |-> r.gen, used |-> used, view |-> v]
<1>1. CASE ~Running \/ r = None
  BY <1>1 DEF SessionParts, SessionOf
<1>2. CASE Running /\ r # None
  <2>1. r \in ProjectRecords /\ r.lean \in LeanClients \cup {None} /\ Sound(r)
    BY <1>2 DEF IInv, TypeOK, ProjectRecords, ProjectsInv
  <2>2. r.overlays \in Promise!Documents /\ r.gen \in Nat
    BY <2>1 DEF ProjectRecords, Overlays, Promise!Documents
  <2>3. r.lean # None => v \in Promise!Views /\ v # None /\ v.pid = r.lean.pid
                           /\ v.docs = r.overlays
    BY <2>1, <2>2, PromiseAssumption DEF LeanClients, Sound, Serves, Promise!Views
  <2>4. r.lean = None <=> v = None
    BY <2>3
  <2>5. v \in Promise!Views \cup {None}
    BY <2>3
  <2> HIDE DEF v
  <2>a. used \in BOOLEAN
    OBVIOUS
  <2>b. /\ s.docs = r.overlays /\ s.gen = r.gen /\ s.view = v
        /\ s.used <=> r.lean # None \/ At(p) = "shutdown"
    OBVIOUS
  <2>c. SessionOf(p) = s
    <3>1. At(p) = "shutdown" <=> job # None /\ JobProject = p /\ job.pc = "shutdown"
      BY DEF At
    <3> QED
      BY <1>2, <3>1 DEF SessionOf, v
  <2> HIDE DEF used
  <2>6. s \in Promise!Sessions /\ s # None
    BY <2>2, <2>5, <2>a, PromiseAssumption DEF Promise!Sessions
  <2> HIDE DEF s
  <2> QED
    BY <1>2, <2>3, <2>4, <2>6, <2>b, <2>c DEF SessionParts
<1> QED
  BY <1>1, <1>2

LEMMA WorkKeepsPromise ==
  ASSUME IInv, IInv', Running, NEW p \in Projects, Works(p)
  PROVE  /\ Promise!Step(p) \/ SessionOf(p)' = SessionOf(p)
         /\ \A q \in Projects \ {p} : SessionOf(q)' = SessionOf(q)
<1> DEFINE S == [q \in Projects |-> SessionOf(q)]
<1>1. Running'
  BY DEF Works, Locally, Running
<1>2. SessionParts(p)
  BY SessionsHaveParts DEF AllParts
<1>3. SessionParts(p)'
  <2>1. AllParts'
    BY SessionsHaveParts, PTL
  <2> QED
    BY <2>1 DEF AllParts
<1>4. S[p] = SessionOf(p) /\ S'[p] = SessionOf(p)'
  OBVIOUS
<1>5. \A q \in Projects \ {p} : SessionOf(q)' = SessionOf(q)
  BY <1>1 DEF Works, Locally, SessionOf
<1>6. CASE proj'[p] = None
  <2>1. SessionOf(p)' = None
    BY <1>6 DEF SessionOf
  <2> QED
    BY <1>5, <2>1 DEF Promise!Step, Promise!CloseSession
<1>7. CASE proj'[p] # None /\ Opened(p)
  <2>1. Promise!Faithful(SessionOf(p)')
    BY <1>1, <1>3, <1>7 DEF SessionParts, Promise!Faithful
  <2>2. Promise!OpenSession(p)
    BY <1>1, <1>2, <1>3, <1>4, <1>7, <2>1
    DEF SessionParts, Promise!OpenSession, Opened, NoOverlays
  <2> QED
    BY <1>5, <2>2 DEF Promise!Step
<1>8. CASE /\ proj[p] # None /\ proj'[p] # None
           /\ Promise!Edited(proj[p].overlays, proj'[p].overlays)
           /\ GoesOn(p) \/ GoesFurther(p)
  <2> DEFINE s == SessionOf(p)
             t == SessionOf(p)'
  <2>1. /\ s # None /\ s.docs = proj[p].overlays /\ s.gen = proj[p].gen
        /\ s.used <=> proj[p].lean # None \/ At(p) = "shutdown"
        /\ s.view = None <=> proj[p].lean = None
        /\ s.view # None => s.view.pid = proj[p].lean.pid
    BY <1>2, <1>8 DEF SessionParts
  <2>2. /\ t # None /\ t.docs = proj'[p].overlays /\ t.gen = proj'[p].gen
        /\ t.used <=> proj'[p].lean # None \/ At(p)' = "shutdown"
        /\ t.view = None <=> proj'[p].lean = None
        /\ t.view # None => t.view.pid = proj'[p].lean.pid /\ t.view.docs = t.docs
    BY <1>1, <1>3, <1>8 DEF SessionParts
  <2> HIDE DEF s, t
  <2>3. CASE GoesOn(p)
    <3>1. Promise!SameGeneration(s, t)
      BY <2>1, <2>2, <2>3 DEF Promise!SameGeneration, GoesOn, SameChild, StartsLean
    <3> QED
      BY <1>4, <1>5, <1>8, <2>1, <2>2, <3>1
      DEF Promise!Step, Promise!Continue, Promise!Faithful, s, t
  <2>4. CASE GoesFurther(p)
    <3>1. Promise!NextGeneration(s, t)
      BY <2>1, <2>2, <2>4 DEF Promise!NextGeneration, GoesFurther
    <3> QED
      BY <1>4, <1>5, <1>8, <2>1, <2>2, <3>1
      DEF Promise!Step, Promise!Continue, Promise!Faithful, s, t
  <2> QED
    BY <1>8, <2>3, <2>4
<1> QED
  BY <1>5, <1>6, <1>7, <1>8 DEF Works, Moves

\* Steps of the frontends, of a child that exits and of the daemon's own life.
LEMMA OthersKeepPromise ==
  ASSUME IInv, IInv', NEW q \in Projects,
         \/ \E c \in Clients : Send(c) \/ Receive(c)
         \/ LeanExits \/ OrphanReaped \/ StopRequested \/ AbortConnections
         \/ DrainProject \/ Stopped \/ DaemonLost \/ Relaunch
         \/ UNCHANGED vars
  PROVE  SessionOf(q)' = SessionOf(q) \/ SessionOf(q)' = None
<1>1. CASE \E c \in Clients : Send(c) \/ Receive(c)
  BY <1>1 DEF Send, Receive, SessionOf, Running, JobProject
<1>2. CASE LeanExits
  <2>1. TypeOK
    BY DEF IInv
  <2>2. ASSUME NEW p \in Projects, proj[p] # None, proj[p].lean # None,
               Put(p, [proj[p] EXCEPT !.lean.alive = FALSE]), UNCHANGED job
        PROVE  SessionOf(q)' = SessionOf(q)
    <3> DEFINE r == proj[p]
               lean == [r.lean EXCEPT !.alive = FALSE]
               x == [r EXCEPT !.lean = lean]
    <3>1. r \in ProjectRecords /\ r.lean \in LeanClients
      BY <2>1, <2>2 DEF TypeOK, ProjectRecords
    <3>2. /\ lean \in LeanClients /\ lean.docs = r.lean.docs /\ lean.pid = r.lean.pid
          /\ lean # None
      BY <3>1, NoneAssumption DEF LeanClients
    <3>3. x = [r EXCEPT !.lean.alive = FALSE]
      BY <3>1 DEF ProjectRecords
    <3> HIDE DEF lean
    <3>4. /\ x \in ProjectRecords /\ x.lean = lean /\ x.overlays = r.overlays
          /\ x.gen = r.gen /\ x # None
      BY <3>1, <3>2, NoneAssumption DEF ProjectRecords
    <3> HIDE DEF x
    <3>5. proj'[p] = x /\ \A o \in Projects \ {p} : proj'[o] = proj[o]
      BY <2>1, <2>2, <3>3 DEF Put, TypeOK
    <3> QED
      BY <1>2, <2>2, <3>2, <3>4, <3>5 DEF LeanExits, SessionOf, Running, JobProject
  <2>3. ASSUME job # None, job.held # None,
               job' = [job EXCEPT !.held.alive = FALSE], UNCHANGED proj
        PROVE  SessionOf(q)' = SessionOf(q)
    <3> DEFINE lean == [job.held EXCEPT !.alive = FALSE]
               k == [job EXCEPT !.held = lean]
    <3>1. job \in Jobs /\ lean \in LeanClients
      BY <2>1, <2>3 DEF TypeOK, Jobs, LeanClients
    <3>2. job' = k
      BY <2>3, <3>1 DEF Jobs
    <3> HIDE DEF lean
    <3>3. k \in Jobs /\ k.req = job.req /\ k.pc = job.pc
      BY <3>1 DEF Jobs
    <3>4. k # None
      BY <3>3, NoneAssumption
    <3> HIDE DEF k
    <3> QED
      BY <1>2, <2>3, <3>2, <3>3, <3>4 DEF LeanExits, SessionOf, Running, JobProject
  <2> QED
    BY <1>2, <2>2, <2>3 DEF LeanExits
<1>3. CASE OrphanReaped \/ StopRequested
  BY <1>3 DEF OrphanReaped, StopRequested, SessionOf, Running, JobProject
<1>4. CASE AbortConnections \/ DrainProject \/ Stopped \/ DaemonLost
  BY <1>4 DEF AbortConnections, DrainProject, Stopped, DaemonLost, SessionOf, Running
<1>5. CASE Relaunch
  BY <1>5 DEF Relaunch, IInv, ProjectsInv, SessionOf
<1>6. CASE UNCHANGED vars
  BY <1>6 DEF vars, SessionOf, Running, JobProject
<1> QED
  BY <1>1, <1>2, <1>3, <1>4, <1>5, <1>6

LEMMA StepKeepsPromise ==
  ASSUME IInv, IInv', [Next]_vars
  PROVE  Promise!Next
<1> DEFINE S == [p \in Projects |-> SessionOf(p)]
<1>1. S' \in [Projects -> Promise!Sessions \cup {None}]
  <2>1. AllParts'
    BY SessionsHaveParts, PTL
  <2>2. \A q \in Projects : SessionOf(q)' \in Promise!Sessions \cup {None}
    BY <2>1 DEF AllParts, SessionParts
  <2> QED
    BY <2>2
<1>2. ASSUME NEW p \in Projects
      PROVE  Promise!Step(p) \/ S'[p] = S[p]
  <2>1. CASE Begin \/ LeanAnswered \/ LeanReleased
    <3>1. Running
      BY <2>1 DEF Begin, LeanAnswered, LeanReleased, Ping, OpenProject, Rejected,
                  ProjectStatus, OpenDocument, CloseDocument, Query, RestartRequested,
                  CloseProject, Admitted, Granted, Initialized, Replayed,
                  DocumentConnected, DocumentSelected, QueryAnswered,
                  ShutdownFinished, ProjectClosed, Awaiting
    <3>2. PICK w \in Projects : Works(w)
      BY <2>1, Worked
    <3> QED
      BY <3>1, <3>2, WorkKeepsPromise
  <2>2. CASE \/ \E c \in Clients : Send(c) \/ Receive(c)
             \/ LeanExits \/ OrphanReaped \/ StopRequested \/ AbortConnections
             \/ DrainProject \/ Stopped \/ DaemonLost \/ Relaunch
             \/ UNCHANGED vars
    <3>1. SessionOf(p)' = SessionOf(p) \/ SessionOf(p)' = None
      BY <2>2, OthersKeepPromise
    <3> QED
      BY <3>1 DEF Promise!Step, Promise!CloseSession
  <2> QED
    BY <2>1, <2>2 DEF Next
<1> QED
  BY <1>1, <1>2 DEF Promise!Next

\* Through every edit, refusal, crash, restart, cancellation and loss the daemon
\* keeps what LeanSession promises of a project: the record changes at one
\* document at most, a child serves exactly the record, and a generation is
\* served by at most one Lean process.
THEOREM DaemonKeepsPromise == Spec => KeepsPromise
<1>1. Init => Promise!Init
  BY DEF Init, SessionOf, Promise!Init
<1>2. IInv /\ IInv' /\ [Next]_vars => Promise!Next
  BY StepKeepsPromise
<1> QED
  BY <1>1, <1>2, Inductive, PTL DEF Spec, KeepsPromise, Promise!Spec

-----------------------------------------------------------------------------
(* Acknowledged edits *)

\* While a document command runs, the record holds its edit.
EditRecorded ==
  job # None /\ job.req.cmd \in DocumentCommands =>
    /\ proj[JobProject] # None
    /\ proj[JobProject].overlays[job.req.uri] = job.req.text

\* The steps that are none of an execution's own.
Aside == \/ \E c \in Clients : Send(c) \/ Receive(c)
         \/ LeanExits \/ OrphanReaped \/ StopRequested \/ AbortConnections
         \/ DrainProject \/ Stopped \/ DaemonLost \/ Relaunch
         \/ UNCHANGED vars

LEMMA StepsByKind ==
  ASSUME IInv, [Next]_vars
  PROVE  Aside \/ (Running /\ Running' /\ \E p \in Projects : Works(p))
<1>1. CASE Begin \/ LeanAnswered \/ LeanReleased
  <2>1. Running
    BY <1>1 DEF Begin, LeanAnswered, LeanReleased, Ping, OpenProject, Rejected,
                ProjectStatus, OpenDocument, CloseDocument, Query, RestartRequested,
                CloseProject, Admitted, Granted, Initialized, Replayed,
                DocumentConnected, DocumentSelected, QueryAnswered,
                ShutdownFinished, ProjectClosed, Awaiting
  <2>2. PICK p \in Projects : Works(p)
    BY <1>1, Worked
  <2> QED
    BY <2>1, <2>2 DEF Running, Works, Locally
<1>2. CASE ~(Begin \/ LeanAnswered \/ LeanReleased)
  BY <1>2 DEF Next, Aside
<1> QED
  BY <1>1, <1>2

\* A child that exits changes nothing but whether it runs.
LEMMA ExitsAside ==
  ASSUME IInv, LeanExits
  PROVE  /\ UNCHANGED <<phase, daemon, connected, queue, answer, seen>>
         /\ job' = None <=> job = None
         /\ job # None => /\ job'.req = job.req /\ job'.pc = job.pc /\ job'.why = job.why
                          /\ job'.who = job.who
                          /\ job'.held = None <=> job.held = None
                          /\ job.held # None => /\ job'.held.pid = job.held.pid
                                                /\ job'.held.uri = job.held.uri
                                                /\ job'.held.session = job.held.session
         /\ \A q \in Projects :
              /\ proj'[q] = None <=> proj[q] = None
              /\ proj[q] # None =>
                   /\ proj'[q].overlays = proj[q].overlays /\ proj'[q].gen = proj[q].gen
                   /\ proj'[q].lean = None <=> proj[q].lean = None
                   /\ proj[q].lean # None =>
                        /\ proj'[q].lean.pid = proj[q].lean.pid
                        /\ proj'[q].lean.uri = proj[q].lean.uri
                        /\ proj'[q].lean.session = proj[q].lean.session
<1>1. TypeOK
  BY DEF IInv
<1>2. ASSUME NEW p \in Projects, proj[p] # None, proj[p].lean # None,
             Put(p, [proj[p] EXCEPT !.lean.alive = FALSE])
      PROVE  \A q \in Projects :
              /\ proj'[q] = None <=> proj[q] = None
              /\ proj[q] # None =>
                   /\ proj'[q].overlays = proj[q].overlays /\ proj'[q].gen = proj[q].gen
                   /\ proj'[q].lean = None <=> proj[q].lean = None
                   /\ proj[q].lean # None =>
                        /\ proj'[q].lean.pid = proj[q].lean.pid
                        /\ proj'[q].lean.uri = proj[q].lean.uri
                        /\ proj'[q].lean.session = proj[q].lean.session
  <2> DEFINE r == proj[p]
             lean == [r.lean EXCEPT !.alive = FALSE]
             x == [r EXCEPT !.lean = lean]
  <2>1. r \in ProjectRecords /\ r.lean \in LeanClients
    BY <1>1, <1>2 DEF TypeOK, ProjectRecords
  <2>2. /\ lean \in LeanClients /\ lean.uri = r.lean.uri /\ lean.pid = r.lean.pid
        /\ lean.session = r.lean.session /\ lean # None
    BY <2>1, NoneAssumption DEF LeanClients
  <2>3. x = [r EXCEPT !.lean.alive = FALSE]
    BY <2>1 DEF ProjectRecords
  <2> HIDE DEF lean
  <2>4. /\ x \in ProjectRecords /\ x.lean = lean /\ x.overlays = r.overlays
        /\ x.gen = r.gen /\ x # None
    BY <2>1, <2>2, NoneAssumption DEF ProjectRecords
  <2> HIDE DEF x
  <2>5. proj'[p] = x /\ \A q \in Projects \ {p} : proj'[q] = proj[q]
    BY <1>1, <1>2, <2>3 DEF Put, TypeOK
  <2> QED
    BY <1>2, <2>2, <2>4, <2>5
<1>3. ASSUME job # None, job.held # None, job' = [job EXCEPT !.held.alive = FALSE]
      PROVE  /\ job' # None
             /\ job'.req = job.req /\ job'.pc = job.pc /\ job'.why = job.why
             /\ job'.who = job.who
             /\ job'.held # None /\ job'.held.pid = job.held.pid
             /\ job'.held.uri = job.held.uri /\ job'.held.session = job.held.session
  <2> DEFINE lean == [job.held EXCEPT !.alive = FALSE]
             k == [job EXCEPT !.held = lean]
  <2>1. job \in Jobs /\ job.held \in LeanClients
    BY <1>1, <1>3 DEF TypeOK, Jobs
  <2>2. /\ lean \in LeanClients /\ lean.uri = job.held.uri /\ lean.pid = job.held.pid
        /\ lean.session = job.held.session /\ lean # None
    BY <2>1, NoneAssumption DEF LeanClients
  <2>3. job' = k
    BY <1>3, <2>1 DEF Jobs
  <2> HIDE DEF lean
  <2>4. /\ k \in Jobs /\ k.held = lean /\ k.req = job.req /\ k.pc = job.pc
        /\ k.why = job.why /\ k.who = job.who
    BY <2>1, <2>2 DEF Jobs
  <2> HIDE DEF k
  <2> QED
    BY <2>2, <2>3, <2>4, NoneAssumption
<1> QED
  BY <1>2, <1>3 DEF LeanExits

LEMMA EditStaysRecorded ==
  ASSUME IInv, EditRecorded, [Next]_vars
  PROVE  EditRecorded'
<1>1. TypeOK /\ (job # None => JobProject \in Projects)
  BY RequestProject DEF IInv, TypeOK, Jobs, JobProject
<1>2. ASSUME NEW p \in Projects, Works(p)
      PROVE  EditRecorded'
  <2>1. CASE job = None
    BY <1>2, <2>1 DEF Works, Locally, Edits, EditRecorded, JobProject
  <2>2. CASE job # None
    BY <1>2, <2>2 DEF Works, Locally, Edits, EditRecorded, JobProject
  <2> QED
    BY <2>1, <2>2
<1>3. CASE LeanExits
  BY <1>1, <1>3, ExitsAside DEF EditRecorded, JobProject
<1>4. CASE (\E c \in Clients : Send(c) \/ Receive(c)) \/ UNCHANGED vars
  BY <1>4 DEF Send, Receive, vars, EditRecorded, JobProject
<1>5. CASE OrphanReaped \/ StopRequested \/ Stopped \/ Relaunch
  BY <1>5 DEF OrphanReaped, StopRequested, Stopped, Relaunch, EditRecorded, JobProject
<1>6. CASE AbortConnections \/ DaemonLost
  BY <1>6 DEF AbortConnections, DaemonLost, Disconnected, EditRecorded
<1>7. CASE DrainProject
  <2>1. job = None
    BY <1>7 DEF DrainProject, IInv, JobShape, Running
  <2> QED
    BY <1>7, <2>1 DEF DrainProject, EditRecorded
<1> QED
  BY <1>2, <1>3, <1>4, <1>5, <1>6, <1>7, StepsByKind DEF Aside

\* A document command is acknowledged only when its text is in the child that
\* serves the project, also when a child was started or restarted for it.
THEOREM EditsReachLean == Spec => AcknowledgedEditReachedLean
<1> DEFINE Reached == \A c \in Clients :
             job # None /\ job' = None /\ job.who = c /\ answer'[c] # None
               /\ answer'[c].code = "ok" /\ job.req.cmd \in DocumentCommands =>
                 /\ proj'[JobProject].lean # None
                 /\ proj'[JobProject].lean.docs[job.req.uri] = job.req.text
<1>1. Init => EditRecorded
  BY DEF Init, EditRecorded
<1>2. IInv /\ EditRecorded /\ [Next]_vars => EditRecorded'
  BY EditStaysRecorded
<1>3. Spec => []EditRecorded
  BY <1>1, <1>2, Inductive, PTL DEF Spec
<1>4. ASSUME IInv, IInv', EditRecorded, [Next]_vars, NEW c \in Clients,
             job # None, job' = None, job.who = c, answer'[c] # None,
             answer'[c].code = "ok", job.req.cmd \in DocumentCommands
      PROVE  /\ proj'[JobProject].lean # None
             /\ proj'[JobProject].lean.docs[job.req.uri] = job.req.text
  <2>1. \A q \in Projects : proj'[q] # None /\ proj'[q].lean # None =>
          proj'[q].lean.docs = proj'[q].overlays
    BY <1>4 DEF IInv, ProjectsInv, Sound, Serves
  <2>2. CASE Aside
    <3>1. ~LeanExits
      BY <1>4, ExitsAside
    <3>2. AbortConnections \/ DaemonLost
      BY <1>4, <2>2, <3>1
      DEF Aside, Send, Receive, OrphanReaped, StopRequested, DrainProject, Stopped,
          Relaunch, vars
    <3>3. answer'[c] = None
      BY <3>2 DEF AbortConnections, DaemonLost, Disconnected
    <3> QED
      BY <1>4, <3>3
  <2>3. CASE \E p \in Projects : Works(p)
    BY <1>4, <2>1, <2>3 DEF Works, Locally, Edits, EditRecorded, JobProject
  <2> QED
    BY <1>4, <2>2, <2>3, StepsByKind
<1>5. IInv /\ IInv' /\ EditRecorded /\ [Next]_vars => [Reached]_vars
  BY <1>4
<1> QED
  BY <1>3, <1>5, Inductive, PTL DEF Spec, AcknowledgedEditReachedLean

-----------------------------------------------------------------------------
(* What clients are told of generations *)

\* Clients ask for what the commands of this instance are.
OfferedCalls == {call \in Calls : call.req.cmd \in Commands}
QueueOffered == queue \in Seq(OfferedCalls)

LEMMA QueueStaysOffered ==
  ASSUME IInv, QueueOffered, [Next]_vars
  PROVE  QueueOffered'
<1>1. ASSUME NEW c \in Clients, Send(c)
      PROVE  QueueOffered'
  <2>1. PICK req \in Offered(c) : queue' = Append(queue, [who |-> c, req |-> req])
    BY <1>1 DEF Send
  <2>2. Known(c) \subseteq Expected
    BY DEF Known, Expected, IInv, TypeOK, Snapshots
  <2>3. req \in Requests /\ req.cmd \in Commands
    BY <2>1, <2>2 DEF Offered, Requests, DocumentRequests, CloseDocumentRequests,
                      FencedRequests
  <2>4. [who |-> c, req |-> req] \in OfferedCalls
    BY <2>3 DEF OfferedCalls, Calls
  <2> HIDE DEF OfferedCalls
  <2> QED
    BY <2>1, <2>4, AppendProperties DEF QueueOffered
<1>2. CASE Begin
  <2>1. queue # <<>> /\ queue' = Tail(queue)
    BY <1>2 DEF Begin, Ping, OpenProject, Rejected, ProjectStatus, OpenDocument,
                CloseDocument, Query, RestartRequested, CloseProject, Admitted, Granted
  <2> HIDE DEF OfferedCalls
  <2> QED
    BY <2>1, HeadTailProperties DEF QueueOffered
<1>3. CASE AbortConnections \/ DaemonLost
  BY <1>3, EmptySeq DEF AbortConnections, DaemonLost, Disconnected, QueueOffered
<1>4. CASE \/ \E c \in Clients : Receive(c)
           \/ LeanAnswered \/ LeanReleased \/ LeanExits \/ OrphanReaped
           \/ StopRequested \/ DrainProject \/ Stopped \/ Relaunch \/ UNCHANGED vars
  BY <1>4 DEF Receive, LeanAnswered, LeanReleased, Initialized, Replayed,
              DocumentConnected, DocumentSelected, QueryAnswered, ShutdownFinished,
              ProjectClosed, Awaiting, LeanExits, OrphanReaped, StopRequested,
              DrainProject, Stopped, Relaunch, vars, QueueOffered
<1> QED
  BY <1>1, <1>2, <1>3, <1>4 DEF Next

\* A client has read this snapshot of p, or will read it.
Told(p, s) ==
  \E c \in Clients :
    \/ seen[c][p] = s
    \/ answer[c] # None /\ answer[c].project = p /\ answer[c].snap = s

\* A snapshot of the current generation names the child that serves it, or the
\* one that is being shut down; without a child, none is on its way.
NamesChild(p, s) ==
  IF s.pid = None
  THEN proj[p].lean = None /\ At(p) \notin StartsLean \cup {"shutdown"}
  ELSE IF proj[p].lean = None THEN At(p) = "shutdown"
       ELSE proj[p].lean.pid = s.pid

\* What has been told of this daemon is of open projects and of no later
\* generation than theirs.
Current(p, s) ==
  Running /\ s.daemon = daemon =>
    /\ proj[p] # None /\ s.gen <= proj[p].gen
    /\ s.gen = proj[p].gen => NamesChild(p, s)

GenerationsNamed ==
  /\ daemon >= 1
  /\ \A p \in Projects, s \in Snapshots : Told(p, s) =>
       1 <= s.daemon /\ s.daemon <= daemon /\ Current(p, s)
  /\ \A p \in Projects, s, t \in Snapshots :
       Told(p, s) /\ Told(p, t) /\ s.daemon = t.daemon /\ s.gen = t.gen => s.pid = t.pid

LEMMA ToldByWork ==
  ASSUME IInv, NEW w \in Projects, Works(w), NEW p \in Projects,
         NEW s \in Snapshots, Told(p, s)'
  PROVE  \/ Told(p, s)
         \/ p = w /\ job' = None /\ proj'[w] # None /\ s = Snapshot(proj'[w])
<1>1. seen' = seen /\ answer \in [Clients -> Answers \cup {None}]
  BY DEF Works, Locally, IInv, TypeOK
<1>2. CASE answer' = answer
  BY <1>1, <1>2 DEF Told
<1>3. ASSUME NEW who \in Clients, NEW code \in Codes,
             NEW snap \in {None} \cup {Snapshot(x) : x \in {proj'[w]} \ {None}},
             job' = None, Respond(who, w, code, snap)
      PROVE  \/ Told(p, s)
             \/ p = w /\ job' = None /\ proj'[w] # None /\ s = Snapshot(proj'[w])
  <2>1. PICK c \in Clients :
          \/ seen'[c][p] = s
          \/ answer'[c] # None /\ answer'[c].project = p /\ answer'[c].snap = s
    BY DEF Told
  <2>2. CASE c # who \/ seen'[c][p] = s
    BY <1>1, <1>3, <2>1, <2>2 DEF Told, Respond
  <2>3. CASE c = who /\ seen'[c][p] # s
    <3>1. answer'[c] = [code |-> code, project |-> w, snap |-> snap]
      BY <1>1, <1>3, <2>3 DEF Respond
    <3> QED
      BY <1>3, <2>1, <2>3, <3>1, NoneAssumption
  <2> QED
    BY <2>2, <2>3
<1> QED
  BY <1>2, <1>3 DEF Works, Replies

LEMMA WorkNames ==
  ASSUME IInv, IInv', GenerationsNamed, QueueOffered, "closeProject" \notin Commands,
         Running, Running', NEW w \in Projects, Works(w)
  PROVE  GenerationsNamed'
<1> DEFINE r == proj[w]
           x == proj'[w]
<1>1. daemon' = daemon /\ daemon >= 1
  BY DEF Works, Locally, GenerationsNamed
<1>2. queue # <<>> => Call.req.cmd # "closeProject"
  <2> SUFFICES ASSUME queue # <<>>
               PROVE  Call.req.cmd # "closeProject"
    OBVIOUS
  <2>1. Call \in OfferedCalls
    <3> HIDE DEF OfferedCalls
    <3> QED
      BY HeadTailProperties DEF QueueOffered, Call
  <2> QED
    BY <2>1 DEF OfferedCalls
<1>3. /\ r # None => r \in ProjectRecords
      /\ x # None => x \in ProjectRecords
  BY DEF IInv, TypeOK
<1>4. ASSUME NEW s \in Snapshots, Told(w, s), s.daemon = daemon
      PROVE  /\ x # None /\ s.gen <= x.gen
             /\ s.gen = x.gen => NamesChild(w, s)'
  <2>1. r # None /\ s.gen <= r.gen /\ (s.gen = r.gen => NamesChild(w, s))
    BY <1>4 DEF GenerationsNamed, Current
  <2>2. s.gen \in Nat /\ r.gen \in Nat
    BY <1>3, <2>1 DEF Snapshots, ProjectRecords
  <2>3. x # None /\ (GoesOn(w) \/ GoesFurther(w))
    BY <1>2, <2>1 DEF Works, Moves, Opened
  <2>4. CASE GoesOn(w)
    <3>1. x.gen = r.gen
      BY <2>4 DEF GoesOn
    <3>2. ASSUME s.gen = r.gen
          PROVE  NamesChild(w, s)'
      <4>1. NamesChild(w, s)
        BY <2>1, <3>2
      <4> QED
        BY <2>4, <4>1 DEF GoesOn, NamesChild, SameChild, StartsLean
    <3> QED
      BY <2>1, <2>3, <3>1, <3>2
  <2>5. CASE GoesFurther(w)
    BY <2>1, <2>2, <2>3, <2>5 DEF GoesFurther
  <2> QED
    BY <2>3, <2>4, <2>5
<1>5. ASSUME NEW s \in Snapshots, job' = None, x # None, s = Snapshot(x)
      PROVE  s.daemon = daemon /\ s.gen = x.gen /\ NamesChild(w, s)'
  <2>1. At(w)' = "rest"
    BY <1>5 DEF At
  <2>2. x.lean \in LeanClients \cup {None}
    BY <1>3, <1>5 DEF ProjectRecords
  <2>3. x.lean # None => s.pid = x.lean.pid /\ s.pid # None
    <3> SUFFICES ASSUME x.lean # None
                 PROVE  s.pid = x.lean.pid /\ s.pid # None
      OBVIOUS
    <3>1. x.lean.pid \in Nat
      BY <2>2 DEF LeanClients
    <3> QED
      BY <1>5, <3>1, NoneAssumption DEF Snapshot
  <2> QED
    BY <1>5, <2>1, <2>3 DEF Snapshot, NamesChild, StartsLean
<1>6. ASSUME NEW q \in Projects \ {w}, NEW s
      PROVE  (NamesChild(q, s) <=> NamesChild(q, s)') /\ proj'[q] = proj[q]
  BY <1>6 DEF Works, Locally, NamesChild, At
<1>7. ASSUME NEW p \in Projects, NEW s \in Snapshots, Told(p, s)'
      PROVE  1 <= s.daemon /\ s.daemon <= daemon' /\ Current(p, s)'
  <2>1. CASE Told(p, s)
    <3>1. 1 <= s.daemon /\ s.daemon <= daemon /\ Current(p, s)
      BY <2>1 DEF GenerationsNamed
    <3>2. Current(p, s)'
      <4>1. CASE p = w
        BY <1>1, <1>4, <2>1, <4>1 DEF Current
      <4>2. CASE p # w
        BY <1>1, <1>6, <3>1, <4>2 DEF Current
      <4> QED
        BY <4>1, <4>2
    <3> QED
      BY <1>1, <3>1, <3>2
  <2>2. CASE p = w /\ job' = None /\ x # None /\ s = Snapshot(x)
    <3>1. s.daemon = daemon /\ s.gen = x.gen /\ NamesChild(w, s)' /\ x.gen \in Nat
      BY <1>3, <1>5, <2>2 DEF ProjectRecords
    <3> QED
      BY <1>1, <2>2, <3>1 DEF Current, IInv, TypeOK
  <2> QED
    BY <1>7, <2>1, <2>2, ToldByWork
<1>8. ASSUME NEW p \in Projects, NEW s \in Snapshots, NEW t \in Snapshots,
             Told(p, s), job' = None, p = w, x # None, t = Snapshot(x),
             s.daemon = t.daemon, s.gen = t.gen
      PROVE  s.pid = t.pid
  <2>1. t.daemon = daemon /\ t.gen = x.gen /\ NamesChild(w, t)'
    BY <1>5, <1>8
  <2>2. NamesChild(w, s)'
    BY <1>4, <1>8, <2>1
  <2>3. At(w)' = "rest"
    BY <1>8 DEF At
  <2> QED
    BY <2>1, <2>2, <2>3 DEF NamesChild
<1>9. ASSUME NEW p \in Projects, NEW s \in Snapshots, NEW t \in Snapshots,
             Told(p, s)', Told(p, t)', s.daemon = t.daemon, s.gen = t.gen
      PROVE  s.pid = t.pid
  <2>1. CASE Told(p, s) /\ Told(p, t)
    BY <1>9, <2>1 DEF GenerationsNamed
  <2>2. CASE Told(p, s) /\ ~Told(p, t)
    BY <1>8, <1>9, <2>2, ToldByWork
  <2>3. CASE ~Told(p, s) /\ Told(p, t)
    <3>1. p = w /\ job' = None /\ x # None /\ s = Snapshot(x)
      BY <1>9, <2>3, ToldByWork
    <3>2. t.pid = s.pid
      BY <1>8, <1>9, <2>3, <3>1
    <3> QED
      BY <3>2
  <2>4. CASE ~Told(p, s) /\ ~Told(p, t)
    <3>1. s = Snapshot(x) /\ t = Snapshot(x)
      BY <1>9, <2>4, ToldByWork
    <3> QED
      BY <3>1
  <2> QED
    BY <2>1, <2>2, <2>3, <2>4
<1> HIDE DEF x, r
<1> QED
  BY <1>1, <1>7, <1>9 DEF GenerationsNamed

\* Aside an execution nobody is told anything new.
LEMMA ToldAside ==
  ASSUME IInv, Aside, NEW p \in Projects, NEW s \in Snapshots,
         Told(p, s)'
  PROVE  Told(p, s)
<1>1. TypeOK
  BY DEF IInv
<1>2. CASE \E c \in Clients : Receive(c)
  <2>1. PICK c \in Clients : Receive(c)
    BY <1>2
  <2>2. PICK d \in Clients :
          \/ seen'[d][p] = s
          \/ answer'[d] # None /\ answer'[d].project = p /\ answer'[d].snap = s
    BY DEF Told
  <2>3. answer[c] \in Answers /\ answer[c].project \in Projects
    BY <1>1, <2>1 DEF TypeOK, Receive, Answers
  <2>4. CASE seen'[d][p] = s /\ seen[d][p] # s
    BY <1>1, <2>1, <2>3, <2>4 DEF Receive, TypeOK, Told
  <2>5. CASE seen[d][p] = s
    BY <2>5 DEF Told
  <2>6. CASE answer'[d] # None /\ answer'[d].project = p /\ answer'[d].snap = s
    <3>1. answer[d] = answer'[d]
      BY <1>1, <2>1, <2>6 DEF Receive, TypeOK
    <3> QED
      BY <2>6, <3>1 DEF Told
  <2> QED
    BY <2>2, <2>4, <2>5, <2>6
<1>3. CASE \E c \in Clients : Send(c)
  BY <1>3 DEF Send, Told
<1>4. CASE LeanExits
  BY <1>4 DEF LeanExits, Told
<1>5. CASE AbortConnections \/ DaemonLost
  BY <1>5 DEF AbortConnections, DaemonLost, Disconnected, Told
<1>6. CASE OrphanReaped \/ StopRequested \/ DrainProject \/ Stopped \/ Relaunch
  BY <1>6 DEF OrphanReaped, StopRequested, DrainProject, Stopped, Relaunch, Told
<1>7. CASE UNCHANGED vars
  BY <1>7 DEF vars, Told
<1> QED
  BY <1>2, <1>3, <1>4, <1>5, <1>6, <1>7 DEF Aside

LEMMA AsideNames ==
  ASSUME IInv, GenerationsNamed, Aside
  PROVE  GenerationsNamed'
<1>1. \A p \in Projects, s \in Snapshots : Told(p, s)' => Told(p, s)
  BY ToldAside
<1>2. daemon \in Nat /\ daemon >= 1
  BY DEF IInv, TypeOK, GenerationsNamed
<1>3. CASE Relaunch
  <2>1. daemon' = daemon + 1
    BY <1>3 DEF Relaunch
  <2>2. ASSUME NEW p \in Projects, NEW s \in Snapshots, Told(p, s)'
        PROVE  1 <= s.daemon /\ s.daemon <= daemon' /\ Current(p, s)'
    <3>1. 1 <= s.daemon /\ s.daemon <= daemon /\ s.daemon \in Nat
      BY <1>1, <2>2 DEF GenerationsNamed, Snapshots
    <3> QED
      BY <1>2, <2>1, <3>1 DEF Current
  <2> QED
    BY <1>1, <1>2, <2>1, <2>2 DEF GenerationsNamed
<1>4. CASE AbortConnections \/ DrainProject \/ Stopped \/ DaemonLost
  <2>1. ~Running' /\ daemon' = daemon
    BY <1>4 DEF AbortConnections, DrainProject, Stopped, DaemonLost, Running
  <2> QED
    BY <1>1, <1>2, <2>1 DEF GenerationsNamed, Current
<1>5. CASE LeanExits
  <2>1. daemon' = daemon /\ (Running' <=> Running)
    BY <1>5, ExitsAside DEF Running
  <2>2. ASSUME NEW p \in Projects, NEW s \in Snapshots, Current(p, s)
        PROVE  Current(p, s)'
    <3>1. At(p)' = At(p)
      BY <1>5, ExitsAside DEF At, JobProject
    <3>2. proj[p] # None => /\ proj'[p] # None /\ proj'[p].gen = proj[p].gen
                            /\ proj'[p].lean = None <=> proj[p].lean = None
                            /\ proj[p].lean # None => proj'[p].lean.pid = proj[p].lean.pid
      BY <1>5, ExitsAside
    <3> QED
      BY <2>1, <2>2, <3>1, <3>2 DEF Current, NamesChild
  <2> QED
    BY <1>1, <1>2, <2>1, <2>2 DEF GenerationsNamed
<1>6. CASE \/ \E c \in Clients : Send(c) \/ Receive(c)
           \/ OrphanReaped \/ StopRequested \/ UNCHANGED vars
  <2>1. UNCHANGED <<daemon, proj, job>> /\ (Running' <=> Running)
    BY <1>6 DEF Send, Receive, OrphanReaped, StopRequested, vars, Running
  <2>2. ASSUME NEW p \in Projects, NEW s \in Snapshots
        PROVE  Current(p, s)' <=> Current(p, s)
    BY <2>1 DEF Current, NamesChild, At, JobProject
  <2> QED
    BY <1>1, <1>2, <2>1, <2>2 DEF GenerationsNamed
<1> QED
  BY <1>3, <1>4, <1>5, <1>6 DEF Aside

-----------------------------------------------------------------------------
(* Sessions are opened for the document as it is *)

\* While the daemon runs, a child that has a document selected, and is not
\* being connected, is in a session of that document as it is recorded.
SessionsFresh ==
  Running => \A p \in Projects :
    HasLean(p) /\ proj[p].lean.uri # None /\ At(p) \notin Connecting => Spoken(proj[p])

\* A query runs only where a document is open.
QueryHasDocument ==
  /\ job # None /\ job.pc = "query" => job.req.cmd = "query"
  /\ job # None /\ job.req.cmd = "query" /\ proj[JobProject] # None =>
       Open(proj[JobProject].overlays) # {}

LEMMA FreshByWork ==
  ASSUME IInv, SessionsFresh, "refuse" \notin Faults, Running,
         NEW w \in Projects, Works(w)
  PROVE  SessionsFresh'
<1> SUFFICES ASSUME NEW p \in Projects, HasLean(p)', proj'[p].lean.uri # None,
                    At(p)' \notin Connecting
             PROVE  Spoken(proj'[p])
  BY DEF SessionsFresh, Spoken
<1>1. CASE p = w
  BY <1>1 DEF Works, Connects, SessionsFresh, HasLean, SameSpoken, Spoken
<1>2. CASE p # w
  BY <1>2 DEF Works, Locally, SessionsFresh, HasLean, At
<1> QED
  BY <1>1, <1>2

LEMMA QueryByWork ==
  ASSUME IInv, QueryHasDocument, NEW w \in Projects, Works(w)
  PROVE  QueryHasDocument'
<1>1. JobProject = job.req.project /\ JobProject' = job'.req.project
  BY DEF JobProject
<1>2. CASE job = None
  BY <1>1, <1>2 DEF QueryHasDocument, Works, Locally, Edits
<1>3. CASE job # None /\ job' # None
  <2>1. job'.req = job.req /\ w = JobProject /\ w = JobProject'
    BY <1>3 DEF Works, Locally, Edits
  <2>2. proj[w] = None => job.req.cmd # "query" \/ proj'[w] = None
    BY <1>3, <2>1 DEF Works, Moves, Opened, IInv, JobShape, Shape, Opening, At,
                      StartsLean
  <2> QED
    BY <1>3, <2>1, <2>2 DEF QueryHasDocument, Works, Edits
<1>4. CASE job' = None
  BY <1>4 DEF QueryHasDocument
<1> QED
  BY <1>2, <1>3, <1>4

LEMMA AsideStaysFresh ==
  ASSUME IInv, SessionsFresh, QueryHasDocument, Aside
  PROVE  SessionsFresh' /\ QueryHasDocument'
<1>1. TypeOK /\ (job # None => JobProject \in Projects) /\ (~Running => job = None)
  BY RequestProject DEF IInv, TypeOK, Jobs, JobProject, JobShape
<1>2. CASE LeanExits
  <2>1. (\A p \in Projects : At(p)' = At(p)) /\ (Running' <=> Running)
    BY <1>2, ExitsAside DEF At, JobProject, Running
  <2>2. SessionsFresh'
    BY <1>2, <2>1, ExitsAside DEF SessionsFresh, HasLean, Spoken
  <2>3. QueryHasDocument'
    BY <1>1, <1>2, ExitsAside DEF QueryHasDocument, JobProject, Open
  <2> QED
    BY <2>2, <2>3
<1>3. CASE AbortConnections \/ DrainProject \/ Stopped \/ DaemonLost
  <2>1. job' = None /\ ~Running'
    BY <1>1, <1>3 DEF AbortConnections, DaemonLost, Disconnected, DrainProject,
                      Stopped, Running
  <2> QED
    BY <2>1 DEF SessionsFresh, QueryHasDocument
<1>4. CASE Relaunch
  <2>1. job' = None /\ \A p \in Projects : proj'[p] = None
    BY <1>1, <1>4 DEF Relaunch, Running, IInv, ProjectsInv
  <2> QED
    BY <2>1 DEF SessionsFresh, QueryHasDocument, HasLean
<1>5. CASE \/ \E c \in Clients : Send(c) \/ Receive(c)
           \/ OrphanReaped \/ StopRequested \/ UNCHANGED vars
  <2>1. UNCHANGED <<proj, job>> /\ (Running' <=> Running)
    BY <1>5 DEF Send, Receive, OrphanReaped, StopRequested, vars, Running
  <2> QED
    BY <2>1 DEF SessionsFresh, QueryHasDocument, HasLean, At, Spoken, JobProject
<1> QED
  BY <1>2, <1>3, <1>4, <1>5 DEF Aside

\* For frontends that close no project and a Lean that refuses no connect, a
\* generation a client read names one Lean process, whoever read it and
\* whenever, and a query runs in a session opened after the last edit.
THEOREM SessionsStayTruthful ==
  ASSUME "closeProject" \notin Commands, "refuse" \notin Faults
  PROVE  Spec => []SessionsTruthful
<1> DEFINE Truths == QueueOffered /\ GenerationsNamed /\ SessionsFresh
                       /\ QueryHasDocument
<1>1. Init => Truths
  <2> SUFFICES ASSUME Init
               PROVE  Truths
    OBVIOUS
  <2>1. \A p \in Projects, s \in Snapshots : ~Told(p, s)
    BY NoneAssumption DEF Init, Told
  <2> QED
    BY <2>1, EmptySeq DEF Init, QueueOffered, GenerationsNamed, SessionsFresh,
                          QueryHasDocument, HasLean
<1>2. IInv /\ IInv' /\ Truths /\ [Next]_vars => Truths'
  <2> SUFFICES ASSUME IInv, IInv', Truths, [Next]_vars
               PROVE  Truths'
    OBVIOUS
  <2>1. QueueOffered'
    BY QueueStaysOffered
  <2>2. CASE Aside
    BY <2>1, <2>2, AsideNames, AsideStaysFresh
  <2>3. CASE Running /\ Running' /\ \E p \in Projects : Works(p)
    BY <2>1, <2>3, WorkNames, FreshByWork, QueryByWork
  <2> QED
    BY <2>2, <2>3, StepsByKind
<1>3. IInv /\ Truths => SessionsTruthful
  <2> SUFFICES ASSUME IInv, Truths
               PROVE  SessionsTruthful
    OBVIOUS
  <2>1. GenerationNamesOneLean
    <3> SUFFICES ASSUME NEW c \in Clients, NEW d \in Clients, NEW p \in Projects,
                        seen[c][p] # None, seen[d][p] # None,
                        seen[c][p].daemon = seen[d][p].daemon,
                        seen[c][p].gen = seen[d][p].gen
                 PROVE  seen[c][p].pid = seen[d][p].pid
      BY DEF GenerationNamesOneLean
    <3>1. /\ seen[c][p] \in Snapshots /\ seen[d][p] \in Snapshots
          /\ Told(p, seen[c][p]) /\ Told(p, seen[d][p])
      BY DEF IInv, TypeOK, Told
    <3> QED
      BY <3>1 DEF GenerationsNamed
  <2>2. FreshSession
    <3> SUFFICES ASSUME job # None, job.pc = "query"
                 PROVE  Spoken(proj[JobProject])
      BY DEF FreshSession, Spoken
    <3>1. /\ JobProject \in Projects /\ Running /\ proj[JobProject] # None
          /\ proj[JobProject].lean # None /\ Sound(proj[JobProject])
          /\ proj[JobProject] \in ProjectRecords
      BY RequestProject DEF IInv, TypeOK, Jobs, JobProject, JobShape, Shape, UsesLean,
                            ProjectsInv
    <3>2. proj[JobProject].lean.uri \in Open(proj[JobProject].overlays)
      BY <3>1 DEF QueryHasDocument, Sound, Serves
    <3>3. proj[JobProject].lean.uri # None
      BY <3>2, NoneAssumption DEF Open
    <3>4. At(JobProject) = "query"
      BY DEF At
    <3> QED
      BY <3>1, <3>3, <3>4 DEF SessionsFresh, HasLean, Connecting
  <2> QED
    BY <2>1, <2>2 DEF SessionsTruthful
<1> HIDE DEF Truths
<1> QED
  BY <1>1, <1>2, <1>3, Inductive, PTL DEF Spec

-----------------------------------------------------------------------------
(* Fences *)

\* A command that is at work on a child at once was admitted by its fence.
LEMMA BegunFenced ==
  ASSUME IInv, Begin, job' # None, job'.pc \in UsesLean, job'.req.expected # None,
         NEW p, p = job'.req.project, NEW w \in Projects, Works(w)
  PROVE  proj[p] # None /\ job'.req.expected = proj[p].gen
<1>1. job'.req = Call.req
  <2>1. job = None
    BY DEF Begin, Ping, OpenProject, Rejected, ProjectStatus, OpenDocument,
           CloseDocument, Query, RestartRequested, CloseProject, Admitted, Granted
  <2> QED
    BY <2>1 DEF Works, Edits
<1>2. ~Ping /\ ~Rejected
  BY DEF Ping, Rejected, Reply, Respond
<1>3. ~OpenProject
  <2> SUFFICES ASSUME OpenProject
               PROVE  FALSE
    OBVIOUS
  <2>1. Granted({"openProject"})
    BY DEF OpenProject
  <2>2. TypeOK /\ Call \in Calls
    BY <2>1, GrantedFrame
  <2>3. StartLean(NewJob(Call, "initialize"), None)
    BY DEF OpenProject, Reply, Respond
  <2>4. NewJob(Call, "initialize") \in Jobs
    BY <2>2, NewJobType DEF Awaits
  <2>5. job'.pc = "initialize"
    BY <2>2, <2>3, <2>4, StartLeanType
  <2> QED
    BY <2>5 DEF UsesLean
<1>4. ~ProjectStatus
  <2> SUFFICES ASSUME ProjectStatus
               PROVE  FALSE
    OBVIOUS
  <2>1. PICK j, r : j = NewJob(Call, "shutdown") /\ r = proj[Call.req.project]
    OBVIOUS
  <2>2. j \in Jobs /\ r \in ProjectRecords /\ TypeOK
    BY <2>1, AdmittedFrame DEF ProjectStatus, Awaits
  <2>3. Recover(j, r)
    BY <2>1 DEF ProjectStatus, Reply, Respond
  <2> DEFINE k == [j EXCEPT !.why = "recover"]
             e == [r EXCEPT !.err = TRUE, !.state = "degraded"]
  <2>4. k \in Jobs /\ e \in ProjectRecords /\ RestartLean(k, e)
    BY <2>2, <2>3 DEF Recover, Jobs, ProjectRecords, LeanStates
  <2> HIDE DEF k, e
  <2>5. CASE job' = [k EXCEPT !.pc = "shutdown", !.held = e.lean]
    BY <2>4, <2>5 DEF Jobs, UsesLean
  <2>6. CASE StartLean(k, Restarting(e))
    <3>1. job' = [k EXCEPT !.pc = "initialize", !.held = job'.held, !.todo = job'.todo]
      BY <2>4, <2>6 DEF StartLean, Jobs
    <3> QED
      BY <2>4, <3>1 DEF Jobs, UsesLean
  <2> QED
    BY <2>4, <2>5, <2>6 DEF RestartLean
<1>5. /\ proj[Call.req.project] # None
      /\ ~StaleFence(Call.req, proj[Call.req.project])
  BY <1>2, <1>3, <1>4
  DEF Begin, OpenDocument, CloseDocument, Query, RestartRequested, CloseProject,
      Admitted, Granted, DocumentCommands
<1> QED
  BY <1>1, <1>5 DEF StaleFence

\* With one daemon, and frontends that close no project, work sent with an
\* expected generation is done by the Lean process that generation was read of.
THEOREM FencesHold ==
  ASSUME "closeProject" \notin Commands, MaxDaemons <= 1
  PROVE  Spec => FencedWorkReachesObservedLean
<1> DEFINE Truths == QueueOffered /\ GenerationsNamed /\ daemon = 1
           Fenced ==
             job = None /\ job' # None /\ job'.pc \in {"document", "select", "query"}
               /\ job'.req.expected # None =>
                 LET observed == seen[job'.who][job'.req.project]
                 IN observed # None /\ observed.pid # None
                      /\ observed.gen = job'.req.expected =>
                        proj'[job'.req.project].lean.pid = observed.pid
<1>1. Init => Truths
  <2> SUFFICES ASSUME Init
               PROVE  Truths
    OBVIOUS
  <2>1. \A p \in Projects, s \in Snapshots : ~Told(p, s)
    BY NoneAssumption DEF Init, Told
  <2> QED
    BY <2>1, EmptySeq DEF Init, QueueOffered, GenerationsNamed
<1>2. IInv /\ IInv' /\ Truths /\ [Next]_vars => Truths'
  <2> SUFFICES ASSUME IInv, IInv', Truths, [Next]_vars
               PROVE  Truths'
    OBVIOUS
  <2>1. QueueOffered'
    BY QueueStaysOffered
  <2>2. CASE Aside
    <3>1. ~Relaunch
      BY InstanceAssumption DEF Relaunch
    <3>2. daemon' = daemon
      BY <2>2, <3>1 DEF Aside, Send, Receive, LeanExits, OrphanReaped, StopRequested,
                        AbortConnections, DrainProject, Stopped, DaemonLost, vars
    <3> QED
      BY <2>1, <2>2, <3>2, AsideNames
  <2>3. CASE Running /\ Running' /\ \E p \in Projects : Works(p)
    <3>1. daemon' = daemon
      BY <2>3 DEF Works, Locally
    <3> QED
      BY <2>1, <2>3, <3>1, WorkNames
  <2> QED
    BY <2>2, <2>3, StepsByKind
<1>3. IInv /\ IInv' /\ Truths /\ [Next]_vars => [Fenced]_vars
  <2> SUFFICES ASSUME IInv, IInv', Truths, Next,
                      job = None, job' # None,
                      job'.pc \in {"document", "select", "query"},
                      job'.req.expected # None,
                      NEW p, p = job'.req.project,
                      NEW s, s = seen[job'.who][p],
                      s # None, s.pid # None, s.gen = job'.req.expected
               PROVE  proj'[p].lean.pid = s.pid
    OBVIOUS
  <2>1. ~Aside
    BY ExitsAside DEF Aside, Send, Receive, OrphanReaped, StopRequested,
                      AbortConnections, Disconnected, DrainProject, Stopped, DaemonLost,
                      Relaunch, vars
  <2>2. ~LeanAnswered /\ ~LeanReleased
    BY DEF LeanAnswered, LeanReleased, Initialized, Replayed, DocumentConnected,
           DocumentSelected, QueryAnswered, ShutdownFinished, ProjectClosed, Awaiting
  <2>3. Begin
    BY <2>1, <2>2 DEF Next, Aside
  <2>4. Running /\ \E w \in Projects : Works(w)
    BY <2>1, StepsByKind
  <2>5. PICK w \in Projects : Works(w)
    BY <2>4
  <2>6. p = w /\ job'.who \in Clients
    BY <2>5 DEF Works, Locally, JobProject, IInv, TypeOK, Jobs
  <2>7. proj[p] # None /\ s.gen = proj[p].gen
    BY <2>3, <2>5, BegunFenced DEF UsesLean
  <2>8. s \in Snapshots /\ Told(p, s)
    BY <2>6 DEF IInv, TypeOK, Told
  <2>9. s.daemon = daemon
    <3>1. 1 <= s.daemon /\ s.daemon <= daemon
      BY <2>6, <2>8 DEF GenerationsNamed
    <3>2. s.daemon \in Nat /\ daemon \in Nat /\ daemon <= 1
      BY <2>8 DEF Snapshots, IInv, TypeOK
    <3> QED
      BY <3>1, <3>2
  <2>10. NamesChild(p, s)
    BY <2>4, <2>6, <2>7, <2>8, <2>9 DEF GenerationsNamed, Current
  <2>11. At(p) = "rest" /\ At(p)' = job'.pc
    BY <2>5, <2>6 DEF At, Works, Locally
  <2>12. proj[p].lean # None /\ proj[p].lean.pid = s.pid
    BY <2>10, <2>11 DEF NamesChild
  <2>13. proj'[p] # None
    BY <2>6 DEF IInv, JobShape, Shape, UsesLean, JobProject
  <2>14. SameChild(proj[p], proj'[p])
    BY <2>5, <2>6, <2>7, <2>11, <2>13
    DEF Works, Moves, GoesOn, GoesFurther, Opened, StartsLean
  <2> QED
    BY <2>12, <2>14 DEF SameChild
<1> HIDE DEF Truths
<1> QED
  BY <1>1, <1>2, <1>3, Inductive, PTL DEF Spec, FencedWorkReachesObservedLean

====
