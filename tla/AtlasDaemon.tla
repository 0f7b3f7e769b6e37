----------------------------- MODULE AtlasDaemon -----------------------------
(***************************************************************************)
(* The atlasd service: client connections queue for the one service mutex, *)
(* the holder executes its command against the project map and the         *)
(* project's Lean child, and every await of that execution is a control    *)
(* location at which the child may exit, other clients may arrive and the  *)
(* daemon may be told to stop (crates/atlasd/src/main.rs, with the         *)
(* LeanClient of crates/atlas-lean-client/src/lib.rs).                     *)
(*                                                                         *)
(* A document's text and editor version are one value of Texts.  Lean, the *)
(* operating system and the frontends are the environment.                 *)
(*                                                                         *)
(* A definition in front of another of the same parameters, whose name it  *)
(* extends, is a faulty variant of it: the runs tell the two apart.        *)
(***************************************************************************)
EXTENDS Naturals, Sequences, FiniteSets

CONSTANTS
  Clients,    \* frontends, each with at most one connection at a time
  Projects,   \* canonical project roots
  Uris,       \* document URIs, numbered in BTreeMap key order
  Texts,      \* document contents together with their editor version
  Launches,   \* Lean launch configurations
  Commands,   \* the commands the frontends of this instance send
  Faults,     \* the environment faults of this instance
  MaxSpawns,  \* bound: frontends fall silent after this many Lean spawns,
  MaxGens,    \* or when a project has reached this generation
  MaxDaemons, \* bound: daemon processes started one after the other
  None

\* Lean refuses an RPC, sends what cannot be used, exits, cannot be spawned, or
\* outlives its kill; the file system fails; the daemon process is lost.
AllFaults == {"refuse", "garble", "exit", "spawn", "timeout", "environment",
              "loss"}

ASSUME InstanceAssumption ==
  /\ Uris \subseteq Nat
  /\ Faults \subseteq AllFaults
  /\ MaxSpawns \in Nat
  /\ MaxGens \in Nat
  /\ MaxDaemons \in Nat

VARIABLES
  phase,     \* "serving", "stopping" (requested), "draining" or "stopped"
  daemon,    \* ServiceContext generation of the running daemon process
  connected, \* clients with an open connection
  queue,     \* connection tasks waiting for the service mutex, in FIFO order
  job,       \* the command execution that holds the mutex, or None
  proj,      \* ServiceState.projects: a Project per open root, or None
  answer,    \* replies written and not yet read
  seen,      \* the last snapshot each client read of each project
  spawned,   \* Lean processes spawned so far: the next process id
  unreaped   \* killed Lean processes that nobody has waited for

vars == <<phase, daemon, connected, queue, job, proj, answer, seen, spawned,
          unreaped>>

-----------------------------------------------------------------------------
(* Data *)

Overlays == [Uris -> Texts \cup {None}]
NoOverlays == [u \in Uris |-> None]
Open(o) == {u \in Uris : o[u] # None}

Sessions == [uri : Uris, text : Texts]

\* A LeanClient together with the state of the child process it owns: the
\* documents the child holds, and whether it still runs.
LeanClients == [pid : Nat, alive : BOOLEAN, docs : Overlays,
                uri : Uris \cup {None}, session : Sessions \cup {None}]

NewLean(pid) == [pid |-> pid, alive |-> TRUE, docs |-> NoOverlays,
                 uri |-> None, session |-> None]

LeanStates == {"ready", "degraded", "restarting", "stopped"}

ProjectRecords == [launch : Launches, overlays : Overlays,
                   lean : LeanClients \cup {None}, gen : Nat,
                   state : LeanStates, err : BOOLEAN]

NewProject(launch) == [launch |-> launch, overlays |-> NoOverlays,
                       lean |-> None, gen |-> 1, state |-> "restarting",
                       err |-> FALSE]

Snapshots == [daemon : Nat, gen : Nat, pid : Nat \cup {None}]
Snapshot(r) == [daemon |-> daemon, gen |-> r.gen,
                pid |-> IF r.lean = None THEN None ELSE r.lean.pid]

Expected == Nat \cup {None}
DocumentCommands == {"openDocument", "changeDocument"}
FencedCommands == {"query", "restartLean", "closeProject"}

OpenProjectRequests == [cmd : {"openProject"}, project : Projects,
                        launch : Launches]
StatusRequests == [cmd : {"ping", "projectStatus"}, project : Projects]
DocumentRequests(expected) ==
  [cmd : DocumentCommands, project : Projects, expected : expected,
   uri : Uris, text : Texts]
CloseDocumentRequests(expected) ==
  [cmd : {"closeDocument"}, project : Projects, expected : expected,
   uri : Uris]
FencedRequests(expected) ==
  [cmd : FencedCommands, project : Projects, expected : expected]

Requests == OpenProjectRequests \cup StatusRequests
              \cup DocumentRequests(Expected)
              \cup CloseDocumentRequests(Expected) \cup FencedRequests(Expected)

Codes == {"ok", "closed", "answered", "invalidRequest", "projectNotFound",
          "storeUnavailable", "staleLeanGeneration", "oracleFailure",
          "leanRestarted", "leanUnavailable"}
Answers == [code : Codes, project : Projects,
            snap : Snapshots \cup {None}]

Awaits == {"initialize", "replay", "shutdown", "document", "select", "query",
           "closing"}

\* One execution of ServiceState::execute.  "held" is a LeanClient owned by
\* the execution and by no project; "todo" the overlays still to replay;
\* "from" the generation when the mutex was granted (a ghost).
Jobs == [who : Clients, req : Requests, pc : Awaits,
         why : {"command", "recover"}, held : LeanClients \cup {None},
         todo : SUBSET Uris, from : Nat \cup {None}]
NewJob(call, pc) ==
  [who |-> call.who, req |-> call.req, pc |-> pc, why |-> "command",
   held |-> None, todo |-> {},
   from |-> IF proj[call.req.project] = None THEN None
            ELSE proj[call.req.project].gen]

\* None stands for Rust's Option::None: it is no value of any of these types.
ASSUME NoneAssumption ==
  /\ None \notin Texts \cup Uris \cup Nat
  /\ None \notin LeanClients
  /\ None \notin ProjectRecords
  /\ None \notin Jobs
  /\ None \notin Answers
  /\ None \notin Snapshots

Init ==
  /\ phase = "serving"
  /\ daemon = 1
  /\ connected = {}
  /\ queue = <<>>
  /\ job = None
  /\ proj = [p \in Projects |-> None]
  /\ answer = [c \in Clients |-> None]
  /\ seen = [c \in Clients |-> [p \in Projects |-> None]]
  /\ spawned = 0
  /\ unreaped = {}

-----------------------------------------------------------------------------
(* Frontends *)

Running == phase \in {"serving", "stopping"}

\* What a client may put in expected_lean_generation: nothing, or the
\* generation of the last snapshot it read.
Known(c) == {None} \cup {seen[c][p].gen : p \in {q \in Projects : seen[c][q] # None}}

Offered(c) ==
  {req \in OpenProjectRequests \cup StatusRequests
             \cup DocumentRequests(Known(c)) \cup CloseDocumentRequests(Known(c))
             \cup FencedRequests(Known(c)) :
     req.cmd \in Commands}

\* serve accepts the stream and spawns handle_connection, which reads the one
\* request of this connection and waits for the mutex.
Send(c) ==
  /\ Running
  /\ c \notin connected
  /\ spawned < MaxSpawns
  /\ \A p \in Projects : proj[p] # None => proj[p].gen < MaxGens
  /\ connected' = connected \cup {c}
  /\ \E req \in Offered(c) : queue' = Append(queue, [who |-> c, req |-> req])
  /\ UNCHANGED <<phase, daemon, job, proj, answer, seen, spawned, unreaped>>

\* handle_connection writes the reply after it released the mutex, so the
\* project may have moved on by the time the client reads the snapshot.
Receive(c) ==
  /\ answer[c] # None
  /\ seen' = IF answer[c].snap = None THEN seen
             ELSE [seen EXCEPT ![c][answer[c].project] = answer[c].snap]
  /\ answer' = [answer EXCEPT ![c] = None]
  /\ connected' = connected \ {c}
  /\ UNCHANGED <<phase, daemon, queue, job, proj, spawned, unreaped>>

-----------------------------------------------------------------------------
(* Pieces of a command execution between two awaits *)

Respond(who, project, code, snap) ==
  /\ answer' = [answer EXCEPT ![who] = [code |-> code, project |-> project,
                                        snap |-> snap]]
  /\ job' = None

Put(p, r) == proj' = [proj EXCEPT ![p] = r]

Dropped(lean) == IF lean = None THEN {} ELSE {lean.pid}

\* A project without a child, after a failure; a project served by a child.
Degraded(r) == [r EXCEPT !.lean = None, !.state = "degraded", !.err = TRUE]

Ready(r, lean) == [r EXCEPT !.lean = lean, !.state = "ready", !.err = FALSE]

\* didOpen or didChange reached the child, and the document is the selected one.
Notified(lean, uri, text) == [lean EXCEPT !.docs[uri] = text, !.uri = uri]

\* What a new child is told before it serves the project.
ReplayableNone(r) == {}
Replayable(r) == IF r = None THEN {} ELSE Open(r.overlays)

\* LeanClient::spawn up to its first await.  A program that cannot be
\* started fails before any process exists.
StartLean(j, r) ==
  /\ Put(j.req.project, r)
  /\ \E started \in {TRUE, "spawn" \notin Faults} :
       /\ spawned' = IF started THEN spawned + 1 ELSE spawned
       /\ job' = [j EXCEPT !.pc = "initialize",
                           !.held = IF started THEN NewLean(spawned + 1) ELSE None,
                           !.todo = Replayable(r)]
  /\ UNCHANGED answer

RestartingSameGeneration(r) == [r EXCEPT !.lean = None, !.state = "restarting"]
Restarting(r) == [r EXCEPT !.lean = None, !.gen = @ + 1, !.state = "restarting"]

RestartLeanUntaken(j, r) ==
  \/ /\ r.lean # None
     /\ Put(j.req.project, r)
     /\ job' = [j EXCEPT !.pc = "shutdown", !.held = r.lean]
     /\ UNCHANGED <<answer, spawned, unreaped>>
  \/ /\ r.lean = None
     /\ StartLean(j, Restarting(r))
     /\ UNCHANGED unreaped

\* restart_lean: shut the old child down if there is one, then start the next
\* generation.
RestartLean(j, r) ==
  \/ /\ r.lean # None
     /\ Put(j.req.project, [r EXCEPT !.lean = None])
     /\ job' = [j EXCEPT !.pc = "shutdown", !.held = r.lean]
     /\ UNCHANGED <<answer, spawned, unreaped>>
  \/ /\ r.lean = None
     /\ StartLean(j, Restarting(r))
     /\ UNCHANGED unreaped

\* recover_from_lean_failure
Recover(j, r) ==
  RestartLean([j EXCEPT !.why = "recover"],
              [r EXCEPT !.err = TRUE, !.state = "degraded"])

StaleFenceAhead(req, r) == req.expected # None /\ req.expected > r.gen
StaleFence(req, r) == req.expected # None /\ req.expected # r.gen

-----------------------------------------------------------------------------
(* The mutex is granted: a command runs up to its first await *)

Call == Head(queue)
Granted(cmds) ==
  /\ Running
  /\ job = None
  /\ queue # <<>>
  /\ Call.req.cmd \in cmds
  /\ queue' = Tail(queue)
  /\ UNCHANGED <<phase, daemon, connected, seen>>

\* A reply that changes nothing but the answer.
Reply(code, snap) ==
  /\ Respond(Call.who, Call.req.project, code, snap)
  /\ UNCHANGED <<proj, spawned, unreaped>>

Ping ==
  /\ Granted({"ping"})
  /\ Reply("ok", None)

OpenProject ==
  /\ Granted({"openProject"})
  /\ LET req == Call.req
         r == proj[req.project]
     IN \/ /\ "environment" \in Faults
           /\ \/ Reply("invalidRequest", None)
              \/ r = None /\ Reply("storeUnavailable", None)
        \/ /\ r # None
           /\ Reply(IF r.launch # req.launch THEN "invalidRequest" ELSE "ok",
                    Snapshot(r))
        \/ /\ r = None
           /\ StartLean(NewJob(Call, "initialize"), None)
           /\ UNCHANGED unreaped

\* Every other command first looks its project up and compares generations.
Rejected ==
  /\ Granted(DocumentCommands \cup FencedCommands
               \cup {"closeDocument", "projectStatus"})
  /\ LET req == Call.req
         r == proj[req.project]
     IN \/ r = None /\ Reply("projectNotFound", None)
        \/ /\ r # None
           /\ req.cmd # "projectStatus"
           /\ StaleFence(req, r)
           /\ Reply("staleLeanGeneration", None)

Admitted(cmds) ==
  /\ Granted(cmds)
  /\ proj[Call.req.project] # None
  /\ Call.req.cmd # "projectStatus" => ~StaleFence(Call.req, proj[Call.req.project])

\* project_status probes a child only if some document is open.
ProjectStatus ==
  /\ Admitted({"projectStatus"})
  /\ LET r == proj[Call.req.project]
     IN \/ /\ r.lean # None /\ Open(r.overlays) # {} => r.lean.alive
           /\ Reply("ok", Snapshot(r))
        \/ /\ r.lean # None /\ Open(r.overlays) # {} /\ ~r.lean.alive
           /\ Recover(NewJob(Call, "shutdown"), r)

\* open_document: the overlay is recorded before anything is sent to Lean.
\* The notification reaches a running child; a dead one fails the write.
OpenDocument ==
  /\ Admitted(DocumentCommands)
  /\ LET req == Call.req
         r == proj[req.project]
         edited == [r EXCEPT !.overlays[req.uri] = req.text]
         j == NewJob(Call, "document")
     IN \/ /\ req.cmd = "changeDocument" /\ r.overlays[req.uri] = None
           /\ Reply("invalidRequest", None)
        \/ /\ req.cmd = "changeDocument" => r.overlays[req.uri] # None
           /\ \/ r.lean = None /\ RestartLean(j, edited)
              \/ r.lean # None /\ ~r.lean.alive /\ Recover(j, edited)
              \/ /\ r.lean # None /\ r.lean.alive
                 /\ Put(req.project,
                        [edited EXCEPT !.lean = Notified(r.lean, req.uri, req.text)])
                 /\ job' = j
                 /\ UNCHANGED <<answer, spawned, unreaped>>

\* LeanClient::close_document forgets the selected document and its session.
DeselectedStillOpen(lean, uri) ==
  IF lean.uri = uri THEN [lean EXCEPT !.uri = None, !.session = None] ELSE lean
Deselected(lean, uri) ==
  IF lean.uri = uri
  THEN [lean EXCEPT !.docs[uri] = None, !.uri = None, !.session = None]
  ELSE [lean EXCEPT !.docs[uri] = None]

\* close_document, which selects the first of the remaining documents.
RemainingBefore(o, uri) == Open(o)
Remaining(o, uri) == Open(o) \ {uri}
CloseDocument ==
  /\ Admitted({"closeDocument"})
  /\ LET req == Call.req
         r == proj[req.project]
         edited == [r EXCEPT !.overlays[req.uri] = None]
         closed == [edited EXCEPT !.lean = Deselected(r.lean, req.uri)]
         rest == Remaining(r.overlays, req.uri)
         j == NewJob(Call, "select")
     IN \/ /\ r.overlays[req.uri] = None
           /\ Reply("invalidRequest", None)
        \/ /\ r.overlays[req.uri] # None
           /\ \/ /\ r.lean = None
                 /\ Put(req.project, edited)
                 /\ Respond(Call.who, req.project, "ok", Snapshot(edited))
                 /\ UNCHANGED <<spawned, unreaped>>
              \/ r.lean # None /\ ~r.lean.alive /\ Recover(j, edited)
              \/ /\ r.lean # None /\ r.lean.alive /\ rest = {}
                 /\ Put(req.project, closed)
                 /\ Respond(Call.who, req.project, "ok", Snapshot(closed))
                 /\ UNCHANGED <<spawned, unreaped>>
              \/ /\ r.lean # None /\ r.lean.alive
                 /\ \E next \in rest :
                      /\ \A u \in rest : next <= u
                      /\ Put(req.project, [closed EXCEPT !.lean.uri = next])
                 /\ job' = j
                 /\ UNCHANGED <<answer, spawned, unreaped>>

\* semantic_query restarts a missing child and then asks it.
Query ==
  /\ Admitted({"query"})
  /\ LET r == proj[Call.req.project]
         j == NewJob(Call, "query")
     IN \/ /\ Open(r.overlays) = {}
           /\ Reply("invalidRequest", Snapshot(r))
        \/ /\ Open(r.overlays) # {} /\ r.lean = None
           /\ RestartLean(j, r)
        \/ /\ Open(r.overlays) # {} /\ r.lean # None /\ r.lean.alive
           /\ job' = j
           /\ UNCHANGED <<proj, answer, spawned, unreaped>>
        \/ /\ Open(r.overlays) # {} /\ r.lean # None /\ ~r.lean.alive
           /\ Recover(j, r)

RestartRequested ==
  /\ Admitted({"restartLean"})
  /\ RestartLean(NewJob(Call, "shutdown"), proj[Call.req.project])

\* close_project takes the project out of the map before it stops the child.
CloseProject ==
  /\ Admitted({"closeProject"})
  /\ LET req == Call.req
         r == proj[req.project]
     IN /\ Put(req.project, None)
        /\ \/ /\ r.lean = None
              /\ Respond(Call.who, req.project, "closed", None)
           \/ /\ r.lean # None
              /\ job' = [NewJob(Call, "closing") EXCEPT !.held = r.lean]
              /\ UNCHANGED answer
        /\ UNCHANGED <<spawned, unreaped>>

-----------------------------------------------------------------------------
(* An await completes: the execution runs to its next await or to its reply *)

Awaiting(pc) ==
  /\ Running
  /\ job # None
  /\ job.pc = pc
  /\ UNCHANGED <<phase, daemon, connected, queue, seen>>

JobProject == job.req.project
Refusing == "refuse" \in Faults
\* Closed, I/O, JSON and framing errors, or an outdated RPC session.
FailingUnnoticed(lean) == lean.alive /\ "garble" \in Faults
Failing(lean) == ~lean.alive \/ "garble" \in Faults

Reaped == {TRUE, "timeout" \notin Faults}

\* Transport::shutdown is bounded and reaps; if the outer timeout cancels it,
\* the child was sent a kill and is left to be reaped.
Unreaped(reaped, lean) == IF reaped THEN unreaped ELSE unreaped \cup Dropped(lean)

\* shutdown_lean returns inside restart_lean.
ShutdownFinished ==
  /\ Awaiting("shutdown")
  /\ \E reaped \in Reaped : unreaped' = Unreaped(reaped, job.held)
  /\ StartLean(job, Restarting(proj[JobProject]))

ProjectClosed ==
  /\ Awaiting("closing")
  /\ \E reaped \in Reaped : unreaped' = Unreaped(reaped, job.held)
  /\ Respond(job.who, JobProject, "closed", None)
  /\ UNCHANGED <<proj, spawned>>

\* The project record an execution starts Lean for.
Opening(j) == j.req.cmd = "openProject"
Base(j) == IF Opening(j) THEN NewProject(j.req.launch) ELSE proj[j.req.project]

\* start_lean returned an error: the client it was building is dropped, which
\* kills the child without waiting for it.
StartFailed(j) ==
  LET r == Degraded(Base(j))
  IN /\ Put(JobProject, r)
     /\ unreaped' = unreaped \cup Dropped(j.held)
     /\ Respond(j.who, JobProject,
                IF Opening(j) THEN "ok" ELSE "leanUnavailable",
                Snapshot(r))
     /\ UNCHANGED spawned

\* start_lean returned Ok; a query goes on, any other command replies.
StartSucceeded(j) ==
  LET r == Ready(Base(j), j.held)
  IN /\ Put(JobProject, r)
     /\ \/ /\ j.req.cmd = "query" /\ j.why = "command"
           /\ job' = [j EXCEPT !.pc = "query", !.held = None]
           /\ UNCHANGED answer
        \/ /\ j.req.cmd # "query" \/ j.why = "recover"
           /\ Respond(j.who, JobProject,
                      IF j.why = "recover" THEN "leanRestarted" ELSE "ok",
                      Snapshot(r))
     /\ UNCHANGED <<spawned, unreaped>>

\* The replay loop: didOpen of the next overlay in key order, or the end.
ReplayFrom(j) ==
  \/ /\ j.todo = {}
     /\ StartSucceeded(j)
  \/ \E u \in j.todo :
       /\ \A w \in j.todo : u <= w
       /\ job' = [j EXCEPT !.pc = "replay", !.todo = @ \ {u},
                           !.held = Notified(j.held, u, Base(j).overlays[u])]
       /\ UNCHANGED <<proj, answer, spawned, unreaped>>

ConnectedOnce(lean) ==
  IF lean.session # None /\ lean.session.uri = lean.uri THEN lean
  ELSE [lean EXCEPT !.session = [uri |-> lean.uri, text |-> lean.docs[lean.uri]]]
Connected(lean) ==
  [lean EXCEPT !.session = [uri |-> lean.uri, text |-> lean.docs[lean.uri]]]

Initialized ==
  /\ Awaiting("initialize")
  /\ \/ job.held # None /\ job.held.alive /\ ReplayFrom(job)
     \/ (job.held # None => Failing(job.held) \/ Refusing) /\ StartFailed(job)

Replayed ==
  /\ Awaiting("replay")
  /\ \/ job.held.alive /\ ReplayFrom([job EXCEPT !.held = Connected(job.held)])
     \/ (Failing(job.held) \/ Refusing) /\ StartFailed(job)

\* The connect request of open_document and change_document_at answered.
DocumentConnected ==
  /\ Awaiting("document")
  /\ LET r == proj[JobProject]
         done == Ready(r, Connected(r.lean))
     IN \/ /\ r.lean.alive
           /\ Put(JobProject, done)
           /\ Respond(job.who, JobProject, "ok", Snapshot(done))
           /\ UNCHANGED <<spawned, unreaped>>
        \/ /\ r.lean.alive /\ Refusing
           /\ Respond(job.who, JobProject, "oracleFailure", Snapshot(r))
           /\ UNCHANGED <<proj, spawned, unreaped>>
        \/ Failing(r.lean) /\ Recover(job, r)

\* The connect request of select_document answered.
DocumentSelected ==
  /\ Awaiting("select")
  /\ LET r == proj[JobProject]
         done == [r EXCEPT !.lean = Connected(r.lean)]
     IN \/ /\ r.lean.alive
           /\ Put(JobProject, done)
           /\ Respond(job.who, JobProject, "ok", Snapshot(done))
           /\ UNCHANGED <<spawned, unreaped>>
        \/ /\ r.lean.alive /\ Refusing
           /\ Respond(job.who, JobProject, "oracleFailure", Snapshot(r))
           /\ UNCHANGED <<proj, spawned, unreaped>>
        \/ Failing(r.lean) /\ Recover(job, r)

\* The last oracle call of the query answered, refused or failed.  The reply
\* to an answered query carries no snapshot.
QueryAnswered ==
  /\ Awaiting("query")
  /\ LET r == proj[JobProject]
     IN \/ /\ r.lean.alive
           /\ Respond(job.who, JobProject, "answered", None)
           /\ UNCHANGED <<proj, spawned, unreaped>>
        \/ /\ r.lean.alive /\ Refusing
           /\ Respond(job.who, JobProject, "oracleFailure", Snapshot(r))
           /\ UNCHANGED <<proj, spawned, unreaped>>
        \/ Failing(r.lean) /\ Recover(job, r)

-----------------------------------------------------------------------------
(* The Lean child, the operating system and the daemon's own life *)

LeanExits ==
  /\ "exit" \in Faults
  /\ \/ \E p \in Projects :
          /\ proj[p] # None /\ proj[p].lean # None /\ proj[p].lean.alive
          /\ Put(p, [proj[p] EXCEPT !.lean.alive = FALSE])
          /\ UNCHANGED job
     \/ /\ job # None /\ job.held # None /\ job.held.alive
        /\ job' = [job EXCEPT !.held.alive = FALSE]
        /\ UNCHANGED proj
  /\ UNCHANGED <<phase, daemon, connected, queue, answer, seen, spawned, unreaped>>

\* tokio reaps the children it dropped when it gets round to it.
OrphanReaped ==
  /\ \E pid \in unreaped : unreaped' = unreaped \ {pid}
  /\ UNCHANGED <<phase, daemon, connected, queue, job, proj, answer, seen, spawned>>

StopRequested ==
  /\ phase = "serving"
  /\ phase' = "stopping"
  /\ UNCHANGED <<daemon, connected, queue, job, proj, answer, seen, spawned, unreaped>>

Disconnected ==
  /\ connected' = {}
  /\ queue' = <<>>
  /\ job' = None
  /\ answer' = [c \in Clients |-> None]

AbortConnectionsWhenIdle ==
  /\ phase = "stopping"
  /\ job = None
  /\ phase' = "draining"
  /\ Disconnected
  /\ UNCHANGED <<daemon, proj, seen, spawned, unreaped>>

\* abort_all and join_next: the execution is cancelled at its await and drops
\* whatever it holds.
AbortConnections ==
  /\ phase = "stopping"
  /\ phase' = "draining"
  /\ Disconnected
  /\ unreaped' = unreaped \cup (IF job = None THEN {} ELSE Dropped(job.held))
  /\ UNCHANGED <<daemon, proj, seen, spawned>>

\* shutdown_all, one project at a time.
DrainProject ==
  /\ phase = "draining"
  /\ \E p \in Projects, reaped \in Reaped :
       /\ proj[p] # None
       /\ Put(p, None)
       /\ unreaped' = Unreaped(reaped, proj[p].lean)
  /\ UNCHANGED <<phase, daemon, connected, queue, job, answer, seen, spawned>>

\* serve returns and daemonkit reports this generation stopped.
Stopped ==
  /\ phase = "draining"
  /\ \A p \in Projects : proj[p] = None
  /\ phase' = "stopped"
  /\ UNCHANGED <<daemon, connected, queue, job, proj, answer, seen, spawned, unreaped>>

\* The daemon process is lost: overlays and generations with it.  Its Lean
\* children read end of file and leave.
DaemonLost ==
  /\ "loss" \in Faults
  /\ phase # "stopped"
  /\ phase' = "stopped"
  /\ Disconnected
  /\ proj' = [p \in Projects |-> None]
  /\ unreaped' = {}
  /\ UNCHANGED <<daemon, seen, spawned>>

\* AtlasClient::request ensures a daemon, which starts the next one.
Relaunch ==
  /\ phase = "stopped"
  /\ daemon < MaxDaemons
  /\ phase' = "serving"
  /\ daemon' = daemon + 1
  /\ unreaped' = {}
  /\ UNCHANGED <<connected, queue, job, proj, answer, seen, spawned>>

-----------------------------------------------------------------------------
Begin == \/ Ping \/ OpenProject \/ Rejected \/ ProjectStatus \/ OpenDocument
         \/ CloseDocument \/ Query \/ RestartRequested \/ CloseProject

\* Completions that Lean decides, and completions that timers bound.
LeanAnswered == \/ Initialized \/ Replayed \/ DocumentConnected
                \/ DocumentSelected \/ QueryAnswered
LeanReleased == ShutdownFinished \/ ProjectClosed

Next == \/ \E c \in Clients : Send(c) \/ Receive(c)
        \/ Begin \/ LeanAnswered \/ LeanReleased
        \/ LeanExits \/ OrphanReaped
        \/ StopRequested \/ AbortConnections \/ DrainProject \/ Stopped
        \/ DaemonLost \/ Relaunch

Spec == Init /\ [][Next]_vars

\* The runtime polls a ready task, and every shutdown wait has a timer.
DaemonFairness ==
  /\ WF_vars(Begin) /\ WF_vars(LeanReleased)
  /\ WF_vars(AbortConnections) /\ WF_vars(DrainProject) /\ WF_vars(Stopped)

\* Lean answers each request or leaves.  No code in atlasd enforces this: a
\* request to Lean has no timeout.
LeanFairness == WF_vars(LeanAnswered)

FairSpec == Spec /\ DaemonFairness

-----------------------------------------------------------------------------
(* Properties *)

TypeOK ==
  /\ phase \in {"serving", "stopping", "draining", "stopped"}
  /\ daemon \in Nat
  /\ connected \subseteq Clients
  /\ queue \in Seq([who : Clients, req : Requests])
  /\ job \in Jobs \cup {None}
  /\ proj \in [Projects -> ProjectRecords \cup {None}]
  /\ answer \in [Clients -> Answers \cup {None}]
  /\ seen \in [Clients -> [Projects -> Snapshots \cup {None}]]
  /\ spawned \in Nat
  /\ unreaped \subseteq Nat

HasLean(p) == proj[p] # None /\ proj[p].lean # None

\* No execution is in the middle of changing the project.
Settled(p) == Running /\ proj[p] # None /\ (job = None \/ JobProject # p)

\* Whatever sequence of edits, refusals, crashes and restarts led here, the Lean
\* child a project owns holds exactly the recorded overlays: replay restored
\* them all and no edit was recorded on one side only.
LeanMirrorsOverlays ==
  \A p \in Projects : HasLean(p) => proj[p].lean.docs = proj[p].overlays

\* The document selected for RPC is open whenever one is, also after the
\* selected document was closed and after a replay; none is selected otherwise.
SelectedIsOpen ==
  \A p \in Projects : HasLean(p) =>
     IF Open(proj[p].overlays) = {} THEN proj[p].lean.uri = None
     ELSE proj[p].lean.uri \in Open(proj[p].overlays)

\* Between commands a project is ready and owns a child, or is degraded, says
\* why, and owns none: no failure path leaves "restarting" or "stopped" behind.
ReadyMeansLean ==
  \A p \in Projects : Settled(p) =>
     /\ proj[p].state = IF proj[p].lean = None THEN "degraded" ELSE "ready"
     /\ proj[p].err = (proj[p].lean = None)

\* An execution that is starting or stopping a child holds the project's only
\* one, so a project never owns two running Lean processes.
OneLeanPerProject ==
  job # None /\ job.held # None => ~HasLean(JobProject)

\* The awaits that use the project's child, and those that start one.
UsesLean == {"document", "select", "query"}
StartsLean == {"initialize", "replay"}

Shape(j, r) ==
  /\ j.pc \in UsesLean =>
       ~Opening(j) /\ r # None /\ r.lean # None /\ j.held = None
  /\ j.pc \in {"document", "select"} => r.lean.uri # None
  /\ j.pc = "shutdown" =>
       ~Opening(j) /\ r # None /\ r.lean = None /\ j.held # None
  /\ j.pc = "closing" => ~Opening(j) /\ r = None /\ j.held # None
  /\ j.pc \in StartsLean /\ Opening(j) =>
       /\ j.pc = "initialize" /\ r = None /\ j.todo = {}
       /\ j.held # None => j.held.docs = NoOverlays /\ j.held.uri = None
  /\ j.pc \in StartsLean /\ ~Opening(j) =>
       /\ r # None /\ r.lean = None /\ j.todo \subseteq Open(r.overlays)
       /\ j.held # None =>
            j.held.docs = [u \in Uris |-> IF u \in j.todo THEN None ELSE r.overlays[u]]
       /\ j.pc = "initialize" =>
            /\ j.todo = Open(r.overlays)
            /\ j.held # None => j.held.uri = None
       /\ j.pc = "replay" => j.held # None /\ j.held.uri \in Open(r.overlays) \ j.todo

\* What every await relies on when it resumes: where the execution's Lean child
\* is, and how far a replay got.  The project was not touched meanwhile.
JobShape == job # None => Running /\ Shape(job, proj[JobProject])

\* No sequence of commands, refusals, crashes and cancelled restarts takes a
\* project out of the state its next command relies on: an open document is
\* selected, no second child is owned, every await finds what its code
\* assumes, and what failed is degraded and says why.
ProjectsCoherent == SelectedIsOpen /\ ReadyMeansLean /\ OneLeanPerProject /\ JobShape

\* A lean generation identifies a Lean process: clients that read the same
\* generation of a project from the same daemon read the same process id.
GenerationNamesOneLean ==
  \A c, d \in Clients, p \in Projects :
     LET a == seen[c][p]
         b == seen[d][p]
     IN a # None /\ b # None /\ a.daemon = b.daemon /\ a.gen = b.gen
          => a.pid = b.pid

\* A query runs in a session that was opened for the selected document after
\* its last edit.
FreshSession ==
  job # None /\ job.pc = "query" =>
     LET r == proj[JobProject]
     IN r.lean.session = [uri |-> r.lean.uri, text |-> r.overlays[r.lean.uri]]

\* What a client is told names what it speaks to: a generation one process, a
\* session the document as it is.
SessionsTruthful == GenerationNamesOneLean /\ FreshSession

\* A document command that is acknowledged has reached the child that serves
\* the project, also when the child had to be started for it.
AcknowledgedEditReachedLean ==
  [][\A c \in Clients :
       job # None /\ job' = None /\ job.who = c /\ answer'[c] # None
         /\ answer'[c].code = "ok" /\ job.req.cmd \in DocumentCommands =>
           /\ proj'[JobProject].lean # None
           /\ proj'[JobProject].lean.docs[job.req.uri] = job.req.text]_vars

\* Work sent with an expected generation reaches the Lean process whose
\* snapshot the generation was read from, never a successor.
FencedWorkReachesObservedLean ==
  [][job = None /\ job' # None /\ job'.pc \in {"document", "select", "query"}
       /\ job'.req.expected # None =>
         LET observed == seen[job'.who][job'.req.project]
         IN observed # None /\ observed.pid # None
              /\ observed.gen = job'.req.expected =>
                proj'[job'.req.project].lean.pid = observed.pid]_vars

\* Every request is answered, whatever Lean children do short of falling
\* silent, unless the daemon stops.
EveryRequestAnswered ==
  LeanFairness =>
    \A c \in Clients : c \in connected ~> answer[c] # None \/ phase # "serving"

\* A stop request ends in a stopped daemon even while Lean is silent.
StopCompletes == phase = "stopping" ~> phase = "stopped"

-----------------------------------------------------------------------------
(* The abstract specification this one implements *)

\* The session of an open project as its clients may rely on it.  A generation
\* whose child is being shut down has been served.
SessionOf(p) ==
  IF ~Running \/ proj[p] = None THEN None
  ELSE [docs |-> proj[p].overlays,
        gen |-> proj[p].gen,
        used |-> \/ proj[p].lean # None
                 \/ job # None /\ JobProject = p /\ job.pc = "shutdown",
        view |-> IF proj[p].lean = None THEN None
                 ELSE [pid |-> proj[p].lean.pid, docs |-> proj[p].lean.docs]]

Promise == INSTANCE LeanSession WITH session <- [p \in Projects |-> SessionOf(p)]

ASSUME PromiseAssumption ==
  None \notin Promise!Sessions /\ None \notin Promise!Views

\* The daemon keeps the promise of LeanSession through every edit, refusal,
\* crash, restart, cancellation and loss.
KeepsPromise == Promise!Spec
=============================================================================
