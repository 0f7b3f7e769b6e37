----------------------------- MODULE LeanTransport -----------------------------
(***************************************************************************)
(* crates/atlas-lean-client/src/transport.rs: JSON-RPC with one Lean child *)
(* over its stdin and stdout, from the spawn to the reaping of the child.  *)
(*                                                                         *)
(* A call has the transport to itself.  It writes a frame, header and then *)
(* body, into a pipe of bounded capacity, and reads frames until the       *)
(* response with its id; between calls nobody reads.  The caller may drop  *)
(* a call at any await, and what it wrote or read by then is not undone.   *)
(* As in atlasd, nothing but a shutdown follows a dropped call.            *)
(*                                                                         *)
(* Lean is the environment: it answers in any order, with an error or a    *)
(* result of another type, makes requests, sends notifications or what is  *)
(* no JSON, is silent, and exits in the middle of a frame.                 *)
(***************************************************************************)
EXTENDS Integers, Sequences

CONSTANTS MaxCalls,   \* bounds the requests made before the shutdown
          MaxAsks,    \* bounds the requests Lean makes
          Capacity,   \* of each pipe, in parts of frames
          None

ASSUME BoundsAssumption ==
    MaxCalls \in Nat \ {0} /\ MaxAsks \in Nat /\ Capacity \in Nat

VARIABLES toLean,     \* the child's stdin
          fromLean,   \* its stdout
          nextId,     \* Transport.next_id
          transport,  \* what its owner holds: "none", "open", or "cancelled"
                      \* after it dropped a call
          call,       \* the call under way, or None
          result,     \* what the last call returned, until the next, or None
          child,      \* "none", "running", "exited", "killed" or "reaped"
          lean        \* what Lean has read, asked and answered

owner == <<nextId, transport, call, result>>
vars == <<owner, toLean, fromLean, child, lean>>

-----------------------------------------------------------------------------
(* Frames *)

Ids == 1 .. MaxCalls + 1
Asks == 1 .. MaxAsks

Message(kind, id) == [kind |-> kind, id |-> id]

Sent ==
         [kind : {"request"}, id : Ids] \cup [kind : {"reply"}, id : Asks]
    \cup [kind : {"notification", "exit"}, id : {None}]

Received ==
         [kind : {"response"}, id : Ids, code : {"Ok", "Rpc", "Json"},
          asked : SUBSET Asks]  \* what Lean had asked when it answered
    \cup [kind : {"request"}, id : Asks]
    \cup [kind : {"notification", "garbage"}, id : {None}]

Parts(messages) == [part : {"header", "body"}, of : messages]

Frame(message) ==
    <<[part |-> "header", of |-> message], [part |-> "body", of |-> message]>>

Ops == {"spawn", "request", "notify", "shutdown"}
Codes == {"Ok", "Rpc", "Json", "Broken"}

Calls ==
    [op : Ops,
     id : Ids \cup {None},           \* of the response it waits for
     out : Seq(Parts(Sent)),         \* what it has still to write
     mid : BOOLEAN,                  \* it has read a header and no body yet
     finished : Codes \cup {None}]   \* how the requests of a shutdown ended

Results == [op : Ops, code : Codes, response : Received \cup {None}]

ASSUME NoneIsNothing ==
    None \notin Ids \cup Asks \cup Calls \cup Results \cup Received \cup Codes

Init ==
    /\ toLean = <<>> /\ fromLean = <<>>
    /\ nextId = 1
    /\ transport = "none" /\ call = None /\ result = None
    /\ child = "none"
    /\ lean = [pending |-> {}, answered |-> {}, asked |-> {}, acked |-> {}, deaf |-> FALSE]

-----------------------------------------------------------------------------
(* Ends of a call *)

\* The faulty variant detaches a child whose transport is dropped.
Detach == UNCHANGED child

\* kill_on_drop
Drop == child' = IF child = "running" THEN "killed" ELSE child

Return(code, response) ==
    /\ call' = None
    /\ result' = [op |-> call.op, code |-> code, response |-> response]

\* A shutdown goes on to the child; a spawn that failed drops its transport.
Fail(code, response) ==
    /\ IF call.op = "shutdown"
       THEN call' = [call EXCEPT !.finished = code] /\ UNCHANGED result
       ELSE Return(code, response)
    /\ IF call.op = "spawn" THEN Drop ELSE UNCHANGED child
    /\ UNCHANGED transport

\* The last message of a call was written.
Succeed ==
    /\ IF call.op = "shutdown"
       THEN call' = [call EXCEPT !.finished = "Ok"] /\ UNCHANGED result
       ELSE Return("Ok", None)
    /\ transport' = IF call.op = "spawn" THEN "open" ELSE transport
    /\ UNCHANGED child

\* What has no error is a result.
Outcome(message) == IF message.kind = "response" THEN message.code ELSE "Ok"

\* initialize is followed by initialized, and shutdown by exit.
Respond(message) ==
    IF Outcome(message) # "Ok" THEN Fail(Outcome(message), message)
    ELSE IF call.op = "request"
    THEN Return("Ok", message) /\ UNCHANGED <<transport, child>>
    ELSE /\ call' = [call EXCEPT !.id = None, !.mid = FALSE, !.out =
               Frame(Message(IF call.op = "spawn" THEN "notification" ELSE "exit", None))]
         /\ UNCHANGED <<transport, result, child>>

-----------------------------------------------------------------------------
(* Calls *)

Start(op, message) ==
    /\ call' = [op |-> op, id |-> message.id, out |-> Frame(message),
                mid |-> FALSE, finished |-> None]
    /\ result' = None
    /\ nextId' = IF message.id = None THEN nextId ELSE nextId + 1
    /\ UNCHANGED <<toLean, fromLean, lean>>

Spawn ==
    /\ child = "none" /\ child' = "running"
    /\ Start("spawn", Message("request", nextId))
    /\ UNCHANGED transport

Request ==
    /\ call = None /\ transport = "open"
    /\ nextId <= MaxCalls
    /\ Start("request", Message("request", nextId))
    /\ UNCHANGED <<transport, child>>

Notify ==
    /\ call = None /\ transport = "open"
    /\ Start("notify", Message("notification", None))
    /\ UNCHANGED <<transport, child>>

Shutdown ==
    /\ call = None /\ transport # "none"
    /\ transport' = "none"
    /\ Start("shutdown", Message("request", nextId))
    /\ UNCHANGED child

Talking == call # None /\ call.finished = None

Write ==
    /\ Talking /\ call.out # <<>>
    /\ child = "running" /\ Len(toLean) < Capacity
    /\ toLean' = Append(toLean, Head(call.out))
    /\ IF Len(call.out) = 1 /\ call.id = None
       THEN Succeed
       ELSE /\ call' = [call EXCEPT !.out = Tail(@)]
            /\ UNCHANGED <<transport, result, child>>
    /\ UNCHANGED <<nextId, fromLean, lean>>

WriteToNobody ==
    /\ Talking /\ call.out # <<>>
    /\ child # "running"
    /\ Fail("Broken", None)
    /\ UNCHANGED <<nextId, toLean, fromLean, lean>>

Reading == Talking /\ call.out = <<>>

ReadHeader ==
    /\ Reading /\ ~call.mid
    /\ fromLean # <<>> /\ Head(fromLean).part = "header"
    /\ call' = [call EXCEPT !.mid = TRUE]
    /\ fromLean' = Tail(fromLean)
    /\ UNCHANGED <<nextId, transport, result, toLean, child, lean>>

\* The faulty variant matches on the id alone.
HasId(message, id) == message.id = id

IsResponseFor(message, id) == message.kind = "response" /\ message.id = id

\* The faulty variant passes over requests.
NoReply(message) == <<>>

ReplyToServerRequest(message) ==
    IF message.kind = "request" THEN Frame(Message("reply", message.id)) ELSE <<>>

ReadBody ==
    /\ Reading /\ call.mid
    /\ fromLean # <<>>
    /\ LET message == Head(fromLean).of IN
         CASE message.kind = "garbage" -> Fail("Json", None)
           [] IsResponseFor(message, call.id) -> Respond(message)
           [] OTHER -> /\ call' = [call EXCEPT !.mid = FALSE,
                                               !.out = ReplyToServerRequest(message)]
                       /\ UNCHANGED <<transport, result, child>>
    /\ fromLean' = Tail(fromLean)
    /\ UNCHANGED <<nextId, toLean, lean>>

\* A dropped call left the body of a frame: the lines up to the next empty
\* one hold no length.
Misaligned == Reading /\ ~call.mid /\ fromLean # <<>> /\ Head(fromLean).part = "body"

ReadMisaligned ==
    /\ Misaligned /\ Len(fromLean) >= 2
    /\ fromLean' = Tail(Tail(fromLean))
    /\ Fail("Broken", None)
    /\ UNCHANGED <<nextId, toLean, lean>>

\* The end of the stream, where a frame is expected or in one.
ReadEnd ==
    /\ Reading /\ child # "running"
    /\ fromLean = <<>> \/ (Misaligned /\ Len(fromLean) = 1)
    /\ fromLean' = <<>>
    /\ Fail("Broken", None)
    /\ UNCHANGED <<nextId, toLean, lean>>

\* The faulty variant bounds the wait for the answer and not the writing.
TimeoutOfAnswer == Reading

\* GRACEFUL_SHUTDOWN_TIMEOUT bounds the requests of a shutdown.
TimeoutOfRequests == Talking

GracefulTimeout ==
    /\ TimeoutOfRequests /\ call.op = "shutdown"
    /\ call' = [call EXCEPT !.finished = "Ok"]
    /\ UNCHANGED <<nextId, transport, result, toLean, fromLean, child, lean>>

\* The child exits within EXIT_WAIT_TIMEOUT, or is killed, and is waited for.
Reap ==
    /\ call # None /\ call.finished # None
    /\ child' = "reaped"
    /\ Return(call.finished, None)
    /\ UNCHANGED <<nextId, transport, toLean, fromLean, lean>>

\* The caller drops the call.  A spawn and a shutdown own their transport.
Cancel ==
    /\ call # None
    /\ call' = None /\ result' = None
    /\ IF call.op \in {"spawn", "shutdown"}
       THEN Drop /\ UNCHANGED transport
       ELSE transport' = "cancelled" /\ UNCHANGED child
    /\ UNCHANGED <<nextId, toLean, fromLean, lean>>

\* The owner drops the transport without a shutdown.
DropTransport ==
    /\ call = None /\ transport # "none"
    /\ transport' = "none" /\ Drop
    /\ UNCHANGED <<nextId, call, result, toLean, fromLean, lean>>

-----------------------------------------------------------------------------
(* Lean *)

\* A header without its body means that a write was dropped: Lean takes the
\* next frame for the rest of this one and understands nothing from there on.
LeanReads ==
    /\ child = "running" /\ ~lean.deaf
    /\ Len(toLean) >= 2
    /\ toLean' = Tail(Tail(toLean))
    /\ LET message == toLean[1].of IN
         lean' = CASE toLean[2].part = "header" -> [lean EXCEPT !.deaf = TRUE]
                   [] message.kind = "request" ->
                        [lean EXCEPT !.pending = @ \cup {message.id}]
                   [] message.kind = "reply" ->
                        [lean EXCEPT !.acked = @ \cup {message.id}]
                   [] OTHER -> lean
    /\ UNCHANGED <<owner, fromLean, child>>

Emit(message) ==
    /\ child = "running" /\ Len(fromLean) + 2 <= Capacity
    /\ fromLean' = fromLean \o Frame(message)
    /\ UNCHANGED <<owner, toLean, child>>

LeanAnswers ==
    \E id \in lean.pending, code \in {"Ok", "Rpc", "Json"} :
        /\ Emit([kind |-> "response", id |-> id, code |-> code, asked |-> lean.asked])
        /\ lean' = [lean EXCEPT !.pending = @ \ {id}, !.answered = @ \cup {id}]

\* Lean numbers its requests on its own.
LeanAsks ==
    \E id \in Asks \ lean.asked :
        /\ Emit(Message("request", id))
        /\ lean' = [lean EXCEPT !.asked = @ \cup {id}]

LeanTells ==
    /\ \E kind \in {"notification", "garbage"} : Emit(Message(kind, None))
    /\ UNCHANGED lean

\* The pipe keeps what was written, except perhaps the end of a frame.
LeanExits ==
    /\ child = "running" /\ child' = "exited"
    /\ toLean' = <<>>
    /\ \/ UNCHANGED fromLean
       \/ Len(fromLean) >= 2 /\ fromLean' = SubSeq(fromLean, 1, Len(fromLean) - 1)
    /\ UNCHANGED <<owner, lean>>

Next ==
    \/ Spawn \/ Request \/ Notify \/ Shutdown
    \/ Write \/ WriteToNobody
    \/ ReadHeader \/ ReadBody \/ ReadMisaligned \/ ReadEnd
    \/ GracefulTimeout \/ Reap \/ Cancel \/ DropTransport
    \/ LeanReads \/ LeanAnswers \/ LeanAsks \/ LeanTells \/ LeanExits

Spec == Init /\ [][Next]_vars

\* The runtime polls a call whose pipe is ready, and its timers fire.
ClientFairness ==
    /\ WF_vars(Write \/ WriteToNobody)
    /\ WF_vars(ReadHeader \/ ReadBody \/ ReadMisaligned \/ ReadEnd)
    /\ WF_vars(GracefulTimeout) /\ WF_vars(Reap)

\* Lean reads its stdin whatever it is about to write, and answers what it
\* has read when its own requests are acknowledged.
LeanFairness ==
    /\ WF_vars(LeanReads)
    /\ SF_vars(LeanAnswers /\ lean.acked = lean.asked)

FairSpec == Spec /\ ClientFairness

-----------------------------------------------------------------------------
(* Properties *)

\* Every variable keeps its type.
TypeOK ==
    /\ toLean \in Seq(Parts(Sent)) /\ Len(toLean) <= Capacity
    /\ fromLean \in Seq(Parts(Received)) /\ Len(fromLean) <= Capacity
    /\ nextId \in 1 .. MaxCalls + 2
    /\ transport \in {"none", "open", "cancelled"}
    /\ call \in Calls \cup {None}
    /\ result \in Results \cup {None}
    /\ child \in {"none", "running", "exited", "killed", "reaped"}
    /\ lean \in [pending : SUBSET Ids, answered : SUBSET Ids, asked : SUBSET Asks,
                 acked : SUBSET Asks, deaf : BOOLEAN]

\* What a request returns is what Lean answered to it, not to a dropped one
\* and not a request of Lean's with the same number; and Lean is told to
\* exit only after it answered the shutdown.
OwnAnswer ==
    /\ result # None /\ result.op = "request" /\ result.response # None =>
         result.response.kind = "response" /\ result.response.id = nextId - 1
    /\ call # None /\ call.op = "shutdown" /\ call.id = None =>
         nextId - 1 \in lean.answered

\* No request of Lean's is left waiting: when a call returns an answer, every
\* request Lean had made before it answered is acknowledged.
AcknowledgedBeforeReturn ==
    child = "running" /\ result # None /\ result.op = "request" /\ result.response # None =>
        \A id \in result.response.asked :
            \/ id \in lean.acked
            \/ \E i \in DOMAIN toLean :
                 toLean[i] = [part |-> "body", of |-> Message("reply", id)]

\* Dropping a call or the transport never detaches the child, and a shutdown
\* that returns, with an error too, has reaped it.
NeverDetached ==
    /\ call = None /\ transport = "none" => child # "running"
    /\ result # None /\ result.op = "shutdown" => child = "reaped"

\* A shutdown returns, whatever Lean does and whatever was dropped before.
ShutdownReturns ==
    call # None /\ call.op = "shutdown" ~> call = None

\* Every call returns if Lean reads and answers, also when Lean waits for
\* acknowledgements first.
CallsReturn == LeanFairness => (call # None ~> call = None)
=============================================================================
