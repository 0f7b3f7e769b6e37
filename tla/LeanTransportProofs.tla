-------------------------- MODULE LeanTransportProofs --------------------------
(***************************************************************************)
(* Theorems about LeanTransport, for any number of calls and of requests   *)
(* by Lean and pipes of any capacity.                                      *)
(*                                                                         *)
(* The inductive invariant has three parts: types; who owns the child, so  *)
(* that whoever lets go of it kills it; and which numbers are in flight,   *)
(* so that a response in the pipe with the number a call waits for is the  *)
(* answer to that call.  A fourth, that frames are whole while no call was *)
(* dropped and that Lean's requests are in the pipe before the answers     *)
(* that follow them, is inductive relative to these.                       *)
(***************************************************************************)
EXTENDS LeanTransport, SequenceTheorems, TLAPS

\* A child belongs to the transport or to the call that owns one.
Ownership ==
    /\ child = "none" =>
         call = None /\ transport = "none" /\ nextId = 1 /\ result = None
    /\ transport # "none" => nextId <= MaxCalls + 1
    /\ call = None /\ transport = "none" => child # "running"
    /\ call # None =>
         /\ child # "none" /\ result = None
         /\ call.op \in {"spawn", "shutdown"} => transport = "none"
         /\ call.op \in {"request", "notify"} => transport = "open"
         /\ call.op = "spawn" => nextId = 2
         /\ call.finished # None => call.op = "shutdown"
    /\ result # None /\ result.op = "shutdown" => child = "reaped" /\ transport = "none"

\* A call waits for the number given last.
Waits == call # None /\ call.id # None => call.id = nextId - 1

\* Lean answered what is answered in the pipe.
Answered ==
    \A i \in DOMAIN fromLean :
        fromLean[i].of.kind = "response" => fromLean[i].of.id \in lean.answered

Numbers == Waits /\ Answered /\ OwnAnswer

IInv == TypeOK /\ Ownership /\ Numbers

LEMMA Initially == Init => IInv
<1> SUFFICES ASSUME Init PROVE IInv
  OBVIOUS
<1>1. TypeOK
  BY BoundsAssumption, EmptySeq DEF Init, TypeOK
<1>2. Ownership /\ Numbers
  BY DEF Init, Ownership, Numbers, Waits, Answered, OwnAnswer
<1> QED BY <1>1, <1>2 DEF IInv

-----------------------------------------------------------------------------
(* Pipes *)

LEMMA FrameParts ==
    ASSUME NEW S, NEW message \in S
    PROVE  /\ Frame(message) \in Seq(Parts(S))
           /\ Len(Frame(message)) = 2
           /\ \A i \in 1 .. 2 : Frame(message)[i].of = message
BY DEF Frame, Parts

LEMMA FirstPart ==
    ASSUME NEW S, NEW pipe \in Seq(Parts(S)), pipe # <<>>
    PROVE  /\ Head(pipe) \in Parts(S) /\ Head(pipe).of \in S
           /\ Head(pipe) = pipe[1] /\ 1 \in DOMAIN pipe
           /\ Tail(pipe) \in Seq(Parts(S)) /\ Len(Tail(pipe)) = Len(pipe) - 1
           /\ \A i \in DOMAIN Tail(pipe) :
                i + 1 \in DOMAIN pipe /\ Tail(pipe)[i] = pipe[i + 1]
<1>1. /\ Head(pipe) \in Parts(S) /\ Tail(pipe) \in Seq(Parts(S))
      /\ Len(Tail(pipe)) = Len(pipe) - 1
      /\ \A i \in 1 .. Len(Tail(pipe)) : Tail(pipe)[i] = pipe[i + 1]
  BY HeadTailProperties
<1>2. Len(pipe) \in Nat \ {0} /\ DOMAIN pipe = 1 .. Len(pipe)
  BY EmptySeq, LenProperties
<1>3. DOMAIN Tail(pipe) = 1 .. Len(Tail(pipe))
  BY <1>1, LenProperties
<1>4. Head(pipe) = pipe[1]
  BY <1>2
<1> QED BY <1>1, <1>2, <1>3, <1>4 DEF Parts

-----------------------------------------------------------------------------
(* Ends of a call *)

\* What a call leaves behind when it ends or goes on.
LEMMA FailKeeps ==
    ASSUME TypeOK, Ownership, UNCHANGED nextId, Talking,
           NEW code \in Codes, NEW response \in Received \cup {None},
           Fail(code, response)
    PROVE  /\ Ownership'
           /\ call' \in Calls \cup {None} /\ result' \in Results \cup {None}
           /\ transport' = transport
           /\ child' \in {"none", "running", "exited", "killed", "reaped"}
<1>1. call \in Calls /\ call # None
  BY DEF TypeOK, Talking
<1>2. CASE call.op = "shutdown"
  <2>1. call' = [call EXCEPT !.finished = code] /\ UNCHANGED <<result, child, transport>>
    BY <1>2 DEF Fail
  <2>2. call' \in Calls /\ call' # None
    BY <1>1, <2>1, NoneIsNothing DEF Calls
  <2>3. call'.op = call.op
    BY <1>1, <2>1 DEF Calls
  <2> QED BY <1>1, <1>2, <2>1, <2>2, <2>3 DEF Ownership, TypeOK
<1>3. CASE call.op # "shutdown"
  <2>1. call' = None /\ result' = [op |-> call.op, code |-> code, response |-> response]
    BY <1>3 DEF Fail, Return
  <2>2. result' \in Results /\ result'.op = call.op
    BY <1>1, <2>1 DEF Results, Calls
  <2>3. CASE call.op = "spawn"
    BY <1>1, <1>3, <2>1, <2>2, <2>3 DEF Fail, Drop, Ownership, TypeOK
  <2>4. CASE call.op # "spawn"
    BY <1>1, <1>3, <2>1, <2>2, <2>4 DEF Fail, Ownership, TypeOK, Calls, Ops
  <2> QED BY <2>3, <2>4
<1> QED BY <1>2, <1>3

LEMMA SucceedKeeps ==
    ASSUME TypeOK, Ownership, UNCHANGED nextId, Talking, Succeed
    PROVE  /\ Ownership'
           /\ call' \in Calls \cup {None} /\ result' \in Results \cup {None}
           /\ transport' \in {"none", "open", "cancelled"}
           /\ child' = child
<1>1. call \in Calls /\ call # None /\ child' = child
  BY DEF TypeOK, Talking, Succeed
<1>2. CASE call.op = "shutdown"
  <2>1. call' = [call EXCEPT !.finished = "Ok"] /\ UNCHANGED <<result, transport>>
    BY <1>2 DEF Succeed
  <2>2. call' \in Calls /\ call' # None
    BY <1>1, <2>1, NoneIsNothing DEF Calls, Codes
  <2>3. call'.op = call.op
    BY <1>1, <2>1 DEF Calls
  <2> QED BY <1>1, <1>2, <2>1, <2>2, <2>3 DEF Ownership, TypeOK
<1>3. CASE call.op # "shutdown"
  <2>1. call' = None /\ result' = [op |-> call.op, code |-> "Ok", response |-> None]
    BY <1>3 DEF Succeed, Return
  <2>2. result' \in Results /\ result'.op = call.op
    BY <1>1, <2>1 DEF Results, Calls, Codes
  <2>3. CASE call.op = "spawn"
    <3>1. transport' = "open" /\ nextId = 2
      BY <1>1, <2>3 DEF Succeed, Ownership
    <3> QED BY <1>1, <2>1, <2>2, <2>3, <3>1, BoundsAssumption DEF Ownership, TypeOK
  <2>4. CASE call.op # "spawn"
    BY <1>1, <1>3, <2>1, <2>2, <2>4 DEF Succeed, Ownership, TypeOK, Calls, Ops
  <2> QED BY <2>3, <2>4
<1> QED BY <1>2, <1>3

LEMMA RespondKeeps ==
    ASSUME TypeOK, Ownership, UNCHANGED nextId, Talking, call.id # None,
           NEW message \in Received, message.kind = "response", Respond(message)
    PROVE  /\ Ownership'
           /\ call' \in Calls \cup {None} /\ result' \in Results \cup {None}
           /\ transport' = transport
           /\ child' \in {"none", "running", "exited", "killed", "reaped"}
<1>1. call \in Calls /\ call # None
  BY DEF TypeOK, Talking
<1>2. Outcome(message) \in Codes
  BY DEF Outcome, Received, Codes
<1>3. CASE Outcome(message) # "Ok"
  <2>1. Fail(Outcome(message), message)
    BY <1>3 DEF Respond
  <2> QED BY <1>2, <2>1, FailKeeps
<1>4. CASE Outcome(message) = "Ok" /\ call.op = "request"
  <2>1. /\ call' = None /\ UNCHANGED <<transport, child>>
        /\ result' = [op |-> call.op, code |-> "Ok", response |-> message]
    BY <1>4 DEF Respond, Return
  <2>2. result' \in Results /\ result'.op = call.op
    BY <1>1, <2>1 DEF Results, Calls, Codes
  <2> QED BY <1>1, <1>4, <2>1, <2>2 DEF Ownership, TypeOK
<1>5. CASE Outcome(message) = "Ok" /\ call.op # "request"
  <2> DEFINE out == Frame(Message(IF call.op = "spawn" THEN "notification" ELSE "exit", None))
  <2>1. /\ call' = [call EXCEPT !.id = None, !.mid = FALSE, !.out = out]
        /\ UNCHANGED <<transport, result, child>>
    BY <1>5 DEF Respond
  <2>2. out \in Seq(Parts(Sent))
    BY FrameParts DEF Message, Sent
  <2> HIDE DEF out
  <2>3. call' \in Calls /\ call'.op = call.op /\ call'.finished = call.finished
    BY <1>1, <2>1, <2>2 DEF Calls
  <2>4. call' # None
    BY <2>3, NoneIsNothing
  <2> QED BY <1>1, <2>1, <2>3, <2>4 DEF Ownership, TypeOK
<1> QED BY <1>3, <1>4, <1>5

-----------------------------------------------------------------------------
(* Calls begin *)

LEMMA StartKeeps ==
    ASSUME IInv, NEW op \in Ops, NEW message \in Sent, Start(op, message),
           message.kind = "request" => message.id = nextId,
           message.kind \in {"request", "notification"},
           op = "notify" <=> message.kind = "notification",
           nextId <= MaxCalls + 1
    PROVE  /\ call' \in Calls /\ call' # None /\ call'.op = op /\ call'.finished = None
           /\ result' = None
           /\ nextId' \in 1 .. MaxCalls + 2
           /\ message.kind = "request" => nextId' = nextId + 1
           /\ message.kind = "notification" => nextId' = nextId
           /\ call'.id # None => call'.id = nextId' - 1
           /\ call'.op = "shutdown" => call'.id # None
           /\ UNCHANGED <<toLean, fromLean, lean>>
<1>1. Frame(message) \in Seq(Parts(Sent))
  BY FrameParts
<1>2. nextId \in 1 .. MaxCalls + 2 /\ MaxCalls \in Nat
  BY BoundsAssumption DEF IInv, TypeOK
<1>3. /\ message.kind = "request" => message.id \in Ids /\ message.id # None
      /\ message.kind = "notification" => message.id = None
  BY NoneIsNothing DEF Sent
<1>4. nextId' = IF message.id = None THEN nextId ELSE nextId + 1
  BY DEF Start
<1>5. call' = [op |-> op, id |-> message.id, out |-> Frame(message),
               mid |-> FALSE, finished |-> None]
  BY DEF Start
<1>6. call' \in Calls
  BY <1>1, <1>3, <1>5 DEF Calls
<1>7. call' # None
  BY <1>6, NoneIsNothing
<1> QED BY <1>2, <1>3, <1>4, <1>5, <1>6, <1>7 DEF Start

\* Numbers survive when a call begins, and the pipe is as it was.
LEMMA BeginKeeps ==
    ASSUME IInv, NEW op \in Ops, NEW message \in Sent, Start(op, message),
           message.kind = "request" => message.id = nextId,
           message.kind \in {"request", "notification"},
           op = "notify" <=> message.kind = "notification",
           nextId <= MaxCalls + 1,
           transport' \in {"none", "open", "cancelled"},
           child' \in {"none", "running", "exited", "killed", "reaped"},
           Ownership'
    PROVE  IInv'
<1>1. TypeOK'
  BY StartKeeps DEF IInv, TypeOK
<1>2. Numbers'
  BY StartKeeps DEF IInv, Numbers, Waits, Answered, OwnAnswer
<1> QED BY <1>1, <1>2 DEF IInv

LEMMA RequestSent ==
    nextId \in Ids => Message("request", nextId) \in Sent
BY DEF Message, Sent

LEMMA SpawnKeeps == IInv /\ Spawn => IInv'
<1> SUFFICES ASSUME IInv, Spawn PROVE IInv'
  OBVIOUS
<1> DEFINE message == Message("request", nextId)
<1>1. nextId = 1 /\ nextId \in Ids /\ nextId <= MaxCalls + 1 /\ transport = "none"
  BY BoundsAssumption DEF Spawn, IInv, Ownership, Ids
<1>2. /\ message \in Sent /\ message.id = nextId /\ message.kind = "request"
      /\ "spawn" \in Ops /\ Start("spawn", message)
  BY <1>1, RequestSent DEF Message, Ops, Spawn
<1> HIDE DEF message
<1>3. /\ call' # None /\ call'.op = "spawn" /\ call'.finished = None /\ result' = None
      /\ nextId' = nextId + 1
  BY <1>1, <1>2, StartKeeps
<1>4. transport' = transport /\ child' = "running"
  BY DEF Spawn
<1>5. Ownership'
  BY <1>1, <1>3, <1>4 DEF Ownership
<1> QED BY <1>1, <1>2, <1>4, <1>5, BeginKeeps

LEMMA RequestKeeps == IInv /\ Request => IInv'
<1> SUFFICES ASSUME IInv, Request PROVE IInv'
  OBVIOUS
<1> DEFINE message == Message("request", nextId)
<1>1. nextId \in Ids /\ nextId <= MaxCalls /\ transport = "open" /\ child # "none"
  BY BoundsAssumption DEF Request, IInv, TypeOK, Ownership, Ids
<1>2. /\ message \in Sent /\ message.id = nextId /\ message.kind = "request"
      /\ "request" \in Ops /\ Start("request", message)
  BY <1>1, RequestSent DEF Message, Ops, Request
<1> HIDE DEF message
<1>3. /\ call' # None /\ call'.op = "request" /\ call'.finished = None /\ result' = None
      /\ nextId' = nextId + 1 /\ nextId <= MaxCalls + 1
  BY <1>1, <1>2, StartKeeps, BoundsAssumption DEF Ids
<1>4. transport' = transport /\ child' = child
  BY DEF Request
<1>5. Ownership'
  BY <1>1, <1>3, <1>4, BoundsAssumption DEF Ownership, Ids
<1> QED BY <1>1, <1>2, <1>3, <1>4, <1>5, BeginKeeps DEF IInv, TypeOK

LEMMA NotifyKeeps == IInv /\ Notify => IInv'
<1> SUFFICES ASSUME IInv, Notify PROVE IInv'
  OBVIOUS
<1> DEFINE message == Message("notification", None)
<1>1. nextId <= MaxCalls + 1 /\ transport = "open" /\ child # "none"
  BY DEF Notify, IInv, Ownership
<1>2. /\ message \in Sent /\ message.kind = "notification"
      /\ "notify" \in Ops /\ Start("notify", message)
  BY DEF Message, Sent, Ops, Notify
<1> HIDE DEF message
<1>3. /\ call' # None /\ call'.op = "notify" /\ call'.finished = None /\ result' = None
      /\ nextId' = nextId
  BY <1>1, <1>2, StartKeeps
<1>4. transport' = transport /\ child' = child
  BY DEF Notify
<1>5. Ownership'
  BY <1>1, <1>3, <1>4 DEF Ownership
<1> QED BY <1>1, <1>2, <1>4, <1>5, BeginKeeps DEF IInv, TypeOK

LEMMA ShutdownKeeps == IInv /\ Shutdown => IInv'
<1> SUFFICES ASSUME IInv, Shutdown PROVE IInv'
  OBVIOUS
<1> DEFINE message == Message("request", nextId)
<1>1. nextId \in Ids /\ nextId <= MaxCalls + 1 /\ child # "none"
  BY BoundsAssumption DEF Shutdown, IInv, TypeOK, Ownership, Ids
<1>2. /\ message \in Sent /\ message.id = nextId /\ message.kind = "request"
      /\ "shutdown" \in Ops /\ Start("shutdown", message)
  BY <1>1, RequestSent DEF Message, Ops, Shutdown
<1> HIDE DEF message
<1>3. /\ call' # None /\ call'.op = "shutdown" /\ call'.finished = None /\ result' = None
  BY <1>1, <1>2, StartKeeps
<1>4. transport' = "none" /\ child' = child
  BY DEF Shutdown
<1>5. Ownership'
  BY <1>1, <1>3, <1>4 DEF Ownership
<1> QED BY <1>1, <1>2, <1>4, <1>5, BeginKeeps DEF IInv, TypeOK

-----------------------------------------------------------------------------
(* Calls write and read *)

\* A call that fails returns no answer but its own.
LEMMA FailNumbers ==
    ASSUME TypeOK, Ownership, Numbers, UNCHANGED <<nextId, lean>>, Talking,
           NEW code \in Codes, NEW response \in Received \cup {None},
           Fail(code, response),
           response # None =>
               call.id # None /\ response.kind = "response" /\ response.id = call.id
    PROVE  Waits' /\ OwnAnswer'
<1>1. call \in Calls /\ call # None
  BY DEF TypeOK, Talking
<1>2. CASE call.op = "shutdown"
  <2>1. call' = [call EXCEPT !.finished = code] /\ UNCHANGED result
    BY <1>2 DEF Fail
  <2>2. call'.id = call.id /\ call'.op = call.op
    BY <1>1, <2>1 DEF Calls
  <2> QED BY <1>1, <2>1, <2>2 DEF Numbers, Waits, OwnAnswer
<1>3. CASE call.op # "shutdown"
  <2>1. call' = None /\ result' = [op |-> call.op, code |-> code, response |-> response]
    BY <1>3 DEF Fail, Return
  <2> QED BY <1>1, <2>1 DEF Numbers, Waits, OwnAnswer
<1> QED BY <1>2, <1>3

\* The rest of a pipe after its first part.
LEMMA RestKeeps ==
    ASSUME TypeOK, Answered, fromLean # <<>>, fromLean' = Tail(fromLean), UNCHANGED lean
    PROVE  fromLean' \in Seq(Parts(Received)) /\ Len(fromLean') <= Capacity /\ Answered'
<1>1. /\ fromLean' \in Seq(Parts(Received)) /\ Len(fromLean') = Len(fromLean) - 1
      /\ \A i \in DOMAIN fromLean' : i + 1 \in DOMAIN fromLean /\ fromLean'[i] = fromLean[i + 1]
  BY FirstPart DEF TypeOK
<1>2. Len(fromLean') <= Capacity
  BY <1>1, LenProperties, BoundsAssumption DEF TypeOK
<1> QED BY <1>1, <1>2 DEF Answered

LEMMA WriteKeeps == IInv /\ Write => IInv'
<1> SUFFICES ASSUME IInv, Write PROVE IInv'
  OBVIOUS
<1>1. call \in Calls /\ call # None /\ TypeOK /\ Ownership /\ Talking /\ call.out # <<>>
  BY DEF IInv, TypeOK, Write, Talking
<1>2. /\ Head(call.out) \in Parts(Sent) /\ Tail(call.out) \in Seq(Parts(Sent))
  BY <1>1, FirstPart DEF Calls
<1>3. toLean' \in Seq(Parts(Sent)) /\ Len(toLean') <= Capacity
  <2>1. toLean \in Seq(Parts(Sent)) /\ toLean' = Append(toLean, Head(call.out))
    BY DEF Write, IInv, TypeOK
  <2>2. toLean' \in Seq(Parts(Sent)) /\ Len(toLean') = Len(toLean) + 1
    BY <1>2, <2>1, AppendProperties
  <2>3. Len(toLean) \in Nat /\ Len(toLean) < Capacity
    BY <2>1, LenProperties DEF Write
  <2> QED BY <2>2, <2>3, BoundsAssumption
<1>4. UNCHANGED <<nextId, fromLean, lean>>
  BY DEF Write
<1>5. CASE Len(call.out) = 1 /\ call.id = None
  <2>1. Succeed
    BY <1>5 DEF Write
  <2>2. /\ Ownership' /\ call' \in Calls \cup {None} /\ result' \in Results \cup {None}
        /\ transport' \in {"none", "open", "cancelled"} /\ child' = child
    BY <1>1, <1>4, <2>1, SucceedKeeps
  <2>3. TypeOK'
    BY <1>3, <1>4, <2>2 DEF IInv, TypeOK
  <2>4. Numbers'
    <3>1. CASE call.op = "shutdown"
      <4>1. call' = [call EXCEPT !.finished = "Ok"] /\ UNCHANGED result
        BY <2>1, <3>1 DEF Succeed
      <4>2. call'.id = call.id /\ call'.op = call.op
        BY <1>1, <4>1 DEF Calls
      <4> QED BY <1>1, <1>4, <4>1, <4>2 DEF IInv, Numbers, Waits, Answered, OwnAnswer
    <3>2. CASE call.op # "shutdown"
      <4>1. call' = None /\ result' = [op |-> call.op, code |-> "Ok", response |-> None]
        BY <2>1, <3>2 DEF Succeed, Return
      <4> QED BY <1>4, <4>1 DEF IInv, Numbers, Waits, Answered, OwnAnswer
    <3> QED BY <3>1, <3>2
  <2> QED BY <2>2, <2>3, <2>4 DEF IInv
<1>6. CASE ~(Len(call.out) = 1 /\ call.id = None)
  <2>1. call' = [call EXCEPT !.out = Tail(@)] /\ UNCHANGED <<transport, result, child>>
    BY <1>6 DEF Write
  <2>2. /\ call' \in Calls /\ call'.op = call.op /\ call'.id = call.id
        /\ call'.finished = call.finished
    BY <1>1, <1>2, <2>1 DEF Calls
  <2>3. call' # None
    BY <2>2, NoneIsNothing
  <2> QED BY <1>1, <1>3, <1>4, <2>1, <2>2, <2>3
          DEF IInv, TypeOK, Ownership, Numbers, Waits, Answered, OwnAnswer
<1> QED BY <1>5, <1>6

LEMMA WriteToNobodyKeeps == IInv /\ WriteToNobody => IInv'
<1> SUFFICES ASSUME IInv, WriteToNobody PROVE IInv'
  OBVIOUS
<1>1. /\ TypeOK /\ Ownership /\ Numbers /\ Talking /\ Fail("Broken", None)
      /\ UNCHANGED <<nextId, toLean, fromLean, lean>> /\ "Broken" \in Codes
  BY DEF IInv, WriteToNobody, Codes
<1>2. /\ Ownership' /\ call' \in Calls \cup {None} /\ result' \in Results \cup {None}
      /\ transport' = transport
      /\ child' \in {"none", "running", "exited", "killed", "reaped"}
  BY <1>1, FailKeeps
<1>3. Waits' /\ OwnAnswer'
  BY <1>1, FailNumbers
<1> QED BY <1>1, <1>2, <1>3 DEF IInv, TypeOK, Numbers, Answered

LEMMA ReadHeaderKeeps == IInv /\ ReadHeader => IInv'
<1> SUFFICES ASSUME IInv, ReadHeader PROVE IInv'
  OBVIOUS
<1>1. call \in Calls /\ call # None /\ TypeOK /\ Ownership /\ Numbers
  BY DEF IInv, TypeOK, ReadHeader, Reading, Talking
<1>2. fromLean # <<>> /\ fromLean' = Tail(fromLean) /\ UNCHANGED lean
  BY DEF ReadHeader
<1>3. fromLean' \in Seq(Parts(Received)) /\ Len(fromLean') <= Capacity /\ Answered'
  BY <1>1, <1>2, RestKeeps DEF Numbers
<1>4. call' = [call EXCEPT !.mid = TRUE]
  BY DEF ReadHeader
<1>5. /\ call' \in Calls /\ call'.op = call.op /\ call'.id = call.id
      /\ call'.finished = call.finished
  BY <1>1, <1>4 DEF Calls
<1>6. call' # None
  BY <1>5, NoneIsNothing
<1>7. UNCHANGED <<nextId, transport, result, toLean, child, lean>>
  BY DEF ReadHeader
<1> QED BY <1>1, <1>3, <1>5, <1>6, <1>7
        DEF IInv, TypeOK, Ownership, Numbers, Waits, OwnAnswer

\* What is for the caller keeps the invariant.
LEMMA RespondNumbers ==
    ASSUME TypeOK, Ownership, Numbers, UNCHANGED <<nextId, lean>>, Talking, call.id # None,
           NEW message \in Received, IsResponseFor(message, call.id),
           message.id \in lean.answered, Respond(message)
    PROVE  Waits' /\ OwnAnswer'
<1>1. /\ call \in Calls /\ call # None /\ call.id = nextId - 1
      /\ message.kind = "response" /\ message.id = call.id
  BY DEF TypeOK, Talking, Numbers, Waits, IsResponseFor
<1>2. CASE Outcome(message) # "Ok"
  <2>1. Outcome(message) \in Codes /\ Fail(Outcome(message), message)
    BY <1>2 DEF Outcome, Received, Codes, Respond
  <2> QED BY <1>1, <2>1, FailNumbers
<1>3. CASE Outcome(message) = "Ok" /\ call.op = "request"
  <2>1. /\ call' = None
        /\ result' = [op |-> call.op, code |-> "Ok", response |-> message]
    BY <1>3 DEF Respond, Return
  <2> QED BY <1>1, <2>1 DEF Waits, OwnAnswer
<1>4. CASE Outcome(message) = "Ok" /\ call.op # "request"
  <2> DEFINE out == Frame(Message(IF call.op = "spawn" THEN "notification" ELSE "exit", None))
  <2>1. /\ call' = [call EXCEPT !.id = None, !.mid = FALSE, !.out = out]
        /\ UNCHANGED result
    BY <1>4 DEF Respond
  <2> HIDE DEF out
  <2>2. call'.id = None
    BY <1>1, <2>1 DEF Calls
  <2> QED BY <1>1, <2>1, <2>2 DEF Numbers, Waits, OwnAnswer
<1> QED BY <1>2, <1>3, <1>4

LEMMA ReadBodyKeeps == IInv /\ ReadBody => IInv'
<1> SUFFICES ASSUME IInv, ReadBody PROVE IInv'
  OBVIOUS
<1> DEFINE message == Head(fromLean).of
<1>1. /\ call \in Calls /\ call # None /\ TypeOK /\ Ownership /\ Numbers /\ Talking
      /\ fromLean # <<>> /\ fromLean' = Tail(fromLean)
      /\ UNCHANGED <<nextId, toLean, lean>>
  BY DEF IInv, TypeOK, ReadBody, Reading, Talking
<1>2. fromLean' \in Seq(Parts(Received)) /\ Len(fromLean') <= Capacity /\ Answered'
  BY <1>1, RestKeeps DEF Numbers
<1>3. message \in Received /\ Head(fromLean) = fromLean[1] /\ 1 \in DOMAIN fromLean
  BY <1>1, FirstPart DEF TypeOK
<1>4. message.kind = "response" => message.id \in lean.answered
  BY <1>1, <1>3 DEF Numbers, Answered
<1>5. \/ Fail("Json", None)
      \/ IsResponseFor(message, call.id) /\ Respond(message)
      \/ /\ call' = [call EXCEPT !.mid = FALSE, !.out = ReplyToServerRequest(message)]
         /\ UNCHANGED <<transport, result, child>>
  BY DEF ReadBody
<1> HIDE DEF message
<1> SUFFICES /\ Ownership' /\ Waits' /\ OwnAnswer'
             /\ call' \in Calls \cup {None} /\ result' \in Results \cup {None}
             /\ transport' \in {"none", "open", "cancelled"}
             /\ child' \in {"none", "running", "exited", "killed", "reaped"}
  BY <1>1, <1>2 DEF IInv, TypeOK, Numbers
<1>6. CASE Fail("Json", None)
  <2>1. "Json" \in Codes
    BY DEF Codes
  <2> QED BY <1>1, <1>6, <2>1, FailKeeps, FailNumbers DEF TypeOK
<1>7. CASE IsResponseFor(message, call.id) /\ Respond(message)
  <2>1. message.kind = "response" /\ call.id # None
    BY <1>3, <1>7, NoneIsNothing DEF IsResponseFor, Received
  <2>2. Waits' /\ OwnAnswer'
    BY <1>1, <1>3, <1>4, <1>7, <2>1, RespondNumbers
  <2> QED BY <1>1, <1>3, <1>7, <2>1, <2>2, RespondKeeps DEF TypeOK
<1>8. CASE /\ call' = [call EXCEPT !.mid = FALSE, !.out = ReplyToServerRequest(message)]
           /\ UNCHANGED <<transport, result, child>>
  <2>1. ReplyToServerRequest(message) \in Seq(Parts(Sent))
    <3>1. CASE message.kind = "request"
      <4>1. Message("reply", message.id) \in Sent
        BY <1>3, <3>1 DEF Message, Received, Sent
      <4> QED BY <3>1, <4>1, FrameParts DEF ReplyToServerRequest
    <3>2. CASE message.kind # "request"
      BY <3>2, EmptySeq DEF ReplyToServerRequest
    <3> QED BY <3>1, <3>2
  <2>2. /\ call' \in Calls /\ call'.op = call.op /\ call'.id = call.id
        /\ call'.finished = call.finished
    BY <1>1, <1>8, <2>1 DEF Calls
  <2>3. call' # None
    BY <2>2, NoneIsNothing
  <2> QED BY <1>1, <1>8, <2>2, <2>3 DEF TypeOK, Ownership, Numbers, Waits, OwnAnswer
<1> QED BY <1>5, <1>6, <1>7, <1>8

\* A call whose stream ends or is out of step fails without an answer.
LEMMA BrokenKeeps ==
    ASSUME IInv, Talking, Fail("Broken", None), UNCHANGED <<nextId, toLean, lean>>,
           fromLean' \in Seq(Parts(Received)), Len(fromLean') <= Capacity, Answered'
    PROVE  IInv'
<1>1. TypeOK /\ Ownership /\ Numbers /\ "Broken" \in Codes
  BY DEF IInv, Codes
<1>2. /\ Ownership' /\ call' \in Calls \cup {None} /\ result' \in Results \cup {None}
      /\ transport' = transport
      /\ child' \in {"none", "running", "exited", "killed", "reaped"}
  BY <1>1, FailKeeps
<1>3. Waits' /\ OwnAnswer'
  BY <1>1, FailNumbers
<1> QED BY <1>1, <1>2, <1>3 DEF IInv, TypeOK, Numbers

LEMMA ReadMisalignedKeeps == IInv /\ ReadMisaligned => IInv'
<1> SUFFICES ASSUME IInv, ReadMisaligned PROVE IInv'
  OBVIOUS
<1> DEFINE rest == Tail(fromLean)
<1>1. /\ Talking /\ Fail("Broken", None) /\ UNCHANGED <<nextId, toLean, lean>>
      /\ fromLean # <<>> /\ Len(fromLean) >= 2 /\ fromLean' = Tail(rest)
      /\ fromLean \in Seq(Parts(Received)) /\ Len(fromLean) <= Capacity /\ Answered
  BY DEF IInv, TypeOK, Numbers, ReadMisaligned, Misaligned, Reading
<1>2. /\ rest \in Seq(Parts(Received)) /\ Len(rest) = Len(fromLean) - 1
      /\ \A i \in DOMAIN rest : i + 1 \in DOMAIN fromLean /\ rest[i] = fromLean[i + 1]
  BY <1>1, FirstPart
<1> HIDE DEF rest
<1>3. rest # <<>>
  BY <1>1, <1>2, EmptySeq, LenProperties
<1>4. /\ fromLean' \in Seq(Parts(Received)) /\ Len(fromLean') = Len(rest) - 1
      /\ \A i \in DOMAIN fromLean' : i + 1 \in DOMAIN rest /\ fromLean'[i] = rest[i + 1]
  BY <1>1, <1>2, <1>3, FirstPart
<1>5. Len(fromLean') <= Capacity
  BY <1>1, <1>2, <1>4, LenProperties, BoundsAssumption
<1>6. Answered'
  BY <1>1, <1>2, <1>4 DEF Answered
<1> QED BY <1>1, <1>4, <1>5, <1>6, BrokenKeeps

LEMMA ReadEndKeeps == IInv /\ ReadEnd => IInv'
<1> SUFFICES ASSUME IInv, ReadEnd PROVE IInv'
  OBVIOUS
<1>1. /\ Talking /\ Fail("Broken", None) /\ UNCHANGED <<nextId, toLean, lean>>
      /\ fromLean' = <<>>
  BY DEF ReadEnd, Reading
<1>2. fromLean' \in Seq(Parts(Received)) /\ Len(fromLean') <= Capacity /\ Answered'
  BY <1>1, EmptySeq, BoundsAssumption DEF Answered
<1> QED BY <1>1, <1>2, BrokenKeeps

-----------------------------------------------------------------------------
(* Calls end *)

LEMMA GracefulTimeoutKeeps == IInv /\ GracefulTimeout => IInv'
<1> SUFFICES ASSUME IInv, GracefulTimeout PROVE IInv'
  OBVIOUS
<1>1. call \in Calls /\ call # None /\ call.op = "shutdown"
  BY DEF IInv, TypeOK, GracefulTimeout, TimeoutOfRequests, Talking
<1>2. /\ call' = [call EXCEPT !.finished = "Ok"]
      /\ UNCHANGED <<nextId, transport, result, toLean, fromLean, child, lean>>
  BY DEF GracefulTimeout
<1>3. call' \in Calls /\ call'.op = call.op /\ call'.id = call.id
  BY <1>1, <1>2 DEF Calls, Codes
<1>4. call' # None
  BY <1>3, NoneIsNothing
<1> QED BY <1>1, <1>2, <1>3, <1>4
        DEF IInv, TypeOK, Ownership, Numbers, Waits, Answered, OwnAnswer

LEMMA ReapKeeps == IInv /\ Reap => IInv'
<1> SUFFICES ASSUME IInv, Reap PROVE IInv'
  OBVIOUS
<1>1. call \in Calls /\ call # None /\ call.finished # None
  BY DEF IInv, TypeOK, Reap
<1>2. /\ call' = None /\ child' = "reaped"
      /\ result' = [op |-> call.op, code |-> call.finished, response |-> None]
      /\ UNCHANGED <<nextId, transport, toLean, fromLean, lean>>
  BY DEF Reap, Return
<1>3. result' \in Results /\ result'.op = "shutdown" /\ transport = "none"
  BY <1>1, <1>2 DEF IInv, Ownership, Results, Calls
<1> QED BY <1>1, <1>2, <1>3
        DEF IInv, TypeOK, Ownership, Numbers, Waits, Answered, OwnAnswer

LEMMA CancelKeeps == IInv /\ Cancel => IInv'
<1> SUFFICES ASSUME IInv, Cancel PROVE IInv'
  OBVIOUS
<1>1. /\ call \in Calls /\ call # None /\ call' = None /\ result' = None
      /\ UNCHANGED <<nextId, toLean, fromLean, lean>>
  BY DEF IInv, TypeOK, Cancel
<1>2. Numbers'
  BY <1>1 DEF IInv, Numbers, Waits, Answered, OwnAnswer
<1>3. CASE call.op \in {"spawn", "shutdown"}
  BY <1>1, <1>2, <1>3 DEF IInv, TypeOK, Ownership, Cancel, Drop
<1>4. CASE call.op \notin {"spawn", "shutdown"}
  <2>1. transport' = "cancelled" /\ child' = child
    BY <1>4 DEF Cancel
  <2>2. transport = "open" /\ nextId <= MaxCalls + 1
    BY <1>1, <1>4 DEF IInv, Ownership, Calls, Ops
  <2> QED BY <1>1, <1>2, <2>1, <2>2 DEF IInv, TypeOK, Ownership
<1> QED BY <1>3, <1>4

LEMMA DropTransportKeeps == IInv /\ DropTransport => IInv'
<1> SUFFICES ASSUME IInv, DropTransport PROVE IInv'
  OBVIOUS
<1>1. /\ call = None /\ transport # "none" /\ transport' = "none"
      /\ child' = IF child = "running" THEN "killed" ELSE child
      /\ UNCHANGED <<nextId, call, result, toLean, fromLean, lean>>
  BY DEF DropTransport, Drop
<1> QED BY <1>1 DEF IInv, TypeOK, Ownership, Numbers, Waits, Answered, OwnAnswer

-----------------------------------------------------------------------------
(* Lean *)

\* Lean moves without touching what its client owns.
LEMMA LeanKeeps ==
    ASSUME IInv, UNCHANGED owner, child' \in {child, "exited"}, child = "running",
           toLean' \in Seq(Parts(Sent)), Len(toLean') <= Capacity,
           fromLean' \in Seq(Parts(Received)), Len(fromLean') <= Capacity,
           lean' \in [pending : SUBSET Ids, answered : SUBSET Ids, asked : SUBSET Asks,
                      acked : SUBSET Asks, deaf : BOOLEAN],
           lean.answered \subseteq lean'.answered,
           Answered'
    PROVE  IInv'
<1>1. UNCHANGED <<nextId, transport, call, result>>
  BY DEF owner
<1>2. TypeOK'
  BY <1>1 DEF IInv, TypeOK
<1>3. Ownership'
  BY <1>1 DEF IInv, Ownership
<1>4. Numbers'
  BY <1>1 DEF IInv, Numbers, Waits, OwnAnswer
<1> QED BY <1>2, <1>3, <1>4 DEF IInv

LEMMA LeanReadsKeeps == IInv /\ LeanReads => IInv'
<1> SUFFICES ASSUME IInv, LeanReads PROVE IInv'
  OBVIOUS
<1> DEFINE rest == Tail(toLean)
           message == toLean[1].of
<1>1. /\ child = "running" /\ UNCHANGED <<owner, fromLean, child>>
      /\ toLean' = Tail(rest) /\ Len(toLean) >= 2
      /\ toLean \in Seq(Parts(Sent)) /\ Len(toLean) <= Capacity
      /\ fromLean \in Seq(Parts(Received)) /\ Len(fromLean) <= Capacity /\ Answered
  BY DEF LeanReads, IInv, TypeOK, Numbers
<1>2. toLean # <<>>
  BY <1>1, EmptySeq
<1>3. rest \in Seq(Parts(Sent)) /\ Len(rest) = Len(toLean) - 1 /\ message \in Sent
  BY <1>1, <1>2, FirstPart
<1>4. lean' = CASE toLean[2].part = "header" -> [lean EXCEPT !.deaf = TRUE]
                [] message.kind = "request" -> [lean EXCEPT !.pending = @ \cup {message.id}]
                [] message.kind = "reply" -> [lean EXCEPT !.acked = @ \cup {message.id}]
                [] OTHER -> lean
  BY DEF LeanReads
<1> HIDE DEF rest, message
<1>5. rest # <<>>
  BY <1>1, <1>3, EmptySeq, LenProperties
<1>6. toLean' \in Seq(Parts(Sent)) /\ Len(toLean') = Len(rest) - 1
  BY <1>1, <1>3, <1>5, FirstPart
<1>7. Len(toLean') <= Capacity
  BY <1>1, <1>3, <1>6, LenProperties, BoundsAssumption
<1>8. /\ message.kind = "request" => message.id \in Ids
      /\ message.kind = "reply" => message.id \in Asks
  BY <1>3 DEF Sent
<1>9. /\ lean' \in [pending : SUBSET Ids, answered : SUBSET Ids, asked : SUBSET Asks,
                    acked : SUBSET Asks, deaf : BOOLEAN]
      /\ lean'.answered = lean.answered
  <2>1. lean \in [pending : SUBSET Ids, answered : SUBSET Ids, asked : SUBSET Asks,
                  acked : SUBSET Asks, deaf : BOOLEAN]
    BY DEF IInv, TypeOK
  <2> QED BY <1>4, <1>8, <2>1
<1>10. Answered'
  BY <1>1, <1>9 DEF Answered
<1> QED BY <1>1, <1>6, <1>7, <1>9, <1>10, LeanKeeps

\* What Lean writes, it writes whole.
LEMMA EmitKeeps ==
    ASSUME IInv, NEW message \in Received, Emit(message),
           lean' \in [pending : SUBSET Ids, answered : SUBSET Ids, asked : SUBSET Asks,
                      acked : SUBSET Asks, deaf : BOOLEAN],
           lean.answered \subseteq lean'.answered,
           message.kind = "response" => message.id \in lean'.answered
    PROVE  IInv'
<1>1. /\ child = "running" /\ UNCHANGED <<owner, toLean, child>>
      /\ Len(fromLean) + 2 <= Capacity /\ fromLean' = fromLean \o Frame(message)
      /\ fromLean \in Seq(Parts(Received)) /\ toLean \in Seq(Parts(Sent))
      /\ Len(toLean) <= Capacity /\ Answered
  BY DEF Emit, IInv, TypeOK, Numbers
<1> DEFINE frame == Frame(message)
<1>2. /\ frame \in Seq(Parts(Received)) /\ Len(frame) = 2
      /\ \A i \in 1 .. 2 : frame[i].of = message
  BY FrameParts
<1>3. fromLean' = fromLean \o frame
  BY <1>1
<1> HIDE DEF frame
<1>4. /\ Len(fromLean) \in Nat /\ DOMAIN fromLean = 1 .. Len(fromLean)
      /\ fromLean' \in Seq(Parts(Received)) /\ Len(fromLean') = Len(fromLean) + 2
      /\ DOMAIN fromLean' = 1 .. Len(fromLean')
      /\ \A i \in 1 .. Len(fromLean) : fromLean'[i] = fromLean[i]
      /\ \A i \in 1 .. 2 : fromLean'[Len(fromLean) + i] = frame[i]
  <2>1. \A S : \A s1, s2 \in Seq(S) :
          /\ s1 \o s2 \in Seq(S) /\ Len(s1 \o s2) = Len(s1) + Len(s2)
          /\ \A i \in 1 .. Len(s1) + Len(s2) :
               (s1 \o s2)[i] = IF i <= Len(s1) THEN s1[i] ELSE s2[i - Len(s1)]
    BY ConcatProperties
  <2>2. /\ fromLean' \in Seq(Parts(Received)) /\ Len(fromLean') = Len(fromLean) + Len(frame)
        /\ \A i \in 1 .. Len(fromLean) + Len(frame) :
             fromLean'[i] = IF i <= Len(fromLean) THEN fromLean[i]
                            ELSE frame[i - Len(fromLean)]
    <3>1. fromLean \in Seq(Parts(Received)) /\ frame \in Seq(Parts(Received))
      BY <1>1, <1>2
    <3>2. /\ fromLean \o frame \in Seq(Parts(Received))
          /\ Len(fromLean \o frame) = Len(fromLean) + Len(frame)
          /\ \A i \in 1 .. Len(fromLean) + Len(frame) :
               (fromLean \o frame)[i] = IF i <= Len(fromLean) THEN fromLean[i]
                                        ELSE frame[i - Len(fromLean)]
      BY <2>1, <3>1, Zenon
    <3> QED BY <1>3, <3>2, Zenon
  <2>3. /\ Len(fromLean) \in Nat /\ DOMAIN fromLean = 1 .. Len(fromLean)
        /\ DOMAIN fromLean' = 1 .. Len(fromLean')
    BY <1>1, <2>2, LenProperties
  <2> QED BY <1>2, <2>2, <2>3
<1>5. Answered'
  <2> SUFFICES ASSUME NEW i \in DOMAIN fromLean', fromLean'[i].of.kind = "response"
               PROVE  fromLean'[i].of.id \in lean'.answered
    BY DEF Answered
  <2>1. CASE i <= Len(fromLean)
    <3>1. i \in DOMAIN fromLean /\ fromLean'[i] = fromLean[i]
      BY <1>4, <2>1
    <3> QED BY <1>1, <3>1 DEF Answered
  <2>2. CASE i > Len(fromLean)
    <3>1. i - Len(fromLean) \in 1 .. 2 /\ fromLean'[i] = frame[i - Len(fromLean)]
      BY <1>4, <2>2
    <3> QED BY <1>2, <3>1
  <2> QED BY <1>4, <2>1, <2>2
<1> QED BY <1>1, <1>4, <1>5, LeanKeeps

LEMMA LeanSpeaksKeeps == IInv /\ (LeanAnswers \/ LeanAsks \/ LeanTells) => IInv'
<1> SUFFICES ASSUME IInv, LeanAnswers \/ LeanAsks \/ LeanTells PROVE IInv'
  OBVIOUS
<1>1. lean \in [pending : SUBSET Ids, answered : SUBSET Ids, asked : SUBSET Asks,
                acked : SUBSET Asks, deaf : BOOLEAN]
  BY DEF IInv, TypeOK
<1>2. CASE LeanAnswers
  <2>1. PICK id \in lean.pending, code \in {"Ok", "Rpc", "Json"} :
          /\ Emit([kind |-> "response", id |-> id, code |-> code, asked |-> lean.asked])
          /\ lean' = [lean EXCEPT !.pending = @ \ {id}, !.answered = @ \cup {id}]
    BY <1>2 DEF LeanAnswers
  <2> DEFINE message == [kind |-> "response", id |-> id, code |-> code, asked |-> lean.asked]
  <2>2. message \in Received /\ message.id = id
    BY <1>1, <2>1 DEF Received
  <2>3. Emit(message)
    BY <2>1
  <2> HIDE DEF message
  <2> QED BY <1>1, <2>1, <2>2, <2>3, EmitKeeps
<1>3. CASE LeanAsks
  <2>1. PICK id \in Asks \ lean.asked :
          Emit(Message("request", id)) /\ lean' = [lean EXCEPT !.asked = @ \cup {id}]
    BY <1>3 DEF LeanAsks
  <2>2. Message("request", id) \in Received /\ Message("request", id).kind = "request"
    BY DEF Message, Received
  <2> QED BY <1>1, <2>1, <2>2, EmitKeeps
<1>4. CASE LeanTells
  <2>1. PICK kind \in {"notification", "garbage"} : Emit(Message(kind, None))
    BY <1>4 DEF LeanTells
  <2>2. /\ Message(kind, None) \in Received /\ Message(kind, None).kind # "response"
        /\ lean' = lean
    BY <1>4 DEF Message, Received, LeanTells
  <2> QED BY <1>1, <2>1, <2>2, EmitKeeps
<1> QED BY <1>2, <1>3, <1>4

LEMMA LeanExitsKeeps == IInv /\ LeanExits => IInv'
<1> SUFFICES ASSUME IInv, LeanExits PROVE IInv'
  OBVIOUS
<1>1. /\ child = "running" /\ child' = "exited" /\ toLean' = <<>>
      /\ UNCHANGED <<owner, lean>>
      /\ fromLean \in Seq(Parts(Received)) /\ Len(fromLean) <= Capacity /\ Answered
      /\ lean \in [pending : SUBSET Ids, answered : SUBSET Ids, asked : SUBSET Asks,
                   acked : SUBSET Asks, deaf : BOOLEAN]
  BY DEF LeanExits, IInv, TypeOK, Numbers
<1>2. toLean' \in Seq(Parts(Sent)) /\ Len(toLean') <= Capacity
  BY <1>1, EmptySeq, BoundsAssumption
<1>3. fromLean' \in Seq(Parts(Received)) /\ Len(fromLean') <= Capacity /\ Answered'
  <2>1. CASE UNCHANGED fromLean
    BY <1>1, <2>1 DEF Answered
  <2>2. CASE Len(fromLean) >= 2 /\ fromLean' = SubSeq(fromLean, 1, Len(fromLean) - 1)
    <3>1. Len(fromLean) \in Nat /\ DOMAIN fromLean = 1 .. Len(fromLean)
      BY <1>1, LenProperties
    <3>2. /\ fromLean' \in Seq(Parts(Received)) /\ Len(fromLean') = Len(fromLean) - 1
          /\ \A i \in 1 .. Len(fromLean) - 1 : fromLean'[i] = fromLean[i]
      <4>1. \A i \in 1 .. Len(fromLean) - 1 : fromLean[i] \in Parts(Received)
        BY <1>1, <3>1, ElementOfSeq
      <4> QED BY <1>1, <2>2, <3>1, <4>1
    <3>3. DOMAIN fromLean' = 1 .. Len(fromLean) - 1
      BY <3>2, LenProperties
    <3> QED BY <1>1, <3>1, <3>2, <3>3, BoundsAssumption DEF Answered
  <2> QED BY <2>1, <2>2 DEF LeanExits
<1> QED BY <1>1, <1>2, <1>3, LeanKeeps

-----------------------------------------------------------------------------
(* Acknowledgements *)

\* No call was dropped since the child was spawned.
Uncancelled == transport = "open" \/ (call # None /\ call.op = "spawn")

Out == IF call = None THEN <<>> ELSE call.out
Mid == call # None /\ call.mid

Body(message) == [part |-> "body", of |-> message]
Holds(pipe, message) == \E i \in DOMAIN pipe : pipe[i] = Body(message)

\* What the pipe and the call hold together are whole frames.
WritesFramed ==
    /\ \A i \in DOMAIN toLean : toLean[i].part = IF i % 2 = 1 THEN "header" ELSE "body"
    /\ \A i \in DOMAIN toLean : i % 2 = 0 => toLean[i].of = toLean[i - 1].of
    /\ IF Len(toLean) % 2 = 1 THEN Out = <<Body(toLean[Len(toLean)].of)>>
       ELSE Out = <<>> \/ \E message \in Sent : Out = Frame(message)

ReadsFramed ==
    LET read == IF Mid THEN 1 ELSE 0 IN
    /\ \A i \in DOMAIN fromLean : fromLean[i].part = IF (i + read) % 2 = 1 THEN "header" ELSE "body"
    /\ (Len(fromLean) + read) % 2 = 0
    /\ Mid => Out = <<>>

\* Lean's request is acknowledged, or the reply is under way.
Handled(id) ==
    id \in lean.acked \/ Holds(toLean, Message("reply", id)) \/ Holds(Out, Message("reply", id))

AsksKept ==
    \A id \in lean.asked : Handled(id) \/ Holds(fromLean, Message("request", id))

\* The requests Lean had made when it answered are in the pipe before the
\* answer, or handled.
AsksPrecede ==
    \A i \in DOMAIN fromLean :
        fromLean[i].part = "body" /\ fromLean[i].of.kind = "response" =>
            \A id \in fromLean[i].of.asked :
                Handled(id) \/ \E j \in 1 .. i - 1 : fromLean[j] = Body(Message("request", id))

\* So they are handled when the answer is returned.
AsksReturned ==
    result # None /\ result.op = "request" /\ result.response # None =>
        \A id \in result.response.asked : Handled(id)

InStep == WritesFramed /\ ReadsFramed /\ AsksKept /\ AsksPrecede /\ AsksReturned

Live == Uncancelled /\ child = "running"

AckInv ==
    /\ child = "none" => toLean = <<>> /\ fromLean = <<>> /\ lean.asked = {}
    /\ transport = "cancelled" /\ call = None => result = None
    /\ Live => InStep

LEMMA AckInitially == Init => AckInv
BY DEF Init, AckInv, Live, Uncancelled

LEMMA AckImplies == IInv /\ AckInv => AcknowledgedBeforeReturn
<1> SUFFICES ASSUME IInv, AckInv, child = "running", result # None, result.op = "request",
                    result.response # None
             PROVE  \A id \in result.response.asked :
                      id \in lean.acked \/ Holds(toLean, Message("reply", id))
  BY DEF AcknowledgedBeforeReturn, Holds, Body
<1>1. call = None /\ transport = "open"
  BY DEF IInv, Ownership, TypeOK, AckInv
<1>2. AsksReturned /\ Out = <<>>
  BY <1>1 DEF AckInv, Live, Uncancelled, InStep, Out
<1>3. \A message : ~Holds(<<>>, message)
  BY DEF Holds
<1> QED BY <1>2, <1>3 DEF AsksReturned, Handled

\* A step after which the child is gone, or the transport.
LEMMA AckGone ==
    ASSUME ~Live', child' # "none", transport' # "cancelled" \/ call' # None \/ result' = None
    PROVE  AckInv'
BY DEF AckInv

\* Steps that neither read nor answer a request of Lean's.
LEMMA AsksSame ==
    ASSUME AsksKept, AsksPrecede, UNCHANGED fromLean, lean'.asked = lean.asked,
           \A id : Handled(id) => Handled(id)'
    PROVE  AsksKept' /\ AsksPrecede'
<1>1. AsksKept'
  BY DEF AsksKept
<1>2. AsksPrecede'
  BY DEF AsksPrecede
<1> QED BY <1>1, <1>2

\* Steps that read one part of a frame.
LEMMA AsksRest ==
    ASSUME TypeOK, AsksKept, AsksPrecede, fromLean # <<>>, fromLean' = Tail(fromLean),
           UNCHANGED lean,
           \A id : Handled(id) => Handled(id)',
           \A id : fromLean[1] = Body(Message("request", id)) => Handled(id)'
    PROVE  AsksKept' /\ AsksPrecede'
<1>1. /\ DOMAIN fromLean = 1 .. Len(fromLean) /\ DOMAIN fromLean' = 1 .. Len(fromLean) - 1
      /\ Len(fromLean) \in Nat
      /\ \A i \in DOMAIN fromLean' : i + 1 \in DOMAIN fromLean /\ fromLean'[i] = fromLean[i + 1]
  BY FirstPart, LenProperties DEF TypeOK
<1>2. AsksKept'
  <2> SUFFICES ASSUME NEW id \in lean.asked, ~Handled(id)'
               PROVE  Holds(fromLean', Message("request", id))
    BY DEF AsksKept
  <2>1. PICK i \in DOMAIN fromLean : fromLean[i] = Body(Message("request", id))
    BY DEF AsksKept, Holds
  <2>2. i # 1
    BY <2>1
  <2>3. i - 1 \in DOMAIN fromLean' /\ fromLean'[i - 1] = fromLean[i]
    BY <1>1, <2>2
  <2> QED BY <2>1, <2>3 DEF Holds
<1>3. AsksPrecede'
  <2> SUFFICES ASSUME NEW i \in DOMAIN fromLean',
                      fromLean'[i].part = "body" /\ fromLean'[i].of.kind = "response",
                      NEW id \in fromLean'[i].of.asked, ~Handled(id)'
               PROVE  \E j \in 1 .. i - 1 : fromLean'[j] = Body(Message("request", id))
    BY DEF AsksPrecede
  <2>1. i + 1 \in DOMAIN fromLean /\ fromLean'[i] = fromLean[i + 1] /\ i \in Nat
    BY <1>1
  <2>2. PICK j \in 1 .. (i + 1) - 1 : fromLean[j] = Body(Message("request", id))
    BY <2>1 DEF AsksPrecede
  <2>3. j # 1
    BY <2>2
  <2>4. j - 1 \in 1 .. i - 1 /\ j - 1 \in DOMAIN fromLean'
    BY <1>1, <2>1, <2>2, <2>3
  <2>5. fromLean'[j - 1] = fromLean[j]
    BY <1>1, <2>4
  <2> QED BY <2>2, <2>4, <2>5
<1> QED BY <1>2, <1>3

\* Calls begin with a frame to write.
LEMMA AckBegins ==
    ASSUME IInv, NEW message \in Sent, call' # None, call'.out = Frame(message),
           call'.mid = FALSE, result' = None, UNCHANGED <<toLean, fromLean, lean>>,
           child' # "none",
           Live' => Out = <<>> /\ ~Mid /\ InStep
    PROVE  AckInv'
<1> SUFFICES ASSUME Live' PROVE InStep'
  BY DEF AckInv
<1>1. Out' = Frame(message) /\ ~Mid'
  BY DEF Out, Mid
<1>2. Out = <<>> /\ ~Mid /\ InStep
  OBVIOUS
<1>3. \A id : Handled(id) => Handled(id)'
  BY <1>2 DEF Handled, Holds
<1>4. AsksKept' /\ AsksPrecede'
  BY <1>2, <1>3, AsksSame DEF InStep
<1>5. WritesFramed'
  <2>1. WritesFramed /\ Len(toLean) % 2 # 1
    BY <1>2 DEF InStep, WritesFramed
  <2> QED BY <1>1, <2>1 DEF WritesFramed
<1>6. ReadsFramed'
  BY <1>1, <1>2 DEF InStep, ReadsFramed
<1>7. AsksReturned'
  BY DEF AsksReturned
<1> QED BY <1>4, <1>5, <1>6, <1>7 DEF InStep

LEMMA SpawnAck == IInv /\ AckInv /\ Spawn => AckInv'
<1> SUFFICES ASSUME IInv, AckInv, Spawn PROVE AckInv'
  OBVIOUS
<1>1. /\ child = "none" /\ call = None /\ nextId = 1 /\ toLean = <<>> /\ fromLean = <<>>
      /\ lean.asked = {} /\ result = None
  BY DEF Spawn, IInv, Ownership, AckInv
<1> DEFINE message == Message("request", nextId)
<1>2. message \in Sent /\ message.kind = "request" /\ message.id = nextId
  BY <1>1, BoundsAssumption, RequestSent DEF Ids, Message
<1>3. Start("spawn", message) /\ child' = "running" /\ "spawn" \in Ops
  BY DEF Spawn, Ops
<1> HIDE DEF message
<1>4. call' # None /\ result' = None /\ UNCHANGED <<toLean, fromLean, lean>>
  BY <1>1, <1>2, <1>3, StartKeeps, BoundsAssumption
<1>5. call'.out = Frame(message) /\ call'.mid = FALSE
  BY <1>3 DEF Start
<1>6. Out = <<>> /\ ~Mid
  BY <1>1 DEF Out, Mid
<1>7. InStep
  BY <1>1, <1>6 DEF InStep, WritesFramed, ReadsFramed, AsksKept, AsksPrecede, AsksReturned
<1> QED BY <1>2, <1>3, <1>4, <1>5, <1>6, <1>7, AckBegins

LEMMA RequestAck == IInv /\ AckInv /\ (Request \/ Notify) => AckInv'
<1> SUFFICES ASSUME IInv, AckInv, Request \/ Notify PROVE AckInv'
  OBVIOUS
<1>1. /\ call = None /\ transport = "open" /\ child # "none" /\ nextId <= MaxCalls + 1
      /\ UNCHANGED <<transport, child>>
  BY DEF Request, Notify, IInv, Ownership
<1>2. PICK op \in Ops, message \in Sent :
        /\ Start(op, message) /\ message.kind \in {"request", "notification"}
        /\ message.kind = "request" => message.id = nextId
        /\ op = "notify" <=> message.kind = "notification"
  <2>1. CASE Request
    <3>1. nextId \in Ids
      BY <2>1, BoundsAssumption DEF Request, IInv, TypeOK, Ids
    <3> QED BY <2>1, <3>1, RequestSent DEF Request, Message, Ops
  <2>2. CASE Notify
    <3>1. Message("notification", None) \in Sent
      BY DEF Message, Sent
    <3> QED BY <2>2, <3>1 DEF Notify, Message, Ops
  <2> QED BY <2>1, <2>2
<1>3. call' # None /\ result' = None /\ UNCHANGED <<toLean, fromLean, lean>>
  BY <1>1, <1>2, StartKeeps
<1>4. call'.out = Frame(message) /\ call'.mid = FALSE
  BY <1>2 DEF Start
<1>5. Live' => Out = <<>> /\ ~Mid /\ InStep
  BY <1>1 DEF AckInv, Live, Uncancelled, Out, Mid
<1> QED BY <1>1, <1>3, <1>4, <1>5, AckBegins

LEMMA ShutdownAck == IInv /\ AckInv /\ Shutdown => AckInv'
<1> SUFFICES ASSUME IInv, AckInv, Shutdown PROVE AckInv'
  OBVIOUS
<1>1. /\ call'.op = "shutdown" /\ result' = None /\ transport' = "none" /\ child' # "none"
  BY DEF Shutdown, Start, IInv, Ownership
<1> QED BY <1>1, AckGone DEF Live, Uncancelled

\* A call that fails ends its transport or returns no answer of a request.
LEMMA FailLives ==
    ASSUME IInv, Talking, NEW code, NEW response, Fail(code, response), Live'
    PROVE  /\ Live /\ call.op \in {"request", "notify"} /\ call' = None
           /\ result' = [op |-> call.op, code |-> code, response |-> response]
<1>1. /\ call \in Calls /\ call # None /\ transport' = transport
      /\ call.op = "shutdown" => transport = "none"
      /\ call.op = "spawn" => transport = "none"
      /\ child' = "running" => child = "running"
  BY DEF IInv, TypeOK, Ownership, Talking, Fail, Drop
<1>2. CASE call.op = "shutdown"
  <2>1. call' = [call EXCEPT !.finished = code]
    BY <1>2 DEF Fail
  <2>2. call'.op = "shutdown"
    BY <1>1, <1>2, <2>1 DEF Calls
  <2> QED BY <1>1, <1>2, <2>2 DEF Live, Uncancelled
<1>3. CASE call.op # "shutdown"
  <2>1. call' = None /\ result' = [op |-> call.op, code |-> code, response |-> response]
    BY <1>3 DEF Fail, Return
  <2>2. transport = "open"
    BY <1>1, <2>1 DEF Live, Uncancelled
  <2> QED BY <1>1, <1>3, <2>1, <2>2 DEF Live, Uncancelled, Calls, Ops
<1> QED BY <1>2, <1>3

\* One part moves from the call to the pipe.
LEMMA WriteAck == IInv /\ AckInv /\ Write => AckInv'
<1> SUFFICES ASSUME IInv, AckInv, Write PROVE AckInv'
  OBVIOUS
<1>1. /\ call \in Calls /\ call # None /\ Talking /\ call.out # <<>> /\ result = None
      /\ call.out \in Seq(Parts(Sent)) /\ toLean \in Seq(Parts(Sent))
      /\ child = "running" /\ child' = "running" /\ UNCHANGED <<nextId, fromLean, lean>>
      /\ toLean' = Append(toLean, Head(call.out))
  BY DEF IInv, TypeOK, Ownership, Write, Talking, Calls, Succeed
<1>2. transport # "cancelled"
  BY <1>1 DEF IInv, Ownership, Calls, Ops
<1>3. CASE call.op = "shutdown"
  <2>1. call' # None => call'.op = "shutdown"
    BY <1>1, <1>3 DEF Write, Succeed, Calls
  <2>2. transport' = "none"
    BY <1>1, <1>3 DEF IInv, Ownership, Write, Succeed
  <2> QED BY <1>1, <2>1, <2>2, AckGone DEF Live, Uncancelled
<1>4. CASE call.op # "shutdown"
  <2>1. /\ Len(call.out) = 1 /\ call.id = None /\ Succeed
        \/ /\ call' = [call EXCEPT !.out = Tail(@)]
           /\ UNCHANGED <<transport, result>>
    BY DEF Write
  <2>2. /\ Out' = Tail(call.out) /\ Out = call.out
        /\ Mid' => Mid
        /\ result' # None => result'.op = call.op /\ result'.response = None
        /\ call' # None => call'.op = call.op
        /\ transport' # "cancelled"
    <3>1. CASE Len(call.out) = 1 /\ call.id = None /\ Succeed
      <4>1. call' = None /\ result' = [op |-> call.op, code |-> "Ok", response |-> None]
        BY <1>4, <3>1 DEF Succeed, Return
      <4>2. Tail(call.out) = <<>>
        BY <1>1, <3>1, FirstPart, EmptySeq
      <4> QED BY <1>1, <1>2, <3>1, <4>1, <4>2 DEF Out, Mid, Succeed
    <3>2. CASE /\ call' = [call EXCEPT !.out = Tail(@)]
               /\ UNCHANGED <<transport, result>>
      <4>1. /\ call'.out = Tail(call.out) /\ call'.mid = call.mid /\ call'.op = call.op
            /\ Tail(call.out) \in Seq(Parts(Sent))
        BY <1>1, <3>2, FirstPart DEF Calls
      <4>2. call' \in Calls
        BY <1>1, <3>2, <4>1 DEF Calls
      <4>3. call' # None
        BY <4>2, NoneIsNothing
      <4> QED BY <1>1, <1>2, <3>2, <4>1, <4>3 DEF Out, Mid
    <3> QED BY <2>1, <3>1, <3>2
  <2> SUFFICES ASSUME Live' PROVE InStep'
    BY <1>1, <2>2 DEF AckInv
  <2>3. Live
    <3>1. CASE call.op = "spawn"
      BY <1>1, <3>1 DEF Live, Uncancelled
    <3>2. CASE call.op # "spawn"
      BY <1>1, <1>4, <3>2 DEF Live, Uncancelled, IInv, Ownership, Calls, Ops
    <3> QED BY <3>1, <3>2
  <2>4. InStep
    BY <2>3 DEF AckInv
  <2>5. /\ Len(toLean) \in Nat /\ DOMAIN toLean = 1 .. Len(toLean)
        /\ Len(toLean') = Len(toLean) + 1 /\ DOMAIN toLean' = 1 .. Len(toLean) + 1
        /\ \A i \in 1 .. Len(toLean) : toLean'[i] = toLean[i]
        /\ toLean'[Len(toLean) + 1] = call.out[1]
    <3>1. Head(call.out) \in Parts(Sent) /\ Head(call.out) = call.out[1]
      BY <1>1, FirstPart
    <3>2. /\ toLean' \in Seq(Parts(Sent)) /\ Len(toLean') = Len(toLean) + 1
          /\ \A i \in 1 .. Len(toLean) : toLean'[i] = toLean[i]
          /\ toLean'[Len(toLean) + 1] = Head(call.out)
      BY <1>1, <3>1, AppendProperties
    <3> QED BY <1>1, <3>1, <3>2, LenProperties
  <2>6. WritesFramed'
    <3>1. CASE Len(toLean) % 2 = 1
      <4>1. call.out = <<Body(toLean[Len(toLean)].of)>>
        BY <2>2, <2>4, <3>1 DEF InStep, WritesFramed
      <4>2. call.out[1] = Body(toLean[Len(toLean)].of) /\ Out' = <<>>
        BY <2>2, <4>1
      <4>3. (Len(toLean) + 1) % 2 = 0 /\ Len(toLean) >= 1
        BY <2>5, <3>1
      <4>4. toLean'[Len(toLean) + 1] = Body(toLean[Len(toLean)].of)
        BY <2>5, <4>2
      <4>5. \A i \in DOMAIN toLean' :
              toLean'[i].part = IF i % 2 = 1 THEN "header" ELSE "body"
        BY <2>4, <2>5, <4>3, <4>4 DEF InStep, WritesFramed, Body
      <4>6. \A i \in DOMAIN toLean' : i % 2 = 0 => toLean'[i].of = toLean'[i - 1].of
        <5> SUFFICES ASSUME NEW i \in DOMAIN toLean', i % 2 = 0
                     PROVE  toLean'[i].of = toLean'[i - 1].of
          OBVIOUS
        <5>1. i - 1 \in 1 .. Len(toLean) /\ toLean'[i - 1] = toLean[i - 1]
          BY <2>5
        <5>2. CASE i = Len(toLean) + 1
          BY <4>4, <5>1, <5>2, <2>5 DEF Body
        <5>3. CASE i # Len(toLean) + 1
          <6>1. i \in DOMAIN toLean /\ toLean'[i] = toLean[i]
            BY <2>5, <5>3
          <6> QED BY <2>4, <5>1, <6>1 DEF InStep, WritesFramed
        <5> QED BY <5>2, <5>3
      <4> QED BY <2>5, <4>2, <4>3, <4>5, <4>6 DEF WritesFramed
    <3>2. CASE Len(toLean) % 2 # 1
      <4>1. PICK message \in Sent : call.out = Frame(message)
        BY <1>1, <2>2, <2>4, <3>2 DEF InStep, WritesFramed
      <4>2. /\ call.out[1] = [part |-> "header", of |-> message]
            /\ Out' = <<Body(message)>>
        BY <2>2, <4>1 DEF Frame, Body
      <4>3. (Len(toLean) + 1) % 2 = 1
        BY <2>5, <3>2
      <4>4. toLean'[Len(toLean) + 1] = [part |-> "header", of |-> message]
        BY <2>5, <4>2
      <4>5. \A i \in DOMAIN toLean' :
              toLean'[i].part = IF i % 2 = 1 THEN "header" ELSE "body"
        BY <2>4, <2>5, <4>3, <4>4 DEF InStep, WritesFramed
      <4>6. \A i \in DOMAIN toLean' : i % 2 = 0 => toLean'[i].of = toLean'[i - 1].of
        <5> SUFFICES ASSUME NEW i \in DOMAIN toLean', i % 2 = 0
                     PROVE  toLean'[i].of = toLean'[i - 1].of
          OBVIOUS
        <5>1. /\ i \in DOMAIN toLean /\ toLean'[i] = toLean[i]
              /\ i - 1 \in 1 .. Len(toLean) /\ toLean'[i - 1] = toLean[i - 1]
          BY <2>5, <4>3
        <5> QED BY <2>4, <5>1 DEF InStep, WritesFramed
      <4>7. Out' = <<Body(toLean'[Len(toLean')].of)>>
        BY <2>5, <4>2, <4>4
      <4> QED BY <2>5, <4>3, <4>5, <4>6, <4>7 DEF WritesFramed
    <3> QED BY <3>1, <3>2
  <2>7. ~Mid /\ ~Mid'
    BY <1>1, <2>2, <2>4 DEF InStep, ReadsFramed
  <2>8. ReadsFramed'
    BY <1>1, <2>4, <2>7 DEF InStep, ReadsFramed
  <2>9. \A id : Handled(id) => Handled(id)'
    <3> SUFFICES ASSUME NEW id, Handled(id) PROVE Handled(id)'
      OBVIOUS
    <3> DEFINE reply == Message("reply", id)
    <3> HIDE DEF reply
    <3>1. CASE Holds(toLean, reply)
      <4>1. Holds(toLean', reply)
        BY <2>5, <3>1 DEF Holds
      <4> QED BY <4>1 DEF Handled, reply
    <3>2. CASE Holds(call.out, reply)
      <4>1. PICK i \in DOMAIN call.out : call.out[i] = Body(reply)
        BY <3>2 DEF Holds
      <4>2. CASE i = 1
        <5>1. Holds(toLean', reply)
          BY <2>5, <4>1, <4>2 DEF Holds
        <5> QED BY <5>1 DEF Handled, reply
      <4>3. CASE i # 1
        <5>1. Len(call.out) \in Nat /\ DOMAIN call.out = 1 .. Len(call.out)
          BY <1>1, LenProperties
        <5>2. /\ Tail(call.out) \in Seq(Parts(Sent)) /\ Len(Tail(call.out)) = Len(call.out) - 1
              /\ \A k \in DOMAIN Tail(call.out) : Tail(call.out)[k] = call.out[k + 1]
          BY <1>1, FirstPart
        <5>3. DOMAIN Tail(call.out) = 1 .. Len(call.out) - 1
          BY <5>2, LenProperties
        <5>4. i - 1 \in DOMAIN Tail(call.out) /\ Tail(call.out)[i - 1] = call.out[i]
          BY <4>1, <4>3, <5>1, <5>2, <5>3
        <5>5. Holds(Tail(call.out), reply)
          BY <4>1, <5>4 DEF Holds
        <5> QED BY <2>2, <5>5 DEF Handled, reply
      <4> QED BY <4>2, <4>3
    <3>3. CASE id \in lean.acked
      BY <1>1, <3>3 DEF Handled
    <3> QED BY <2>2, <3>1, <3>2, <3>3 DEF Handled, reply
  <2>10. AsksKept' /\ AsksPrecede'
    BY <1>1, <2>4, <2>9, AsksSame DEF InStep
  <2>11. AsksReturned'
    BY <2>2 DEF AsksReturned
  <2> QED BY <2>6, <2>8, <2>10, <2>11 DEF InStep
<1> QED BY <1>3, <1>4

LEMMA WriteToNobodyAck == IInv /\ AckInv /\ WriteToNobody => AckInv'
<1> SUFFICES ASSUME IInv, AckInv, WriteToNobody PROVE AckInv'
  OBVIOUS
<1>1. /\ call \in Calls /\ call # None /\ Fail("Broken", None) /\ child # "running" /\ child # "none"
      /\ transport # "cancelled"
  BY DEF WriteToNobody, IInv, TypeOK, Ownership, Talking, Calls, Ops
<1>2. child' = child /\ transport' = transport
  BY <1>1 DEF Fail, Drop
<1> QED BY <1>1, <1>2, AckGone DEF Live

\* The parts left in the pipe are still in step.
LEMMA ReadsRest ==
    ASSUME TypeOK, ReadsFramed, fromLean # <<>>, fromLean' = Tail(fromLean),
           Mid' <=> ~Mid, Mid' => Out' = <<>>
    PROVE  ReadsFramed'
<1>1. /\ DOMAIN fromLean = 1 .. Len(fromLean) /\ DOMAIN fromLean' = 1 .. Len(fromLean) - 1
      /\ Len(fromLean) \in Nat /\ Len(fromLean') = Len(fromLean) - 1
      /\ \A i \in DOMAIN fromLean' : i + 1 \in DOMAIN fromLean /\ fromLean'[i] = fromLean[i + 1]
  BY FirstPart, LenProperties DEF TypeOK
<1>2. CASE Mid
  BY <1>1, <1>2 DEF ReadsFramed
<1>3. CASE ~Mid
  <2>1. /\ \A i \in DOMAIN fromLean :
              fromLean[i].part = IF i % 2 = 1 THEN "header" ELSE "body"
        /\ Len(fromLean) % 2 = 0
    BY <1>1, <1>3 DEF ReadsFramed
  <2>2. \A i \in DOMAIN fromLean' :
          fromLean'[i].part = IF (i + 1) % 2 = 1 THEN "header" ELSE "body"
    BY <1>1, <2>1
  <2>3. (Len(fromLean') + 1) % 2 = 0
    BY <1>1, <2>1
  <2> QED BY <1>3, <2>2, <2>3 DEF ReadsFramed
<1> QED BY <1>2, <1>3

LEMMA ReadHeaderAck == IInv /\ AckInv /\ ReadHeader => AckInv'
<1> SUFFICES ASSUME IInv, AckInv, ReadHeader PROVE AckInv'
  OBVIOUS
<1>1. /\ call \in Calls /\ call # None /\ call.out = <<>> /\ ~call.mid
      /\ fromLean # <<>> /\ Head(fromLean).part = "header"
      /\ call' = [call EXCEPT !.mid = TRUE] /\ fromLean' = Tail(fromLean)
      /\ UNCHANGED <<transport, result, toLean, child, lean>>
      /\ child # "none" /\ result = None
  BY DEF IInv, TypeOK, Ownership, ReadHeader, Reading, Talking
<1>2. call' \in Calls /\ call'.op = call.op /\ call'.out = <<>> /\ call'.mid
  BY <1>1 DEF Calls
<1>3. call' # None
  BY <1>2, NoneIsNothing
<1> SUFFICES ASSUME Live' PROVE InStep'
  BY <1>1, <1>3 DEF AckInv
<1>4. InStep
  BY <1>1, <1>2, <1>3 DEF AckInv, Live, Uncancelled
<1>5. Out = <<>> /\ Out' = <<>> /\ ~Mid /\ Mid'
  BY <1>1, <1>2, <1>3 DEF Out, Mid
<1>6. WritesFramed'
  BY <1>1, <1>4, <1>5 DEF InStep, WritesFramed
<1>7. ReadsFramed'
  BY <1>1, <1>4, <1>5, ReadsRest DEF InStep, IInv
<1>8. \A id : Handled(id) => Handled(id)'
  BY <1>1, <1>5 DEF Handled, Holds
<1>9. fromLean[1].part = "header"
  BY <1>1, FirstPart DEF IInv, TypeOK
<1>10. AsksKept' /\ AsksPrecede'
  <2>1. \A id : fromLean[1] # Body(Message("request", id))
    BY <1>9 DEF Body
  <2> QED BY <1>1, <1>4, <1>8, <2>1, AsksRest DEF InStep, IInv
<1>11. AsksReturned'
  BY <1>1 DEF AsksReturned
<1> QED BY <1>6, <1>7, <1>10, <1>11 DEF InStep

\* A request of Lean's is replied to, and an answer is returned after them.
LEMMA ReadBodyAck == IInv /\ AckInv /\ ReadBody => AckInv'
<1> SUFFICES ASSUME IInv, AckInv, ReadBody PROVE AckInv'
  OBVIOUS
<1> DEFINE message == Head(fromLean).of
<1>1. /\ call \in Calls /\ call # None /\ Talking /\ call.out = <<>> /\ call.mid
      /\ fromLean # <<>> /\ fromLean' = Tail(fromLean)
      /\ UNCHANGED <<nextId, toLean, lean>> /\ result = None /\ child # "none"
      /\ transport # "cancelled"
  BY DEF IInv, TypeOK, Ownership, ReadBody, Reading, Talking, Calls, Ops
<1>2. message \in Received /\ fromLean[1].of = message /\ 1 \in DOMAIN fromLean
  BY <1>1, FirstPart DEF IInv, TypeOK
<1>3. CASE message.kind = "garbage" /\ Fail("Json", None)
  <2>1. child' # "none" /\ transport' = transport
    BY <1>1, <1>3 DEF Fail, Drop
  <2> SUFFICES ASSUME Live' PROVE InStep'
    BY <1>1, <2>1 DEF AckInv
  <2>2. /\ Live /\ call' = None
        /\ result' = [op |-> call.op, code |-> "Json", response |-> None]
    BY <1>1, <1>3, FailLives
  <2>3. InStep /\ Out = <<>> /\ Mid /\ Out' = <<>> /\ ~Mid'
    BY <1>1, <2>2 DEF AckInv, Out, Mid
  <2>4. WritesFramed'
    BY <1>1, <2>3 DEF InStep, WritesFramed
  <2>5. ReadsFramed'
    BY <1>1, <2>3, ReadsRest DEF InStep, IInv
  <2>6. \A id : Handled(id) => Handled(id)'
    BY <1>1, <2>3 DEF Handled, Holds
  <2>7. \A id : fromLean[1] # Body(Message("request", id))
    BY <1>2, <1>3 DEF Body, Message
  <2>8. AsksKept' /\ AsksPrecede'
    BY <1>1, <2>3, <2>6, <2>7, AsksRest DEF InStep, IInv
  <2>9. AsksReturned'
    BY <2>2 DEF AsksReturned
  <2> QED BY <2>4, <2>5, <2>8, <2>9 DEF InStep
<1>4. CASE message.kind = "response" /\ Respond(message)
  <2>1. Outcome(message) = message.code
    BY <1>4 DEF Outcome
  <2>2. CASE call.op = "request" \/ message.code # "Ok"
    <3>1. child' # "none" /\ transport' = transport
      BY <1>1, <1>4, <2>1, <2>2 DEF Respond, Fail, Drop
    <3> SUFFICES ASSUME Live' PROVE InStep'
      BY <1>1, <3>1 DEF AckInv
    <3>2. /\ Live /\ call' = None
          /\ result' = [op |-> call.op, code |-> message.code, response |-> message]
      <4>1. CASE message.code # "Ok"
        <5>1. Fail(message.code, message)
          BY <1>4, <2>1, <4>1 DEF Respond
        <5> QED BY <1>1, <5>1, FailLives
      <4>2. CASE message.code = "Ok"
        <5>1. call' = None /\ result' = [op |-> call.op, code |-> "Ok", response |-> message]
              /\ UNCHANGED <<transport, child>>
          BY <1>4, <2>1, <2>2, <4>2 DEF Respond, Return
        <5> QED BY <4>2, <5>1 DEF Live, Uncancelled
      <4> QED BY <4>1, <4>2
    <3>3. InStep /\ Out = <<>> /\ Mid /\ Out' = <<>> /\ ~Mid'
      BY <1>1, <3>2 DEF AckInv, Out, Mid
    <3>4. WritesFramed'
      BY <1>1, <3>3 DEF InStep, WritesFramed
    <3>5. ReadsFramed'
      BY <1>1, <3>3, ReadsRest DEF InStep, IInv
    <3>6. \A id : Handled(id) => Handled(id)'
      BY <1>1, <3>3 DEF Handled, Holds
    <3>7. \A id : fromLean[1] # Body(Message("request", id))
      BY <1>2, <1>4 DEF Body, Message
    <3>8. AsksKept' /\ AsksPrecede'
      BY <1>1, <3>3, <3>6, <3>7, AsksRest DEF InStep, IInv
    <3>9. AsksReturned'
      <4>1. fromLean[1].part = "body"
        BY <1>2, <3>3 DEF InStep, ReadsFramed
      <4>2. \A id \in message.asked : Handled(id)
        <5> SUFFICES ASSUME NEW id \in message.asked PROVE Handled(id)
          OBVIOUS
        <5>1. Handled(id) \/ \E j \in 1 .. 1 - 1 : fromLean[j] = Body(Message("request", id))
          BY <1>2, <1>4, <3>3, <4>1 DEF InStep, AsksPrecede
        <5> QED BY <5>1
      <4>3. \A id \in message.asked : Handled(id)'
        BY <3>6, <4>2
      <4>4. result'.response = message
        BY <3>2
      <4> HIDE DEF message
      <4> QED BY <4>3, <4>4 DEF AsksReturned
    <3> QED BY <3>4, <3>5, <3>8, <3>9 DEF InStep
  <2>3. CASE call.op # "request" /\ message.code = "Ok"
    <3> DEFINE next == Message(IF call.op = "spawn" THEN "notification" ELSE "exit", None)
    <3>1. /\ call' = [call EXCEPT !.id = None, !.mid = FALSE, !.out = Frame(next)]
          /\ UNCHANGED <<transport, result, child>>
      BY <1>4, <2>1, <2>3 DEF Respond
    <3>2. next \in Sent
      BY DEF Message, Sent
    <3> HIDE DEF next
    <3>3. /\ call' \in Calls /\ call'.op = call.op /\ call'.mid = FALSE
          /\ call'.out = Frame(next)
      BY <1>1, <3>1, <3>2, FrameParts DEF Calls
    <3>4. call' # None
      BY <3>3, NoneIsNothing
    <3> SUFFICES ASSUME Live' PROVE InStep'
      BY <1>1, <3>1 DEF AckInv
    <3>5. InStep /\ Out = <<>> /\ Mid /\ Out' = Frame(next) /\ ~Mid'
      BY <1>1, <3>1, <3>3, <3>4 DEF AckInv, Live, Uncancelled, Out, Mid
    <3>6. WritesFramed'
      <4>1. WritesFramed /\ Len(toLean) % 2 # 1
        BY <3>5 DEF InStep, WritesFramed
      <4> QED BY <1>1, <3>2, <3>5, <4>1 DEF WritesFramed
    <3>7. ReadsFramed'
      BY <1>1, <3>5, ReadsRest DEF InStep, IInv
    <3>8. \A id : Handled(id) => Handled(id)'
      BY <1>1, <3>5 DEF Handled, Holds
    <3>9. \A id : fromLean[1] # Body(Message("request", id))
      BY <1>2, <1>4 DEF Body, Message
    <3>10. AsksKept' /\ AsksPrecede'
      BY <1>1, <3>5, <3>8, <3>9, AsksRest DEF InStep, IInv
    <3>11. AsksReturned'
      BY <1>1, <3>1 DEF AsksReturned
    <3> QED BY <3>6, <3>7, <3>10, <3>11 DEF InStep
  <2> QED BY <2>2, <2>3
<1>5. CASE /\ call' = [call EXCEPT !.mid = FALSE, !.out = ReplyToServerRequest(message)]
           /\ UNCHANGED <<transport, result, child>>
  <2>1. /\ ReplyToServerRequest(message) \in Seq(Parts(Sent))
        /\ \/ ReplyToServerRequest(message) = <<>>
           \/ \E m \in Sent : ReplyToServerRequest(message) = Frame(m)
    <3>1. CASE message.kind = "request"
      <4>1. Message("reply", message.id) \in Sent
        BY <1>2, <3>1 DEF Message, Received, Sent
      <4> QED BY <3>1, <4>1, FrameParts DEF ReplyToServerRequest
    <3>2. CASE message.kind # "request"
      BY <3>2, EmptySeq DEF ReplyToServerRequest
    <3> QED BY <3>1, <3>2
  <2>2. /\ call' \in Calls /\ call'.op = call.op /\ call'.mid = FALSE
        /\ call'.out = ReplyToServerRequest(message)
    BY <1>1, <1>5, <2>1 DEF Calls
  <2>3. call' # None
    BY <2>2, NoneIsNothing
  <2> SUFFICES ASSUME Live' PROVE InStep'
    BY <1>1, <1>5 DEF AckInv
  <2>4. InStep /\ Out = <<>> /\ Mid /\ Out' = ReplyToServerRequest(message) /\ ~Mid'
    BY <1>1, <1>5, <2>2, <2>3 DEF AckInv, Live, Uncancelled, Out, Mid
  <2>5. WritesFramed'
    <3>1. WritesFramed /\ Len(toLean) % 2 # 1
      BY <2>4 DEF InStep, WritesFramed
    <3> QED BY <1>1, <2>1, <2>4, <3>1 DEF WritesFramed
  <2>6. ReadsFramed'
    BY <1>1, <2>4, ReadsRest DEF InStep, IInv
  <2>7. \A id : Handled(id) => Handled(id)'
    BY <1>1, <2>4 DEF Handled, Holds
  <2>8. \A id : fromLean[1] = Body(Message("request", id)) => Handled(id)'
    <3> SUFFICES ASSUME NEW id, fromLean[1] = Body(Message("request", id)) PROVE Handled(id)'
      OBVIOUS
    <3>1. message = Message("request", id)
      BY <1>2 DEF Body
    <3>2. Out' = Frame(Message("reply", id))
      BY <2>4, <3>1 DEF ReplyToServerRequest, Message
    <3>3. Out'[2] = Body(Message("reply", id)) /\ 2 \in DOMAIN Out'
      BY <3>2 DEF Frame, Body
    <3>4. Holds(Out', Message("reply", id))
      BY <3>3 DEF Holds
    <3> QED BY <3>4 DEF Handled
  <2>9. AsksKept' /\ AsksPrecede'
    BY <1>1, <2>4, <2>7, <2>8, AsksRest DEF InStep, IInv
  <2>10. AsksReturned'
    BY <1>1, <1>5 DEF AsksReturned
  <2> QED BY <2>5, <2>6, <2>9, <2>10 DEF InStep
<1>6. \/ message.kind = "garbage" /\ Fail("Json", None)
      \/ message.kind = "response" /\ Respond(message)
      \/ /\ call' = [call EXCEPT !.mid = FALSE, !.out = ReplyToServerRequest(message)]
         /\ UNCHANGED <<transport, result, child>>
  <2> HIDE DEF message
  <2>1. CASE /\ message.kind = "garbage" 
             /\ Fail("Json", None)
    BY <2>1
  <2>2. CASE IsResponseFor(message, call.id) /\ Respond(message)
    BY <2>2 DEF IsResponseFor
  <2>3. \/ message.kind = "garbage" /\ Fail("Json", None)
        \/ IsResponseFor(message, call.id) /\ Respond(message)
        \/ /\ call' = [call EXCEPT !.mid = FALSE, !.out = ReplyToServerRequest(message)]
           /\ UNCHANGED <<transport, result, child>>
    BY DEF ReadBody, message
  <2> QED BY <2>1, <2>2, <2>3
<1> QED BY <1>3, <1>4, <1>5, <1>6

\* A stream is out of step only after a call was dropped.
LEMMA ReadBrokenAck == IInv /\ AckInv /\ (ReadMisaligned \/ ReadEnd) => AckInv'
<1> SUFFICES ASSUME IInv, AckInv, ReadMisaligned \/ ReadEnd PROVE AckInv'
  OBVIOUS
<1>1. /\ call \in Calls /\ call # None /\ Talking /\ Fail("Broken", None) /\ child # "none"
      /\ transport # "cancelled"
  BY DEF ReadMisaligned, ReadEnd, Misaligned, Reading, IInv, TypeOK, Ownership, Talking,
         Calls, Ops
<1>2. child' # "none" /\ transport' = transport /\ (child # "running" => child' # "running")
  BY <1>1 DEF Fail, Drop
<1>3. ~Live'
  <2> SUFFICES ASSUME Live' PROVE FALSE
    OBVIOUS
  <2>1. Live
    BY <1>1, FailLives
  <2>2. ReadMisaligned
    BY <2>1 DEF ReadEnd, Live
  <2>3. /\ ReadsFramed /\ ~Mid /\ fromLean # <<>> /\ Head(fromLean).part = "body"
    BY <1>1, <2>1, <2>2 DEF AckInv, InStep, ReadMisaligned, Misaligned, Mid
  <2>4. 1 \in DOMAIN fromLean /\ fromLean[1].part = "body"
    BY <2>3, FirstPart DEF IInv, TypeOK
  <2> QED BY <2>3, <2>4 DEF ReadsFramed
<1> QED BY <1>1, <1>2, <1>3, AckGone

\* Calls end, and with them the child or the transport.
LEMMA EndsAck == IInv /\ AckInv /\ (GracefulTimeout \/ Reap \/ Cancel \/ DropTransport) => AckInv'
<1> SUFFICES ASSUME IInv, AckInv, GracefulTimeout \/ Reap \/ Cancel \/ DropTransport
             PROVE  AckInv'
  OBVIOUS
<1>1. CASE GracefulTimeout
  <2>1. call \in Calls /\ call # None /\ call.op = "shutdown" /\ transport = "none" /\ child # "none"
    BY <1>1 DEF IInv, TypeOK, Ownership, GracefulTimeout, TimeoutOfRequests, Talking
  <2>2. /\ call' = [call EXCEPT !.finished = "Ok"] /\ UNCHANGED <<transport, child>>
    BY <1>1 DEF GracefulTimeout
  <2>3. call'.op = "shutdown"
    BY <2>1, <2>2 DEF Calls
  <2> QED BY <2>1, <2>2, <2>3, AckGone DEF Live, Uncancelled
<1>2. CASE Reap
  <2>1. /\ child' = "reaped" /\ transport' = transport
        /\ call # None /\ call.op = "shutdown" /\ transport = "none"
    BY <1>2 DEF Reap, IInv, Ownership
  <2> QED BY <2>1, AckGone DEF Live
<1>3. CASE Cancel
  <2>1. call # None /\ call' = None /\ result' = None /\ child # "none"
    BY <1>3 DEF Cancel, IInv, Ownership
  <2>2. child' # "none" /\ transport' # "open"
    <3>1. CASE call.op \in {"spawn", "shutdown"}
      BY <1>3, <2>1, <3>1 DEF Cancel, Drop, IInv, Ownership
    <3>2. CASE call.op \notin {"spawn", "shutdown"}
      BY <1>3, <2>1, <3>2 DEF Cancel
    <3> QED BY <3>1, <3>2
  <2> QED BY <2>1, <2>2, AckGone DEF Live, Uncancelled
<1>4. CASE DropTransport
  <2>1. /\ call' = None /\ transport' = "none" /\ child # "none"
        /\ child' = IF child = "running" THEN "killed" ELSE child
    BY <1>4 DEF DropTransport, Drop, IInv, Ownership
  <2> QED BY <2>1, AckGone DEF Live, Uncancelled
<1> QED BY <1>1, <1>2, <1>3, <1>4

LEMMA LeanExitsAck == IInv /\ AckInv /\ LeanExits => AckInv'
<1> SUFFICES ASSUME IInv, AckInv, LeanExits PROVE AckInv'
  OBVIOUS
<1>1. child' = "exited" /\ UNCHANGED <<transport, call, result>>
  BY DEF LeanExits, owner
<1> QED BY <1>1 DEF AckInv, Live

\* Lean reads a whole frame, and with a reply it is acknowledged.
LEMMA LeanReadsAck == IInv /\ AckInv /\ LeanReads => AckInv'
<1> SUFFICES ASSUME IInv, AckInv, LeanReads PROVE AckInv'
  OBVIOUS
<1>1. /\ child = "running" /\ Len(toLean) >= 2 /\ toLean' = Tail(Tail(toLean))
      /\ UNCHANGED <<transport, call, result, fromLean, child>>
      /\ toLean \in Seq(Parts(Sent))
      /\ lean \in [pending : SUBSET Ids, answered : SUBSET Ids, asked : SUBSET Asks,
                   acked : SUBSET Asks, deaf : BOOLEAN]
  BY DEF LeanReads, owner, IInv, TypeOK
<1> SUFFICES ASSUME Live' PROVE InStep'
  BY <1>1 DEF AckInv
<1>2. InStep
  BY <1>1 DEF AckInv, Live, Uncancelled
<1>3. Out' = Out /\ (Mid' <=> Mid)
  BY <1>1 DEF Out, Mid
<1>4. /\ Len(toLean) \in Nat /\ DOMAIN toLean = 1 .. Len(toLean)
      /\ Len(toLean') = Len(toLean) - 2 /\ DOMAIN toLean' = 1 .. Len(toLean) - 2
      /\ \A i \in DOMAIN toLean' : toLean'[i] = toLean[i + 2]
  <2>1. toLean # <<>> /\ Len(toLean) \in Nat /\ DOMAIN toLean = 1 .. Len(toLean)
    BY <1>1, EmptySeq, LenProperties
  <2>2. PICK rest : rest = Tail(toLean)
    OBVIOUS
  <2>3. /\ rest \in Seq(Parts(Sent)) /\ Len(rest) = Len(toLean) - 1
        /\ \A i \in DOMAIN rest : rest[i] = toLean[i + 1]
    BY <1>1, <2>1, <2>2, FirstPart
  <2>4. rest # <<>> /\ DOMAIN rest = 1 .. Len(rest)
    BY <1>1, <2>3, EmptySeq, LenProperties
  <2>5. /\ toLean' \in Seq(Parts(Sent)) /\ Len(toLean') = Len(rest) - 1
        /\ \A i \in DOMAIN toLean' : i + 1 \in DOMAIN rest /\ toLean'[i] = rest[i + 1]
    BY <1>1, <2>2, <2>3, <2>4, FirstPart
  <2>6. DOMAIN toLean' = 1 .. Len(toLean')
    BY <2>5, LenProperties
  <2> QED BY <2>1, <2>3, <2>4, <2>5, <2>6
<1>5. /\ toLean[1].part = "header" /\ toLean[2].part = "body" /\ toLean[2].of = toLean[1].of
      /\ 1 \in DOMAIN toLean /\ 2 \in DOMAIN toLean
  <2>1. 1 \in DOMAIN toLean /\ 2 \in DOMAIN toLean
    BY <1>1, <1>4
  <2>2. 1 % 2 = 1 /\ 2 % 2 = 0 /\ 2 - 1 = 1
    OBVIOUS
  <2> QED BY <1>2, <2>1, <2>2 DEF InStep, WritesFramed
<1>6. /\ lean'.asked = lean.asked /\ lean.acked \subseteq lean'.acked
      /\ toLean[1].of.kind = "reply" => toLean[1].of.id \in lean'.acked
  <2>1. lean' = CASE toLean[2].part = "header" -> [lean EXCEPT !.deaf = TRUE]
                  [] toLean[1].of.kind = "request" ->
                       [lean EXCEPT !.pending = @ \cup {toLean[1].of.id}]
                  [] toLean[1].of.kind = "reply" ->
                       [lean EXCEPT !.acked = @ \cup {toLean[1].of.id}]
                  [] OTHER -> lean
    BY DEF LeanReads
  <2> QED BY <1>1, <1>5, <2>1
<1>7. WritesFramed'
  <2>1. (Len(toLean) - 2) % 2 = Len(toLean) % 2
    BY <1>4
  <2>2. \A i \in DOMAIN toLean' : toLean'[i].part = IF i % 2 = 1 THEN "header" ELSE "body"
    <3> SUFFICES ASSUME NEW i \in DOMAIN toLean'
                 PROVE  toLean'[i].part = IF i % 2 = 1 THEN "header" ELSE "body"
      OBVIOUS
    <3>1. i + 2 \in DOMAIN toLean /\ (i + 2) % 2 = i % 2 /\ toLean'[i] = toLean[i + 2]
      BY <1>4
    <3> QED BY <1>2, <3>1 DEF InStep, WritesFramed
  <2>3. \A i \in DOMAIN toLean' : i % 2 = 0 => toLean'[i].of = toLean'[i - 1].of
    <3> SUFFICES ASSUME NEW i \in DOMAIN toLean', i % 2 = 0
                 PROVE  toLean'[i].of = toLean'[i - 1].of
      OBVIOUS
    <3>1. i + 2 \in DOMAIN toLean /\ (i + 2) % 2 = 0 /\ toLean'[i] = toLean[i + 2]
      BY <1>4
    <3>2. i - 1 \in DOMAIN toLean' /\ toLean'[i - 1] = toLean[(i + 2) - 1]
      BY <1>4
    <3> QED BY <1>2, <3>1, <3>2 DEF InStep, WritesFramed
  <2>4. CASE Len(toLean) % 2 = 1
    <3>1. Len(toLean) - 2 \in DOMAIN toLean' /\ toLean'[Len(toLean)-2] = toLean[Len(toLean)]
      BY <1>1, <1>4, <2>4
    <3> QED BY <1>2, <1>3, <1>4, <2>1, <2>2, <2>3, <2>4, <3>1 DEF InStep, WritesFramed
  <2>5. CASE Len(toLean) % 2 # 1
    BY <1>2, <1>3, <1>4, <2>1, <2>2, <2>3, <2>5 DEF InStep, WritesFramed
  <2> QED BY <2>4, <2>5
<1>8. ReadsFramed'
  BY <1>1, <1>2, <1>3 DEF InStep, ReadsFramed
<1>9. \A id : Handled(id) => Handled(id)'
  <2> SUFFICES ASSUME NEW id, Handled(id) PROVE Handled(id)'
    OBVIOUS
  <2>1. CASE Holds(toLean, Message("reply", id))
    <3>1. PICK i \in DOMAIN toLean : toLean[i] = Body(Message("reply", id))
      BY <2>1 DEF Holds
    <3>2. CASE i \in 1 .. 2
      <4>1. toLean[1].of = Message("reply", id)
        BY <1>5, <3>1, <3>2 DEF Body
      <4>2. toLean[1].of.kind = "reply" /\ toLean[1].of.id = id
        BY <4>1 DEF Message
      <4> QED BY <1>6, <4>2 DEF Handled
    <3>3. CASE i \notin 1 .. 2
      <4>1. i - 2 \in DOMAIN toLean' /\ toLean'[i - 2] = toLean[i]
        BY <1>4, <3>3
      <4>2. Holds(toLean', Message("reply", id))
        BY <3>1, <4>1 DEF Holds
      <4> QED BY <4>2 DEF Handled
    <3> QED BY <3>2, <3>3
  <2>2. CASE id \in lean.acked
    BY <1>6, <2>2 DEF Handled
  <2>3. CASE Holds(Out, Message("reply", id))
    BY <1>3, <2>3 DEF Handled
  <2> QED BY <2>1, <2>2, <2>3 DEF Handled
<1>10. AsksKept' /\ AsksPrecede'
  BY <1>1, <1>2, <1>6, <1>9, AsksSame DEF InStep
<1>11. AsksReturned'
  BY <1>1, <1>2, <1>9 DEF InStep, AsksReturned
<1> QED BY <1>7, <1>8, <1>10, <1>11 DEF InStep

\* Lean writes after what it wrote before.
LEMMA EmitAck ==
    ASSUME IInv, AckInv, NEW message \in Received, Emit(message), lean'.acked = lean.acked,
           message.kind = "response" => message.asked = lean.asked,
           \A id \in lean'.asked : id \in lean.asked \/ message = Message("request", id)
    PROVE  AckInv'
<1>1. /\ child = "running" /\ UNCHANGED <<transport, call, result, toLean, child>>
      /\ fromLean' = fromLean \o Frame(message) /\ fromLean \in Seq(Parts(Received))
  BY DEF Emit, owner, IInv, TypeOK
<1> SUFFICES ASSUME Live' PROVE InStep'
  BY <1>1 DEF AckInv
<1>2. InStep
  BY <1>1 DEF AckInv, Live, Uncancelled
<1>3. Out' = Out /\ (Mid' <=> Mid)
  BY <1>1 DEF Out, Mid
<1> DEFINE frame == Frame(message)
           n == Len(fromLean)
<1>4. /\ n \in Nat /\ DOMAIN fromLean = 1 .. n
      /\ Len(fromLean') = n + 2 /\ DOMAIN fromLean' = 1 .. n + 2
      /\ \A i \in 1 .. n : fromLean'[i] = fromLean[i]
      /\ fromLean'[n + 1] = [part |-> "header", of |-> message]
      /\ fromLean'[n + 2] = Body(message)
  <2>1. frame \in Seq(Parts(Received)) /\ Len(frame) = 2
    BY FrameParts
  <2>2. frame[1] = [part |-> "header", of |-> message] /\ frame[2] = Body(message)
    BY DEF Frame, Body
  <2>3. \A S : \A s1, s2 \in Seq(S) :
          /\ s1 \o s2 \in Seq(S) /\ Len(s1 \o s2) = Len(s1) + Len(s2)
          /\ \A i \in 1 .. Len(s1) + Len(s2) :
               (s1 \o s2)[i] = IF i <= Len(s1) THEN s1[i] ELSE s2[i - Len(s1)]
    BY ConcatProperties
  <2>4. fromLean' = fromLean \o frame
    BY <1>1
  <2> HIDE DEF frame
  <2>5. /\ fromLean \o frame \in Seq(Parts(Received))
        /\ Len(fromLean \o frame) = Len(fromLean) + Len(frame)
        /\ \A i \in 1 .. Len(fromLean) + Len(frame) :
             (fromLean \o frame)[i] = IF i <= Len(fromLean) THEN fromLean[i]
                                      ELSE frame[i - Len(fromLean)]
    BY <1>1, <2>1, <2>3, Zenon
  <2>6. /\ Len(fromLean) \in Nat /\ DOMAIN fromLean = 1 .. Len(fromLean)
        /\ DOMAIN fromLean' = 1 .. Len(fromLean')
    BY <1>1, <2>4, <2>5, LenProperties
  <2>7. /\ fromLean' \in Seq(Parts(Received))
        /\ Len(fromLean') = Len(fromLean) + Len(frame)
        /\ \A i \in 1 .. Len(fromLean) + Len(frame) :
             fromLean'[i] = IF i <= Len(fromLean) THEN fromLean[i]
                            ELSE frame[i - Len(fromLean)]
    BY <2>4, <2>5, Zenon
  <2> QED BY <2>1, <2>2, <2>6, <2>7
<1> HIDE DEF n, frame
<1>5. WritesFramed'
  BY <1>1, <1>2, <1>3 DEF InStep, WritesFramed
<1>6. ReadsFramed'
  <2>1. PICK read \in {0, 1} : read = IF Mid THEN 1 ELSE 0
    OBVIOUS
  <2>2. /\ \A i \in DOMAIN fromLean :
             fromLean[i].part = IF (i + read) % 2 = 1 THEN "header" ELSE "body"
        /\ (n + read) % 2 = 0
    BY <1>2, <2>1 DEF InStep, ReadsFramed, n
  <2>3. (n + 1 + read) % 2 = 1 /\ (n + 2 + read) % 2 = 0
    <3>1. \A m \in Nat : m % 2 = 0 => (m + 1) % 2 = 1 /\ (m + 2) % 2 = 0
      OBVIOUS
    <3>2. n + read \in Nat /\ n + 1 + read = n + read + 1 /\ n + 2 + read = n + read + 2
      BY <1>4, <2>1
    <3> QED BY <2>2, <3>1, <3>2
  <2>4. \A i \in DOMAIN fromLean' :
          fromLean'[i].part = IF (i + read) % 2 = 1 THEN "header" ELSE "body"
    <3> SUFFICES ASSUME NEW i \in DOMAIN fromLean'
                 PROVE  fromLean'[i].part = IF (i + read) % 2 = 1 THEN "header" ELSE "body"
      OBVIOUS
    <3>1. CASE i \in 1 .. n
      BY <1>4, <2>2, <3>1
    <3>2. CASE i = n + 1
      BY <1>4, <2>3, <3>2
    <3>3. CASE i = n + 2
      BY <1>4, <2>3, <3>3 DEF Body
    <3> QED BY <1>4, <3>1, <3>2, <3>3
  <2>5. Mid' => Out' = <<>>
    BY <1>2, <1>3 DEF InStep, ReadsFramed
  <2>6. (IF Mid' THEN 1 ELSE 0) = read
    BY <1>3, <2>1
  <2> QED BY <1>4, <2>3, <2>4, <2>5, <2>6 DEF ReadsFramed
<1>7. \A id : Handled(id) => Handled(id)'
  BY <1>1, <1>3 DEF Handled
<1>8. AsksKept'
  <2> SUFFICES ASSUME NEW id \in lean'.asked, ~Handled(id)'
               PROVE  Holds(fromLean', Message("request", id))
    BY DEF AsksKept
  <2>1. CASE id \in lean.asked
    <3>1. PICK i \in DOMAIN fromLean : fromLean[i] = Body(Message("request", id))
      BY <1>2, <1>7, <2>1 DEF InStep, AsksKept, Holds
    <3> QED BY <1>4, <3>1 DEF Holds
  <2>2. CASE message = Message("request", id)
    BY <1>4, <2>2 DEF Holds
  <2> QED BY <2>1, <2>2
<1>9. AsksPrecede'
  <2> SUFFICES ASSUME NEW i \in DOMAIN fromLean',
                      fromLean'[i].part = "body" /\ fromLean'[i].of.kind = "response",
                      NEW id \in fromLean'[i].of.asked, ~Handled(id)'
               PROVE  \E j \in 1 .. i - 1 : fromLean'[j] = Body(Message("request", id))
    BY DEF AsksPrecede
  <2>1. CASE i \in 1 .. n
    <3>1. fromLean'[i] = fromLean[i] /\ i \in DOMAIN fromLean
      BY <1>4, <2>1
    <3>2. PICK j \in 1 .. i - 1 : fromLean[j] = Body(Message("request", id))
      BY <1>2, <1>7, <3>1 DEF InStep, AsksPrecede
    <3>3. j \in 1 .. n
      BY <1>4, <2>1
    <3> QED BY <1>4, <3>2, <3>3
  <2>2. CASE i = n + 2
    <3>1. fromLean'[i].of = message
      BY <1>4, <2>2 DEF Body
    <3>2. message.asked = lean.asked
      BY <3>1
    <3>3. id \in lean.asked
      BY <3>1, <3>2
    <3>4. PICK j \in DOMAIN fromLean : fromLean[j] = Body(Message("request", id))
      BY <1>2, <1>7, <3>3 DEF InStep, AsksKept, Holds
    <3>5. j \in 1 .. i - 1 /\ fromLean'[j] = fromLean[j]
      BY <1>4, <2>2
    <3> QED BY <3>4, <3>5
  <2>3. CASE i = n + 1
    <3>1. fromLean'[i].part = "header"
      BY <1>4, <2>3
    <3> QED BY <3>1
  <2> QED BY <1>4, <2>1, <2>2, <2>3
<1>10. AsksReturned'
  BY <1>1, <1>2, <1>7 DEF InStep, AsksReturned
<1> QED BY <1>5, <1>6, <1>8, <1>9, <1>10 DEF InStep

LEMMA LeanSpeaksAck == IInv /\ AckInv /\ (LeanAnswers \/ LeanAsks \/ LeanTells) => AckInv'
<1> SUFFICES ASSUME IInv, AckInv, LeanAnswers \/ LeanAsks \/ LeanTells PROVE AckInv'
  OBVIOUS
<1>1. lean \in [pending : SUBSET Ids, answered : SUBSET Ids, asked : SUBSET Asks,
                acked : SUBSET Asks, deaf : BOOLEAN]
  BY DEF IInv, TypeOK
<1>2. CASE LeanAnswers
  <2>1. PICK id \in lean.pending, code \in {"Ok", "Rpc", "Json"} :
          /\ Emit([kind |-> "response", id |-> id, code |-> code, asked |-> lean.asked])
          /\ lean' = [lean EXCEPT !.pending = @ \ {id}, !.answered = @ \cup {id}]
    BY <1>2 DEF LeanAnswers
  <2> DEFINE message == [kind |-> "response", id |-> id, code |-> code, asked |-> lean.asked]
  <2>2. message \in Received /\ message.asked = lean.asked
    BY <1>1, <2>1 DEF Received
  <2>3. Emit(message)
    BY <2>1
  <2>4. lean'.acked = lean.acked /\ lean'.asked = lean.asked
    BY <1>1, <2>1
  <2> HIDE DEF message
  <2> QED BY <2>2, <2>3, <2>4, EmitAck
<1>3. CASE LeanAsks
  <2>1. PICK id \in Asks \ lean.asked :
          Emit(Message("request", id)) /\ lean' = [lean EXCEPT !.asked = @ \cup {id}]
    BY <1>3 DEF LeanAsks
  <2>2. Message("request", id) \in Received /\ Message("request", id).kind = "request"
    BY DEF Message, Received
  <2>3. lean'.acked = lean.acked /\ lean'.asked = lean.asked \cup {id}
    BY <1>1, <2>1
  <2> QED BY <2>1, <2>2, <2>3, EmitAck
<1>4. CASE LeanTells
  <2>1. PICK kind \in {"notification", "garbage"} : Emit(Message(kind, None))
    BY <1>4 DEF LeanTells
  <2>2. /\ Message(kind, None) \in Received /\ Message(kind, None).kind # "response"
        /\ lean' = lean
    BY <1>4 DEF Message, Received, LeanTells
  <2> QED BY <2>1, <2>2, EmitAck
<1> QED BY <1>2, <1>3, <1>4

LEMMA NextAck == IInv /\ AckInv /\ [Next]_vars => AckInv'
<1> SUFFICES ASSUME IInv, AckInv, [Next]_vars PROVE AckInv'
  OBVIOUS
<1>1. CASE Next
  BY <1>1, SpawnAck, RequestAck, ShutdownAck, WriteAck, WriteToNobodyAck, ReadHeaderAck,
     ReadBodyAck, ReadBrokenAck, EndsAck, LeanReadsAck, LeanSpeaksAck, LeanExitsAck DEF Next
<1>2. CASE UNCHANGED vars
  <2>1. UNCHANGED <<toLean, fromLean, transport, call, result, child, lean>>
    BY <1>2 DEF vars, owner
  <2>2. Out' = Out /\ (Mid' <=> Mid) /\ (Live' <=> Live)
    BY <2>1 DEF Out, Mid, Live, Uncancelled
  <2>3. \A id : Handled(id) <=> Handled(id)'
    BY <2>1, <2>2 DEF Handled
  <2> SUFFICES ASSUME InStep PROVE InStep'
    BY <2>1, <2>2 DEF AckInv
  <2>4. WritesFramed' /\ ReadsFramed'
    BY <2>1, <2>2 DEF InStep, WritesFramed, ReadsFramed
  <2>5. AsksKept' /\ AsksPrecede'
    BY <2>1, <2>3, AsksSame DEF InStep
  <2>6. AsksReturned'
    BY <2>1, <2>3 DEF InStep, AsksReturned
  <2> QED BY <2>4, <2>5, <2>6 DEF InStep
<1> QED BY <1>1, <1>2


-----------------------------------------------------------------------------
(* Theorems *)

LEMMA NextKeeps == IInv /\ [Next]_vars => IInv'
<1> SUFFICES ASSUME IInv, [Next]_vars PROVE IInv'
  OBVIOUS
<1>1. CASE Next
  BY <1>1, SpawnKeeps, RequestKeeps, NotifyKeeps, ShutdownKeeps, WriteKeeps,
     WriteToNobodyKeeps, ReadHeaderKeeps, ReadBodyKeeps, ReadMisalignedKeeps, ReadEndKeeps,
     GracefulTimeoutKeeps, ReapKeeps, CancelKeeps, DropTransportKeeps, LeanReadsKeeps,
     LeanSpeaksKeeps, LeanExitsKeeps DEF Next
<1>2. CASE UNCHANGED vars
  BY <1>2 DEF vars, owner, IInv, TypeOK, Ownership, Numbers, Waits, Answered, OwnAnswer
<1> QED BY <1>1, <1>2

LEMMA Inductive == Spec => []IInv
BY Initially, NextKeeps, PTL DEF Spec

\* Every variable keeps its type, and no pipe holds more than it can.
THEOREM TypesKept == Spec => []TypeOK
<1>1. IInv => TypeOK
  BY DEF IInv
<1> QED BY <1>1, Inductive, PTL

\* A request returns Lean's answer to it and to no dropped one, and Lean is
\* told to exit only after it answered the shutdown (is_response_for, next_id).
THEOREM AnswersAreOwn == Spec => []OwnAnswer
<1>1. IInv => OwnAnswer
  BY DEF IInv, Numbers
<1> QED BY <1>1, Inductive, PTL

\* Whatever is dropped and whenever, no child is left running unowned, and a
\* shutdown that returned has reaped it (kill_on_drop, wait_for_exit).
THEOREM ChildrenAreOwned == Spec => []NeverDetached
<1>1. IInv => NeverDetached
  BY DEF IInv, Ownership, NeverDetached
<1> QED BY <1>1, Inductive, PTL

\* When a request returns an answer, every request Lean made before it
\* answered is acknowledged, or its reply is whole in the pipe, unless the
\* child is gone (read_response, reply_to_server_request).
THEOREM AsksAcknowledged == Spec => []AcknowledgedBeforeReturn
<1>1. IInv /\ AckInv /\ [Next]_vars => (IInv /\ AckInv)'
  BY NextKeeps, NextAck
<1>2. Init => IInv /\ AckInv
  BY Initially, AckInitially
<1>3. IInv /\ AckInv => AcknowledgedBeforeReturn
  BY AckImplies
<1> QED BY <1>1, <1>2, <1>3, PTL DEF Spec
=============================================================================
