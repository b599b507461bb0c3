----------------------------- MODULE EngineClient -----------------------------
(* The client of one matching engine (engine.py): a child process, simserver,  *)
(* that answers one line per request, and the threads that call it.  The tick  *)
(* loop and the routes share one client, and no lock is around a call: it      *)
(* takes an id, writes its line, and reads whatever line comes next.           *)
EXTENDS Naturals, Sequences, FiniteSets

CONSTANTS
  Callers,  \* the thread of the tick loop and those of the routes
  Ops,      \* what is asked: submit, cancel, the quotes, ...
  MaxCalls  \* bound: calls in one run

ASSUME EngineAssumption == IsFiniteSet(Callers)

VARIABLES
  process,   \* whether simserver runs
  requests,  \* lines written to its input, not yet served
  answers,   \* lines it wrote, not yet read
  caller,    \* what each thread is doing, or what its last call came to
  lastId,    \* Engine._next_id
  overlap    \* history: two calls were under way at once

clientVars == <<process, requests, answers, caller, lastId, overlap>>

InCall(t) == caller[t].at \in {"write", "read"}

EngineInit ==
  /\ process = "running" /\ requests = <<>> /\ answers = <<>>
  /\ caller = [t \in Callers |-> [at |-> "idle"]]
  /\ lastId = 0 /\ overlap = FALSE

\* The next id is taken; the increment and its use are not split.
TakeId(t, op) ==
  /\ ~InCall(t) /\ process = "running" /\ lastId < MaxCalls
  /\ lastId' = lastId + 1
  /\ caller' = [caller EXCEPT ![t] = [at |-> "write", id |-> lastId + 1, op |-> op]]
  /\ overlap' = (overlap \/ \E u \in Callers : InCall(u))
  /\ UNCHANGED <<process, requests, answers>>

\* poll: the process has exited, and the call raises at once.
CallTooLate(t, op) ==
  /\ ~InCall(t) /\ process = "exited" /\ caller[t].at # "raised"
  /\ caller' = [caller EXCEPT ![t] = [at |-> "raised", op |-> op]]
  /\ UNCHANGED <<process, requests, answers, lastId, overlap>>

\* The line goes into the pipe; a pipe nobody reads any more raises.
Line(id, op) == [id |-> id, op |-> op]
WriteRequest(t) ==
  /\ caller[t].at = "write"
  /\ IF process = "running"
     THEN /\ requests' = Append(requests, Line(caller[t].id, caller[t].op))
          /\ caller' = [caller EXCEPT ![t] = [at |-> "read", id |-> caller[t].id, op |-> caller[t].op]]
     ELSE /\ caller' = [caller EXCEPT ![t] = [at |-> "raised", op |-> caller[t].op]]
          /\ UNCHANGED requests
  /\ UNCHANGED <<process, answers, lastId, overlap>>

\* simserver serves one line after the other, each with one line.
AnswersWell(request) == request.op # "bad"
AnswersAll(request) == TRUE
Serve ==
  /\ process = "running" /\ requests # <<>>
  /\ answers' = IF AnswersAll(Head(requests))
                THEN Append(answers, Line(Head(requests).id, Head(requests).op))
                ELSE answers
  /\ requests' = Tail(requests)
  /\ UNCHANGED <<process, caller, lastId, overlap>>

\* It exits: what it wrote can still be read.
Exit ==
  /\ process = "running" /\ process' = "exited"
  /\ requests' = <<>>
  /\ UNCHANGED <<answers, caller, lastId, overlap>>

\* The answer's id is compared with the request's.
TakesAny(request, answer) == TRUE
Matches(request, answer) == answer.id = request.id

\* The next line is read, by whichever of the waiting threads; an answer that
\* is not for the request, or that is an error, raises.
ReadAnswer(t) ==
  /\ caller[t].at = "read" /\ answers # <<>>
  /\ LET answer == Head(answers) IN
       caller' = [caller EXCEPT ![t] =
         [at |-> IF ~Matches(caller[t], answer) THEN "desync"
                 ELSE IF answer.op = "bad" THEN "raised" ELSE "returned",
          op |-> caller[t].op, got |-> answer.op]]
  /\ answers' = Tail(answers)
  /\ UNCHANGED <<process, requests, lastId, overlap>>

\* The end of the output: an empty line.
ReadNothing(t) ==
  /\ caller[t].at = "read" /\ answers = <<>> /\ process = "exited"
  /\ caller' = [caller EXCEPT ![t] = [at |-> "raised", op |-> caller[t].op]]
  /\ UNCHANGED <<process, requests, answers, lastId, overlap>>

\* A call under way goes on: its thread is not stopped, and simserver serves.
CallGoesOn(t) == WriteRequest(t) \/ ReadAnswer(t) \/ ReadNothing(t)

EngineNext ==
  \/ Serve \/ Exit
  \/ \E t \in Callers : \/ CallGoesOn(t)
                        \/ \E op \in Ops : TakeId(t, op) \/ CallTooLate(t, op)

EngineFairness ==
  /\ WF_clientVars(Serve)
  /\ \A t \in Callers : WF_clientVars(CallGoesOn(t))

EngineSpec == EngineInit /\ [][EngineNext]_clientVars /\ EngineFairness

-------------------------------------------------------------------------------
\* A call that returns, returns the answer to its own question, however the
\* threads interleave; only calls that were under way together can find an answer
\* that is not theirs (engine.py, "must never desync"); and when no call is under
\* way, nothing is left in the pipe that a later call could take for its answer:
\* two calls that took each other's are even again.
AnswersAreOwn ==
  /\ \A t \in Callers :
       /\ caller[t].at = "returned" => caller[t].got = caller[t].op
       /\ caller[t].at = "desync" => overlap
  /\ (\A t \in Callers : ~InCall(t)) => requests = <<>> /\ answers = <<>>

\* Every call returns or raises, though it has no timeout.
EveryCallEnds == \A t \in Callers : InCall(t) ~> ~InCall(t)
===============================================================================
