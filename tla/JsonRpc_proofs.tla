---------------------------- MODULE JsonRpc_proofs ----------------------------
(***************************************************************************)
(* Proofs about JsonRpc, for any calls, requests, cap and pool.            *)
(***************************************************************************)
EXTENDS JsonRpc, TLAPS

-----------------------------------------------------------------------------
(***************************************************************************)
(* The inductive invariant: where the handler is says what has been        *)
(* checked, and how the task ended says what was run and answered.         *)
(***************************************************************************)
Checked(r) == r.auth /\ r.json

\* What the handler has established when it is there.
HandlerInv(k) ==
    /\ handler[k] \in {"body", "pool"} => Checked(request[k])
    /\ handler[k] \in {"none", "accepted", "body"} => task[k] = "none"
    /\ handler[k] = "pool" => task[k] # "none"
    /\ response[k] # Null => handler[k] = "gone"
    /\ handler[k] = "gone" => response[k] # Null \/ client[k] = "done"
    /\ client[k] = "new" => handler[k] = "none"
    /\ received[k] <= MaxBody
    /\ received[k] > 0 => Checked(request[k])

\* What has been run when the task is there.
TaskInv(k) ==
    LET p == request[k].payload IN
    /\ task[k] # "none" => /\ Checked(request[k])
                           /\ request[k].size <= MaxBody
                           /\ p.is = "request"
    /\ task[k] \in {"none", "queued"} \cup Refusals => ran[k] = 0
    /\ task[k] = "running" => p.method = "execute"
    /\ task[k] = "ok" /\ p.method = "execute" => ran[k] = p.words
    /\ p.method # "execute" => ran[k] = 0

\* What the answer says of the task.
AnswerOf(t) == IF t = "ok" THEN Null ELSE IF t = "panicked" THEN "INTERNAL_ERROR" ELSE t
Fits(k, answer) ==
    /\ task[k] = "none" => answer.status # 200 \/ answer.code \in Refusals
    /\ task[k] # "none" => /\ task[k] \in Ended
                           /\ answer.status = 200
                           /\ answer.code = AnswerOf(task[k])
                           /\ answer.id = request[k].payload.id \/ task[k] = "panicked"
    /\ task[k] = "none" /\ answer.status = 200 =>
         \/ answer.code = "PARSE_ERROR"
         \/ request[k].payload.is = "array"
         \/ answer.id = request[k].payload.id
ResponseInv(k) == response[k] # Null => Fits(k, response[k])

\* What the caller was told is what was answered.
Concludes(k, is, code) ==
    is \in {"http", "rpc", "ok", "remote"} =>
         /\ response[k] # Null
         /\ code = response[k].code
         /\ (is = "http") <=> (response[k].status # 200)
         /\ is = "ok" => response[k].code = Null
         /\ is = "remote" => response[k].code = "RUNTIME_ERROR"
         /\ is = "rpc" => response[k].code \notin {Null, "RUNTIME_ERROR"}
OutcomeInv(k) ==
    /\ (outcome[k].is = "nothing") <=> (client[k] # "done")
    /\ Concludes(k, outcome[k].is, outcome[k].code)

CallInv(k) == HandlerInv(k) /\ TaskInv(k) /\ ResponseInv(k) /\ OutcomeInv(k)

ServerInv == server = "stopped" => InFlight = {}

RpcInv == TypeOK /\ ServerInv /\ \A k \in Call : CallInv(k)

-----------------------------------------------------------------------------
\* A call that a step does not touch keeps its invariant.
LEMMA OtherCalls ==
    ASSUME NEW j \in Call, CallInv(j), UNCHANGED request,
           client'[j] = client[j], outcome'[j] = outcome[j], handler'[j] = handler[j],
           received'[j] = received[j], response'[j] = response[j], task'[j] = task[j],
           ran'[j] = ran[j]
    PROVE  CallInv(j)'
BY DEF CallInv, HandlerInv, TaskInv, ResponseInv, Fits, OutcomeInv, Concludes

\* What the constants say of the request of a call.
LEMMA RequestFacts ==
    ASSUME RpcAssumption, TypeOK, NEW k \in Call
    PROVE  /\ request[k].auth \in BOOLEAN /\ request[k].json \in BOOLEAN
           /\ request[k].size \in Nat /\ request[k].declared \in Nat \cup {Null}
           /\ request[k].payload.is \in {"not_json", "array", "not_request", "request"}
           /\ request[k].payload.id \in Nat \cup {Null}
           /\ request[k].payload.method \in {"execute", "query", "unknown"}
           /\ request[k].payload.words \in Nat
BY DEF TypeOK, Request, Payload

\* Nothing has been sent and nothing runs.
LEMMA InitRpc == RpcAssumption /\ Init => RpcInv
<1> SUFFICES ASSUME RpcAssumption, Init PROVE RpcInv
  OBVIOUS
<1> USE DEF Init, RpcAssumption
<1>1. request \in [Call -> Request]
  <2>1. \A k \in Call : request[k] \in Request
    OBVIOUS
  <2> QED
    BY <2>1
<1>2. \A k \in Call : request[k].size \in Nat /\ request[k].payload.words \in Nat
  BY <1>1 DEF Request, Payload
<1>3. TypeOK
  BY <1>1, <1>2 DEF TypeOK, NoOutcome
<1>4. ServerInv
  BY DEF ServerInv
<1>5. ASSUME NEW k \in Call PROVE CallInv(k)
  BY DEF CallInv, HandlerInv, TaskInv, ResponseInv, Fits, OutcomeInv, Concludes, NoOutcome
<1> QED
  BY <1>3, <1>4, <1>5 DEF RpcInv

\* An answer keeps the invariant when it fits what has been checked and run.
LEMMA AnswerKeeps ==
    ASSUME RpcAssumption, RpcInv, NEW k \in Call, NEW status \in Status,
           NEW id \in Nat \cup {Null}, NEW code \in Code \cup {Null},
           handler[k] \in {"accepted", "body", "pool"}, Respond(k, status, id, code),
           Fits(k, [status |-> status, id |-> id, code |-> code]),
           UNCHANGED <<server, request, clientVars, received, task, ran>>
    PROVE  RpcInv'
<1> DEFINE answer == [status |-> status, id |-> id, code |-> code]
<1>1. TypeOK /\ ServerInv /\ CallInv(k)
  BY DEF RpcInv
<1>2. answer \in Response
  BY DEF Response
<1>3. /\ handler' = [handler EXCEPT ![k] = "gone"]
      /\ response' = [response EXCEPT ![k] = answer]
      /\ UNCHANGED <<server, request, client, outcome, received, task, ran>>
  BY DEF Respond, Handler, clientVars
<1> HIDE DEF answer
<1>4. handler'[k] = "gone" /\ response'[k] = answer
  BY <1>1, <1>3 DEF TypeOK
<1>5. TypeOK'
  BY <1>1, <1>2, <1>3 DEF TypeOK
<1>6. ServerInv'
  BY <1>1, <1>3 DEF TypeOK, ServerInv, InFlight
<1>7. CallInv(k)'
  <2>1. HandlerInv(k)'
    BY <1>1, <1>2, <1>3, <1>4 DEF RpcAssumption, TypeOK, CallInv, HandlerInv
  <2>2. TaskInv(k)'
    BY <1>1, <1>3 DEF CallInv, TaskInv
  <2>3. ResponseInv(k)'
    BY <1>3, <1>4 DEF ResponseInv, Fits, answer
  <2>4. response[k] = Null
    BY <1>1 DEF CallInv, HandlerInv
  <2>5. OutcomeInv(k)'
    BY <1>1, <1>3, <2>4 DEF CallInv, OutcomeInv, Concludes
  <2> QED
    BY <2>1, <2>2, <2>3, <2>5 DEF CallInv
<1>8. ASSUME NEW j \in Call, j # k PROVE CallInv(j)'
  BY <1>1, <1>3, <1>8, OtherCalls DEF RpcInv, TypeOK
<1> QED
  BY <1>5, <1>6, <1>7, <1>8 DEF RpcInv

\* The end of a call keeps the invariant when the caller is told what was answered.
LEMMA ReturnKeeps ==
    ASSUME RpcAssumption, RpcInv, NEW k \in Call,
           NEW is \in {"ok", "remote", "rpc", "http", "io", "protocol"},
           NEW code \in Code \cup {Null}, Returns(k, is, code), Concludes(k, is, code)
    PROVE  RpcInv'
<1>1. TypeOK /\ ServerInv /\ CallInv(k)
  BY DEF RpcInv
<1>2. /\ client' = [client EXCEPT ![k] = "done"]
      /\ outcome' = [outcome EXCEPT ![k] = [is |-> is, code |-> code]]
      /\ UNCHANGED <<server, request, handler, received, response, task, ran>>
  BY DEF Returns
<1>3. client'[k] = "done" /\ outcome'[k].is = is /\ outcome'[k].code = code
  BY <1>1, <1>2 DEF TypeOK
<1>4. TypeOK'
  BY <1>1, <1>2 DEF TypeOK
<1>5. ServerInv'
  BY <1>1, <1>2 DEF ServerInv, InFlight
<1>6. CallInv(k)'
  <2>1. HandlerInv(k)'
    BY <1>1, <1>2, <1>3 DEF CallInv, HandlerInv
  <2>2. TaskInv(k)' /\ ResponseInv(k)'
    BY <1>1, <1>2 DEF CallInv, TaskInv, ResponseInv, Fits
  <2>3. OutcomeInv(k)'
    BY <1>2, <1>3 DEF OutcomeInv, Concludes
  <2> QED
    BY <2>1, <2>2, <2>3 DEF CallInv
<1>7. ASSUME NEW j \in Call, j # k PROVE CallInv(j)'
  BY <1>1, <1>2, <1>7, OtherCalls DEF RpcInv, TypeOK
<1> QED
  BY <1>4, <1>5, <1>6, <1>7 DEF RpcInv

\* A step of the task keeps the types.
LEMMA TaskTyped ==
    ASSUME TypeOK, NEW k \in Call, NEW end \in {"none", "queued", "running"} \cup Ended,
           Task(k, end)
    PROVE  task' \in [Call -> {"none", "queued", "running"} \cup Ended]
BY DEF TypeOK, Task

\* The listener takes a connection.
LEMMA AcceptKeeps ==
    ASSUME RpcAssumption, RpcInv, NEW k \in Call, Accept(k) PROVE RpcInv'
<1> USE DEF Accept, Handler, clientVars
<1>1. TypeOK /\ ServerInv /\ CallInv(k)
  BY DEF RpcInv
<1>2. TypeOK'
  BY <1>1, RequestFacts DEF TypeOK, Ended, Code, Status
<1>3. ServerInv'
  BY <1>1 DEF TypeOK, ServerInv, InFlight
<1>4. CallInv(k)'
  <2>1. HandlerInv(k)'
    BY <1>1, RequestFacts DEF TypeOK, CallInv, HandlerInv, Checked
  <2>2. TaskInv(k)'
    BY <1>1, RequestFacts DEF TypeOK, RpcAssumption, CallInv, HandlerInv, TaskInv, Checked,
       Refusals, Code
  <2>3. ResponseInv(k)'
    BY <1>1, RequestFacts DEF TypeOK, RpcAssumption, CallInv, HandlerInv, TaskInv,
       ResponseInv, Fits, AnswerOf, Ended, Refusals, Code
  <2>4. OutcomeInv(k)'
    BY <1>1, RequestFacts DEF TypeOK, RpcAssumption, CallInv, HandlerInv, ResponseInv,
       OutcomeInv, Concludes
  <2> QED
    BY <2>1, <2>2, <2>3, <2>4 DEF CallInv
<1>5. ASSUME NEW j \in Call, j # k PROVE CallInv(j)'
  BY <1>1, <1>5, OtherCalls DEF RpcInv, TypeOK
<1> QED
  BY <1>2, <1>3, <1>4, <1>5 DEF RpcInv

\* The head of the request is checked.
LEMMA CheckHeadersKeeps ==
    ASSUME RpcAssumption, RpcInv, NEW k \in Call, CheckHeaders(k) PROVE RpcInv'
<1>1. TypeOK /\ ServerInv /\ CallInv(k)
  BY DEF RpcInv
<1>2. /\ handler[k] = "accepted" /\ task[k] = "none"
      /\ UNCHANGED <<server, request, clientVars, received, task, ran>>
  BY <1>1 DEF CheckHeaders, CallInv, HandlerInv
<1>3. /\ handler[k] \in {"accepted", "body", "pool"} /\ {401, 413, 415} \subseteq Status
      /\ Null \in Nat \cup {Null} /\ Null \in Code \cup {Null}
      /\ "INVALID_REQUEST" \in Code \cup {Null}
  BY <1>2 DEF Status, Code
<1>4. CASE Handler(k, "body") /\ UNCHANGED response /\ Checked(request[k])
  <2>1. TypeOK'
    BY <1>1, <1>2, <1>4 DEF clientVars, Handler, TypeOK
  <2>2. ServerInv'
    BY <1>1, <1>2, <1>4 DEF clientVars, Handler, TypeOK, ServerInv, InFlight
  <2>3. HandlerInv(k)'
    BY <1>1, <1>2, <1>4 DEF clientVars, Handler, TypeOK, RpcAssumption, CallInv,
       HandlerInv, Checked
  <2>4. TaskInv(k)' /\ ResponseInv(k)' /\ OutcomeInv(k)'
    BY <1>1, <1>2, <1>4 DEF clientVars, Handler, TypeOK, CallInv, HandlerInv, TaskInv,
       ResponseInv, OutcomeInv,
       Fits, Concludes
  <2>5. ASSUME NEW j \in Call, j # k PROVE CallInv(j)'
    BY <1>1, <1>2, <1>4, <2>5, OtherCalls DEF clientVars, Handler, RpcInv, TypeOK
  <2> QED
    BY <2>1, <2>2, <2>3, <2>4, <2>5 DEF RpcInv, CallInv
<1>5. \/ Respond(k, 401, Null, "INVALID_REQUEST")
      \/ Respond(k, 415, Null, Null)
      \/ Respond(k, 413, Null, "INVALID_REQUEST")
      \/ Handler(k, "body") /\ UNCHANGED response /\ Checked(request[k])
  BY DEF CheckHeaders, Checked
<1>9. ASSUME NEW status \in Status, NEW code \in Code \cup {Null},
             Respond(k, status, Null, code),
             Fits(k, [status |-> status, id |-> Null, code |-> code])
      PROVE  RpcInv'
  <2>1. Null \in Nat \cup {Null}
    BY <1>3
  <2>2. handler[k] \in {"accepted", "body", "pool"}
    BY <1>3
  <2>3. UNCHANGED <<server, request, clientVars, received, task, ran>>
    BY <1>2
  <2> QED
    BY <1>9, <2>1, <2>2, <2>3, AnswerKeeps
<1>6. CASE Respond(k, 401, Null, "INVALID_REQUEST")
  <2>1. Fits(k, [status |-> 401, id |-> Null, code |-> "INVALID_REQUEST"])
    BY <1>2 DEF Fits
  <2>2. 401 \in Status
    BY <1>3
  <2> QED
    BY <1>6, <1>9, <2>1, <2>2, <1>3
<1>7. CASE Respond(k, 415, Null, Null)
  <2>1. Fits(k, [status |-> 415, id |-> Null, code |-> Null])
    BY <1>2 DEF Fits
  <2>2. 415 \in Status
    BY <1>3
  <2> QED
    BY <1>7, <1>9, <2>1, <2>2, <1>3
<1>8. CASE Respond(k, 413, Null, "INVALID_REQUEST")
  <2>1. Fits(k, [status |-> 413, id |-> Null, code |-> "INVALID_REQUEST"])
    BY <1>2 DEF Fits
  <2>2. 413 \in Status
    BY <1>3
  <2> QED
    BY <1>8, <1>9, <2>1, <2>2, <1>3
<1> QED
  BY <1>4, <1>5, <1>6, <1>7, <1>8

\* A frame of the body.
LEMMA ReadFrameKeeps ==
    ASSUME RpcAssumption, RpcInv, NEW k \in Call, ReadFrame(k) PROVE RpcInv'
<1>1. TypeOK /\ ServerInv /\ CallInv(k)
  BY DEF RpcInv
<1>2. /\ handler[k] = "body" /\ task[k] = "none" /\ Checked(request[k])
      /\ UNCHANGED <<server, request, clientVars, task, ran>>
  BY <1>1 DEF ReadFrame, CallInv, HandlerInv
<1>3. CASE Respond(k, 413, Null, "INVALID_REQUEST") /\ UNCHANGED received
  <2>1. Fits(k, [status |-> 413, id |-> Null, code |-> "INVALID_REQUEST"])
    BY <1>2 DEF Fits
  <2>2. Null \in Nat \cup {Null} /\ 413 \in Status /\ "INVALID_REQUEST" \in Code \cup {Null}
    BY DEF Status, Code
  <2> QED
    BY <1>2, <1>3, <2>1, <2>2, AnswerKeeps
<1>4. ASSUME NEW n \in 1..request[k].size - received[k], received[k] + n <= MaxBody,
             received' = [received EXCEPT ![k] = @ + n], UNCHANGED <<handler, response>>
      PROVE  RpcInv'
  <2>1. TypeOK'
    BY <1>1, RequestFacts, <1>2, <1>4 DEF clientVars, TypeOK
  <2>2. ServerInv'
    BY <1>1, <1>2, <1>4 DEF clientVars, TypeOK, ServerInv, InFlight
  <2>3. HandlerInv(k)'
    BY <1>1, <1>2, <1>4 DEF clientVars, TypeOK, RpcAssumption, CallInv, HandlerInv, Checked
  <2>4. TaskInv(k)' /\ ResponseInv(k)' /\ OutcomeInv(k)'
    BY <1>1, <1>2, <1>4 DEF clientVars, TypeOK, CallInv, HandlerInv, TaskInv, ResponseInv,
       OutcomeInv,
       Fits, Concludes
  <2>5. ASSUME NEW j \in Call, j # k PROVE CallInv(j)'
    BY <1>1, <1>2, <1>4, <2>5, OtherCalls DEF clientVars, RpcInv, TypeOK
  <2> QED
    BY <2>1, <2>2, <2>3, <2>4, <2>5 DEF RpcInv, CallInv
<1>5. PICK n \in 1..request[k].size - received[k] :
        IF received[k] + n > MaxBody
          THEN Respond(k, 413, Null, "INVALID_REQUEST") /\ UNCHANGED received
          ELSE /\ received' = [received EXCEPT ![k] = @ + n]
               /\ UNCHANGED <<handler, response>>
  BY DEF ReadFrame
<1>6. received[k] + n \in Nat
  BY <1>1, RequestFacts DEF TypeOK
<1> QED
  BY <1>3, <1>4, <1>5, <1>6 DEF RpcAssumption

\* The body breaks off.
LEMMA ReadFailsKeeps ==
    ASSUME RpcAssumption, RpcInv, NEW k \in Call, ReadFails(k) PROVE RpcInv'
<1>1. handler[k] = "body" /\ task[k] = "none"
  BY DEF ReadFails, RpcInv, CallInv, HandlerInv
<1>2. Fits(k, [status |-> 200, id |-> Null, code |-> "PARSE_ERROR"])
  BY <1>1 DEF Fits, Refusals, Code
<1>3. Null \in Nat \cup {Null} /\ 200 \in Status /\ "PARSE_ERROR" \in Code \cup {Null}
  BY DEF Status, Code
<1> QED
  BY <1>1, <1>2, <1>3, AnswerKeeps DEF ReadFails

\* The body is parsed and the task spawned.
LEMMA BodyEndsKeeps ==
    ASSUME RpcAssumption, RpcInv, NEW k \in Call, BodyEnds(k) PROVE RpcInv'
<1>1. TypeOK /\ ServerInv /\ CallInv(k)
  BY DEF RpcInv
<1>2. /\ handler[k] = "body" /\ task[k] = "none" /\ Checked(request[k])
      /\ received[k] = request[k].size /\ response[k] = Null /\ ran[k] = 0
      /\ UNCHANGED <<server, request, clientVars, received, ran>>
  BY <1>1 DEF BodyEnds, CallInv, HandlerInv, TaskInv
<1>3. ASSUME NEW id \in Nat \cup {Null}, NEW code \in {"PARSE_ERROR", "INVALID_REQUEST"},
             \/ code = "PARSE_ERROR"
             \/ request[k].payload.is = "array"
             \/ id = request[k].payload.id,
             Respond(k, 200, id, code), UNCHANGED task
      PROVE  RpcInv'
  <2>1. Fits(k, [status |-> 200, id |-> id, code |-> code])
    BY <1>2, <1>3 DEF Fits, Refusals, Code
  <2>2. 200 \in Status /\ code \in Code \cup {Null}
    BY DEF Status, Code
  <2> QED
    BY <1>2, <1>3, <2>1, <2>2, AnswerKeeps
<1>4. CASE /\ request[k].payload.is = "request"
           /\ Handler(k, "pool") /\ task' = [task EXCEPT ![k] = "queued"]
           /\ UNCHANGED response
  <2>1. TypeOK'
    BY <1>1, <1>2, <1>4 DEF clientVars, Handler, TypeOK
  <2>2. ServerInv'
    BY <1>1, <1>2, <1>4 DEF clientVars, Handler, TypeOK, ServerInv, InFlight
  <2>3. HandlerInv(k)'
    BY <1>1, <1>2, <1>4 DEF clientVars, Handler, TypeOK, RpcAssumption, CallInv,
       HandlerInv, Checked
  <2>4. TaskInv(k)' /\ ResponseInv(k)' /\ OutcomeInv(k)'
    BY <1>1, <1>2, <1>4 DEF clientVars, Handler, TypeOK, CallInv, HandlerInv, TaskInv,
       ResponseInv, OutcomeInv,
       Fits, Concludes
  <2>5. ASSUME NEW j \in Call, j # k PROVE CallInv(j)'
    BY <1>1, <1>2, <1>4, <2>5, OtherCalls DEF clientVars, Handler, RpcInv, TypeOK
  <2> QED
    BY <2>1, <2>2, <2>3, <2>4, <2>5 DEF RpcInv, CallInv
<1>5. request[k].payload.id \in Nat \cup {Null}
  BY <1>1, RequestFacts
<1> QED
  BY <1>3, <1>4, <1>5 DEF BodyEnds

\* The task's end is answered.
LEMMA TaskAnswersKeeps ==
    ASSUME RpcAssumption, RpcInv, NEW k \in Call, TaskAnswers(k) PROVE RpcInv'
<1>1. handler[k] = "pool" /\ task[k] \in Ended /\ request[k].payload.id \in Nat \cup {Null}
  BY RequestFacts DEF TaskAnswers, RpcInv
<1>2. ASSUME NEW id \in Nat \cup {Null}, Respond(k, 200, id, AnswerOf(task[k])),
             id = request[k].payload.id \/ task[k] = "panicked"
      PROVE  RpcInv'
  <2>1. AnswerOf(task[k]) \in Code \cup {Null} /\ task[k] # "none"
    BY <1>1 DEF AnswerOf, Ended, Code
  <2>2. Fits(k, [status |-> 200, id |-> id, code |-> AnswerOf(task[k])])
    BY <1>1, <1>2, <2>1 DEF Fits
  <2> QED
    BY <1>1, <1>2, <2>1, <2>2, AnswerKeeps DEF TaskAnswers, Status
<1> QED
  BY <1>1, <1>2 DEF TaskAnswers, AnswerOf

\* The handler is dropped.
LEMMA DisconnectedKeeps ==
    ASSUME RpcAssumption, RpcInv, NEW k \in Call, Disconnected(k) PROVE RpcInv'
<1> USE DEF Disconnected, Handler, clientVars
<1>1. TypeOK /\ ServerInv /\ CallInv(k)
  BY DEF RpcInv
<1>2. TypeOK'
  BY <1>1, RequestFacts DEF TypeOK, Ended, Code, Status
<1>3. ServerInv'
  BY <1>1 DEF TypeOK, ServerInv, InFlight
<1>4. CallInv(k)'
  <2>1. HandlerInv(k)'
    BY <1>1, RequestFacts DEF TypeOK, CallInv, HandlerInv, Checked
  <2>2. TaskInv(k)'
    BY <1>1, RequestFacts DEF TypeOK, RpcAssumption, CallInv, HandlerInv, TaskInv, Checked,
       Refusals, Code
  <2>3. ResponseInv(k)'
    BY <1>1, RequestFacts DEF TypeOK, RpcAssumption, CallInv, HandlerInv, TaskInv,
       ResponseInv, Fits, AnswerOf, Ended, Refusals, Code
  <2>4. OutcomeInv(k)'
    BY <1>1, RequestFacts DEF TypeOK, RpcAssumption, CallInv, HandlerInv, ResponseInv,
       OutcomeInv, Concludes
  <2> QED
    BY <2>1, <2>2, <2>3, <2>4 DEF CallInv
<1>5. ASSUME NEW j \in Call, j # k PROVE CallInv(j)'
  BY <1>1, <1>5, OtherCalls DEF RpcInv, TypeOK
<1> QED
  BY <1>2, <1>3, <1>4, <1>5 DEF RpcInv

\* Dispatch.
LEMMA StartTaskKeeps ==
    ASSUME RpcAssumption, RpcInv, NEW k \in Call, StartTask(k) PROVE RpcInv'
<1> USE DEF StartTask, clientVars
<1>1. TypeOK /\ ServerInv /\ CallInv(k)
  BY DEF RpcInv
<1>2. TypeOK'
  BY <1>1, RequestFacts, TaskTyped DEF TypeOK, Ended, Code, Status
<1>3. ServerInv'
  BY <1>1 DEF TypeOK, ServerInv, InFlight, Task
<1>4. CallInv(k)'
  <2>1. HandlerInv(k)'
    BY <1>1, RequestFacts DEF TypeOK, CallInv, HandlerInv, Checked, Task
  <2>2. TaskInv(k)'
    BY <1>1, RequestFacts DEF TypeOK, RpcAssumption, CallInv, HandlerInv, TaskInv, Checked,
       Refusals, Code, Task
  <2>3. ResponseInv(k)'
    BY <1>1, RequestFacts DEF TypeOK, RpcAssumption, CallInv, HandlerInv, TaskInv,
       ResponseInv, Fits, AnswerOf, Ended, Refusals, Code, Task
  <2>4. OutcomeInv(k)'
    BY <1>1, RequestFacts DEF TypeOK, RpcAssumption, CallInv, HandlerInv, ResponseInv,
       OutcomeInv, Concludes, Task
  <2> QED
    BY <2>1, <2>2, <2>3, <2>4 DEF CallInv
<1>5. ASSUME NEW j \in Call, j # k PROVE CallInv(j)'
  BY <1>1, <1>5, OtherCalls DEF RpcInv, TypeOK, Task
<1> QED
  BY <1>2, <1>3, <1>4, <1>5 DEF RpcInv

\* A word runs.
LEMMA RunWordKeeps ==
    ASSUME RpcAssumption, RpcInv, NEW k \in Call, RunWord(k) PROVE RpcInv'
<1> USE DEF RunWord, clientVars
<1>1. TypeOK /\ ServerInv /\ CallInv(k)
  BY DEF RpcInv
<1>2. TypeOK'
  BY <1>1, RequestFacts, TaskTyped DEF TypeOK, Ended, Code, Status
<1>3. ServerInv'
  BY <1>1 DEF TypeOK, ServerInv, InFlight, Task
<1>4. CallInv(k)'
  <2>1. HandlerInv(k)'
    BY <1>1, RequestFacts DEF TypeOK, CallInv, HandlerInv, Checked, Task
  <2>2. TaskInv(k)'
    BY <1>1, RequestFacts DEF TypeOK, RpcAssumption, CallInv, HandlerInv, TaskInv, Checked,
       Refusals, Code, Task
  <2>3. ResponseInv(k)'
    BY <1>1, RequestFacts DEF TypeOK, RpcAssumption, CallInv, HandlerInv, TaskInv,
       ResponseInv, Fits, AnswerOf, Ended, Refusals, Code, Task
  <2>4. OutcomeInv(k)'
    BY <1>1, RequestFacts DEF TypeOK, RpcAssumption, CallInv, HandlerInv, ResponseInv,
       OutcomeInv, Concludes, Task
  <2> QED
    BY <2>1, <2>2, <2>3, <2>4 DEF CallInv
<1>5. ASSUME NEW j \in Call, j # k PROVE CallInv(j)'
  BY <1>1, <1>5, OtherCalls DEF RpcInv, TypeOK, Task
<1> QED
  BY <1>2, <1>3, <1>4, <1>5 DEF RpcInv

\* The sequence is done.
LEMMA SequenceEndsKeeps ==
    ASSUME RpcAssumption, RpcInv, NEW k \in Call, SequenceEnds(k) PROVE RpcInv'
<1> USE DEF SequenceEnds, clientVars
<1>1. TypeOK /\ ServerInv /\ CallInv(k)
  BY DEF RpcInv
<1>2. TypeOK'
  BY <1>1, RequestFacts, TaskTyped DEF TypeOK, Ended, Code, Status
<1>3. ServerInv'
  BY <1>1 DEF TypeOK, ServerInv, InFlight, Task
<1>4. CallInv(k)'
  <2>1. HandlerInv(k)'
    BY <1>1, RequestFacts DEF TypeOK, CallInv, HandlerInv, Checked, Task
  <2>2. TaskInv(k)'
    BY <1>1, RequestFacts DEF TypeOK, RpcAssumption, CallInv, HandlerInv, TaskInv, Checked,
       Refusals, Code, Task
  <2>3. ResponseInv(k)'
    BY <1>1, RequestFacts DEF TypeOK, RpcAssumption, CallInv, HandlerInv, TaskInv,
       ResponseInv, Fits, AnswerOf, Ended, Refusals, Code, Task
  <2>4. OutcomeInv(k)'
    BY <1>1, RequestFacts DEF TypeOK, RpcAssumption, CallInv, HandlerInv, ResponseInv,
       OutcomeInv, Concludes, Task
  <2> QED
    BY <2>1, <2>2, <2>3, <2>4 DEF CallInv
<1>5. ASSUME NEW j \in Call, j # k PROVE CallInv(j)'
  BY <1>1, <1>5, OtherCalls DEF RpcInv, TypeOK, Task
<1> QED
  BY <1>2, <1>3, <1>4, <1>5 DEF RpcInv

\* The client sends its request.
LEMMA ConnectKeeps ==
    ASSUME RpcAssumption, RpcInv, NEW k \in Call, Connect(k) PROVE RpcInv'
<1>1. TypeOK /\ ServerInv /\ CallInv(k)
  BY DEF RpcInv
<1>2. CASE /\ client[k] = "new" /\ client' = [client EXCEPT ![k] = "waiting"]
           /\ UNCHANGED <<server, request, outcome, handler, received, response, task, ran>>
  <2>1. TypeOK'
    BY <1>1, <1>2 DEF TypeOK
  <2>2. ServerInv'
    BY <1>1, <1>2 DEF TypeOK, ServerInv, InFlight
  <2>3. HandlerInv(k)'
    BY <1>1, <1>2 DEF TypeOK, RpcAssumption, CallInv, HandlerInv, Checked
  <2>4. TaskInv(k)' /\ ResponseInv(k)' /\ OutcomeInv(k)'
    BY <1>1, <1>2 DEF TypeOK, CallInv, HandlerInv, TaskInv, ResponseInv, OutcomeInv,
       Fits, Concludes
  <2>5. ASSUME NEW j \in Call, j # k PROVE CallInv(j)'
    BY <1>1, <1>2, <2>5, OtherCalls DEF RpcInv, TypeOK
  <2> QED
    BY <2>1, <2>2, <2>3, <2>4, <2>5 DEF RpcInv, CallInv
<1>3. CASE Returns(k, "io", Null)
  BY <1>3, ReturnKeeps DEF Concludes
<1> QED
  BY <1>2, <1>3 DEF Connect

\* The client takes the answer.
LEMMA ReceiveKeeps ==
    ASSUME RpcAssumption, RpcInv, NEW k \in Call, Receive(k) PROVE RpcInv'
<1>1. response[k] # Null /\ response[k].code \in Code \cup {Null}
  BY DEF Receive, RpcInv, TypeOK, Response
<1>2. PICK is \in {"ok", "remote", "rpc", "http"} :
        Returns(k, is, response[k].code) /\ Concludes(k, is, response[k].code)
  BY <1>1 DEF Receive, Concludes
<1> QED
  BY <1>1, <1>2, ReturnKeeps

\* The connection breaks.
LEMMA ConnectionLostKeeps ==
    ASSUME RpcAssumption, RpcInv, NEW k \in Call, ConnectionLost(k) PROVE RpcInv'
<1>1. PICK is \in {"io", "protocol"} : Returns(k, is, Null)
  BY DEF ConnectionLost
<1>2. Concludes(k, is, Null)
  BY DEF Concludes
<1> QED
  BY <1>1, <1>2, ReturnKeeps

\* The client gives up.
LEMMA TimeoutKeeps ==
    ASSUME RpcAssumption, RpcInv, NEW k \in Call, Timeout(k) PROVE RpcInv'
<1>1. Concludes(k, "io", Null)
  BY DEF Concludes
<1> QED
  BY <1>1, ReturnKeeps DEF Timeout

\* Every step keeps the invariant.
LEMMA NextRpc == RpcAssumption /\ RpcInv /\ [Next]_vars => RpcInv'
<1> SUFFICES ASSUME RpcAssumption, RpcInv, [Next]_vars PROVE RpcInv'
  OBVIOUS
<1>1. ASSUME NEW k \in Call, Accept(k) \/ HandlerStep(k) \/ TaskStep(k) \/ ClientStep(k)
      PROVE RpcInv'
  BY <1>1, AcceptKeeps, CheckHeadersKeeps, ReadFrameKeeps, ReadFailsKeeps, BodyEndsKeeps,
     TaskAnswersKeeps, DisconnectedKeeps, StartTaskKeeps, RunWordKeeps, SequenceEndsKeeps,
     ConnectKeeps, ReceiveKeeps, ConnectionLostKeeps, TimeoutKeeps
     DEF HandlerStep, TaskStep, ClientStep
<1>2. ASSUME Shutdown \/ ServerStops \/ UNCHANGED vars PROVE RpcInv'
  <2>1. TypeOK'
    BY <1>2 DEF RpcInv, TypeOK, Shutdown, ServerStops, vars, clientVars
  <2>2. ServerInv'
    BY <1>2 DEF RpcInv, ServerInv, InFlight, Shutdown, ServerStops, vars, clientVars
  <2>3. ASSUME NEW j \in Call PROVE CallInv(j)'
    BY <1>2, OtherCalls DEF RpcInv, Shutdown, ServerStops, vars, clientVars
  <2> QED
    BY <2>1, <2>2, <2>3 DEF RpcInv
<1> QED
  BY <1>1, <1>2 DEF Next

-----------------------------------------------------------------------------
\* The inductive invariant holds, whatever is sent and however the calls, their
\* tasks, the timeouts and the shutdown interleave.
THEOREM RpcInvariance == Spec => []RpcInv
<1>1. Init => RpcInv
  BY RpcAssumption, InitRpc
<1>2. RpcInv /\ [Next]_vars => RpcInv'
  BY RpcAssumption, NextRpc
<1> QED
  BY <1>1, <1>2, PTL DEF Spec

\* Every variable keeps its type; no task runs more words than it was asked for.
THEOREM RpcTypes == Spec => []TypeOK
<1>1. RpcInv => TypeOK
  BY DEF RpcInv
<1> QED
  BY <1>1, RpcInvariance, PTL

\* Forthic only runs for requests that passed the token, the content type, the
\* body cap and the envelope (rpc_handler, http.rs).
THEOREM OnlyCheckedRun == Spec => []OnlyCheckedRequestsRun
<1>1. RpcInv => OnlyCheckedRequestsRun
  BY DEF RpcInv, CallInv, TaskInv, Checked, OnlyCheckedRequestsRun
<1> QED
  BY <1>1, RpcInvariance, PTL

\* No more of a body than the cap is held, and none without the token
\* (read_body_capped, http.rs).
THEOREM BodiesBounded == Spec => []BodiesAreBounded
<1>1. RpcInv => BodiesAreBounded
  BY DEF RpcInv, CallInv, HandlerInv, Checked, BodiesAreBounded
<1> QED
  BY <1>1, RpcInvariance, PTL

\* The checks come first: nothing is read, kept or run before they have passed.
THEOREM ChecksFirst == Spec => []ChecksComeFirst
<1>1. OnlyCheckedRequestsRun /\ BodiesAreBounded => ChecksComeFirst
  BY DEF ChecksComeFirst
<1> QED
  BY <1>1, OnlyCheckedRun, BodiesBounded, PTL

\* Answers carry the id of their request; only a panic of the task loses it.
THEOREM IdsEchoed == Spec => []IdsAreEchoed
<1>1. RpcInv => IdsAreEchoed
  <2> SUFFICES ASSUME RpcInv, NEW k \in Call,
                      response[k] # Null, response[k].status = 200,
                      response[k].code # "PARSE_ERROR", request[k].payload.is # "array"
               PROVE  \/ response[k].id = request[k].payload.id
                      \/ response[k].code = "INTERNAL_ERROR" /\ task[k] = "panicked"
    BY DEF IdsAreEchoed
  <2> QED
    BY DEF RpcInv, CallInv, ResponseInv, Fits, AnswerOf
<1> QED
  BY <1>1, RpcInvariance, PTL

\* A graceful shutdown answers every call it has accepted (ServerHandle::shutdown).
THEOREM ShutdownAnswersAll == Spec => []ShutdownAnswers
<1>1. RpcInv => ShutdownAnswers
  <2> SUFFICES ASSUME RpcInv, server = "stopped", NEW k \in Call,
                      client[k] = "waiting", handler[k] # "none"
               PROVE  response[k] # Null
    BY DEF ShutdownAnswers
  <2>1. handler[k] = "gone"
    BY DEF RpcInv, TypeOK, ServerInv, InFlight
  <2> QED
    BY <2>1 DEF RpcInv, CallInv, HandlerInv
<1> QED
  BY <1>1, RpcInvariance, PTL

-----------------------------------------------------------------------------
(***************************************************************************)
(* The pipeline keeps the promise made to the caller.                      *)
(***************************************************************************)
\* What the caller is told fits what has run.
ToldInv ==
    \A k \in Call :
        /\ told[k] = "refused" => ran[k] = 0
        /\ told[k] = "ok" => ran[k] = asked[k]
        /\ told[k] \in {"refused", "ok", "failed"} => task[k] \notin {"queued", "running"}
        /\ told[k] \in {"nothing", "refused", "ok", "failed", "unknown"}
        /\ (told[k] = "nothing") <=> (client[k] # "done")

LEMMA ToldFits == RpcAssumption /\ RpcInv => ToldInv
<1> SUFFICES ASSUME RpcAssumption, RpcInv, NEW k \in Call
             PROVE  /\ Told(outcome[k]) = "refused" => ran[k] = 0
                    /\ Told(outcome[k]) = "ok" => ran[k] = asked[k]
                    /\ Told(outcome[k]) \in {"refused", "ok", "failed"} =>
                         task[k] \notin {"queued", "running"}
                    /\ Told(outcome[k]) \in {"nothing", "refused", "ok", "failed", "unknown"}
                    /\ (Told(outcome[k]) = "nothing") <=> (client[k] # "done")
  BY DEF ToldInv, told
<1> USE DEF Refusals, Code, Ended
<1>1. TypeOK /\ CallInv(k) /\ Null \notin Code
  BY DEF RpcInv, RpcAssumption
<1>2. outcome[k].is \in {"nothing", "ok", "remote", "rpc", "http", "io", "protocol"}
  BY <1>1 DEF TypeOK
<1>3. response[k] # Null => task[k] \notin {"queued", "running"}
  BY <1>1 DEF CallInv, ResponseInv, Fits
<1>4. Told(outcome[k]) \in {"refused", "ok", "failed"} =>
        outcome[k].is \in {"http", "rpc", "ok", "remote"}
  BY <1>2 DEF Told
<1>5. Told(outcome[k]) = "refused" => ran[k] = 0
  <2>1. ASSUME Told(outcome[k]) = "refused"
        PROVE  response[k] # Null /\ (response[k].status # 200 \/ response[k].code \in Refusals)
    BY <1>1, <1>2, <2>1 DEF Told, CallInv, OutcomeInv, Concludes
  <2>2. ASSUME response[k] # Null, response[k].status # 200 \/ response[k].code \in Refusals
        PROVE  task[k] \in {"none"} \cup Refusals
    BY <1>1, <2>2 DEF CallInv, ResponseInv, Fits, AnswerOf
  <2> QED
    BY <1>1, <2>1, <2>2 DEF CallInv, TaskInv
<1>6. Told(outcome[k]) = "ok" => ran[k] = asked[k]
  <2>1. ASSUME Told(outcome[k]) = "ok"
        PROVE  response[k] # Null /\ response[k].status = 200 /\ response[k].code = Null
    BY <1>1, <1>2, <2>1 DEF Told, CallInv, OutcomeInv, Concludes
  <2>2. ASSUME response[k] # Null, response[k].status = 200, response[k].code = Null
        PROVE  task[k] = "ok"
    BY <1>1, <2>2 DEF CallInv, ResponseInv, Fits, AnswerOf
  <2> QED
    BY <1>1, <2>1, <2>2 DEF CallInv, TaskInv, asked
<1>7. (Told(outcome[k]) = "nothing") <=> (client[k] # "done")
  BY <1>1, <1>2 DEF Told, CallInv, OutcomeInv
<1>8. Told(outcome[k]) \in {"nothing", "refused", "ok", "failed", "unknown"}
  BY DEF Told
<1>9. Told(outcome[k]) \in {"refused", "ok", "failed"} => response[k] # Null
  BY <1>1, <1>4 DEF CallInv, OutcomeInv, Concludes
<1> QED
  BY <1>3, <1>5, <1>6, <1>7, <1>8, <1>9

\* A word that runs is one the promise allows.
LEMMA RunWordRefines ==
    ASSUME RpcInv, ToldInv, NEW k \in Call, RunWord(k) PROVE Promise!Next
<1>1. /\ ran' = [ran EXCEPT ![k] = @ + 1]
      /\ UNCHANGED <<request, outcome>> /\ task[k] = "running"
      /\ ran[k] < request[k].payload.words
  BY DEF RunWord, clientVars
<1>2. asked[k] = request[k].payload.words
  BY <1>1 DEF RpcInv, CallInv, TaskInv, asked
<1>3. told[k] \in {"nothing", "unknown"}
  BY <1>1 DEF ToldInv
<1>4. asked' = asked /\ told' = told
  BY <1>1 DEF asked, told
<1>5. Promise!RunWord(k)
  BY <1>1, <1>2, <1>3, <1>4 DEF Promise!RunWord
<1> QED
  BY <1>5 DEF Promise!Next

\* A call that returns tells its caller no more than is so.
LEMMA ReturnsRefines ==
    ASSUME RpcInv, ToldInv, ToldInv', NEW k \in Call, NEW is, NEW code,
           client[k] # "done", Returns(k, is, code)
    PROVE  Promise!Next
<1>1. /\ outcome' = [outcome EXCEPT ![k] = [is |-> is, code |-> code]]
      /\ client'[k] = "done" /\ UNCHANGED <<request, ran>>
  BY DEF Returns, RpcInv, TypeOK
<1>2. asked' = asked
  BY <1>1 DEF asked
<1>3. /\ told'[k] = "refused" => ran[k] = 0
      /\ told'[k] = "ok" => ran[k] = asked[k]
      /\ told'[k] \in {"refused", "ok", "failed", "unknown"}
  BY <1>1, <1>2 DEF ToldInv
<1>4. told[k] = "nothing"
  BY DEF ToldInv
<1>5. told' = [told EXCEPT ![k] = told'[k]]
  BY <1>1 DEF RpcInv, TypeOK, told
<1>6. Promise!Tell(k, told'[k])
  BY <1>1, <1>2, <1>3, <1>4, <1>5 DEF Promise!Tell
<1> QED
  BY <1>3, <1>6 DEF Promise!Next

\* The other steps say nothing to any caller and run no word.
LEMMA OthersStutter ==
    ASSUME UNCHANGED <<request, outcome, ran>> PROVE UNCHANGED <<asked, ran, told>>
BY DEF asked, told

\* A step of the pipeline is a step of the promise, or none.
LEMMA NextRefines ==
    RpcInv /\ ToldInv /\ ToldInv' /\ [Next]_vars => [Promise!Next]_<<asked, ran, told>>
<1> SUFFICES ASSUME RpcInv, ToldInv, ToldInv', [Next]_vars
             PROVE  Promise!Next \/ UNCHANGED <<asked, ran, told>>
  OBVIOUS
<1>1. ASSUME NEW k \in Call, Accept(k) \/ HandlerStep(k) \/ StartTask(k) \/ SequenceEnds(k)
      PROVE  UNCHANGED <<request, outcome, ran>>
  BY <1>1 DEF Accept, HandlerStep, CheckHeaders, ReadFrame, ReadFails, BodyEnds, TaskAnswers,
     Disconnected, StartTask, SequenceEnds, clientVars
<1>2. ASSUME NEW k \in Call, ClientStep(k)
      PROVE  \/ UNCHANGED <<request, outcome, ran>>
             \/ client[k] # "done" /\ \E is, code : Returns(k, is, code)
  BY <1>2 DEF ClientStep, Connect, Receive, ConnectionLost, Timeout
<1>3. ASSUME Shutdown \/ ServerStops \/ UNCHANGED vars PROVE UNCHANGED <<request, outcome, ran>>
  BY <1>3 DEF Shutdown, ServerStops, vars, clientVars
<1>4. ASSUME NEW k \in Call, Accept(k) \/ HandlerStep(k) \/ TaskStep(k) \/ ClientStep(k)
      PROVE  Promise!Next \/ UNCHANGED <<asked, ran, told>>
  BY <1>1, <1>2, <1>4, RunWordRefines, ReturnsRefines, OthersStutter DEF TaskStep
<1> QED
  BY <1>3, <1>4, OthersStutter DEF Next

\* Every behaviour of the pipeline is one the promise allows: a caller told
\* "refused" had none of its words run, one told "ok" all of them, and nothing
\* runs on after an answer.
THEOREM PromiseKept == Spec => KeepsPromise
<1>1. Init => Promise!Init
  <2> SUFFICES ASSUME Init PROVE Promise!Init
    OBVIOUS
  <2>1. \A k \in Call : request[k] \in Request /\ outcome[k] = NoOutcome
    BY RpcAssumption DEF Init, RpcAssumption
  <2>2. asked \in [Call -> Nat]
    BY <2>1 DEF asked, Request, Payload
  <2>3. told = [k \in Call |-> "nothing"]
    BY <2>1 DEF NoOutcome, told, Told
  <2> QED
    BY <2>2, <2>3 DEF Init, Promise!Init
<1>2. RpcInv => ToldInv
  BY RpcAssumption, ToldFits
<1> QED
  BY <1>1, <1>2, NextRefines, RpcInvariance, PTL DEF Spec, KeepsPromise, Promise!Spec
=============================================================================
