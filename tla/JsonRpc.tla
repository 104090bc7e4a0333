------------------------------- MODULE JsonRpc -------------------------------
(***************************************************************************)
(* Calls of a remote runtime: the HTTP pipeline of the JSON-RPC server,    *)
(* dispatch on the blocking pool, graceful shutdown, and the blocking      *)
(* client with its timeout.                                                *)
(*                                                                         *)
(* A call has a connection of its own ("Connection: close"), a handler (an *)
(* async task of the server) and, once its request is accepted, a blocking *)
(* task that outlives the handler if the client leaves.  Requests come     *)
(* from JsonRpcClient or from any other HTTP client.                       *)
(***************************************************************************)
EXTENDS Naturals, FiniteSets

CONSTANTS
    Call,       \* the calls made in a behaviour
    Requests,   \* what each of them may send
    MaxBody,    \* max_body_bytes, in units of data
    PoolSize,   \* threads of the blocking pool
    Null        \* JSON null; also: no length, no code, no response

(***************************************************************************)
(* A request: is the token right, is it JSON, the declared length if any,  *)
(* the data really sent, and what the body parses to.  words is the number *)
(* of words an execute method asks for.                                    *)
(***************************************************************************)
Payload == [is : {"not_json", "array", "not_request", "request"},
            id : Nat \cup {Null},
            method : {"execute", "query", "unknown"},
            params : {"good", "invalid", "bad_stack"},
            words : Nat]
Request == [auth : BOOLEAN, json : BOOLEAN, declared : Nat \cup {Null}, size : Nat,
            payload : Payload]

Code == {"PARSE_ERROR", "INVALID_REQUEST", "METHOD_NOT_FOUND", "INVALID_PARAMS",
         "INTERNAL_ERROR", "RUNTIME_ERROR", "MODULE_NOT_FOUND"}
Status == {200, 401, 413, 415}
Response == [status : Status, id : Nat \cup {Null}, code : Code \cup {Null}]

ASSUME RpcAssumption ==
    /\ Requests \in [Call -> SUBSET Request]
    /\ MaxBody \in Nat /\ PoolSize \in Nat
    /\ Null \notin Nat \cup Code \cup Response
    /\ \A k \in Call : \A r \in Requests[k] : r.declared # Null => r.size <= r.declared

VARIABLES
    server,      \* "up", "draining" or "stopped"
    request,     \* the request of each call
    client,      \* where the caller is: "new", "waiting" or "done"
    outcome,     \* what its call returned
    handler,     \* where the handler is
    received,    \* the data read_body_capped has collected
    response,    \* what the handler answered
    task,        \* the blocking task: "none", "queued", "running" or how it ended
    ran          \* words the task has begun

clientVars == <<client, outcome>>
vars == <<server, request, clientVars, handler, received, response, task, ran>>

NoOutcome == [is |-> "nothing", code |-> Null]

Init ==
    /\ server = "up"
    /\ request \in [Call -> UNION {Requests[k] : k \in Call}]
    /\ \A k \in Call : request[k] \in Requests[k]
    /\ client = [k \in Call |-> "new"]
    /\ outcome = [k \in Call |-> NoOutcome]
    /\ handler = [k \in Call |-> "none"]
    /\ received = [k \in Call |-> 0]
    /\ response = [k \in Call |-> Null]
    /\ task = [k \in Call |-> "none"]
    /\ ran = [k \in Call |-> 0]

-----------------------------------------------------------------------------
(***************************************************************************)
(* The handler.                                                            *)
(***************************************************************************)
Handler(k, at) == handler' = [handler EXCEPT ![k] = at]

\* The handler returns; the connection closes once the answer is written.
Respond(k, status, id, code) ==
    /\ Handler(k, "gone")
    /\ response' = [response EXCEPT ![k] = [status |-> status, id |-> id, code |-> code]]

\* The listener takes connections until shutdown is signalled.
Accept(k) ==
    /\ server = "up" /\ client[k] = "waiting" /\ handler[k] = "none"
    /\ Handler(k, "accepted")
    /\ UNCHANGED <<server, request, clientVars, received, response, task, ran>>

\* The token is not looked at.
CheckHeadersNoAuth(k) ==
    /\ handler[k] = "accepted"
    /\ LET r == request[k] IN
       IF ~r.json THEN Respond(k, 415, Null, Null)
       ELSE IF r.declared # Null /\ r.declared > MaxBody
         THEN Respond(k, 413, Null, "INVALID_REQUEST")
       ELSE Handler(k, "body") /\ UNCHANGED response
    /\ UNCHANGED <<server, request, clientVars, received, task, ran>>

\* rpc_handler up to the body: token, content type, declared length.
CheckHeaders(k) ==
    /\ handler[k] = "accepted"
    /\ LET r == request[k] IN
       IF ~r.auth THEN Respond(k, 401, Null, "INVALID_REQUEST")
       ELSE IF ~r.json THEN Respond(k, 415, Null, Null)
       ELSE IF r.declared # Null /\ r.declared > MaxBody
         THEN Respond(k, 413, Null, "INVALID_REQUEST")
       ELSE Handler(k, "body") /\ UNCHANGED response
    /\ UNCHANGED <<server, request, clientVars, received, task, ran>>

\* The cap is looked at before the frame is counted.
ReadFrameThenCheck(k) ==
    /\ handler[k] = "body"
    /\ \E n \in 1..request[k].size - received[k] :
         IF received[k] > MaxBody
           THEN Respond(k, 413, Null, "INVALID_REQUEST") /\ UNCHANGED received
           ELSE /\ received' = [received EXCEPT ![k] = @ + n]
                /\ UNCHANGED <<handler, response>>
    /\ UNCHANGED <<server, request, clientVars, task, ran>>

\* read_body_capped: one frame, of whatever length the network delivers.
ReadFrame(k) ==
    /\ handler[k] = "body"
    /\ \E n \in 1..request[k].size - received[k] :
         IF received[k] + n > MaxBody
           THEN Respond(k, 413, Null, "INVALID_REQUEST") /\ UNCHANGED received
           ELSE /\ received' = [received EXCEPT ![k] = @ + n]
                /\ UNCHANGED <<handler, response>>
    /\ UNCHANGED <<server, request, clientVars, task, ran>>

\* The client has left in the middle of the body.
ReadFails(k) ==
    /\ handler[k] = "body" /\ client[k] = "done"
    /\ received[k] # request[k].declared
    /\ Respond(k, 200, Null, "PARSE_ERROR")
    /\ UNCHANGED <<server, request, clientVars, received, task, ran>>

\* The whole body: parse it, validate the envelope, hand it to the pool.
BodyEnds(k) ==
    LET r == request[k] IN
    /\ handler[k] = "body"
    /\ received[k] = r.size
    /\ r.declared \in {Null, r.size}
    /\ IF r.payload.is = "request"
         THEN /\ Handler(k, "pool")
              /\ task' = [task EXCEPT ![k] = "queued"]
              /\ UNCHANGED response
         ELSE /\ CASE r.payload.is = "not_json" -> Respond(k, 200, Null, "PARSE_ERROR")
                   [] r.payload.is = "array" -> Respond(k, 200, Null, "INVALID_REQUEST")
                   [] OTHER -> Respond(k, 200, r.payload.id, "INVALID_REQUEST")
              /\ UNCHANGED task
    /\ UNCHANGED <<server, request, clientVars, received, ran>>

Ended == {"ok", "panicked"} \cup Code

\* Errors are answered without the id.
TaskAnswersErrorsWithoutId(k) ==
    /\ handler[k] = "pool" /\ task[k] \in Ended
    /\ CASE task[k] = "ok" -> Respond(k, 200, request[k].payload.id, Null)
         [] task[k] = "panicked" -> Respond(k, 200, Null, "INTERNAL_ERROR")
         [] OTHER -> Respond(k, 200, Null, task[k])
    /\ UNCHANGED <<server, request, clientVars, received, task, ran>>

\* The task is awaited; a panic in it has lost the id of the request.
TaskAnswers(k) ==
    /\ handler[k] = "pool" /\ task[k] \in Ended
    /\ CASE task[k] = "ok" -> Respond(k, 200, request[k].payload.id, Null)
         [] task[k] = "panicked" -> Respond(k, 200, Null, "INTERNAL_ERROR")
         [] OTHER -> Respond(k, 200, request[k].payload.id, task[k])
    /\ UNCHANGED <<server, request, clientVars, received, task, ran>>

\* The handler stays while its task runs, whether or not anybody waits.
DisconnectedEarly(k) ==
    /\ handler[k] = "accepted" /\ client[k] = "done"
    /\ Handler(k, "gone")
    /\ UNCHANGED <<server, request, clientVars, received, response, task, ran>>

\* The client has closed the connection: the handler is dropped where it awaits,
\* its blocking task goes on.
Disconnected(k) ==
    /\ handler[k] \in {"accepted", "pool"} /\ client[k] = "done"
    /\ Handler(k, "gone")
    /\ UNCHANGED <<server, request, clientVars, received, response, task, ran>>

-----------------------------------------------------------------------------
(***************************************************************************)
(* The blocking task: dispatch.                                            *)
(***************************************************************************)
Task(k, at) == task' = [task EXCEPT ![k] = at]

Running == {k \in Call : task[k] = "running"}

StartTask(k) ==
    /\ task[k] = "queued" /\ Cardinality(Running) < PoolSize
    /\ LET p == request[k].payload IN
       \/ p.method = "unknown" /\ Task(k, "METHOD_NOT_FOUND")
       \/ /\ p.method = "query"
          /\ \E end \in {"ok", IF p.params = "invalid" THEN "INVALID_PARAMS"
                              ELSE "MODULE_NOT_FOUND"} : Task(k, end)
       \/ /\ p.method = "execute" /\ p.params = "invalid"
          /\ Task(k, "INVALID_PARAMS")
       \/ /\ p.method = "execute" /\ p.params = "bad_stack"
          /\ Task(k, "RUNTIME_ERROR")
       \/ /\ p.method = "execute" /\ p.params = "good"
          /\ Task(k, "running")
    /\ UNCHANGED <<server, request, clientVars, handler, received, response, ran>>

\* One word too many.
RunWordPastEnd(k) ==
    /\ task[k] = "running" /\ ran[k] <= request[k].payload.words
    /\ ran' = [ran EXCEPT ![k] = @ + 1]
    /\ \E end \in {"running", "RUNTIME_ERROR", "panicked"} : Task(k, end)
    /\ UNCHANGED <<server, request, clientVars, handler, received, response>>

\* One word of the sequence, on the request's own interpreter: it works, fails or
\* panics, or it never returns.
RunWord(k) ==
    /\ task[k] = "running" /\ ran[k] < request[k].payload.words
    /\ ran' = [ran EXCEPT ![k] = @ + 1]
    /\ \E end \in {"running", "RUNTIME_ERROR", "panicked"} : Task(k, end)
    /\ UNCHANGED <<server, request, clientVars, handler, received, response>>

\* The last word is forgotten.
SequenceEndsEarly(k) ==
    /\ task[k] = "running" /\ ran[k] + 1 >= request[k].payload.words
    /\ \E end \in {"ok", "RUNTIME_ERROR"} : Task(k, end)
    /\ UNCHANGED <<server, request, clientVars, handler, received, response, ran>>

\* The stack is serialized, or cannot be.
SequenceEnds(k) ==
    /\ task[k] = "running" /\ ran[k] = request[k].payload.words
    /\ \E end \in {"ok", "RUNTIME_ERROR"} : Task(k, end)
    /\ UNCHANGED <<server, request, clientVars, handler, received, response, ran>>

-----------------------------------------------------------------------------
(***************************************************************************)
(* Shutdown.                                                               *)
(***************************************************************************)
\* shutdown() sends the signal; dropping the ServerHandle has the same effect.
Shutdown ==
    /\ server = "up"
    /\ server' = "draining"
    /\ UNCHANGED <<request, clientVars, handler, received, response, task, ran>>

InFlight == {k \in Call : handler[k] \in {"accepted", "body", "pool"}}

\* The server is gone as soon as it is told.
ServerAborts ==
    /\ server = "draining"
    /\ server' = "stopped"
    /\ handler' = [k \in Call |-> "gone"]
    /\ UNCHANGED <<request, clientVars, received, response, task, ran>>

\* axum waits for the connections, and shutdown() for axum.
ServerStops ==
    /\ server = "draining" /\ InFlight = {}
    /\ server' = "stopped"
    /\ UNCHANGED <<request, clientVars, handler, received, response, task, ran>>

-----------------------------------------------------------------------------
(***************************************************************************)
(* The client.                                                             *)
(***************************************************************************)
Returns(k, is, code) ==
    /\ client' = [client EXCEPT ![k] = "done"]
    /\ outcome' = [outcome EXCEPT ![k] = [is |-> is, code |-> code]]
    /\ UNCHANGED <<server, request, handler, received, response, task, ran>>

\* http_post: connect and write the request.
Connect(k) ==
    /\ client[k] = "new"
    /\ \/ /\ server = "up"
          /\ client' = [client EXCEPT ![k] = "waiting"]
          /\ UNCHANGED <<server, request, outcome, handler, received, response, task, ran>>
       \/ server # "up" /\ Returns(k, "io", Null)

\* What call makes of a response.
Receive(k) ==
    LET r == response[k] IN
    /\ client[k] = "waiting" /\ r # Null
    /\ \/ r.status # 200 /\ Returns(k, "http", r.code)
       \/ r.status = 200 /\ r.code = Null /\ Returns(k, "ok", Null)
       \/ r.status = 200 /\ r.code = "RUNTIME_ERROR" /\ Returns(k, "remote", r.code)
       \/ r.status = 200 /\ r.code \notin {Null, "RUNTIME_ERROR"} /\ Returns(k, "rpc", r.code)

\* The connection breaks, or the answer is cut short or makes no sense to the client.
ConnectionLost(k) ==
    client[k] = "waiting" /\ \E e \in {"io", "protocol"} : Returns(k, e, Null)

\* read_timeout or write_timeout expires, and the socket is closed.
Timeout(k) == client[k] = "waiting" /\ Returns(k, "io", Null)

-----------------------------------------------------------------------------
HandlerStep(k) ==
    \/ CheckHeaders(k) \/ ReadFrame(k) \/ ReadFails(k) \/ BodyEnds(k)
    \/ TaskAnswers(k) \/ Disconnected(k)

TaskStep(k) == StartTask(k) \/ RunWord(k) \/ SequenceEnds(k)

ClientStep(k) == Connect(k) \/ Receive(k) \/ ConnectionLost(k) \/ Timeout(k)

Next ==
    \/ \E k \in Call : Accept(k) \/ HandlerStep(k) \/ TaskStep(k) \/ ClientStep(k)
    \/ Shutdown \/ ServerStops

Spec == Init /\ [][Next]_vars

\* The runtime polls every handler that can go on and every timeout fires.  A word
\* may run for ever, a connection need not be accepted, and nobody has to shut
\* the server down.
FairSpec ==
    /\ Spec
    /\ \A k \in Call : WF_vars(HandlerStep(k)) /\ WF_vars(Timeout(k))
    /\ WF_vars(ServerStops)

-----------------------------------------------------------------------------
\* Type invariant of the server, its handlers and tasks, and the callers.
TypeOK ==
    /\ server \in {"up", "draining", "stopped"}
    /\ request \in [Call -> Request]
    /\ client \in [Call -> {"new", "waiting", "done"}]
    /\ outcome \in [Call -> [is : {"nothing", "ok", "remote", "rpc", "http", "io", "protocol"},
                             code : Code \cup {Null}]]
    /\ handler \in [Call -> {"none", "accepted", "body", "pool", "gone"}]
    /\ received \in [Call -> Nat]
    /\ ran \in [Call -> Nat]
    /\ response \in [Call -> Response \cup {Null}]
    /\ task \in [Call -> {"none", "queued", "running"} \cup Ended]
    /\ \A k \in Call : /\ received[k] <= request[k].size
                        /\ ran[k] <= request[k].payload.words

-----------------------------------------------------------------------------
\* Forthic is only executed for requests that passed every check of the pipeline:
\* token, content type, body cap and envelope, whatever length they declared
\* and in whatever frames they came.
OnlyCheckedRequestsRun ==
    \A k \in Call : task[k] # "none" =>
        /\ request[k].auth /\ request[k].json
        /\ request[k].size <= MaxBody
        /\ request[k].payload.is = "request"

\* The server never holds more of a body than the cap, and nothing of the body of
\* a caller without the token.
BodiesAreBounded ==
    \A k \in Call : /\ received[k] <= MaxBody
                    /\ received[k] > 0 => request[k].auth /\ request[k].json

\* The checks of the pipeline come first: before the body is read, while it is
\* read, and before anything it says is run.
ChecksComeFirst == OnlyCheckedRequestsRun /\ BodiesAreBounded

\* An answer carries the id of its request whenever the body is an object: for
\* results, for errors of dispatch and for envelopes that are not valid alike.
\* Only a crash of the task loses it.
IdsAreEchoed ==
    \A k \in Call :
        /\ response[k] # Null
        /\ response[k].status = 200 /\ response[k].code # "PARSE_ERROR"
        /\ request[k].payload.is # "array"
        => \/ response[k].id = request[k].payload.id
           \/ response[k].code = "INTERNAL_ERROR" /\ task[k] = "panicked"

\* A graceful shutdown answers every call it has accepted: when the server has
\* stopped, no caller waits for an answer it will not get.
ShutdownAnswers ==
    server = "stopped" => \A k \in Call :
        client[k] = "waiting" /\ handler[k] # "none" => response[k] # Null

\* What the caller may conclude: see RpcPromise.
Refusals == Code \ {"RUNTIME_ERROR", "INTERNAL_ERROR"}
Told(o) ==
    IF o.is = "http" \/ (o.is = "rpc" /\ o.code \in Refusals) THEN "refused"
    ELSE IF o.is = "ok" THEN "ok"
    ELSE IF o.is = "remote" THEN "failed"
    ELSE IF o.is = "nothing" THEN "nothing"
    ELSE "unknown"
asked == [k \in Call |-> IF request[k].payload.method = "execute"
                         THEN request[k].payload.words ELSE 0]
told == [k \in Call |-> Told(outcome[k])]
Promise == INSTANCE RpcPromise WITH words <- asked
KeepsPromise == Promise!Spec

-----------------------------------------------------------------------------
\* A shutdown ends, even while a word runs for ever: the caller's timeout frees
\* the handler.
ShutdownEnds == server = "draining" ~> server = "stopped"

-----------------------------------------------------------------------------
\* http.rs, ServerHandle::shutdown: "Signal graceful shutdown and wait for the
\* server to stop".  When it has stopped, no code of any caller is running.
StoppedMeansIdle ==
    server = "stopped" => \A k \in Call : task[k] \notin {"queued", "running"}
=============================================================================
