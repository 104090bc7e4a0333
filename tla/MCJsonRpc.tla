------------------------------ MODULE MCJsonRpc ------------------------------
(***************************************************************************)
(* Requests for the runs of JsonRpc: one call sends any request that the   *)
(* pipeline tells apart, with lengths around the cap; the others compete   *)
(* with it for the pool and for the shutdown.                              *)
(***************************************************************************)
EXTENDS JsonRpc

CONSTANTS k1, k2

Of(is, method, params, words) ==
    [is |-> is, id |-> 7, method |-> method, params |-> params, words |-> words]

Sent(payload) == [auth |-> TRUE, json |-> TRUE, declared |-> 1, size |-> 1, payload |-> payload]

Execute == Of("request", "execute", "good", 2)

Bodies == {Sent(p) : p \in
    {Of(is, "query", "good", 0) : is \in {"not_json", "array", "not_request"}}
    \cup {Of("request", m, "good", 0) : m \in {"execute", "query", "unknown"}}
    \cup {Of("request", m, "invalid", 2) : m \in {"execute", "query"}}
    \cup {Of("request", "execute", "bad_stack", 2), Execute}}

Lengths == {[Sent(Execute) EXCEPT !.declared = d[1], !.size = d[2]] :
    d \in {<<Null, MaxBody>>, <<Null, MaxBody + 1>>, <<MaxBody, 1>>,
           <<MaxBody, MaxBody>>, <<MaxBody + 1, 1>>}}

Heads == {[Sent(Execute) EXCEPT !.auth = FALSE], [Sent(Execute) EXCEPT !.json = FALSE],
          [Sent(Execute) EXCEPT !.auth = FALSE, !.declared = Null, !.size = MaxBody + 1]}

AnyAndExecute ==
    [k \in Call |-> IF k = k1 THEN Bodies \cup Lengths \cup Heads
                    ELSE {Sent(Execute), [Sent(Execute) EXCEPT !.declared = MaxBody]}]

OnlyExecute == [k \in Call |-> {Sent(Execute)}]
=============================================================================
