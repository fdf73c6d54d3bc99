----------------------------- MODULE RestClient -----------------------------
(***************************************************************************)
(* RestClient.execute over the two HTTP clients of HttpClientManager: each *)
(* caller takes a connection from the pool of a client, sends its request, *)
(* is retried by the client as HttpClientFactory has set it up, reads the  *)
(* response, and gives everything back in the end.                         *)
(***************************************************************************)
EXTENDS Integers, FiniteSets

CONSTANTS
    Callers,         \* threads that call execute
    Calls,           \* the calls they make, a subset of Call
    MaxConnections,  \* httpclient.maxConnections, of each client
    MaxRetry,        \* HttpClientConfig.maxRetry: 2
    Nil

\* "other" is a method that execute does not know. A "percent" pattern is used
\* as it is, there being no parameters, and is no pattern for String.format;
\* a "broken" one does not fit the parameters there are.
Call == [method   : {"GET", "POST", "PUT", "DELETE", "other"},
         body     : {"none", "json", "stream"},
         pattern  : {"plain", "percent", "broken"},
         useProxy : BOOLEAN]

Outcomes == {"RestResult", "CallRemoteFailException", "IllegalFormatException"}

RestAssumption ==
    /\ IsFiniteSet(Callers)
    /\ Calls \subseteq Call
    /\ MaxConnections \in Nat \ {0}
    /\ MaxRetry \in Nat
    /\ Nil \notin Call \union Outcomes \union {"open", "closed", "none", "unread", "read"}

Clients == {"default", "proxy"}

VARIABLES
    stage,       \* where execute is
    call,        \* the arguments of the call, or of the last one
    stream,      \* the body when it is a stream: "open" or "closed"
    executions,  \* the attempts of the client so far, the present one included
    entity,      \* of the response: "none", "unread" or "read"
    outcome,     \* what execute returns or throws
    leased,      \* does the call hold a connection?
    free,        \* the connections left in the pool of each client
    deliveries   \* requests of the call that the service has got

callVars == <<call, stream>>
vars == <<stage, callVars, executions, entity, outcome, leased, free, deliveries>>

TypeOK ==
    /\ stage \in [Callers -> {"idle", "lease", "send", "receive", "read", "finally"}]
    /\ call \in [Callers -> Calls \union {Nil}]
    /\ stream \in [Callers -> {"open", "closed", Nil}]
    /\ executions \in [Callers -> 0..MaxRetry + 1]
    /\ entity \in [Callers -> {"none", "unread", "read", Nil}]
    /\ outcome \in [Callers -> Outcomes \union {Nil}]
    /\ leased \in [Callers -> BOOLEAN]
    /\ free \in [Clients -> 0..MaxConnections]
    /\ deliveries \in [Callers -> 0..MaxRetry + 1]

Init ==
    /\ stage = [t \in Callers |-> "idle"]
    /\ call = [t \in Callers |-> Nil]
    /\ stream = [t \in Callers |-> Nil]
    /\ executions = [t \in Callers |-> 0]
    /\ entity = [t \in Callers |-> Nil]
    /\ outcome = [t \in Callers |-> Nil]
    /\ leased = [t \in Callers |-> FALSE]
    /\ free = [c \in Clients |-> MaxConnections]
    /\ deliveries = [t \in Callers |-> 0]

-----------------------------------------------------------------------------
Client(t) == IF call[t].useProxy THEN "proxy" ELSE "default"

Goto(t, from, to) == stage[t] = from /\ stage' = [stage EXCEPT ![t] = to]

\* A connection goes back to its pool, open or closed.
Release(t) ==
    /\ free' = IF leased[t] THEN [free EXCEPT ![Client(t)] = @ + 1] ELSE free
    /\ leased' = [leased EXCEPT ![t] = FALSE]

\* The catch block formats the pattern again to name the call that has failed.
Failure(c) ==
    IF c.pattern = "percent" THEN "IllegalFormatException" ELSE "CallRemoteFailException"

Fail(t, c) ==
    /\ stage' = [stage EXCEPT ![t] = "finally"]
    /\ outcome' = [outcome EXCEPT ![t] = Failure(c)]

\* execute is called with c.
Take(t, c) ==
    /\ stage[t] = "idle"
    /\ call' = [call EXCEPT ![t] = c]
    /\ stream' = [stream EXCEPT ![t] = IF c.body = "stream" THEN "open" ELSE Nil]
    /\ deliveries' = [deliveries EXCEPT ![t] = 0]

\* The address is formatted before the try: nothing is cleaned up.
Unformatted(t, c) ==
    /\ Take(t, c) /\ c.pattern = "broken"
    /\ outcome' = [outcome EXCEPT ![t] = "IllegalFormatException"]
    /\ UNCHANGED <<stage, executions, entity, leased, free>>

\* The request is not built: the method is not known, the address is malformed,
\* or the body cannot be read.
Unbuilt(t, c) ==
    /\ Take(t, c) /\ c.pattern # "broken"
    /\ Fail(t, c)
    /\ UNCHANGED <<executions, entity, leased, free>>

Execute(t, c) ==
    /\ Take(t, c) /\ c.pattern # "broken" /\ c.method # "other"
    /\ stage' = [stage EXCEPT ![t] = "lease"]
    /\ executions' = [executions EXCEPT ![t] = 1]
    /\ outcome' = [outcome EXCEPT ![t] = Nil]
    /\ UNCHANGED <<entity, leased, free>>

-----------------------------------------------------------------------------
(* The HTTP client *)

\* No timeout has been set for this: a caller waits for as long as it takes.
Lease(t) ==
    /\ Goto(t, "lease", "send")
    /\ free[Client(t)] > 0
    /\ free' = [free EXCEPT ![Client(t)] = @ - 1]
    /\ leased' = [leased EXCEPT ![t] = TRUE]
    /\ UNCHANGED <<callVars, executions, entity, outcome, deliveries>>

\* The whole request has been written.
Send(t) ==
    /\ Goto(t, "send", "receive")
    /\ deliveries' = [deliveries EXCEPT ![t] = @ + 1]
    /\ UNCHANGED <<callVars, executions, entity, outcome, leased, free>>

\* Mutant of RetryAllowed: requestSentRetryEnabled is true.
RetryAllowedSent(t) == executions[t] <= MaxRetry

\* DefaultHttpRequestRetryHandler(maxRetry, false): a request that may have a
\* body is not repeated once it has been sent.
RetryAllowed(t) ==
    /\ executions[t] <= MaxRetry
    /\ call[t].method \in {"GET", "DELETE"} \/ stage[t] = "send"

\* Mutant of Retry: the executions are not counted.
RetryUncounted(t) ==
    /\ stage[t] \in {"send", "receive"}
    /\ RetryAllowed(t)
    /\ stage' = [stage EXCEPT ![t] = "lease"]
    /\ Release(t)
    /\ UNCHANGED <<callVars, executions, entity, outcome, deliveries>>

\* Connecting, writing the request or waiting for the response has failed.
Retry(t) ==
    /\ stage[t] \in {"send", "receive"}
    /\ RetryAllowed(t)
    /\ stage' = [stage EXCEPT ![t] = "lease"]
    /\ executions' = [executions EXCEPT ![t] = @ + 1]
    /\ Release(t)
    /\ UNCHANGED <<callVars, entity, outcome, deliveries>>

\* It is not retried either when it was refused, timed out or not secure.
GiveUp(t) ==
    /\ stage[t] \in {"send", "receive"}
    /\ Fail(t, call[t])
    /\ Release(t)
    /\ UNCHANGED <<callVars, executions, entity, deliveries>>

\* The head of a response. A response without an entity frees the connection.
Respond(t) ==
    /\ Goto(t, "receive", "read")
    /\ \/ /\ entity' = [entity EXCEPT ![t] = "unread"]
          /\ UNCHANGED <<leased, free>>
       \/ /\ entity' = [entity EXCEPT ![t] = "none"]
          /\ Release(t)
    /\ UNCHANGED <<callVars, executions, outcome, deliveries>>

-----------------------------------------------------------------------------
(* The response *)

\* EntityUtils.toString reads to the end, which frees the connection.
ReadContent(t) ==
    /\ stage[t] = "read" /\ entity[t] = "unread"
    /\ entity' = [entity EXCEPT ![t] = "read"]
    /\ Release(t)
    /\ UNCHANGED <<stage, callVars, executions, outcome, deliveries>>

\* It does not, or what was read is not what responseClazz takes.
ContentFails(t) ==
    /\ stage[t] = "read" /\ entity[t] \in {"unread", "read"}
    /\ Fail(t, call[t])
    /\ UNCHANGED <<callVars, executions, entity, leased, free, deliveries>>

Return(t) ==
    /\ Goto(t, "read", "finally")
    /\ entity[t] # "unread"
    /\ outcome' = [outcome EXCEPT ![t] = "RestResult"]
    /\ UNCHANGED <<callVars, executions, entity, leased, free, deliveries>>

\* Mutant of Finally: the request is not aborted and its response not closed.
FinallyHolding(t) ==
    /\ Goto(t, "finally", "idle")
    /\ stream' = [stream EXCEPT ![t] = IF @ = Nil THEN Nil ELSE "closed"]
    /\ executions' = [executions EXCEPT ![t] = 0]
    /\ entity' = [entity EXCEPT ![t] = Nil]
    /\ UNCHANGED <<call, outcome, leased, free, deliveries>>

\* The body is closed, the request aborted, the entity closed.
Finally(t) ==
    /\ Goto(t, "finally", "idle")
    /\ stream' = [stream EXCEPT ![t] = IF @ = Nil THEN Nil ELSE "closed"]
    /\ Release(t)
    /\ executions' = [executions EXCEPT ![t] = 0]
    /\ entity' = [entity EXCEPT ![t] = Nil]
    /\ UNCHANGED <<call, outcome, deliveries>>

-----------------------------------------------------------------------------
Enter(t) == \E c \in Calls : Unformatted(t, c) \/ Unbuilt(t, c) \/ Execute(t, c)

Proceed(t) ==
    \/ Send(t) \/ Retry(t) \/ GiveUp(t) \/ Respond(t)
    \/ ReadContent(t) \/ ContentFails(t) \/ Return(t) \/ Finally(t)

Next == \E t \in Callers : Enter(t) \/ Lease(t) \/ Proceed(t)

\* The timeouts for connecting and for the socket let every exchange with a
\* service end. A caller that waits for a connection is woken when one comes
\* back, and may then find it taken.
Fairness == \A t \in Callers : WF_vars(Proceed(t)) /\ SF_vars(Lease(t))

Spec == Init /\ [][Next]_vars

FairSpec == Spec /\ Fairness

-----------------------------------------------------------------------------
(* Properties *)

\* Every connection of a pool is either free or held by a call that is under
\* way: none is lost, however a call ends, and none is given back twice.
ConnectionsComeBack ==
    /\ \A c \in Clients :
         free[c] + Cardinality({t \in Callers : leased[t] /\ Client(t) = c}) = MaxConnections
    /\ \A t \in Callers : leased[t] => stage[t] # "idle"

\* execute closes the stream it is given as the body, however it ends, but for
\* a call whose address could not be formatted.
StreamIsClosed ==
    \A t \in Callers :
      stage[t] = "idle" /\ stream[t] = "open" => call[t].pattern = "broken"

\* A result stands for a request that was answered, as the comment at execute
\* says, and retries repeat no POST or PUT that has reached the service.
RC == INSTANCE RemoteCall WITH
        open    <- [t \in Callers |-> stage[t] # "idle"],
        outcome <- [t \in Callers |-> IF stage[t] = "idle" THEN outcome[t] ELSE Nil]

ImplementsRemoteCall == RC!Spec

\* Every call ends, though callers share a pool that may be empty and wait for
\* a connection without a timeout.
CallEnds == \A t \in Callers : stage[t] # "idle" ~> stage[t] = "idle"
=============================================================================
