----------------------------- MODULE RemoteCall -----------------------------
(***************************************************************************)
(* What RestClient.execute promises a caller: a result stands for a        *)
(* request that was answered, a call that fails may have reached the       *)
(* service all the same, and only GET and DELETE reach it more than once.  *)
(***************************************************************************)
EXTENDS Naturals

CONSTANTS
    Callers,
    Calls,   \* what may be called: records with a field method
    Nil

VARIABLES
    call,        \* the call of each caller, the last one when there is none
    open,        \* is it under way?
    deliveries,  \* how often it has reached the service
    outcome      \* what it ended with

vars == <<call, open, deliveries, outcome>>

Failures == {"CallRemoteFailException", "IllegalFormatException"}

Repeatable(method) == method \in {"GET", "DELETE"}

Init ==
    /\ call = [t \in Callers |-> Nil]
    /\ open = [t \in Callers |-> FALSE]
    /\ deliveries = [t \in Callers |-> 0]
    /\ outcome = [t \in Callers |-> Nil]

Start(t) ==
    /\ ~open[t]
    /\ \E c \in Calls : call' = [call EXCEPT ![t] = c]
    /\ open' = [open EXCEPT ![t] = TRUE]
    /\ deliveries' = [deliveries EXCEPT ![t] = 0]
    /\ outcome' = [outcome EXCEPT ![t] = Nil]

\* A call whose address is no address ends before it starts.
Refuse(t) ==
    /\ ~open[t]
    /\ \E c \in Calls : call' = [call EXCEPT ![t] = c]
    /\ deliveries' = [deliveries EXCEPT ![t] = 0]
    /\ outcome' = [outcome EXCEPT ![t] = "IllegalFormatException"]
    /\ UNCHANGED open

Deliver(t) ==
    /\ open[t]
    /\ Repeatable(call[t].method) \/ deliveries[t] = 0
    /\ deliveries' = [deliveries EXCEPT ![t] = @ + 1]
    /\ UNCHANGED <<call, open, outcome>>

Return(t) ==
    /\ open[t] /\ deliveries[t] > 0
    /\ open' = [open EXCEPT ![t] = FALSE]
    /\ outcome' = [outcome EXCEPT ![t] = "RestResult"]
    /\ UNCHANGED <<call, deliveries>>

Fail(t) ==
    /\ open[t]
    /\ open' = [open EXCEPT ![t] = FALSE]
    /\ \E f \in Failures : outcome' = [outcome EXCEPT ![t] = f]
    /\ UNCHANGED <<call, deliveries>>

Next == \E t \in Callers : Start(t) \/ Refuse(t) \/ Deliver(t) \/ Return(t) \/ Fail(t)

Spec == Init /\ [][Next]_vars
=============================================================================
