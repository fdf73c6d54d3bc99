-------------------------- MODULE RestClientProofs --------------------------
(***************************************************************************)
(* Proofs about RestClient, for any finite number of callers, any calls,   *)
(* any size of the pools and any number of retries.                        *)
(***************************************************************************)
EXTENDS RestClient, FiniteSetTheorems, TLAPS

\* Who holds a connection of a client.
Holders(c) == {t \in Callers : leased[t] /\ Client(t) = c}

PoolInv == \A c \in Clients : free[c] + Cardinality(Holders(c)) = MaxConnections

\* Where a call may hold a connection, and how far it has got with the service.
StageInv ==
    \A t \in Callers :
        /\ leased[t] => stage[t] \in {"send", "receive", "read", "finally"}
        /\ stage[t] # "idle" => call[t] # Nil
        /\ stage[t] \in {"send", "receive"} => leased[t]
        /\ stage[t] \in {"lease", "send"} =>
              /\ deliveries[t] < executions[t]
              /\ RC!Repeatable(call[t].method) \/ deliveries[t] = 0
        /\ stage[t] = "receive" => deliveries[t] <= executions[t] /\ deliveries[t] # 0
        /\ stage[t] = "read" => deliveries[t] # 0
        /\ stage[t] = "finally" =>
              /\ outcome[t] # Nil
              /\ outcome[t] = "RestResult" => deliveries[t] # 0

IInv == TypeOK /\ StageInv /\ PoolInv /\ StreamIsClosed

-----------------------------------------------------------------------------
(* The pools *)

LEMMA HoldersFinite ==
    ASSUME RestAssumption, NEW S \in SUBSET Callers
    PROVE  IsFiniteSet(S) /\ Cardinality(S) \in Nat
BY FS_Subset, FS_CardinalityType DEF RestAssumption

(* The client of a call is one of the two. *)
LEMMA ClientIsOne ==
    ASSUME NEW t \in Callers
    PROVE  Client(t) \in Clients
BY DEF Client, Clients

(* Calls that hold no connection may change. *)
LEMMA PoolKept ==
    ASSUME IInv, UNCHANGED <<leased, free>>,
           \A t \in Callers : leased[t] => call'[t] = call[t]
    PROVE  PoolInv'
<1>1. \A c \in Clients : Holders(c)' = Holders(c)
  BY DEF Holders, Client
<1>. QED
  BY <1>1 DEF IInv, PoolInv

LEMMA PoolLeased ==
    ASSUME RestAssumption, IInv, NEW t \in Callers, ~leased[t], call' = call,
           NEW k \in Clients, k = Client(t), free[k] > 0,
           free' = [free EXCEPT ![k] = @ - 1], leased' = [leased EXCEPT ![t] = TRUE]
    PROVE  PoolInv' /\ free' \in [Clients -> 0..MaxConnections]
<1>1. free \in [Clients -> 0..MaxConnections]
  BY DEF IInv, TypeOK
<1>2. Holders(k)' = Holders(k) \union {t} /\ t \notin Holders(k)
  BY DEF Holders, Client, IInv, TypeOK
<1>3. \A c \in Clients \ {k} : Holders(c)' = Holders(c)
  BY DEF Holders, Client, IInv, TypeOK
<1>4. /\ IsFiniteSet(Holders(k)) /\ Cardinality(Holders(k)) \in Nat
  BY HoldersFinite DEF Holders
<1>5. Cardinality(Holders(k)') = Cardinality(Holders(k)) + 1
  BY <1>2, <1>4, FS_AddElement
<1>6. free' \in [Clients -> 0..MaxConnections]
  BY <1>1 DEF RestAssumption
<1>7. ASSUME NEW c \in Clients
      PROVE  free'[c] + Cardinality(Holders(c)') = MaxConnections
  <2>1. free[c] + Cardinality(Holders(c)) = MaxConnections /\ free[c] \in Nat
    BY <1>1 DEF IInv, PoolInv, RestAssumption
  <2>2. CASE c = k
    BY <1>1, <1>4, <1>5, <2>1, <2>2
  <2>3. CASE c # k
    BY <1>1, <1>3, <2>1, <2>3
  <2>. QED
    BY <2>2, <2>3
<1>. QED
  BY <1>6, <1>7 DEF PoolInv

LEMMA PoolReleased ==
    ASSUME RestAssumption, IInv, NEW t \in Callers, Release(t), call' = call,
           NEW k \in Clients, k = Client(t)
    PROVE  /\ PoolInv' /\ free' \in [Clients -> 0..MaxConnections]
           /\ leased' \in [Callers -> BOOLEAN] /\ leased'[t] = FALSE
           /\ \A u \in Callers \ {t} : leased'[u] = leased[u]
<1>1. /\ leased' \in [Callers -> BOOLEAN] /\ leased'[t] = FALSE
      /\ \A u \in Callers \ {t} : leased'[u] = leased[u]
  BY DEF Release, IInv, TypeOK
<1>2. free \in [Clients -> 0..MaxConnections]
  BY DEF IInv, TypeOK
<1>3. CASE ~leased[t]
  <2>1. free' = free
    BY <1>3 DEF Release
  <2>2. \A c \in Clients : Holders(c)' = Holders(c)
    BY <1>1, <1>3 DEF Holders, Client
  <2>. QED
    BY <1>1, <1>2, <2>1, <2>2 DEF IInv, PoolInv
<1>4. CASE leased[t]
  <2>1. free' = [free EXCEPT ![k] = @ + 1]
    BY <1>4 DEF Release
  <2>2. Holders(k)' = Holders(k) \ {t} /\ t \in Holders(k)
    BY <1>1, <1>4 DEF Holders, Client
  <2>3. \A c \in Clients \ {k} : Holders(c)' = Holders(c)
    BY <1>1 DEF Holders, Client
  <2>4. /\ IsFiniteSet(Holders(k)) /\ Cardinality(Holders(k)) \in Nat
        /\ Cardinality(Holders(k)') \in Nat
    BY <2>2, HoldersFinite DEF Holders
  <2>5. Cardinality(Holders(k)') = Cardinality(Holders(k)) - 1
    BY <2>2, <2>4, FS_RemoveElement
  <2>6. ASSUME NEW c \in Clients
        PROVE  /\ free'[c] + Cardinality(Holders(c)') = MaxConnections
               /\ free'[c] \in 0..MaxConnections
    <3>1. free[c] + Cardinality(Holders(c)) = MaxConnections /\ free[c] \in 0..MaxConnections
          /\ MaxConnections \in Nat
      BY <1>2 DEF IInv, PoolInv, RestAssumption
    <3>2. CASE c = k
      BY <1>2, <2>1, <2>4, <2>5, <3>1, <3>2
    <3>3. CASE c # k
      BY <1>2, <2>1, <2>3, <3>1, <3>3
    <3>. QED
      BY <3>2, <3>3
  <2>7. free' \in [Clients -> 0..MaxConnections]
    BY <1>2, <2>1, <2>6
  <2>. QED
    BY <1>1, <2>6, <2>7 DEF PoolInv
<1>. QED
  BY <1>3, <1>4

-----------------------------------------------------------------------------
LEMMA InitIInv == RestAssumption /\ Init => IInv
<1> SUFFICES ASSUME RestAssumption, Init
             PROVE  IInv
  OBVIOUS
<1>1. TypeOK
  BY DEF Init, TypeOK, RestAssumption
<1>2. StageInv /\ StreamIsClosed
  BY DEF Init, StageInv, StreamIsClosed, RestAssumption
<1>3. \A c \in Clients : Holders(c) = {}
  BY DEF Init, Holders
<1>4. PoolInv
  BY <1>3, FS_EmptySet DEF Init, PoolInv, RestAssumption
<1>. QED
  BY <1>1, <1>2, <1>4 DEF IInv

(* A call begins. *)
LEMMA EnterIInv ==
    ASSUME RestAssumption, IInv, NEW t \in Callers, Enter(t)
    PROVE  IInv'
<1> USE DEF RestAssumption
<1>1. PICK c \in Calls : Unformatted(t, c) \/ Unbuilt(t, c) \/ Execute(t, c)
  BY DEF Enter
<1>2. /\ stage[t] = "idle" /\ call' = [call EXCEPT ![t] = c] /\ c \in Call /\ c # Nil
      /\ stream' = [stream EXCEPT ![t] = IF c.body = "stream" THEN "open" ELSE Nil]
      /\ deliveries' = [deliveries EXCEPT ![t] = 0]
      /\ UNCHANGED <<entity, leased, free>>
  BY <1>1 DEF Unformatted, Unbuilt, Execute, Take
<1>3. /\ call'[t] = c /\ deliveries'[t] = 0
      /\ \A u \in Callers \ {t} : /\ call'[u] = call[u] /\ deliveries'[u] = deliveries[u]
                                  /\ stream'[u] = stream[u]
  BY <1>2 DEF IInv, TypeOK
<1>4. ~leased[t]
  BY <1>2 DEF IInv, StageInv
<1>5. PoolInv'
  BY <1>2, <1>3, <1>4, PoolKept
<1>6. /\ call' \in [Callers -> Calls \union {Nil}] /\ stream' \in [Callers -> {"open", "closed", Nil}]
      /\ deliveries' \in [Callers -> 0..MaxRetry + 1]
  BY <1>2 DEF IInv, TypeOK
<1>7. CASE Unformatted(t, c)
  <2>1. /\ outcome' = [outcome EXCEPT ![t] = "IllegalFormatException"] /\ c.pattern = "broken"
        /\ UNCHANGED <<stage, executions>>
    BY <1>7 DEF Unformatted
  <2>2. outcome' \in [Callers -> Outcomes \union {Nil}]
        /\ \A u \in Callers \ {t} : outcome'[u] = outcome[u]
    BY <2>1 DEF IInv, TypeOK, Outcomes
  <2>3. TypeOK'
    BY <1>2, <1>6, <2>1, <2>2 DEF IInv, TypeOK
  <2>4. StageInv' /\ StreamIsClosed'
    BY <1>2, <1>3, <1>4, <2>1, <2>2 DEF IInv, StageInv, StreamIsClosed
  <2>. QED
    BY <1>5, <2>3, <2>4 DEF IInv
<1>8. CASE Unbuilt(t, c)
  <2>1. /\ stage' = [stage EXCEPT ![t] = "finally"] /\ executions' = executions
        /\ \E f \in Outcomes \ {"RestResult"} : outcome' = [outcome EXCEPT ![t] = f]
    <3>1. Failure(c) \in Outcomes \ {"RestResult"}
      BY DEF Failure, Outcomes
    <3>. QED
      BY <1>8, <3>1 DEF Unbuilt, Fail
  <2>2. /\ outcome' \in [Callers -> Outcomes \union {Nil}]
        /\ stage' \in [Callers -> {"idle", "lease", "send", "receive", "read", "finally"}]
        /\ \A u \in Callers \ {t} : outcome'[u] = outcome[u] /\ stage'[u] = stage[u]
        /\ stage'[t] = "finally" /\ outcome'[t] \in Outcomes \ {"RestResult"}
    BY <2>1 DEF IInv, TypeOK
  <2>3. TypeOK'
    BY <1>2, <1>6, <2>1, <2>2 DEF IInv, TypeOK
  <2>4. StageInv' /\ StreamIsClosed'
    BY <1>2, <1>3, <1>4, <2>1, <2>2 DEF IInv, StageInv, StreamIsClosed, Outcomes
  <2>. QED
    BY <1>5, <2>3, <2>4 DEF IInv
<1>9. CASE Execute(t, c)
  <2>1. /\ stage' = [stage EXCEPT ![t] = "lease"] /\ executions' = [executions EXCEPT ![t] = 1]
        /\ outcome' = [outcome EXCEPT ![t] = Nil]
    BY <1>9 DEF Execute
  <2>2. /\ outcome' \in [Callers -> Outcomes \union {Nil}]
        /\ stage' \in [Callers -> {"idle", "lease", "send", "receive", "read", "finally"}]
        /\ executions' \in [Callers -> 0..MaxRetry + 1]
        /\ \A u \in Callers \ {t} : /\ outcome'[u] = outcome[u] /\ stage'[u] = stage[u]
                                    /\ executions'[u] = executions[u]
        /\ stage'[t] = "lease" /\ executions'[t] = 1
    BY <2>1 DEF IInv, TypeOK
  <2>3. TypeOK'
    BY <1>2, <1>6, <2>2 DEF IInv, TypeOK
  <2>4. StageInv' /\ StreamIsClosed'
    BY <1>2, <1>3, <1>4, <2>2 DEF IInv, StageInv, StreamIsClosed
  <2>. QED
    BY <1>5, <2>3, <2>4 DEF IInv
<1>. QED
  BY <1>1, <1>7, <1>8, <1>9

LEMMA LeaseIInv ==
    ASSUME RestAssumption, IInv, NEW t \in Callers, Lease(t)
    PROVE  IInv'
<1>1. /\ stage[t] = "lease" /\ stage' = [stage EXCEPT ![t] = "send"]
      /\ leased' = [leased EXCEPT ![t] = TRUE]
      /\ UNCHANGED <<call, stream, executions, entity, outcome, deliveries>>
  BY DEF Lease, Goto, callVars
<1>2. /\ stage'[t] = "send" /\ leased'[t] = TRUE
      /\ \A u \in Callers \ {t} : stage'[u] = stage[u] /\ leased'[u] = leased[u]
  BY <1>1 DEF IInv, TypeOK
<1>3. PoolInv' /\ free' \in [Clients -> 0..MaxConnections]
  BY <1>1, PoolLeased, ClientIsOne DEF Lease, IInv, StageInv
<1>4. stage' \in [Callers -> {"idle", "lease", "send", "receive", "read", "finally"}]
  BY <1>1 DEF IInv, TypeOK
<1>5. leased' \in [Callers -> BOOLEAN]
  BY <1>1 DEF IInv, TypeOK
<1>6. TypeOK'
  BY <1>1, <1>3, <1>4, <1>5 DEF IInv, TypeOK
<1>7. StageInv' /\ StreamIsClosed'
  BY <1>1, <1>2 DEF IInv, StageInv, StreamIsClosed
<1>. QED
  BY <1>3, <1>6, <1>7 DEF IInv

(* A step of a call that keeps its connection. *)
LEMMA HoldIInv ==
    ASSUME RestAssumption, IInv, NEW t \in Callers,
           Send(t) \/ ContentFails(t) \/ Return(t)
    PROVE  IInv'
<1> USE DEF RestAssumption
<1>1. UNCHANGED <<call, stream, executions, entity, leased, free>> /\ PoolInv'
  BY PoolKept DEF Send, ContentFails, Return, callVars
<1>2. CASE Send(t)
  <2>1. /\ stage[t] = "send" /\ stage' = [stage EXCEPT ![t] = "receive"]
        /\ deliveries' = [deliveries EXCEPT ![t] = @ + 1] /\ outcome' = outcome
    BY <1>2 DEF Send, Goto
  <2>2. deliveries[t] < executions[t] /\ deliveries[t] \in Nat
        /\ executions[t] \in 0..MaxRetry + 1
    BY <2>1 DEF IInv, StageInv, TypeOK
  <2>3. /\ stage' \in [Callers -> {"idle", "lease", "send", "receive", "read", "finally"}]
        /\ deliveries' \in [Callers -> 0..MaxRetry + 1]
        /\ stage'[t] = "receive" /\ deliveries'[t] = deliveries[t] + 1
        /\ \A u \in Callers \ {t} : stage'[u] = stage[u] /\ deliveries'[u] = deliveries[u]
    BY <2>1, <2>2 DEF IInv, TypeOK
  <2>4. TypeOK'
    BY <1>1, <2>1, <2>3 DEF IInv, TypeOK
  <2>5. StageInv' /\ StreamIsClosed'
    BY <1>1, <2>1, <2>2, <2>3 DEF IInv, StageInv, StreamIsClosed
  <2>. QED
    BY <1>1, <2>4, <2>5 DEF IInv
<1>3. CASE ContentFails(t) \/ Return(t)
  <2>1. stage[t] = "read" /\ stage' = [stage EXCEPT ![t] = "finally"] /\ deliveries' = deliveries
    BY <1>3 DEF ContentFails, Return, Fail, Goto
  <2>2. PICK o \in Outcomes : outcome' = [outcome EXCEPT ![t] = o]
    BY <1>3 DEF ContentFails, Return, Fail, Failure, Outcomes
  <2>3. /\ stage' \in [Callers -> {"idle", "lease", "send", "receive", "read", "finally"}]
        /\ outcome' \in [Callers -> Outcomes \union {Nil}]
        /\ stage'[t] = "finally" /\ outcome'[t] = o
        /\ \A u \in Callers \ {t} : stage'[u] = stage[u] /\ outcome'[u] = outcome[u]
    BY <2>1, <2>2 DEF IInv, TypeOK
  <2>4. TypeOK'
    BY <1>1, <2>1, <2>3 DEF IInv, TypeOK
  <2>5. StageInv' /\ StreamIsClosed'
    BY <1>1, <2>1, <2>2, <2>3 DEF IInv, StageInv, StreamIsClosed
  <2>. QED
    BY <1>1, <2>4, <2>5 DEF IInv
<1>. QED
  BY <1>2, <1>3

(* A step of a call that gives its connection back, if it holds one. *)
LEMMA GiveBackIInv ==
    ASSUME RestAssumption, IInv, NEW t \in Callers,
           Retry(t) \/ GiveUp(t) \/ ReadContent(t) \/ Finally(t)
    PROVE  IInv'
<1> USE DEF RestAssumption
<1>1. Release(t) /\ UNCHANGED <<call, deliveries>>
  BY DEF Retry, GiveUp, ReadContent, Finally, callVars
<1>2. /\ PoolInv' /\ free' \in [Clients -> 0..MaxConnections]
      /\ leased' \in [Callers -> BOOLEAN] /\ leased'[t] = FALSE
      /\ \A u \in Callers \ {t} : leased'[u] = leased[u]
  BY <1>1, PoolReleased, ClientIsOne
<1>3. CASE Retry(t)
  <2>1. /\ stage[t] \in {"send", "receive"} /\ stage' = [stage EXCEPT ![t] = "lease"]
        /\ executions[t] <= MaxRetry
        /\ call[t].method \in {"GET", "DELETE"} \/ stage[t] = "send"
        /\ executions' = [executions EXCEPT ![t] = @ + 1]
        /\ UNCHANGED <<stream, entity, outcome>>
    BY <1>3 DEF Retry, RetryAllowed, callVars
  <2>2. /\ stage' \in [Callers -> {"idle", "lease", "send", "receive", "read", "finally"}]
        /\ executions' \in [Callers -> 0..MaxRetry + 1]
        /\ stage'[t] = "lease" /\ executions'[t] = executions[t] + 1 /\ executions[t] \in Nat
        /\ \A u \in Callers \ {t} : stage'[u] = stage[u] /\ executions'[u] = executions[u]
    BY <2>1 DEF IInv, TypeOK
  <2>3. /\ deliveries[t] <= executions[t] /\ deliveries[t] \in Nat /\ call[t] # Nil
        /\ RC!Repeatable(call[t].method) \/ deliveries[t] = 0
    BY <2>1, <2>2 DEF IInv, StageInv, TypeOK, RC!Repeatable
  <2>4. TypeOK'
    BY <1>1, <1>2, <2>1, <2>2 DEF IInv, TypeOK
  <2>5. StageInv' /\ StreamIsClosed'
    BY <1>1, <1>2, <2>1, <2>2, <2>3 DEF IInv, StageInv, StreamIsClosed
  <2>. QED
    BY <1>2, <2>4, <2>5 DEF IInv
<1>4. CASE GiveUp(t)
  <2>1. /\ stage[t] \in {"send", "receive"} /\ stage' = [stage EXCEPT ![t] = "finally"]
        /\ outcome' = [outcome EXCEPT ![t] = Failure(call[t])]
        /\ UNCHANGED <<stream, entity, executions>>
    BY <1>4 DEF GiveUp, Fail, callVars
  <2>2. Failure(call[t]) \in Outcomes \ {"RestResult"}
    BY DEF Failure, Outcomes
  <2>3. /\ stage' \in [Callers -> {"idle", "lease", "send", "receive", "read", "finally"}]
        /\ outcome' \in [Callers -> Outcomes \union {Nil}]
        /\ stage'[t] = "finally" /\ outcome'[t] \in Outcomes \ {"RestResult"}
        /\ \A u \in Callers \ {t} : stage'[u] = stage[u] /\ outcome'[u] = outcome[u]
    BY <2>1, <2>2 DEF IInv, TypeOK
  <2>4. TypeOK'
    BY <1>1, <1>2, <2>1, <2>3 DEF IInv, TypeOK
  <2>5. StageInv' /\ StreamIsClosed'
    BY <1>1, <1>2, <2>1, <2>3 DEF IInv, StageInv, StreamIsClosed
  <2>. QED
    BY <1>2, <2>4, <2>5 DEF IInv
<1>5. CASE ReadContent(t)
  <2>1. stage[t] = "read" /\ UNCHANGED <<stage, stream, executions, outcome>>
    BY <1>5 DEF ReadContent, callVars
  <2>2. entity' \in [Callers -> {"none", "unread", "read", Nil}]
    BY <1>5 DEF ReadContent, IInv, TypeOK
  <2>3. TypeOK'
    BY <1>1, <1>2, <2>1, <2>2 DEF IInv, TypeOK
  <2>4. StageInv' /\ StreamIsClosed'
    BY <1>1, <1>2, <2>1 DEF IInv, StageInv, StreamIsClosed
  <2>. QED
    BY <1>2, <2>3, <2>4 DEF IInv
<1>6. CASE Finally(t)
  <2>1. /\ stage[t] = "finally" /\ stage' = [stage EXCEPT ![t] = "idle"]
        /\ stream' = [stream EXCEPT ![t] = IF @ = Nil THEN Nil ELSE "closed"]
        /\ executions' = [executions EXCEPT ![t] = 0]
        /\ entity' = [entity EXCEPT ![t] = Nil] /\ outcome' = outcome
    BY <1>6 DEF Finally, Goto
  <2>2. /\ stage' \in [Callers -> {"idle", "lease", "send", "receive", "read", "finally"}]
        /\ executions' \in [Callers -> 0..MaxRetry + 1]
        /\ stream' \in [Callers -> {"open", "closed", Nil}]
        /\ entity' \in [Callers -> {"none", "unread", "read", Nil}]
        /\ stage'[t] = "idle" /\ stream'[t] # "open"
        /\ \A u \in Callers \ {t} : /\ stage'[u] = stage[u] /\ executions'[u] = executions[u]
                                    /\ stream'[u] = stream[u]
    BY <2>1 DEF IInv, TypeOK
  <2>3. TypeOK'
    BY <1>1, <1>2, <2>1, <2>2 DEF IInv, TypeOK
  <2>4. StageInv' /\ StreamIsClosed'
    BY <1>1, <1>2, <2>1, <2>2 DEF IInv, StageInv, StreamIsClosed
  <2>. QED
    BY <1>2, <2>3, <2>4 DEF IInv
<1>. QED
  BY <1>3, <1>4, <1>5, <1>6

(* The response: one without an entity gives the connection back. *)
LEMMA RespondIInv ==
    ASSUME RestAssumption, IInv, NEW t \in Callers, Respond(t)
    PROVE  IInv'
<1> USE DEF RestAssumption
<1>1. /\ stage[t] = "receive" /\ stage' = [stage EXCEPT ![t] = "read"]
      /\ UNCHANGED <<call, stream, executions, outcome, deliveries>>
      /\ \E e \in {"none", "unread"} : entity' = [entity EXCEPT ![t] = e]
      /\ UNCHANGED <<leased, free>> \/ Release(t)
  BY DEF Respond, Goto, callVars
<1>2. /\ stage' \in [Callers -> {"idle", "lease", "send", "receive", "read", "finally"}]
      /\ entity' \in [Callers -> {"none", "unread", "read", Nil}]
      /\ stage'[t] = "read" /\ \A u \in Callers \ {t} : stage'[u] = stage[u]
  BY <1>1 DEF IInv, TypeOK
<1>3. /\ PoolInv' /\ free' \in [Clients -> 0..MaxConnections]
      /\ leased' \in [Callers -> BOOLEAN]
      /\ \A u \in Callers \ {t} : leased'[u] = leased[u]
  <2>1. CASE UNCHANGED <<leased, free>>
    BY <1>1, <2>1, PoolKept DEF IInv, TypeOK
  <2>2. CASE Release(t)
    BY <1>1, <2>2, PoolReleased, ClientIsOne
  <2>. QED
    BY <1>1, <2>1, <2>2
<1>4. TypeOK'
  BY <1>1, <1>2, <1>3 DEF IInv, TypeOK
<1>5. StageInv' /\ StreamIsClosed'
  BY <1>1, <1>2, <1>3 DEF IInv, StageInv, StreamIsClosed
<1>. QED
  BY <1>3, <1>4, <1>5 DEF IInv

LEMMA NextIInv == RestAssumption /\ IInv /\ [Next]_vars => IInv'
<1>1. ASSUME IInv, UNCHANGED vars
      PROVE  IInv'
  <2>1. \A c \in Clients : Holders(c)' = Holders(c)
    BY <1>1 DEF vars, callVars, Holders, Client
  <2>. QED
    BY <1>1, <2>1 DEF vars, callVars, IInv, TypeOK, StageInv, PoolInv, StreamIsClosed
<1>. QED
  BY <1>1, EnterIInv, LeaseIInv, HoldIInv, GiveBackIInv, RespondIInv DEF Next, Proceed

(* The invariant is inductive. *)
THEOREM Invariance == ASSUME RestAssumption PROVE Spec => []IInv
BY InitIInv, NextIInv, PTL DEF Spec

(* Every variable of RestClient keeps its type. *)
THEOREM TypeCorrect == ASSUME RestAssumption PROVE Spec => []TypeOK
<1>1. IInv => TypeOK
  BY DEF IInv
<1>. QED
  BY Invariance, <1>1, PTL

(* However the calls end, no connection of a pool is lost or given back twice. *)
THEOREM ConnectionsAreKept == ASSUME RestAssumption PROVE Spec => []ConnectionsComeBack
<1>1. IInv => ConnectionsComeBack
  BY DEF IInv, StageInv, PoolInv, Holders, ConnectionsComeBack
<1>. QED
  BY Invariance, <1>1, PTL

(* execute closes the stream it is given, but for an address it cannot format. *)
THEOREM StreamsAreClosed == ASSUME RestAssumption PROVE Spec => []StreamIsClosed
<1>1. IInv => StreamIsClosed
  BY DEF IInv
<1>. QED
  BY Invariance, <1>1, PTL

-----------------------------------------------------------------------------
(* The promise to a caller *)

LEMMA InitCall == Init => RC!Init
<1> SUFFICES ASSUME Init
             PROVE  RC!Init
  OBVIOUS
<1>1. /\ [t \in Callers |-> stage[t] # "idle"] = [t \in Callers |-> FALSE]
      /\ [t \in Callers |-> IF stage[t] = "idle" THEN outcome[t] ELSE Nil]
            = [t \in Callers |-> Nil]
  BY DEF Init
<1>. QED
  BY <1>1 DEF Init, RC!Init

(* A call begins: RemoteCall sees it start, or end at once. *)
LEMMA EnterCall ==
    ASSUME RestAssumption, IInv, NEW t \in Callers, Enter(t)
    PROVE  RC!Start(t) \/ RC!Refuse(t)
<1>1. PICK c \in Calls : Unformatted(t, c) \/ Unbuilt(t, c) \/ Execute(t, c)
  BY DEF Enter
<1>2. /\ stage[t] = "idle" /\ call' = [call EXCEPT ![t] = c]
      /\ deliveries' = [deliveries EXCEPT ![t] = 0]
  BY <1>1 DEF Unformatted, Unbuilt, Execute, Take
<1>3. CASE Unformatted(t, c)
  <2>1. stage' = stage /\ outcome' = [outcome EXCEPT ![t] = "IllegalFormatException"]
    BY <1>3 DEF Unformatted
  <2>2. [u \in Callers |-> IF stage[u] = "idle" THEN outcome[u] ELSE Nil]'
          = [[u \in Callers |-> IF stage[u] = "idle" THEN outcome[u] ELSE Nil]
                EXCEPT ![t] = "IllegalFormatException"]
    BY <1>2, <2>1 DEF IInv, TypeOK
  <2>3. [u \in Callers |-> stage[u] # "idle"]' = [u \in Callers |-> stage[u] # "idle"]
    BY <2>1
  <2>. QED
    BY <1>2, <2>2, <2>3 DEF RC!Refuse
<1>4. CASE Unbuilt(t, c) \/ Execute(t, c)
  <2>1. /\ \E to \in {"finally", "lease"} : stage' = [stage EXCEPT ![t] = to]
        /\ \A u \in Callers \ {t} : outcome'[u] = outcome[u]
    BY <1>4 DEF Unbuilt, Execute, Fail, IInv, TypeOK
  <2>2. stage'[t] # "idle" /\ \A u \in Callers \ {t} : stage'[u] = stage[u]
    BY <2>1 DEF IInv, TypeOK
  <2>3. [u \in Callers |-> IF stage[u] = "idle" THEN outcome[u] ELSE Nil]'
          = [[u \in Callers |-> IF stage[u] = "idle" THEN outcome[u] ELSE Nil] EXCEPT ![t] = Nil]
    BY <2>1, <2>2
  <2>4. [u \in Callers |-> stage[u] # "idle"]'
          = [[u \in Callers |-> stage[u] # "idle"] EXCEPT ![t] = TRUE]
    BY <2>2
  <2>. QED
    BY <1>2, <2>3, <2>4 DEF RC!Start
<1>. QED
  BY <1>1, <1>3, <1>4

LEMMA SendCall ==
    ASSUME RestAssumption, IInv, NEW t \in Callers, Send(t)
    PROVE  RC!Deliver(t)
<1>1. /\ stage[t] = "send" /\ stage' = [stage EXCEPT ![t] = "receive"]
      /\ deliveries' = [deliveries EXCEPT ![t] = @ + 1] /\ outcome' = outcome /\ call' = call
  BY DEF Send, Goto, callVars
<1>2. stage'[t] = "receive" /\ \A u \in Callers \ {t} : stage'[u] = stage[u]
  BY <1>1 DEF IInv, TypeOK
<1>3. [u \in Callers |-> IF stage[u] = "idle" THEN outcome[u] ELSE Nil]'
        = [u \in Callers |-> IF stage[u] = "idle" THEN outcome[u] ELSE Nil]
  BY <1>1, <1>2
<1>4. \A u \in Callers : (stage[u] # "idle")' <=> (stage[u] # "idle")
  BY <1>1, <1>2
<1>5. [u \in Callers |-> stage[u] # "idle"]' = [u \in Callers |-> stage[u] # "idle"]
  BY <1>4
<1>6. RC!Repeatable(call[t].method) \/ deliveries[t] = 0
  BY <1>1 DEF IInv, StageInv
<1>. QED
  BY <1>1, <1>3, <1>5, <1>6 DEF RC!Deliver

(* The call ends as its outcome says. *)
LEMMA FinallyCall ==
    ASSUME RestAssumption, IInv, NEW t \in Callers, Finally(t)
    PROVE  RC!Return(t) \/ RC!Fail(t)
<1>1. /\ stage[t] = "finally" /\ stage' = [stage EXCEPT ![t] = "idle"]
      /\ UNCHANGED <<call, outcome, deliveries>>
  BY DEF Finally, Goto
<1>2. stage'[t] = "idle" /\ \A u \in Callers \ {t} : stage'[u] = stage[u]
  BY <1>1 DEF IInv, TypeOK
<1>3. /\ outcome[t] \in RC!Failures \union {"RestResult"}
      /\ outcome[t] = "RestResult" => deliveries[t] > 0
  BY <1>1 DEF IInv, TypeOK, StageInv, Outcomes, RC!Failures
<1>4. [u \in Callers |-> IF stage[u] = "idle" THEN outcome[u] ELSE Nil]'
        = [[u \in Callers |-> IF stage[u] = "idle" THEN outcome[u] ELSE Nil]
              EXCEPT ![t] = outcome[t]]
  BY <1>1, <1>2
<1>5. [u \in Callers |-> stage[u] # "idle"]'
        = [[u \in Callers |-> stage[u] # "idle"] EXCEPT ![t] = FALSE]
  BY <1>2
<1>6. CASE outcome[t] = "RestResult"
  BY <1>1, <1>3, <1>4, <1>5, <1>6 DEF RC!Return
<1>7. CASE outcome[t] \in RC!Failures
  BY <1>1, <1>4, <1>5, <1>7 DEF RC!Fail
<1>. QED
  BY <1>3, <1>6, <1>7

(* What RemoteCall does not see. *)
LEMMA HiddenCall ==
    ASSUME IInv, NEW t \in Callers,
           \/ Lease(t) \/ Retry(t) \/ GiveUp(t) \/ Respond(t)
           \/ ReadContent(t) \/ ContentFails(t) \/ Return(t)
    PROVE  UNCHANGED RC!vars
<1>1. /\ stage[t] # "idle" /\ UNCHANGED <<call, deliveries>>
      /\ \/ stage' = stage
         \/ \E to \in {"send", "lease", "finally", "read"} : stage' = [stage EXCEPT ![t] = to]
      /\ outcome' = outcome \/ \E o \in Outcomes : outcome' = [outcome EXCEPT ![t] = o]
  BY DEF Lease, Retry, GiveUp, Respond, ReadContent, ContentFails, Return, Fail, Failure, Goto,
         callVars, Outcomes
<1>2. /\ stage'[t] # "idle"
      /\ \A u \in Callers \ {t} : stage'[u] = stage[u] /\ outcome'[u] = outcome[u]
  BY <1>1 DEF IInv, TypeOK
<1>3. [u \in Callers |-> IF stage[u] = "idle" THEN outcome[u] ELSE Nil]'
        = [u \in Callers |-> IF stage[u] = "idle" THEN outcome[u] ELSE Nil]
  BY <1>1, <1>2
<1>4. \A u \in Callers : (stage[u] # "idle")' <=> (stage[u] # "idle")
  BY <1>1, <1>2
<1>5. [u \in Callers |-> stage[u] # "idle"]' = [u \in Callers |-> stage[u] # "idle"]
  BY <1>4
<1>. QED
  BY <1>1, <1>3, <1>5 DEF RC!vars

LEMMA NextCall == RestAssumption /\ IInv /\ [Next]_vars => [RC!Next]_(RC!vars)
<1> SUFFICES ASSUME RestAssumption, IInv, [Next]_vars
             PROVE  RC!Next \/ UNCHANGED RC!vars
  OBVIOUS
<1>1. CASE UNCHANGED vars
  BY <1>1 DEF vars, callVars, RC!vars
<1>2. ASSUME NEW t \in Callers, Enter(t) \/ Send(t) \/ Finally(t)
      PROVE  RC!Next
  BY <1>2, EnterCall, SendCall, FinallyCall DEF RC!Next
<1>. QED
  BY <1>1, <1>2, HiddenCall DEF Next, Proceed

(* A result stands for a request that was answered, a call that fails may have *)
(* reached the service, and no POST or PUT reaches it more than once.          *)
THEOREM Refinement == ASSUME RestAssumption PROVE Spec => ImplementsRemoteCall
BY Invariance, InitCall, NextCall, PTL DEF Spec, ImplementsRemoteCall, RC!Spec
=============================================================================
