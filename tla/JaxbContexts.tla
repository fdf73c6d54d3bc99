---------------------------- MODULE JaxbContexts ----------------------------
(***************************************************************************)
(* CommonUtil.getJaxbContext: the contexts of the converted classes are    *)
(* kept in a ConcurrentHashMap, each thread that misses one builds it, and *)
(* putIfAbsent keeps the first. The map and JAXB are external: get and     *)
(* putIfAbsent are atomic, and building a context may fail.                *)
(***************************************************************************)
EXTENDS Integers, FiniteSets

CONSTANTS
    Threads,    \* that convert objects
    Classes,    \* that are converted
    Broken,     \* the classes JAXB cannot handle
    MaxCalls,   \* bound on the number of calls
    Nil         \* Java's null

JaxbAssumption ==
    Broken \subseteq Classes /\ MaxCalls \in Nat /\ Nil \notin Classes \union Nat

VARIABLES
    jaxbContexts,  \* per class the context kept, by its number, or Nil
    made,          \* made[n]: the class the n-th context was built for, or Nil
    pc,            \* where each thread is: "idle", "get", "build", "put" or "done"
    clazz,         \* the class it asks for
    local,         \* its local variable jaxbContext, or Nil
    calls,         \* how often each thread has called
    atStart        \* history: what the map held when its call began

vars == <<jaxbContexts, made, pc, clazz, local, calls, atStart>>

Numbers == 1..MaxCalls

TypeOK ==
    /\ jaxbContexts \in [Classes -> Numbers \union {Nil}]
    /\ made \in [Numbers -> Classes \union {Nil}]
    /\ pc \in [Threads -> {"idle", "get", "build", "put", "done"}]
    /\ clazz \in [Threads -> Classes \union {Nil}]
    /\ local \in [Threads -> Numbers \union {Nil}]
    /\ calls \in 0..MaxCalls
    /\ atStart \in [Threads -> Numbers \union {Nil}]

Init ==
    /\ jaxbContexts = [c \in Classes |-> Nil]
    /\ made = [n \in Numbers |-> Nil]
    /\ pc = [t \in Threads |-> "idle"]
    /\ clazz = [t \in Threads |-> Nil]
    /\ local = [t \in Threads |-> Nil]
    /\ calls = 0
    /\ atStart = [t \in Threads |-> Nil]

-----------------------------------------------------------------------------
\* object2xml or xml2object with an object of class c.
Convert(t, c) ==
    /\ pc[t] = "idle" /\ calls < MaxCalls
    /\ calls' = calls + 1
    /\ pc' = [pc EXCEPT ![t] = "get"]
    /\ clazz' = [clazz EXCEPT ![t] = c]
    /\ atStart' = [atStart EXCEPT ![t] = jaxbContexts[c]]
    /\ UNCHANGED <<jaxbContexts, made, local>>

Get(t) ==
    /\ pc[t] = "get"
    /\ local' = [local EXCEPT ![t] = jaxbContexts[clazz[t]]]
    /\ pc' = [pc EXCEPT ![t] = IF local'[t] = Nil THEN "build" ELSE "done"]
    /\ UNCHANGED <<jaxbContexts, made, clazz, calls, atStart>>

\* JAXBContext.newInstance.
Build(t) ==
    /\ pc[t] = "build" /\ clazz[t] \notin Broken
    /\ LET n == Cardinality({i \in Numbers : made[i] # Nil}) + 1
       IN /\ made' = [made EXCEPT ![n] = clazz[t]]
          /\ local' = [local EXCEPT ![t] = n]
    /\ pc' = [pc EXCEPT ![t] = "put"]
    /\ UNCHANGED <<jaxbContexts, clazz, calls, atStart>>

\* It throws; the call ends with an HttpMessageConversionException.
BuildFails(t) ==
    /\ pc[t] = "build" /\ clazz[t] \in Broken
    /\ pc' = [pc EXCEPT ![t] = "done"]
    /\ UNCHANGED <<jaxbContexts, made, clazz, local, calls, atStart>>

\* Mutant: the context of another thread is overwritten.
PutAlways(t) ==
    /\ pc[t] = "put"
    /\ jaxbContexts' = [jaxbContexts EXCEPT ![clazz[t]] = local[t]]
    /\ pc' = [pc EXCEPT ![t] = "done"]
    /\ UNCHANGED <<made, clazz, local, calls, atStart>>

\* putIfAbsent; what it returns is not looked at.
Put(t) ==
    /\ pc[t] = "put"
    /\ jaxbContexts' = [jaxbContexts EXCEPT ![clazz[t]] = IF @ = Nil THEN local[t] ELSE @]
    /\ pc' = [pc EXCEPT ![t] = "done"]
    /\ UNCHANGED <<made, clazz, local, calls, atStart>>

\* The caller has its context, or the exception.
Return(t) ==
    /\ pc[t] = "done"
    /\ pc' = [pc EXCEPT ![t] = "idle"]
    /\ clazz' = [clazz EXCEPT ![t] = Nil]
    /\ local' = [local EXCEPT ![t] = Nil]
    /\ atStart' = [atStart EXCEPT ![t] = Nil]
    /\ UNCHANGED <<jaxbContexts, made, calls>>

Next ==
    \E t \in Threads :
        \/ \E c \in Classes : Convert(t, c)
        \/ Get(t) \/ Build(t) \/ BuildFails(t) \/ Put(t) \/ Return(t)

Spec == Init /\ [][Next]_vars

-----------------------------------------------------------------------------
\* The context a caller gets, its own or the one kept, is for its class, and
\* there is none of a class that has no context.
ContextFits ==
    \A t \in Threads :
        pc[t] = "done" =>
            IF clazz[t] \in Broken THEN local[t] = Nil
            ELSE local[t] # Nil /\ made[local[t]] = clazz[t]

\* Threads that race may each use a context of their own, but a call that begins
\* when one is kept uses that one.
LateCallsShare ==
    \A t \in Threads :
        pc[t] = "done" /\ atStart[t] # Nil => local[t] = atStart[t]
=============================================================================
