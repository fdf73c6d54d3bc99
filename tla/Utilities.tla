----------------------------- MODULE Utilities -----------------------------
(***************************************************************************)
(* The utilities of the server: the Excel export, the REST client and the  *)
(* JAXB contexts. They share nothing; the constant-for-good variable       *)
(* utility says which of them a behaviour is about, and the others stay as *)
(* they were initialised.                                                  *)
(***************************************************************************)
EXTENDS ExcelExport

CONSTANTS
    Callers, Calls, MaxConnections, MaxRetry,           \* of RestClient
    Threads, Classes, Broken, MaxCalls,                 \* of JaxbContexts
    Nobody                                              \* the null of both

VARIABLES
    utility,
    stage, call, stream, executions, entity, outcome, leased, free, deliveries, \* RestClient
    jaxbContexts, made, pc, clazz, local, calls, atStart                        \* JaxbContexts

rest == <<stage, call, stream, executions, entity, outcome, leased, free, deliveries>>
jaxb == <<jaxbContexts, made, pc, clazz, local, calls, atStart>>
utilities == <<utility, vars, rest, jaxb>>

Rest == INSTANCE RestClient WITH Nil <- Nobody
Jaxb == INSTANCE JaxbContexts WITH Nil <- Nobody

ASSUME UtilitiesAssumption == Rest!RestAssumption /\ Jaxb!JaxbAssumption
-----------------------------------------------------------------------------
UtilitiesInit ==
    /\ utility \in {"export", "calls", "contexts"}
    /\ Init /\ (utility # "export" => beans = <<>>)
    /\ Rest!Init
    /\ Jaxb!Init

UtilitiesNext ==
    /\ UNCHANGED utility
    /\ \/ utility = "export" /\ Next /\ UNCHANGED <<rest, jaxb>>
       \/ utility = "calls" /\ Rest!Next /\ UNCHANGED <<vars, jaxb>>
       \/ utility = "contexts" /\ Jaxb!Next /\ UNCHANGED <<vars, rest>>

\* What is proved needs no fairness; that every call ends does.
UtilitiesSpec == UtilitiesInit /\ [][UtilitiesNext]_utilities

UtilitiesFairSpec == UtilitiesSpec /\ Rest!Fairness
-----------------------------------------------------------------------------
\* The types of the export, of the REST client and of the JAXB contexts.
UtilitiesTypeOK == TypeOK /\ Rest!TypeOK /\ Jaxb!TypeOK

\* Whatever fails, RestClient.execute gives its connection back, once, and
\* closes the stream it was given, but for an address it cannot format.
CallCleansUp == Rest!ConnectionsComeBack /\ Rest!StreamIsClosed

\* A result stands for an answer, and no POST is repeated once it was sent.
ImplementsRemoteCall == Rest!RC!Spec

\* Every call of execute ends.
CallEnds == Rest!CallEnds

\* A context is for the class it was asked for, and a call that begins when there
\* is one of its class uses that one (CommonUtil.getJaxbContext).
ContextsAreShared == Jaxb!ContextFits /\ Jaxb!LateCallsShare
=============================================================================
