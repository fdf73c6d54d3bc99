--------------------------- MODULE SessionRestart ---------------------------
(***************************************************************************)
(* The server of WebSession may stop at any moment and be started again.   *)
(* The sessions, the pool threads and whatever they were doing are gone;   *)
(* the accounts, the clock and the cookies in the browsers are not.        *)
(***************************************************************************)
EXTENDS WebSession

CONSTANT MaxRestarts   \* bound on the number of restarts

ASSUME RestartAssumption == MaxRestarts \in Nat

VARIABLES
    restarts,   \* how often the server was started again
    stale       \* the tokens of logins before the last start

restartVars == <<vars, restarts, stale>>

RestartTypeOK ==
    /\ TypeOK
    /\ restarts \in 0..MaxRestarts
    /\ stale \subseteq Tokens

RestartInit == Init /\ restarts = 0 /\ stale = {}

\* The server starts with an empty map, free locks, idle threads and nothing
\* scheduled. The numbers of requests stand for UUIDs: they do not start anew.
Restart ==
    /\ restarts < MaxRestarts
    /\ restarts' = restarts + 1
    /\ stale' = 1..requests
    /\ map' = [k \in Cookies |-> Nil]
    /\ readers' = {} /\ writer' = Nil /\ queue' = <<>>
    /\ pc' = [a \in Cache!Agents |-> "idle"]
    /\ key' = [a \in Cache!Agents |-> Nil]
    /\ item' = [a \in Cache!Agents |-> Nil]
    /\ answer' = [t \in Threads |-> Nil]
    /\ todo' = {} /\ removed' = [k \in Cookies |-> Nil]
    /\ stage' = [t \in Threads |-> "idle"]
    /\ request' = [t \in Threads |-> Nil]
    /\ ctx' = [t \in Threads |-> Nil]
    /\ outcome' = [t \in Threads |-> Nil]
    /\ loaded' = [t \in Threads |-> Nil]
    /\ token' = [t \in Threads |-> Nil]
    /\ scheduled' = FALSE
    /\ barred' = [t \in Threads |-> {}]
    /\ sessions' = [k \in Cookies |-> Nil]
    /\ UNCHANGED <<now, requests, accounts, jar>>

RestartNext ==
    \/ Next /\ UNCHANGED <<restarts, stale>>
    \/ Restart

RestartSpec == RestartInit /\ [][RestartNext]_restartVars

-----------------------------------------------------------------------------
\* A browser that still has its cookie of before a restart is asked to log in
\* again, and is not taken for whoever has logged in since.
StaleCookieLogsOut ==
    \A t \in Threads :
      /\ stage[t] \in {"render", "finally"}
      /\ request[t].cookie \in stale
      => /\ ctx[t].userInfo = Nil
         /\ outcome[t] \in {"login timeout", "Exception"}
=============================================================================
