---------------------------- MODULE SessionStore ----------------------------
(***************************************************************************)
(* What the login of the web application promises: a token is bound once,  *)
(* to the account that logged in, and until its expiry date a lookup of    *)
(* the token returns that account.  A session is never removed here: that  *)
(* the cache purges expired sessions cannot be seen by a request.          *)
(***************************************************************************)
EXTENDS Integers

CONSTANTS
    Threads,   \* the threads that serve requests
    Tokens,    \* what a cookie may carry
    Accounts,  \* what is known of an account
    Nil

VARIABLES
    now,       \* the wall clock
    sessions,  \* sessions[k]: the session opened with token k, or Nil
    asked,     \* asked[t]: the token thread t is looking up, or Nil
    answer     \* answer[t]: what the last lookup of t returned, or Nil

vars == <<now, sessions, asked, answer>>

Session == [value : Accounts, expire : Int]

Owner(k) ==
    IF sessions[k] # Nil /\ sessions[k].expire > now
    THEN sessions[k].value
    ELSE Nil

Init ==
    /\ now = 0
    /\ sessions = [k \in Tokens |-> Nil]
    /\ asked = [t \in Threads |-> Nil]
    /\ answer = [t \in Threads |-> Nil]

Open(k) ==
    /\ sessions[k] = Nil
    /\ sessions'[k] \in Session
    /\ sessions' = [sessions EXCEPT ![k] = sessions'[k]]
    /\ UNCHANGED <<now, asked, answer>>

Ask(t, k) ==
    /\ asked[t] = Nil
    /\ asked' = [asked EXCEPT ![t] = k]
    /\ answer' = [answer EXCEPT ![t] = Nil]
    /\ UNCHANGED <<now, sessions>>

Answer(t) ==
    /\ asked[t] # Nil
    /\ answer' = [answer EXCEPT ![t] = Owner(asked[t])]
    /\ asked' = [asked EXCEPT ![t] = Nil]
    /\ UNCHANGED <<now, sessions>>

Clock ==
    /\ now' \in Int /\ now' > now
    /\ UNCHANGED <<sessions, asked, answer>>

Next ==
    \/ \E k \in Tokens : Open(k)
    \/ \E t \in Threads, k \in Tokens : Ask(t, k)
    \/ \E t \in Threads : Answer(t)
    \/ Clock

Spec == Init /\ [][Next]_vars
=============================================================================
