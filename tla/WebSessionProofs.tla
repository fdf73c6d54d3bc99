-------------------------- MODULE WebSessionProofs --------------------------
(***************************************************************************)
(* Proofs about WebSession, for any threads, accounts, cookies and number  *)
(* of requests. A token is drawn once and its session is stored once: what *)
(* the map, the lookups and the expire task hold for a token is always the *)
(* session that was stored for it. The lock of the cache is not needed.    *)
(* The second part is about SessionRestart: whenever and however often the *)
(* server is started again, what is true of a server that runs stays true, *)
(* and the cookies of before are worth nothing.                            *)
(***************************************************************************)
EXTENDS SessionRestart, TLAPS

\* A thread is inside a call of the cache only while its request looks up the
\* cookie or stores a session, and has a context as long as it has a request.
PlaceInv ==
    \A t \in Threads :
        /\ pc[t] \in {"idle"} \union Cache!SetPc \union Cache!GetPc
        /\ pc[t] \in Cache!GetPc => stage[t] = "lookup"
        /\ pc[t] \in Cache!SetPc => stage[t] = "store"
        /\ stage[t] = "idle" <=> ctx[t] = Nil
        /\ stage[t] = "idle" <=> request[t] = Nil
        /\ stage[t] # "idle" => ctx[t].requestId = request[t].number
        /\ stage[t] = "issue" => loaded[t] # Nil
        /\ stage[t] = "resolve" => outcome[t] \in Exceptions

\* Requests are numbered, and no two threads serve the same one.
NumberInv ==
    /\ \A t \in Threads : stage[t] # "idle" => request[t].number <= requests
    /\ \A t, u \in Threads :
          stage[t] # "idle" /\ stage[u] # "idle" /\ request[t].number = request[u].number
             => t = u

\* A session is stored once, under the number of the login that opened it.
TokenInv ==
    /\ \A k \in Cookies : sessions[k] # Nil => k \in 1..requests
    /\ \A k \in Cookies : map[k] # Nil => map[k] = sessions[k]
    /\ \A t \in Threads :
          stage[t] \in {"query", "issue"} => sessions[request[t].number] = Nil
    /\ \A t \in Threads :
          pc[t] \in Cache!SetPc =>
             /\ key[t] = request[t].number /\ sessions[key[t]] = Nil
             /\ item[t] \in Cache!LocalCacheObject

\* A lookup is about the cookie of its request, and finds the session of it.
LookupInv ==
    \A t \in Threads : stage[t] = "lookup" =>
        /\ request[t].cookie \in Cookies
        /\ pc[t] \in Cache!GetPc => key[t] = request[t].cookie
        /\ pc[t] \in Cache!GetPc => answer[t] = Nil
        /\ pc[t] = "get.check" => item[t] # Nil /\ item[t] = sessions[key[t]]
        /\ pc[t] = "idle" /\ answer[t] # Nil =>
              /\ sessions[request[t].cookie] # Nil
              /\ answer[t] = sessions[request[t].cookie].value

\* What the expire task has in hand are sessions, and those it is about to
\* delete have expired.
SweeperInv ==
    /\ pc[Sweeper] \in {"idle"} \union Cache!SweepPc \union Cache!DeletePc
    /\ \A k \in todo : map[k] # Nil
    /\ \A k \in Cookies : removed[k] # Nil => removed[k] = sessions[k]
    /\ pc[Sweeper] \in Cache!DeletePc \union {"sweep.check"} =>
          key[Sweeper] \in Cookies /\ sessions[key[Sweeper]] # Nil
    /\ pc[Sweeper] = "sweep.check" => item[Sweeper] = sessions[key[Sweeper]]
    /\ pc[Sweeper] \in Cache!DeletePc => sessions[key[Sweeper]].expire < now

\* The user of a context is the one of the session.
UserInv ==
    \A t \in Threads : stage[t] # "idle" /\ ctx[t].userInfo # Nil =>
        /\ request[t].cookie \in Cookies
        /\ sessions[request[t].cookie] # Nil
        /\ sessions[request[t].cookie].value = ctx[t].userInfo

IInv ==
    /\ TypeOK /\ PlaceInv /\ NumberInv /\ TokenInv
    /\ LookupInv /\ SweeperInv /\ UserInv /\ LiveSessionIsKept

-----------------------------------------------------------------------------
(* null is none of the values, the expire task none of the threads. *)
LEMMA NilIsNone ==
    /\ Nil \notin Cache!Agents /\ Nil \notin Cookies /\ Nil \notin Tokens
    /\ Nil \notin SystemUser /\ Nil \notin Cache!LocalCacheObject
    /\ Nil \notin Request /\ Nil \notin AuthContext /\ Nil \notin Users
    /\ Sweeper \in Cache!Agents /\ Sweeper \notin Threads /\ Threads \subseteq Cache!Agents
    /\ Stranger \notin Tokens /\ Stranger \in Cookies /\ Tokens \subseteq Cookies
    /\ MaxRequests \in Nat
BY NullAssumption, SessionAssumption DEF Cache!Agents, Cookies, Tokens

LEMMA InitIInv == Init => IInv
<1> SUFFICES ASSUME Init
             PROVE  IInv
  OBVIOUS
<1> USE NilIsNone
<1>1. TypeOK
  <2>1. Cache!TypeOK
    BY DEF Init, Cache!Init, Cache!TypeOK
  <2>2. barred \in [Threads -> SUBSET Users]
    BY DEF Init
  <2>3. /\ stage \in [Threads -> {"idle", "cookie", "lookup", "query", "issue",
                                "store", "resolve", "render", "finally"}]
        /\ scheduled \in BOOLEAN /\ jar \subseteq Tokens /\ accounts \in [Users -> Statuses]
    BY DEF Init
  <2>4. requests \in 0..MaxRequests
    BY DEF Init
  <2>. QED
    BY <2>1, <2>2, <2>3, <2>4 DEF Init, TypeOK
<1>2. PlaceInv /\ NumberInv /\ UserInv /\ LookupInv
  BY DEF Init, Cache!Init, PlaceInv, NumberInv, UserInv, LookupInv, Cache!SetPc, Cache!GetPc
<1>3. TokenInv /\ LiveSessionIsKept
  BY DEF Init, Cache!Init, TokenInv, LiveSessionIsKept, Cache!SetPc
<1>4. SweeperInv
  BY DEF Init, Cache!Init, SweeperInv, Cache!DeletePc
<1>. QED
  BY <1>1, <1>2, <1>3, <1>4 DEF IInv

-----------------------------------------------------------------------------
(* The calls of the cache *)

LEMMA EnqueueIInv ==
    ASSUME IInv, NEW a \in Cache!Agents, Cache!Enqueue(a), UNCHANGED <<webVars, history>>
    PROVE  IInv'
<1>1. queue' \in Seq(Cache!Agents)
  BY DEF IInv, TypeOK, Cache!TypeOK, Cache!Enqueue
<1>. QED
  BY <1>1
     DEF Cache!Enqueue, Cache!iterator, webVars, history, IInv, TypeOK, Cache!TypeOK,
         PlaceInv, NumberInv, TokenInv, LookupInv, SweeperInv, UserInv, LiveSessionIsKept

(* Taking the lock: the agent goes on in its call. *)
LEMMA EnterQueue ==
    ASSUME Cache!TypeOK, NEW a \in Cache!Agents, Cache!Enter(a)
    PROVE  queue' \in Seq(Cache!Agents)
BY DEF Cache!TypeOK, Cache!Enter

LEMMA AcquireIInv ==
    ASSUME IInv, NEW a \in Cache!Agents, Cache!Acquire(a), UNCHANGED <<webVars, history>>
    PROVE  IInv'
<1> USE NilIsNone DEF IInv
<1>1. /\ queue' \in Seq(Cache!Agents) /\ readers' \subseteq Cache!Agents
      /\ writer' \in Cache!Agents \union {Nil}
      /\ UNCHANGED <<now, map, key, item, answer, todo, removed>>
  BY EnterQueue
     DEF TypeOK, Cache!TypeOK, Cache!Acquire, Cache!SetLock, Cache!GetLock, Cache!DeleteLock,
         Cache!LockWrite, Cache!LockRead, Cache!iterator
<1>2. \/ pc[a] = "set.lock" /\ pc' = [pc EXCEPT ![a] = "set.put"]
      \/ pc[a] = "get.lock" /\ pc' = [pc EXCEPT ![a] = "get.read"]
      \/ pc[a] = "delete.lock" /\ pc' = [pc EXCEPT ![a] = "delete.remove"]
  BY DEF Cache!Acquire, Cache!SetLock, Cache!GetLock, Cache!DeleteLock, Cache!Goto
<1>3. TypeOK'
  BY <1>1, <1>2
     DEF TypeOK, Cache!TypeOK, webVars, history, Cache!SetPc, Cache!GetPc, Cache!DeletePc
<1>4. \A b \in Cache!Agents :
         /\ pc'[b] \in Cache!SetPc <=> pc[b] \in Cache!SetPc
         /\ pc'[b] \in Cache!GetPc <=> pc[b] \in Cache!GetPc
         /\ pc'[b] \in Cache!DeletePc <=> pc[b] \in Cache!DeletePc
         /\ pc'[b] = "idle" <=> pc[b] = "idle"
         /\ pc'[b] = "get.check" <=> pc[b] = "get.check"
         /\ pc'[b] = "sweep.check" <=> pc[b] = "sweep.check"
         /\ pc'[b] \in Cache!SweepPc <=> pc[b] \in Cache!SweepPc
  BY <1>2
     DEF TypeOK, Cache!TypeOK, Cache!SetPc, Cache!GetPc, Cache!DeletePc, Cache!SweepPc
<1>5. PlaceInv'
  BY <1>4 DEF PlaceInv, webVars, history
<1>6. NumberInv' /\ UserInv' /\ LiveSessionIsKept'
  BY <1>1 DEF NumberInv, UserInv, LiveSessionIsKept, webVars, history
<1>7. TokenInv'
  BY <1>1, <1>4 DEF TokenInv, webVars, history
<1>8. LookupInv'
  BY <1>1, <1>4 DEF LookupInv, webVars, history
<1>9. SweeperInv'
  BY <1>1, <1>4 DEF SweeperInv, webVars, history
<1>. QED
  BY <1>3, <1>5, <1>6, <1>7, <1>8, <1>9

LEMMA PutIInv ==
    ASSUME IInv, NEW a \in Cache!Agents, Cache!SetPut(a),
           sessions' = [sessions EXCEPT ![key[a]] = item[a]],
           UNCHANGED <<webVars, barred>>
    PROVE  IInv'
<1> USE NilIsNone DEF IInv
<1>1. /\ a \in Threads /\ stage[a] = "store" /\ pc[a] = "set.put"
      /\ key[a] = request[a].number /\ key[a] \in Tokens /\ sessions[key[a]] = Nil
      /\ item[a] \in Cache!LocalCacheObject /\ request[a] \in Request
  <2>1. pc[a] = "set.put"
    BY DEF Cache!SetPut, Cache!Return, Cache!Goto
  <2>2. a \in Threads
    BY <2>1 DEF SweeperInv, Cache!SweepPc, Cache!DeletePc, Cache!Agents
  <2>3. stage[a] = "store" /\ request[a] \in Request
    BY <2>1, <2>2 DEF PlaceInv, TypeOK, Cache!SetPc
  <2>. QED
    BY <2>1, <2>2, <2>3 DEF TokenInv, Cache!SetPc, Request, Tokens
<1>2. /\ pc' = [pc EXCEPT ![a] = "idle"]
      /\ key' = [key EXCEPT ![a] = Nil] /\ item' = [item EXCEPT ![a] = Nil]
      /\ map' = [map EXCEPT ![key[a]] = item[a]]
      /\ todo' \subseteq todo \union {key[a]}
      /\ UNCHANGED <<now, answer, removed, queue>>
      /\ readers' = readers \ {a} /\ writer' = IF writer = a THEN Nil ELSE writer
  BY <1>1 DEF Cache!SetPut, Cache!Return, Cache!Goto, Cache!Unlock, Cache!Iterating
<1>3. \A k \in Cookies : /\ sessions'[k] = IF k = key[a] THEN item[a] ELSE sessions[k]
                         /\ map'[k] = IF k = key[a] THEN item[a] ELSE map[k]
  BY <1>1, <1>2 DEF TypeOK, Cache!TypeOK
<1>4. \A b \in Cache!Agents \ {a} : pc'[b] = pc[b] /\ key'[b] = key[b] /\ item'[b] = item[b]
  BY <1>2 DEF TypeOK, Cache!TypeOK
<1>5. pc'[a] = "idle"
  BY <1>2 DEF TypeOK, Cache!TypeOK
<1>6. TypeOK'
  <2>1. Cache!TypeOK'
    BY <1>1, <1>2 DEF TypeOK, Cache!TypeOK
  <2>2. sessions' \in [Cookies -> Cache!LocalCacheObject \union {Nil}]
    BY <1>1 DEF TypeOK
  <2>. QED
    BY <2>1, <2>2 DEF TypeOK, webVars
<1>7. PlaceInv' /\ NumberInv'
  BY <1>1, <1>4, <1>5 DEF PlaceInv, NumberInv, webVars, Cache!SetPc, Cache!GetPc
<1>8. TokenInv'
  <2>1. \A k \in Cookies : sessions'[k] # Nil => k \in 1..requests
    BY <1>1, <1>3 DEF TokenInv, NumberInv, Tokens
  <2>2. \A t \in Threads \ {a} : stage[t] # "idle" => request[t].number # key[a]
    BY <1>1 DEF NumberInv
  <2>3. \A t \in Threads : stage[t] \in {"query", "issue"} =>
           t # a /\ request[t].number \in Cookies
    BY <1>1 DEF PlaceInv, TypeOK, Request, Tokens
  <2>4. \A t \in Threads \ {a} : pc[t] \in Cache!SetPc => stage[t] = "store"
    BY DEF PlaceInv
  <2>5. \A t \in Threads \ {a} : pc'[t] \in Cache!SetPc =>
           /\ key'[t] = request[t].number /\ sessions'[key'[t]] = Nil
           /\ item'[t] \in Cache!LocalCacheObject
    <3> SUFFICES ASSUME NEW t \in Threads \ {a}, pc'[t] \in Cache!SetPc
                 PROVE  /\ key'[t] = request[t].number /\ sessions'[key'[t]] = Nil
                        /\ item'[t] \in Cache!LocalCacheObject
      OBVIOUS
    <3>1. pc[t] \in Cache!SetPc /\ key'[t] = key[t] /\ item'[t] = item[t]
      BY <1>4
    <3>2. request[t] \in Request /\ key[t] = request[t].number /\ key[t] # key[a]
      BY <2>2, <2>4, <3>1 DEF PlaceInv, TypeOK, TokenInv
    <3>3. key[t] \in Cookies
      BY <3>2 DEF Request, Tokens
    <3>. QED
      BY <1>3, <3>1, <3>2, <3>3 DEF TokenInv
  <2>6. pc'[a] \notin Cache!SetPc
    BY <1>5 DEF Cache!SetPc
  <2>7. \A t \in Threads : stage[t] \in {"query", "issue"} =>
           sessions'[request[t].number] = Nil
    BY <1>3, <2>2, <2>3 DEF TokenInv
  <2>8. \A k \in Cookies : map'[k] # Nil => map'[k] = sessions'[k]
    BY <1>3 DEF TokenInv
  <2>. QED
    BY <2>1, <2>5, <2>6, <2>7, <2>8 DEF TokenInv, webVars
<1>9. \A k \in Cookies : sessions[k] # Nil => sessions'[k] = sessions[k]
  BY <1>1, <1>3
<1>10. LookupInv'
  BY <1>1, <1>2, <1>4, <1>9 DEF LookupInv, TypeOK, webVars
<1>11. SweeperInv'
  BY <1>1, <1>2, <1>3, <1>4, <1>9 DEF SweeperInv, TypeOK, Cache!TypeOK
<1>12. UserInv'
  BY <1>9 DEF UserInv, webVars
<1>13. LiveSessionIsKept'
  BY <1>2, <1>3 DEF LiveSessionIsKept
<1>. QED
  BY <1>6, <1>7, <1>8, <1>10, <1>11, <1>12, <1>13

(* A get belongs to a request that looks up its cookie. *)
LEMMA GetPlace ==
    ASSUME IInv, NEW a \in Cache!Agents, pc[a] \in Cache!GetPc
    PROVE  /\ a \in Threads /\ stage[a] = "lookup" /\ request[a] \in Request
           /\ key[a] = request[a].cookie /\ key[a] \in Cookies
<1> USE NilIsNone DEF IInv
<1>1. a \in Threads
  BY DEF SweeperInv, Cache!SweepPc, Cache!DeletePc, Cache!GetPc, Cache!Agents
<1>2. stage[a] = "lookup" /\ request[a] \in Request
  BY <1>1 DEF PlaceInv, TypeOK
<1>. QED
  BY <1>1, <1>2 DEF LookupInv

(* A get that returns: what is left to show is that the answer is right. *)
LEMMA GetReturns ==
    ASSUME IInv, NEW a \in Cache!Agents, pc[a] \in Cache!GetPc,
           NEW x \in SystemUser \union {Nil},
           x # Nil => sessions[key[a]] # Nil /\ x = sessions[key[a]].value,
           pc' = [pc EXCEPT ![a] = "idle"],
           key' = [key EXCEPT ![a] = Nil], item' = [item EXCEPT ![a] = Nil],
           answer' = [answer EXCEPT ![a] = x], Cache!Unlock(a),
           UNCHANGED <<now, map, todo, removed, webVars, history>>
    PROVE  IInv'
<1> USE NilIsNone DEF IInv
<1>1. /\ a \in Threads /\ stage[a] = "lookup" /\ request[a] \in Request
      /\ key[a] = request[a].cookie /\ key[a] \in Cookies
  BY GetPlace
<1>2. \A b \in Cache!Agents \ {a} : pc'[b] = pc[b] /\ key'[b] = key[b] /\ item'[b] = item[b]
  BY DEF TypeOK, Cache!TypeOK
<1>3. pc'[a] = "idle" /\ answer'[a] = x /\ \A t \in Threads \ {a} : answer'[t] = answer[t]
  BY <1>1 DEF TypeOK, Cache!TypeOK
<1>4. TypeOK'
  BY <1>1 DEF TypeOK, Cache!TypeOK, Cache!Unlock, webVars, history
<1>5. PlaceInv' /\ NumberInv'
  BY <1>2, <1>3 DEF PlaceInv, NumberInv, webVars, Cache!SetPc, Cache!GetPc
<1>6. TokenInv'
  BY <1>2, <1>3 DEF TokenInv, webVars, history, Cache!SetPc
<1>7. LookupInv'
  BY <1>1, <1>2, <1>3 DEF LookupInv, webVars, history, Cache!GetPc
<1>8. SweeperInv'
  BY <1>1, <1>2 DEF SweeperInv, history
<1>9. UserInv' /\ LiveSessionIsKept'
  BY DEF UserInv, LiveSessionIsKept, webVars, history
<1>. QED
  BY <1>4, <1>5, <1>6, <1>7, <1>8, <1>9

LEMMA GetIInv ==
    ASSUME IInv, NEW a \in Cache!Agents,
           Cache!GetAbsent(a) \/ Cache!GetRead(a) \/ Cache!GetCheck(a),
           UNCHANGED <<webVars, history>>
    PROVE  IInv'
<1> USE NilIsNone
<1>1. pc[a] \in Cache!GetPc /\ a # Sweeper
  <2>1. pc[a] \in Cache!GetPc
    BY DEF Cache!GetAbsent, Cache!GetRead, Cache!GetCheck, Cache!Return, Cache!Goto, Cache!GetPc
  <2>. QED
    BY <2>1, GetPlace
<1>2. /\ a \in Threads /\ stage[a] = "lookup" /\ request[a] \in Request
      /\ key[a] = request[a].cookie /\ key[a] \in Cookies
  BY <1>1, GetPlace
<1>3. CASE Cache!GetAbsent(a)
  <2>1. answer[a] = Nil /\ answer' = [answer EXCEPT ![a] = Nil]
    BY <1>1, <1>2, <1>3
       DEF IInv, LookupInv, TypeOK, Cache!TypeOK, Cache!GetAbsent
  <2>. QED
    BY <1>1, <1>3, <2>1, GetReturns
       DEF Cache!GetAbsent, Cache!Return, Cache!Goto, Cache!iterator
<1>4. CASE Cache!GetCheck(a)
  <2> DEFINE x == IF item[a].expire > now THEN item[a].value ELSE Nil
  <2>1. item[a] # Nil /\ item[a] = sessions[key[a]] /\ item[a] \in Cache!LocalCacheObject
    BY <1>2, <1>4
       DEF IInv, LookupInv, TypeOK, Cache!TypeOK, Cache!GetCheck, Cache!Return, Cache!Goto
  <2>2. x \in SystemUser \union {Nil}
    BY <2>1 DEF Cache!LocalCacheObject
  <2>3. answer' = [answer EXCEPT ![a] = x]
    BY <1>4 DEF Cache!GetCheck
  <2> HIDE DEF x
  <2>4. x # Nil => sessions[key[a]] # Nil /\ x = sessions[key[a]].value
    BY <2>1 DEF x
  <2>. QED
    BY <1>1, <1>4, <2>2, <2>3, <2>4, GetReturns
       DEF Cache!GetCheck, Cache!Return, Cache!Goto, Cache!iterator
<1>5. CASE Cache!GetRead(a)
  <2> USE DEF IInv
  <2>1. /\ pc' = [pc EXCEPT ![a] = "get.check"] /\ item' = [item EXCEPT ![a] = map[key[a]]]
        /\ map[key[a]] # Nil
        /\ UNCHANGED <<now, map, readers, writer, queue, key, answer, todo, removed>>
    BY <1>5 DEF Cache!GetRead, Cache!Goto, Cache!lock, Cache!iterator
  <2>2. \A b \in Cache!Agents \ {a} : pc'[b] = pc[b] /\ item'[b] = item[b]
    BY <2>1 DEF TypeOK, Cache!TypeOK
  <2>3. pc'[a] = "get.check" /\ item'[a] = sessions[key[a]] /\ item'[a] # Nil
    BY <1>2, <2>1 DEF TypeOK, Cache!TypeOK, TokenInv
  <2>4. TypeOK'
    BY <1>2, <2>1 DEF TypeOK, Cache!TypeOK, webVars, history, Cache!GetPc
  <2>5. PlaceInv' /\ NumberInv'
    BY <1>2, <2>2, <2>3 DEF PlaceInv, NumberInv, webVars, Cache!SetPc, Cache!GetPc
  <2>6. TokenInv'
    BY <2>1, <2>2, <2>3 DEF TokenInv, webVars, history, Cache!SetPc
  <2>7. LookupInv'
    BY <1>1, <1>2, <2>1, <2>2, <2>3 DEF LookupInv, webVars, history, Cache!GetPc
  <2>8. SweeperInv'
    BY <1>1, <2>1, <2>2 DEF SweeperInv, history
  <2>9. UserInv' /\ LiveSessionIsKept'
    BY <2>1 DEF UserInv, LiveSessionIsKept, webVars, history
  <2>. QED
    BY <2>4, <2>5, <2>6, <2>7, <2>8, <2>9
<1>. QED
  BY <1>3, <1>4, <1>5

(* A thread does not delete; what the expire task deletes has expired. *)
LEMMA RemoveIInv ==
    ASSUME IInv, NEW a \in Cache!Agents, Cache!DeleteRemove(a),
           UNCHANGED <<webVars, history>>
    PROVE  IInv'
<1> USE NilIsNone DEF IInv
<1>1. a = Sweeper /\ pc[a] = "delete.remove"
  <2>1. pc[a] = "delete.remove"
    BY DEF Cache!DeleteRemove, Cache!Return, Cache!Goto
  <2>. QED
    BY <2>1 DEF PlaceInv, Cache!SetPc, Cache!GetPc, Cache!Agents
<1>2. key[a] \in Cookies /\ sessions[key[a]] # Nil /\ sessions[key[a]].expire < now
  BY <1>1 DEF SweeperInv, Cache!DeletePc
<1>3. /\ pc' = [pc EXCEPT ![a] = "sweep.next"]
      /\ key' = [key EXCEPT ![a] = Nil] /\ item' = [item EXCEPT ![a] = Nil]
      /\ map' = [map EXCEPT ![key[a]] = Nil] /\ todo' = todo \ {key[a]}
      /\ removed' = IF key[a] \in todo THEN [removed EXCEPT ![key[a]] = map[key[a]]]
                    ELSE removed
      /\ readers' = readers \ {a} /\ writer' = IF writer = a THEN Nil ELSE writer
      /\ UNCHANGED <<now, answer, queue>>
  BY <1>1 DEF Cache!DeleteRemove, Cache!Return, Cache!Goto, Cache!Unlock
<1>4. \A t \in Threads : pc'[t] = pc[t] /\ key'[t] = key[t] /\ item'[t] = item[t]
  BY <1>1, <1>3 DEF TypeOK, Cache!TypeOK
<1>5. pc'[a] = "sweep.next"
  BY <1>3 DEF TypeOK, Cache!TypeOK
<1>6. \A k \in Cookies : /\ map'[k] = IF k = key[a] THEN Nil ELSE map[k]
                         /\ removed'[k] \in {removed[k], map[k]}
                         /\ removed'[k] = map[k] => map[k] = Nil \/ map[k] = sessions[k]
  BY <1>2, <1>3 DEF TypeOK, Cache!TypeOK, TokenInv
<1>7. TypeOK'
  <2>1. map' \in [Cookies -> Cache!LocalCacheObject \union {Nil}]
    BY <1>3 DEF TypeOK, Cache!TypeOK
  <2>2. removed' \in [Cookies -> Cache!LocalCacheObject \union {Nil}]
    BY <1>2, <1>3 DEF TypeOK, Cache!TypeOK
  <2>3. pc' \in [Cache!Agents -> {"idle"} \union Cache!SetPc \union Cache!GetPc
                               \union Cache!DeletePc \union Cache!SweepPc]
    BY <1>3 DEF TypeOK, Cache!TypeOK, Cache!SweepPc
  <2>4. Cache!TypeOK'
    BY <1>3, <2>1, <2>2, <2>3 DEF TypeOK, Cache!TypeOK
  <2>. QED
    BY <2>4 DEF TypeOK, webVars, history
<1>8. PlaceInv' /\ NumberInv'
  BY <1>4 DEF PlaceInv, NumberInv, webVars
<1>9. TokenInv'
  BY <1>4, <1>6 DEF TokenInv, webVars, history
<1>10. LookupInv'
  BY <1>3, <1>4 DEF LookupInv, webVars, history
<1>11. SweeperInv'
  <2>1. \A k \in todo' : map'[k] # Nil
    BY <1>3, <1>6 DEF SweeperInv, TypeOK, Cache!TypeOK
  <2>2. \A k \in Cookies : removed'[k] # Nil => removed'[k] = sessions[k]
    BY <1>6 DEF SweeperInv
  <2>. QED
    BY <1>1, <1>5, <2>1, <2>2 DEF SweeperInv, history, Cache!SweepPc, Cache!DeletePc
<1>12. UserInv' /\ LiveSessionIsKept'
  <2>1. \A k \in Cookies : sessions[k] \in Cache!LocalCacheObject \union {Nil}
    BY DEF TypeOK
  <2>2. sessions[key[a]].expire \in Int /\ now \in Int
    BY <1>2, <2>1 DEF Cache!LocalCacheObject, TypeOK, Cache!TypeOK
  <2>. QED
    BY <1>2, <1>3, <1>6, <2>2 DEF UserInv, LiveSessionIsKept, webVars, history
<1>. QED
  BY <1>7, <1>8, <1>9, <1>10, <1>11, <1>12

LEMMA CacheStepIInv ==
    ASSUME IInv, NEW a \in Cache!Agents, CacheStep(a)
    PROVE  IInv'
<1>1. UNCHANGED <<webVars, barred>>
  BY DEF CacheStep
<1>2. CASE Cache!SetPut(a)
  BY <1>1, <1>2, PutIInv DEF CacheStep, Cache!SetPut, Cache!Return, Cache!Goto
<1>3. ASSUME Cache!Enqueue(a) \/ Cache!Acquire(a) \/ Cache!GetAbsent(a) \/ Cache!GetRead(a)
             \/ Cache!GetCheck(a) \/ Cache!DeleteRemove(a)
      PROVE  IInv'
  <2>1. pc[a] # "set.put"
    BY <1>3
       DEF Cache!Enqueue, Cache!Acquire, Cache!SetLock, Cache!GetLock, Cache!DeleteLock,
           Cache!GetAbsent, Cache!GetRead, Cache!GetCheck, Cache!DeleteRemove,
           Cache!Return, Cache!Goto
  <2>2. UNCHANGED <<webVars, history>>
    BY <1>1, <2>1 DEF CacheStep, history
  <2>. QED
    BY <1>3, <2>2, EnqueueIInv, AcquireIInv, GetIInv, RemoveIInv
<1>. QED
  BY <1>2, <1>3 DEF CacheStep, Cache!Proceed

-----------------------------------------------------------------------------
(* The expire task, the clock and the outside *)

LEMMA SweepIInv ==
    ASSUME IInv, Sweep
    PROVE  IInv'
<1> USE NilIsNone DEF IInv
<1>1. /\ UNCHANGED <<now, map, readers, writer, queue, answer, webVars, history>>
      /\ \A t \in Threads : pc'[t] = pc[t] /\ key'[t] = key[t] /\ item'[t] = item[t]
  BY DEF Sweep, Cache!Sweep, Cache!SweepBegin, Cache!SweepNext, Cache!SweepNextRemoved,
         Cache!Visit, Cache!SweepExpired, Cache!SweepKeep, Cache!SweepEnd, Cache!Return,
         Cache!Goto, Cache!lock, Cache!iterator, TypeOK, Cache!TypeOK
<1>2. TypeOK' /\ SweeperInv' => IInv'
  BY <1>1 DEF PlaceInv, NumberInv, TokenInv, LookupInv, UserInv, LiveSessionIsKept,
              webVars, history
<1> USE DEF Cache!SweepPc, Cache!DeletePc, Cache!Goto, Cache!Return, Cache!lock,
            Cache!iterator, TypeOK, Cache!TypeOK, webVars, history
<1>3. CASE Cache!SweepBegin
  BY <1>1, <1>2, <1>3 DEF Cache!SweepBegin, SweeperInv
<1>4. ASSUME NEW k \in Cookies, Cache!SweepNext(k) \/ Cache!SweepNextRemoved(k)
      PROVE  IInv'
  <2> DEFINE o == IF Cache!SweepNext(k) THEN map[k] ELSE removed[k]
  <2>1. o \in Cache!LocalCacheObject /\ o = sessions[k]
    BY <1>4 DEF Cache!SweepNext, Cache!SweepNextRemoved, SweeperInv, TokenInv
  <2>2. /\ Cache!Visit(k, o)
        /\ todo' \subseteq todo
        /\ removed' \in {removed, [removed EXCEPT ![k] = Nil]}
    BY <1>4 DEF Cache!SweepNext, Cache!SweepNextRemoved
  <2> HIDE DEF o
  <2>3. TypeOK'
    BY <1>1, <2>1, <2>2 DEF Cache!Visit
  <2>4. SweeperInv'
    BY <1>1, <2>1, <2>2 DEF Cache!Visit, SweeperInv
  <2>. QED
    BY <1>2, <2>3, <2>4
<1>5. CASE Cache!SweepExpired
  <2>1. sessions[key[Sweeper]].expire < now /\ key[Sweeper] \in Cookies
        /\ sessions[key[Sweeper]] # Nil
    BY <1>5 DEF Cache!SweepExpired, SweeperInv
  <2>. QED
    BY <1>1, <1>2, <1>5, <2>1 DEF Cache!SweepExpired, SweeperInv
<1>6. CASE Cache!SweepKeep
  BY <1>1, <1>2, <1>6 DEF Cache!SweepKeep, SweeperInv
<1>7. CASE Cache!SweepEnd
  BY <1>1, <1>2, <1>7 DEF Cache!SweepEnd, SweeperInv
<1>. QED
  BY <1>3, <1>4, <1>5, <1>6, <1>7 DEF Sweep, Cache!Sweep

LEMMA OutsideIInv ==
    ASSUME IInv, Schedule \/ Tick \/ (\E u \in Users, s \in Changes : SetStatus(u, s))
    PROVE  IInv'
<1> USE NilIsNone, SessionAssumption DEF IInv
<1>1. CASE Schedule
  BY <1>1 DEF Schedule, cacheVars, threadVars, history, TypeOK, Cache!TypeOK, PlaceInv,
              NumberInv, TokenInv, LookupInv, SweeperInv, UserInv, LiveSessionIsKept
<1>2. CASE Tick
  <2>1. /\ now \in Int /\ now' = now + 1
        /\ UNCHANGED <<map, readers, writer, queue, pc, key, item, answer, todo, removed,
                       webVars, history>>
    BY <1>2 DEF Tick, Cache!Tick, Cache!lock, Cache!iterator, TypeOK, Cache!TypeOK
  <2>2. \A k \in Cookies : sessions[k] # Nil => sessions[k].expire \in Int
    BY DEF TypeOK, Cache!LocalCacheObject
  <2>3. SweeperInv'
    BY <2>1, <2>2 DEF SweeperInv, history, Cache!DeletePc
  <2>4. LiveSessionIsKept'
    BY <2>1, <2>2 DEF LiveSessionIsKept, history
  <2>. QED
    BY <2>1, <2>3, <2>4 DEF webVars, history, TypeOK, Cache!TypeOK, PlaceInv, NumberInv,
                            TokenInv, LookupInv, UserInv
<1>3. ASSUME NEW u \in Users, NEW s \in Changes, SetStatus(u, s)
      PROVE  IInv'
  <2>1. accounts' \in [Users -> Statuses] /\ barred' \in [Threads -> SUBSET Users]
    BY <1>3 DEF SetStatus, TypeOK
  <2>. QED
    BY <1>3, <2>1 DEF SetStatus, cacheVars, threadVars, TypeOK, Cache!TypeOK, PlaceInv,
              NumberInv, TokenInv, LookupInv, SweeperInv, UserInv, LiveSessionIsKept
<1>. QED
  BY <1>1, <1>2, <1>3

-----------------------------------------------------------------------------
(* The requests *)

LEMMA ArrivingIsRequest ==
    ASSUME IInv, NEW r \in Arriving, requests < MaxRequests
    PROVE  r \in Request /\ r.number = requests + 1
<1>1. requests + 1 \in 1..MaxRequests
  BY NilIsNone DEF IInv, TypeOK
<1>. QED
  BY <1>1, NilIsNone DEF IInv, TypeOK, Arriving, Request

LEMMA AcceptIInv ==
    ASSUME IInv, NEW t \in Threads, NEW r \in Arriving, Accept(t, r)
    PROVE  IInv'
<1> USE NilIsNone, SessionAssumption
<1>1. /\ r \in Request /\ r.number = requests + 1 /\ requests + 1 \in 1..MaxRequests
      /\ requests' = requests + 1 /\ requests \in Nat
  <2>1. requests < MaxRequests /\ requests' = requests + 1
    BY DEF Accept
  <2>. QED
    BY <2>1, ArrivingIsRequest DEF IInv, TypeOK
<1>2. stage[t] = "idle" /\ ctx[t] = Nil /\ request[t] = Nil
  BY <1>1 DEF Accept, Dispatch, Show, Goto, Request, IInv, PlaceInv
<1>3. /\ ctx' = [ctx EXCEPT ![t] = [requestId |-> requests + 1, userInfo |-> Nil]]
      /\ request' = [request EXCEPT ![t] = r]
      /\ UNCHANGED <<cacheVars, loaded, token, scheduled, accounts, jar, sessions>>
      /\ barred' = [barred EXCEPT ![t] = {u \in Users : accounts[u] = "disable"}]
  BY <1>2 DEF Accept, InitContext, IInv, TypeOK
<1>4. \E to \in {"cookie", "query", "render"}, o \in Views :
         /\ stage' = [stage EXCEPT ![t] = to]
         /\ outcome' \in {outcome, [outcome EXCEPT ![t] = o]}
  BY <1>1 DEF Accept, Dispatch, Show, Goto, Request, Views
<1>5. PICK to \in {"cookie", "query", "render"} : stage' = [stage EXCEPT ![t] = to]
  BY <1>4
<1>6. /\ \A u \in Threads \ {t} : /\ stage'[u] = stage[u] /\ request'[u] = request[u]
                                  /\ ctx'[u] = ctx[u] /\ outcome'[u] = outcome[u]
      /\ stage'[t] = to /\ request'[t] = r
      /\ ctx'[t] = [requestId |-> requests + 1, userInfo |-> Nil]
  BY <1>3, <1>4, <1>5 DEF IInv, TypeOK
<1>7. ctx'[t] # Nil /\ r # Nil /\ ctx'[t].requestId = requests + 1 /\ ctx'[t].userInfo = Nil
      /\ ctx'[t] \in AuthContext
  BY <1>1, <1>6 DEF AuthContext
<1>8. TypeOK'
  <2>1. stage' \in [Threads -> {"idle", "cookie", "lookup", "query", "issue",
                               "store", "resolve", "render", "finally"}]
    BY <1>5 DEF IInv, TypeOK
  <2>2. outcome' \in [Threads -> Exceptions \union Views \union {Nil}]
    BY <1>4 DEF IInv, TypeOK
  <2>3. ctx' \in [Threads -> AuthContext \union {Nil}] /\ requests' \in 0..MaxRequests
    BY <1>1, <1>3, <1>6, <1>7 DEF IInv, TypeOK
  <2>4. request' \in [Threads -> Request \union {Nil}]
    BY <1>1, <1>3 DEF IInv, TypeOK
  <2>5. barred' \in [Threads -> SUBSET Users]
    BY <1>3 DEF IInv, TypeOK
  <2>. QED
    BY <1>3, <2>1, <2>2, <2>3, <2>4, <2>5 DEF IInv, TypeOK, Cache!TypeOK, cacheVars
<1>9. pc[t] = "idle" /\ pc' = pc
  BY <1>2, <1>3 DEF IInv, PlaceInv, cacheVars, Cache!SetPc, Cache!GetPc
<1>10. PlaceInv'
  BY <1>1, <1>3, <1>5, <1>6, <1>7, <1>9
     DEF IInv, PlaceInv, Cache!SetPc, Cache!GetPc
<1>11. NumberInv'
  <2>1. \A u \in Threads : stage[u] # "idle" => request[u].number \in Nat
    BY DEF IInv, TypeOK, PlaceInv, Request
  <2>. QED
    BY <1>1, <1>6, <2>1 DEF IInv, NumberInv
<1>12. TokenInv'
  <2>1. sessions[requests + 1] = Nil
    BY <1>1 DEF IInv, TokenInv, Cookies, Tokens
  <2>2. \A k \in Cookies : sessions[k] # Nil => k \in 1..requests'
    BY <1>1 DEF IInv, TokenInv
  <2>3. \A u \in Threads : stage'[u] \in {"query", "issue"} =>
           sessions[request'[u].number] = Nil
    BY <1>1, <1>6, <2>1 DEF IInv, TokenInv
  <2>4. \A u \in Threads : pc[u] \in Cache!SetPc =>
             /\ key[u] = request'[u].number /\ sessions[key[u]] = Nil
             /\ item[u] \in Cache!LocalCacheObject
    BY <1>6, <1>9 DEF IInv, TokenInv, Cache!SetPc
  <2>. QED
    BY <1>3, <2>2, <2>3, <2>4 DEF cacheVars, IInv, TokenInv
<1>13. LookupInv'
  BY <1>3, <1>6 DEF IInv, LookupInv, cacheVars
<1>14. UserInv'
  BY <1>3, <1>6, <1>7 DEF IInv, UserInv
<1>15. SweeperInv' /\ LiveSessionIsKept'
  BY <1>3 DEF IInv, SweeperInv, LiveSessionIsKept, cacheVars
<1>. QED
  BY <1>8, <1>10, <1>11, <1>12, <1>13, <1>14, <1>15 DEF IInv

(* A step of a request that neither calls the cache nor touches its contexts: *)
(* it goes on to a stage in which it is in no call and has no login at hand.  *)
LEMMA MoveIInv ==
    ASSUME IInv, NEW t \in Threads, pc[t] = "idle", stage[t] # "idle",
           NEW to \in {"issue", "resolve", "render", "finally"},
           stage' = [stage EXCEPT ![t] = to],
           to = "issue" => stage[t] = "query" /\ loaded'[t] # Nil,
           to = "resolve" => outcome'[t] \in Exceptions,
           outcome' \in [Threads -> Exceptions \union Views \union {Nil}],
           loaded' \in [Threads -> SystemUser \union {Nil}],
           \A u \in Threads \ {t} : outcome'[u] = outcome[u] /\ loaded'[u] = loaded[u],
           jar' \subseteq Tokens,
           UNCHANGED <<cacheVars, request, ctx, token, requests, scheduled, accounts, history>>
    PROVE  IInv'
<1> USE NilIsNone DEF IInv
<1>1. stage'[t] = to /\ \A u \in Threads \ {t} : stage'[u] = stage[u]
  BY DEF TypeOK
<1>2. TypeOK'
  <2>1. stage' \in [Threads -> {"idle", "cookie", "lookup", "query", "issue",
                               "store", "resolve", "render", "finally"}]
    BY DEF TypeOK
  <2>. QED
    BY <2>1 DEF TypeOK, Cache!TypeOK, cacheVars, history
<1>3. PlaceInv'
  BY <1>1 DEF PlaceInv, cacheVars, Cache!SetPc, Cache!GetPc
<1>4. NumberInv' /\ UserInv'
  BY <1>1 DEF NumberInv, UserInv, history
<1>5. TokenInv' /\ LookupInv'
  BY <1>1 DEF TokenInv, LookupInv, cacheVars, history
<1>6. SweeperInv' /\ LiveSessionIsKept'
  BY DEF SweeperInv, LiveSessionIsKept, cacheVars, history
<1>. QED
  BY <1>2, <1>3, <1>4, <1>5, <1>6

(* Outside a lookup and the storing of a session a thread is in no call. *)
LEMMA NoCall ==
    ASSUME IInv, NEW t \in Threads, stage[t] \notin {"lookup", "store"}
    PROVE  pc[t] = "idle"
BY DEF IInv, PlaceInv

(* The interceptor: the cookie is missing, looked up, or answered. *)
LEMMA CookieIInv ==
    ASSUME IInv, NEW t \in Threads, CookieMissing(t) \/ CookieLookup(t)
    PROVE  IInv'
<1> USE NilIsNone
<1>1. stage[t] = "cookie" /\ pc[t] = "idle"
  BY NoCall DEF CookieMissing, CookieLookup, Throw, Goto
<1>2. CASE CookieMissing(t)
  <2>1. outcome' = [outcome EXCEPT ![t] = "NotLoginException"]
    BY <1>2 DEF CookieMissing, Throw
  <2>2. /\ outcome' \in [Threads -> Exceptions \union Views \union {Nil}]
        /\ outcome'[t] \in Exceptions
        /\ \A u \in Threads \ {t} : outcome'[u] = outcome[u]
    BY <2>1 DEF IInv, TypeOK, Exceptions
  <2>3. loaded' = loaded /\ jar' = jar /\ loaded \in [Threads -> SystemUser \union {Nil}]
        /\ jar \subseteq Tokens
    BY <1>2 DEF CookieMissing, IInv, TypeOK
  <2>. QED
    BY <1>1, <1>2, <2>2, <2>3, MoveIInv DEF CookieMissing, Throw, Goto
<1>3. CASE CookieLookup(t)
  <2> USE DEF IInv
  <2>1. /\ request[t] \in Request /\ request[t].cookie \in Cookies
        /\ stage' = [stage EXCEPT ![t] = "lookup"]
        /\ pc' = [pc EXCEPT ![t] = "get.lock"] /\ key' = [key EXCEPT ![t] = request[t].cookie]
        /\ answer' = [answer EXCEPT ![t] = Nil]
        /\ UNCHANGED <<now, map, readers, writer, queue, item, todo, removed, request, ctx,
                       outcome, loaded, token, requests, scheduled, accounts, jar, history>>
    <3>1. request[t] \in Request
      BY <1>1 DEF PlaceInv, TypeOK
    <3>. QED
      BY <1>3, <3>1 DEF CookieLookup, Goto, Cache!GetCall, Cache!Goto, Cache!lock,
                        Cache!iterator, Request
  <2>2. /\ stage'[t] = "lookup" /\ pc'[t] = "get.lock" /\ key'[t] = request[t].cookie
        /\ answer'[t] = Nil
        /\ \A u \in Threads \ {t} : stage'[u] = stage[u] /\ answer'[u] = answer[u]
        /\ \A a \in Cache!Agents \ {t} : pc'[a] = pc[a] /\ key'[a] = key[a]
    BY <2>1 DEF TypeOK, Cache!TypeOK
  <2>3. TypeOK'
    <3>1. Cache!TypeOK'
      BY <2>1 DEF TypeOK, Cache!TypeOK, Cache!GetPc
    <3>. QED
      BY <2>1, <3>1 DEF TypeOK, history
  <2>4. PlaceInv'
    BY <1>1, <2>1, <2>2 DEF PlaceInv, Cache!SetPc, Cache!GetPc
  <2>5. NumberInv' /\ UserInv'
    BY <1>1, <2>1, <2>2 DEF NumberInv, UserInv, history
  <2>6. TokenInv'
    BY <2>1, <2>2 DEF TokenInv, history, Cache!SetPc
  <2>7. LookupInv'
    BY <2>1, <2>2 DEF LookupInv, history, Cache!GetPc
  <2>8. SweeperInv' /\ LiveSessionIsKept'
    BY <2>1, <2>2 DEF SweeperInv, LiveSessionIsKept, history
  <2>. QED
    BY <2>3, <2>4, <2>5, <2>6, <2>7, <2>8
<1>. QED
  BY <1>2, <1>3

LEMMA AuthenticateIInv ==
    ASSUME IInv, NEW t \in Threads, Authenticate(t)
    PROVE  IInv'
<1> USE NilIsNone
<1>1. /\ stage[t] = "lookup" /\ pc[t] = "idle"
      /\ UNCHANGED <<cacheVars, request, loaded, token, requests, scheduled,
                     accounts, jar, history>>
  BY DEF Authenticate
<1>2. /\ loaded \in [Threads -> SystemUser \union {Nil}] /\ jar \subseteq Tokens
      /\ outcome \in [Threads -> Exceptions \union Views \union {Nil}]
  BY DEF IInv, TypeOK
<1>3. CASE UNCHANGED ctx
  <2>1. \/ /\ stage' = [stage EXCEPT ![t] = "resolve"]
           /\ \E e \in Exceptions : outcome' = [outcome EXCEPT ![t] = e]
        \/ /\ stage' = [stage EXCEPT ![t] = "render"]
           /\ outcome' = [outcome EXCEPT ![t] = "index"]
    BY DEF Authenticate, Throw, Show, Goto, Exceptions
  <2>2. /\ outcome' \in [Threads -> Exceptions \union Views \union {Nil}]
        /\ \A u \in Threads \ {t} : outcome'[u] = outcome[u]
        /\ stage' = [stage EXCEPT ![t] = "resolve"] => outcome'[t] \in Exceptions
    <3>1. CASE stage' = [stage EXCEPT ![t] = "render"]
      <4>1. stage'[t] # "resolve"
        BY <3>1 DEF IInv, TypeOK
      <4>2. outcome' = [outcome EXCEPT ![t] = "index"] \/
            \E e \in Exceptions : outcome' = [outcome EXCEPT ![t] = e]
        BY <2>1
      <4>3. [stage EXCEPT ![t] = "resolve"][t] = "resolve"
        BY DEF IInv, TypeOK
      <4>. QED
        BY <1>2, <4>1, <4>2, <4>3 DEF Views
    <3>2. CASE stage' # [stage EXCEPT ![t] = "render"]
      BY <1>2, <2>1, <3>2
    <3>. QED
      BY <3>1, <3>2
  <2>. QED
    BY <1>1, <1>2, <1>3, <2>1, <2>2, MoveIInv
<1>4. CASE ~ UNCHANGED ctx
  <2> USE DEF IInv
  <2>1. /\ answer[t] # Nil
        /\ stage' = [stage EXCEPT ![t] = "render"]
        /\ outcome' = [outcome EXCEPT ![t] = "index"]
        /\ ctx' = [ctx EXCEPT ![t].userInfo = answer[t]]
    BY <1>4 DEF Authenticate, Show, Goto
  <2>2. /\ answer[t] \in SystemUser /\ ctx[t] \in AuthContext /\ ctx[t] # Nil
    BY <1>1, <2>1 DEF TypeOK, Cache!TypeOK, PlaceInv
  <2>3. /\ ctx'[t] \in AuthContext /\ ctx'[t] # Nil /\ ctx'[t].userInfo = answer[t]
        /\ ctx'[t].requestId = ctx[t].requestId
        /\ ctx' = [ctx EXCEPT ![t] = ctx'[t]]
    BY <2>1, <2>2 DEF AuthContext, TypeOK
  <2>4. /\ stage'[t] = "render"
        /\ \A u \in Threads \ {t} : /\ stage'[u] = stage[u] /\ ctx'[u] = ctx[u]
                                   /\ outcome'[u] = outcome[u]
    BY <2>1, <2>3 DEF TypeOK
  <2>5. TypeOK'
    <3>1. outcome' \in [Threads -> Exceptions \union Views \union {Nil}]
      BY <1>2, <2>1 DEF Views
    <3>2. ctx' \in [Threads -> AuthContext \union {Nil}]
      BY <2>3 DEF TypeOK
    <3>3. stage' \in [Threads -> {"idle", "cookie", "lookup", "query", "issue",
                                 "store", "resolve", "render", "finally"}]
      BY <2>1 DEF TypeOK
    <3>. QED
      BY <1>1, <3>1, <3>2, <3>3 DEF TypeOK, Cache!TypeOK, cacheVars, history
  <2>6. PlaceInv'
    BY <1>1, <2>3, <2>4 DEF PlaceInv, cacheVars, Cache!SetPc, Cache!GetPc
  <2>7. NumberInv'
    BY <1>1, <2>4 DEF NumberInv
  <2>8. TokenInv' /\ LookupInv'
    BY <1>1, <2>4 DEF TokenInv, LookupInv, cacheVars, history
  <2>9. UserInv'
    BY <1>1, <2>1, <2>3, <2>4 DEF UserInv, LookupInv, history
  <2>10. SweeperInv' /\ LiveSessionIsKept'
    BY <1>1 DEF SweeperInv, LiveSessionIsKept, cacheVars, history
  <2>. QED
    BY <2>5, <2>6, <2>7, <2>8, <2>9, <2>10
<1>. QED
  BY <1>3, <1>4

(* The login: the account is queried, the session stored. *)
LEMMA QueryIInv ==
    ASSUME IInv, NEW t \in Threads, QueryAccount(t) \/ QueryFails(t)
    PROVE  IInv'
<1> USE NilIsNone
<1>1. stage[t] = "query" /\ pc[t] = "idle"
  BY NoCall DEF QueryAccount, QueryFails, Throw, Goto
<1>2. /\ loaded \in [Threads -> SystemUser \union {Nil}] /\ jar \subseteq Tokens
      /\ outcome \in [Threads -> Exceptions \union Views \union {Nil}]
      /\ request[t] \in Request /\ accounts \in [Users -> Statuses]
  BY <1>1 DEF IInv, TypeOK, PlaceInv
<1>3. CASE QueryFails(t)
  <2>1. /\ outcome' = [outcome EXCEPT ![t] = "Exception"]
        /\ stage' = [stage EXCEPT ![t] = "resolve"]
        /\ UNCHANGED <<cacheVars, request, ctx, loaded, token, requests, scheduled,
                       accounts, jar, history>>
    BY <1>3 DEF QueryFails, Throw, Goto
  <2>2. /\ outcome' \in [Threads -> Exceptions \union Views \union {Nil}]
        /\ outcome'[t] \in Exceptions
        /\ \A u \in Threads \ {t} : outcome'[u] = outcome[u]
    BY <1>2, <2>1 DEF Exceptions
  <2>. QED
    BY <1>1, <1>2, <2>1, <2>2, MoveIInv
<1>4. CASE QueryAccount(t)
  <2>1. /\ UNCHANGED <<cacheVars, request, ctx, token, requests, scheduled,
                       accounts, jar, history>>
        /\ \/ /\ stage' = [stage EXCEPT ![t] = "render"]
              /\ outcome' = [outcome EXCEPT ![t] = "login failed"]
              /\ loaded' = loaded
           \/ /\ stage' = [stage EXCEPT ![t] = "issue"]
              /\ outcome' = outcome
              /\ request[t].login # Nil
              /\ loaded' = [loaded EXCEPT ![t] = [user |-> request[t].login,
                                                 status |-> accounts[request[t].login]]]
    BY <1>4 DEF QueryAccount, Show, Goto
  <2>2. CASE loaded' = loaded /\ stage' = [stage EXCEPT ![t] = "render"]
    <3>1. /\ outcome' \in [Threads -> Exceptions \union Views \union {Nil}]
          /\ \A u \in Threads \ {t} : outcome'[u] = outcome[u]
      BY <1>2, <2>1 DEF Views
    <3>. QED
      BY <1>1, <1>2, <2>1, <2>2, <3>1, MoveIInv
  <2>3. CASE ~(loaded' = loaded /\ stage' = [stage EXCEPT ![t] = "render"])
    <3> DEFINE account == [user |-> request[t].login,
                           status |-> accounts[request[t].login]]
    <3>1. /\ stage' = [stage EXCEPT ![t] = "issue"] /\ outcome' = outcome
          /\ request[t].login # Nil /\ loaded' = [loaded EXCEPT ![t] = account]
      BY <2>1, <2>3
    <3>2. account \in SystemUser
      BY <1>2, <3>1 DEF Request, SystemUser
    <3> HIDE DEF account
    <3>3. /\ loaded' \in [Threads -> SystemUser \union {Nil}] /\ loaded'[t] # Nil
          /\ \A u \in Threads \ {t} : loaded'[u] = loaded[u]
      BY <1>2, <3>1, <3>2
    <3>. QED
      BY <1>1, <1>2, <2>1, <3>1, <3>3, MoveIInv
  <2>. QED
    BY <2>2, <2>3
<1>. QED
  BY <1>3, <1>4

LEMMA IssueIInv ==
    ASSUME IInv, NEW t \in Threads, IssueToken(t)
    PROVE  IInv'
<1> USE NilIsNone, SessionAssumption
<1>1. stage[t] = "issue" /\ pc[t] = "idle" /\ loaded[t] \in SystemUser
      /\ request[t] \in Request /\ request[t].number \in Tokens
      /\ sessions[request[t].number] = Nil
  <2>1. stage[t] = "issue" /\ pc[t] = "idle"
    BY NoCall DEF IssueToken, Goto
  <2>2. loaded[t] \in SystemUser /\ request[t] \in Request
    BY <2>1 DEF IInv, TypeOK, PlaceInv
  <2>. QED
    BY <2>1, <2>2 DEF IInv, TokenInv, Request, Tokens
<1> DEFINE n == request[t].number
           o == [value |-> loaded[t], expire |-> Cache!ExpireOf(LoginExpire)]
<1>2. /\ stage' = [stage EXCEPT ![t] = "store"] /\ token' = [token EXCEPT ![t] = n]
      /\ pc' = [pc EXCEPT ![t] = "set.lock"] /\ key' = [key EXCEPT ![t] = n]
      /\ item' = [item EXCEPT ![t] = o] /\ loaded' = [loaded EXCEPT ![t] = Nil]
      /\ UNCHANGED <<now, map, readers, writer, queue, answer, todo, removed, request, ctx,
                     outcome, requests, scheduled, accounts, jar, history>>
  BY DEF IssueToken, Goto, Cache!SetCall, Cache!Goto, Cache!lock, Cache!iterator
<1>3. o \in Cache!LocalCacheObject
  BY <1>1 DEF Cache!ExpireOf, Cache!LocalCacheObject, IInv, TypeOK, Cache!TypeOK
<1>4. n \in Tokens /\ n \in Cookies /\ sessions[n] = Nil
  BY <1>1
<1> HIDE DEF o, n
<1> USE DEF IInv
<1>5. /\ stage'[t] = "store" /\ pc'[t] = "set.lock" /\ key'[t] = n /\ item'[t] = o
      /\ \A u \in Threads \ {t} : stage'[u] = stage[u] /\ loaded'[u] = loaded[u]
      /\ \A a \in Cache!Agents \ {t} :
            pc'[a] = pc[a] /\ key'[a] = key[a] /\ item'[a] = item[a]
  BY <1>2 DEF TypeOK, Cache!TypeOK
<1>6. TypeOK'
  <2>1. Cache!TypeOK'
    BY <1>2, <1>3, <1>4 DEF TypeOK, Cache!TypeOK, Cache!SetPc
  <2>2. token' \in [Threads -> Tokens \union {Nil}]
    BY <1>2, <1>4 DEF TypeOK
  <2>. QED
    BY <1>2, <2>1, <2>2 DEF TypeOK, history
<1>7. PlaceInv'
  BY <1>1, <1>2, <1>5 DEF PlaceInv, Cache!SetPc, Cache!GetPc
<1>8. NumberInv' /\ UserInv'
  BY <1>1, <1>2, <1>5 DEF NumberInv, UserInv, history
<1>9. TokenInv'
  BY <1>2, <1>3, <1>4, <1>5 DEF TokenInv, history, n
<1>10. LookupInv'
  BY <1>2, <1>5 DEF LookupInv, history
<1>11. SweeperInv' /\ LiveSessionIsKept'
  BY <1>2, <1>5 DEF SweeperInv, LiveSessionIsKept, history
<1>. QED
  BY <1>6, <1>7, <1>8, <1>9, <1>10, <1>11

(* The answer of the request: its view is chosen and rendered. *)
LEMMA ViewIInv ==
    ASSUME IInv, NEW t \in Threads,
           LoggedIn(t) \/ Resolve(t) \/ Render(t) \/ RenderFails(t)
    PROVE  IInv'
<1> USE NilIsNone
<1>1. /\ loaded \in [Threads -> SystemUser \union {Nil}] /\ jar \subseteq Tokens
      /\ outcome \in [Threads -> Exceptions \union Views \union {Nil}]
      /\ token \in [Threads -> Tokens \union {Nil}]
  BY DEF IInv, TypeOK
<1>2. pc[t] = "idle" /\ stage[t] # "idle"
  BY NoCall DEF LoggedIn, Resolve, Render, RenderFails, Show, Goto
<1>3. CASE LoggedIn(t) \/ Resolve(t)
  <2>1. PICK v \in Views : outcome' = [outcome EXCEPT ![t] = v]
    BY <1>3 DEF LoggedIn, Resolve, Show, ErrorPage, Views
  <2>2. /\ outcome' \in [Threads -> Exceptions \union Views \union {Nil}]
        /\ \A u \in Threads \ {t} : outcome'[u] = outcome[u]
    BY <1>1, <2>1
  <2>. QED
    BY <1>1, <1>2, <1>3, <2>2, MoveIInv DEF LoggedIn, Resolve, Show, Goto
<1>4. CASE Render(t)
  <2>1. jar' \subseteq Tokens
    BY <1>1, <1>4 DEF Render
  <2>. QED
    BY <1>1, <1>2, <1>4, <2>1, MoveIInv DEF Render, Goto
<1>5. CASE RenderFails(t)
  <2>1. outcome' = [outcome EXCEPT ![t] = "Exception"]
    BY <1>5 DEF RenderFails
  <2>2. /\ outcome' \in [Threads -> Exceptions \union Views \union {Nil}]
        /\ \A u \in Threads \ {t} : outcome'[u] = outcome[u]
    BY <1>1, <2>1 DEF Exceptions
  <2>. QED
    BY <1>1, <1>2, <1>5, <2>2, MoveIInv DEF RenderFails, Goto
<1>. QED
  BY <1>3, <1>4, <1>5

LEMMA FinishIInv ==
    ASSUME IInv, NEW t \in Threads, Finish(t)
    PROVE  IInv'
<1> USE NilIsNone DEF IInv
<1>1. stage[t] = "finally" /\ pc[t] = "idle"
  BY NoCall DEF Finish, Goto
<1>2. /\ stage' = [stage EXCEPT ![t] = "idle"] /\ ctx' = [ctx EXCEPT ![t] = Nil]
      /\ request' = [request EXCEPT ![t] = Nil] /\ outcome' = [outcome EXCEPT ![t] = Nil]
      /\ token' = [token EXCEPT ![t] = Nil] /\ barred' = [barred EXCEPT ![t] = {}]
      /\ UNCHANGED <<cacheVars, loaded, requests, scheduled, accounts, jar, sessions>>
  BY DEF Finish, Goto
<1>3. /\ stage'[t] = "idle" /\ ctx'[t] = Nil /\ request'[t] = Nil
      /\ \A u \in Threads \ {t} : /\ stage'[u] = stage[u] /\ ctx'[u] = ctx[u]
                                 /\ request'[u] = request[u] /\ outcome'[u] = outcome[u]
  BY <1>2 DEF TypeOK
<1>4. TypeOK'
  <2>1. stage' \in [Threads -> {"idle", "cookie", "lookup", "query", "issue",
                               "store", "resolve", "render", "finally"}]
    BY <1>2 DEF TypeOK
  <2>2. barred' \in [Threads -> SUBSET Users]
    BY <1>2 DEF TypeOK
  <2>. QED
    BY <1>2, <2>1, <2>2 DEF TypeOK, Cache!TypeOK, cacheVars
<1>5. PlaceInv'
  BY <1>1, <1>2, <1>3 DEF PlaceInv, cacheVars, Cache!SetPc, Cache!GetPc
<1>6. NumberInv' /\ UserInv'
  BY <1>2, <1>3 DEF NumberInv, UserInv
<1>7. TokenInv' /\ LookupInv'
  BY <1>1, <1>2, <1>3 DEF TokenInv, LookupInv, cacheVars, Cache!SetPc
<1>8. SweeperInv' /\ LiveSessionIsKept'
  BY <1>2 DEF SweeperInv, LiveSessionIsKept, cacheVars
<1>. QED
  BY <1>4, <1>5, <1>6, <1>7, <1>8

LEMMA ServeIInv ==
    ASSUME IInv, NEW t \in Threads, Serve(t)
    PROVE  IInv'
BY CookieIInv, AuthenticateIInv, QueryIInv, IssueIInv, ViewIInv, FinishIInv DEF Serve

LEMMA NextIInv == IInv /\ [Next]_vars => IInv'
<1>1. ASSUME IInv, UNCHANGED vars
      PROVE  IInv'
  BY <1>1 DEF vars, cacheVars, webVars, history, IInv, TypeOK, Cache!TypeOK, PlaceInv,
              NumberInv, TokenInv, LookupInv, SweeperInv, UserInv, LiveSessionIsKept
<1>. QED
  BY <1>1, AcceptIInv, ServeIInv, CacheStepIInv, SweepIInv, OutsideIInv DEF Next

(* The invariant is inductive. *)
THEOREM Invariance == Spec => []IInv
BY InitIInv, NextIInv, PTL DEF Spec

(* Every variable keeps its type; in particular every exception ends in a view. *)
THEOREM TypeCorrect == Spec => []TypeOK
<1>1. IInv => TypeOK
  BY DEF IInv
<1>. QED
  BY Invariance, <1>1, PTL

(* The context of a request carries its own number and the user of its own *)
(* cookie's session, on any number of threads that serve any requests.     *)
THEOREM ContextsAreOwn == Spec => []ContextIsOwn
<1>1. IInv => ContextIsOwn
  <2> SUFFICES ASSUME IInv
               PROVE  ContextIsOwn
    OBVIOUS
  <2>1. \A k \in Cookies : sessions[k] # Nil => k \in Tokens
    BY NilIsNone DEF IInv, TypeOK, TokenInv, Tokens
  <2>. QED
    BY <2>1 DEF IInv, PlaceInv, UserInv, ContextIsOwn
<1>. QED
  BY Invariance, <1>1, PTL

(* No session leaves the cache before its date has passed. *)
THEOREM LiveSessionsAreKept == Spec => []LiveSessionIsKept
<1>1. IInv => LiveSessionIsKept
  BY DEF IInv
<1>. QED
  BY Invariance, <1>1, PTL

-----------------------------------------------------------------------------
(* The store of sessions *)

LEMMA InitStore == Init => Store!Init
<1> SUFFICES ASSUME Init
             PROVE  Store!Init
  OBVIOUS
<1>1. \A t \in Threads : Asked(t) = Nil
  BY NilIsNone DEF Init, Cache!Init, Asked, Cache!GetPc
<1>. QED
  BY <1>1 DEF Init, Cache!Init, Store!Init

(* Steps in which no session is stored, nothing is asked and nothing answered. *)
LEMMA StutterStore ==
    ASSUME UNCHANGED <<now, sessions, answer>>,
           \A t \in Threads : Asked(t)' = Asked(t)
    PROVE  UNCHANGED Store!vars
BY DEF Store!vars

(* Until its date a session is in the map, so that a lookup of the map tells *)
(* whose session the store holds.                                            *)
LEMMA MapTells ==
    ASSUME IInv, NEW k \in Cookies
    PROVE  Store!Owner(k) = IF map[k] # Nil /\ map[k].expire > now THEN map[k].value ELSE Nil
<1> USE NilIsNone
<1>1. map[k] # Nil => map[k] = sessions[k]
  BY DEF IInv, TokenInv
<1>2. sessions[k] # Nil => k \in Tokens
  BY DEF IInv, TypeOK, TokenInv, Tokens
<1>3. sessions[k] # Nil => sessions[k].expire \in Int /\ now \in Int
  BY DEF IInv, TypeOK, Cache!TypeOK, Cache!LocalCacheObject
<1>4. sessions[k] # Nil /\ sessions[k].expire > now => map[k] = sessions[k]
  BY <1>2, <1>3 DEF IInv, LiveSessionIsKept
<1>. QED
  BY <1>1, <1>4 DEF Store!Owner

LEMMA CacheStepStore ==
    ASSUME IInv, NEW a \in Cache!Agents, CacheStep(a)
    PROVE  [Store!Next]_(Store!vars)
<1> USE NilIsNone
<1>1. CASE Cache!SetPut(a)
  <2>1. pc[a] = "set.put"
    BY <1>1 DEF Cache!SetPut, Cache!Return, Cache!Goto
  <2>2. /\ a \in Threads /\ key[a] \in Cookies /\ sessions[key[a]] = Nil
        /\ item[a] \in Cache!LocalCacheObject
    <3>1. a \in Threads
      BY <2>1 DEF IInv, SweeperInv, Cache!SweepPc, Cache!DeletePc, Cache!Agents
    <3>2. stage[a] = "store" /\ request[a] \in Request
      BY <2>1, <3>1 DEF IInv, PlaceInv, TypeOK, Cache!SetPc
    <3>. QED
      BY <2>1, <3>1, <3>2 DEF IInv, TokenInv, Cache!SetPc, Request, Tokens
  <2>3. /\ sessions' = [sessions EXCEPT ![key[a]] = item[a]]
        /\ UNCHANGED <<now, answer>>
        /\ pc' = [pc EXCEPT ![a] = "idle"]
    BY <1>1, <2>1, <2>2 DEF CacheStep, Cache!SetPut, Cache!Return, Cache!Goto
  <2>4. \A t \in Threads : Asked(t)' = Asked(t)
    <3>1. \A t \in Threads \ {a} : pc'[t] = pc[t] /\ key'[t] = key[t]
      BY <1>1 DEF Cache!SetPut, Cache!Return, Cache!Goto, IInv, TypeOK, Cache!TypeOK
    <3>2. pc'[a] \notin Cache!GetPc /\ pc[a] \notin Cache!GetPc
      BY <2>1, <2>3 DEF Cache!GetPc, IInv, TypeOK, Cache!TypeOK
    <3>. QED
      BY <3>1, <3>2 DEF Asked
  <2>5. sessions'[key[a]] = item[a]
    BY <2>2, <2>3 DEF IInv, TypeOK
  <2>6. Store!Open(key[a])
    BY <2>2, <2>3, <2>4, <2>5 DEF Store!Open, Store!Session, Cache!LocalCacheObject
  <2>. QED
    BY <2>2, <2>6 DEF Store!Next
<1>2. ASSUME Cache!GetAbsent(a) \/ Cache!GetCheck(a)
      PROVE  [Store!Next]_(Store!vars)
  <2>1. pc[a] \in Cache!GetPc /\ pc[a] # "set.put"
    BY <1>2 DEF Cache!GetAbsent, Cache!GetCheck, Cache!Return, Cache!Goto, Cache!GetPc
  <2>2. /\ a \in Threads /\ stage[a] = "lookup" /\ request[a] \in Request
        /\ key[a] = request[a].cookie /\ key[a] \in Cookies
    BY <2>1, GetPlace
  <2>3. /\ pc' = [pc EXCEPT ![a] = "idle"] /\ UNCHANGED <<now, sessions>>
        /\ \A t \in Threads \ {a} : key'[t] = key[t]
    BY <1>2, <2>1, <2>2
       DEF Cache!GetAbsent, Cache!GetCheck, Cache!Return, Cache!Goto, CacheStep,
           IInv, TypeOK, Cache!TypeOK
  <2>4. [t \in Threads |-> Asked(t)]' = [[t \in Threads |-> Asked(t)] EXCEPT ![a] = Nil]
    <3>1. \A t \in Threads : pc'[t] = IF t = a THEN "idle" ELSE pc[t]
      BY <2>2, <2>3 DEF IInv, TypeOK, Cache!TypeOK
    <3>2. \A t \in Threads : Asked(t)' = IF t = a THEN Nil ELSE Asked(t)
      BY <2>3, <3>1 DEF Asked, Cache!GetPc
    <3>. QED
      BY <2>2, <3>2
  <2>5. Asked(a) = key[a] /\ Asked(a) # Nil
    BY <2>1, <2>2 DEF Asked
  <2>6. answer' = [answer EXCEPT ![a] = Store!Owner(key[a])]
    <3>1. CASE Cache!GetAbsent(a)
      <4>1. answer[a] = Nil /\ answer' = answer /\ map[key[a]] = Nil
        BY <2>1, <2>2, <3>1 DEF Cache!GetAbsent, IInv, LookupInv
      <4>. QED
        BY <2>2, <4>1, MapTells DEF IInv, TypeOK, Cache!TypeOK
    <3>2. CASE Cache!GetCheck(a)
      <4>1. /\ item[a] # Nil /\ item[a] = sessions[key[a]]
            /\ answer' = [answer EXCEPT ![a] =
                             IF item[a].expire > now THEN item[a].value ELSE Nil]
        BY <2>2, <3>2 DEF Cache!GetCheck, Cache!Return, Cache!Goto, IInv, LookupInv
      <4>. QED
        BY <4>1 DEF Store!Owner
    <3>. QED
      BY <1>2, <3>1, <3>2
  <2>7. Store!Answer(a)
    BY <2>2, <2>3, <2>4, <2>5, <2>6 DEF Store!Answer
  <2>. QED
    BY <2>2, <2>7 DEF Store!Next
<1>3. ASSUME Cache!Enqueue(a) \/ Cache!Acquire(a) \/ Cache!GetRead(a) \/ Cache!DeleteRemove(a)
      PROVE  UNCHANGED Store!vars
  <2> USE DEF Cache!Enqueue, Cache!Acquire, Cache!SetLock, Cache!GetLock, Cache!DeleteLock,
              Cache!GetRead, Cache!DeleteRemove, Cache!Return, Cache!Goto, Cache!lock,
              Cache!iterator
  <2>1. UNCHANGED <<now, sessions, answer>>
    BY <1>3 DEF CacheStep
  <2>2. ASSUME NEW t \in Threads
        PROVE  Asked(t)' = Asked(t)
    <3>1. t \in Cache!Agents
      OBVIOUS
    <3>2. CASE Cache!DeleteRemove(a)
      <4>1. a # t
        BY <3>2 DEF IInv, PlaceInv, Cache!SetPc, Cache!GetPc
      <4>. QED
        BY <3>1, <3>2, <4>1 DEF Asked, IInv, TypeOK, Cache!TypeOK
    <3>3. CASE ~Cache!DeleteRemove(a)
      BY <1>3, <3>1, <3>3 DEF Asked, IInv, TypeOK, Cache!TypeOK, Cache!GetPc
    <3>. QED
      BY <3>2, <3>3
  <2>. QED
    BY <2>1, <2>2, StutterStore
<1>. QED
  BY <1>1, <1>2, <1>3 DEF CacheStep, Cache!Proceed

LEMMA ServeStore ==
    ASSUME IInv, NEW t \in Threads, Serve(t)
    PROVE  [Store!Next]_(Store!vars)
<1> USE NilIsNone
<1>1. CASE CookieLookup(t)
  <2>1. stage[t] = "cookie" /\ pc[t] = "idle"
    BY <1>1, NoCall DEF CookieLookup, Goto
  <2>2. request[t].cookie \in Cookies
    BY <1>1, <2>1 DEF CookieLookup, IInv, PlaceInv, TypeOK, Request
  <2>3. /\ pc' = [pc EXCEPT ![t] = "get.lock"] /\ key' = [key EXCEPT ![t] = request[t].cookie]
        /\ answer' = [answer EXCEPT ![t] = Nil] /\ UNCHANGED <<now, sessions>>
    BY <1>1 DEF CookieLookup, Cache!GetCall, Cache!Goto, history
  <2>4. \A u \in Threads : /\ pc'[u] = IF u = t THEN "get.lock" ELSE pc[u]
                           /\ key'[u] = IF u = t THEN request[t].cookie ELSE key[u]
    BY <2>3 DEF IInv, TypeOK, Cache!TypeOK
  <2>5. \A u \in Threads : Asked(u)' = IF u = t THEN request[t].cookie ELSE Asked(u)
    BY <2>4 DEF Asked, Cache!GetPc
  <2>6. Asked(t) = Nil
    BY <2>1 DEF Asked, Cache!GetPc
  <2>7. [u \in Threads |-> Asked(u)]'
           = [[u \in Threads |-> Asked(u)] EXCEPT ![t] = request[t].cookie]
    BY <2>5
  <2>8. Store!Ask(t, request[t].cookie)
    BY <2>3, <2>6, <2>7 DEF Store!Ask
  <2>. QED
    BY <2>2, <2>8 DEF Store!Next
<1>2. CASE IssueToken(t)
  <2>1. pc[t] = "idle" /\ UNCHANGED <<now, sessions, answer>>
    BY <1>2, NoCall DEF IssueToken, Goto, Cache!SetCall, history
  <2>2. \A u \in Threads : /\ pc'[u] = IF u = t THEN "set.lock" ELSE pc[u]
                           /\ u # t => key'[u] = key[u]
    BY <1>2 DEF IssueToken, Cache!SetCall, Cache!Goto, IInv, TypeOK, Cache!TypeOK
  <2>3. \A u \in Threads : Asked(u)' = Asked(u)
    BY <2>1, <2>2 DEF Asked, Cache!GetPc
  <2>. QED
    BY <2>1, <2>3, StutterStore
<1>3. CASE ~(CookieLookup(t) \/ IssueToken(t))
  <2>1. UNCHANGED <<now, sessions, answer, pc, key>>
    BY <1>3 DEF Serve, CookieMissing, Authenticate, QueryAccount, QueryFails, LoggedIn,
                Resolve, Render, RenderFails, Finish, cacheVars, history
  <2>. QED
    BY <2>1, StutterStore DEF Asked
<1>. QED
  BY <1>1, <1>2, <1>3

LEMMA NextStore == IInv /\ [Next]_vars => [Store!Next]_(Store!vars)
<1> SUFFICES ASSUME IInv, [Next]_vars
             PROVE  [Store!Next]_(Store!vars)
  OBVIOUS
<1> USE NilIsNone
<1>1. CASE UNCHANGED vars
  BY <1>1, StutterStore DEF vars, cacheVars, history, Asked
<1>2. ASSUME NEW t \in Threads, NEW r \in Arriving, Accept(t, r)
      PROVE  UNCHANGED Store!vars
  BY <1>2, StutterStore DEF Accept, cacheVars, Asked
<1>3. CASE Schedule \/ (\E u \in Users, s \in Changes : SetStatus(u, s))
  BY <1>3, StutterStore DEF Schedule, SetStatus, cacheVars, history, Asked
<1>4. CASE Sweep
  <2>1. UNCHANGED <<now, sessions, answer>>
    BY <1>4 DEF Sweep, Cache!Sweep, Cache!SweepBegin, Cache!SweepNext, Cache!SweepNextRemoved,
                Cache!Visit, Cache!SweepExpired, Cache!SweepKeep, Cache!SweepEnd, history
  <2>2. \A t \in Threads : pc'[t] = pc[t] /\ key'[t] = key[t]
    BY <1>4 DEF Sweep, Cache!Sweep, Cache!SweepBegin, Cache!SweepNext, Cache!SweepNextRemoved,
                Cache!Visit, Cache!SweepExpired, Cache!SweepKeep, Cache!SweepEnd, Cache!Return,
                Cache!Goto, IInv, TypeOK, Cache!TypeOK
  <2>. QED
    BY <2>1, <2>2, StutterStore DEF Asked
<1>5. CASE Tick
  <2>1. now' = now + 1 /\ now \in Int /\ UNCHANGED <<sessions, answer, pc, key>>
    BY <1>5 DEF Tick, Cache!Tick, history, IInv, TypeOK, Cache!TypeOK
  <2>2. Store!Clock
    BY <2>1 DEF Store!Clock, Asked
  <2>. QED
    BY <2>2 DEF Store!Next
<1>. QED
  BY <1>1, <1>2, <1>3, <1>4, <1>5, ServeStore, CacheStepStore DEF Next

(* To the requests the cache, its lock and its expire task included, is a store *)
(* in which a session is opened once and never removed.                        *)
THEOREM Refinement == Spec => ImplementsSessionStore
BY Invariance, InitStore, NextStore, PTL DEF Spec, ImplementsSessionStore, Store!Spec

-----------------------------------------------------------------------------
(***************************************************************************)
(* The server is started again.                                            *)
(***************************************************************************)

\* The tokens of before the last start: no session is stored for them, and no
\* request of now is numbered like one.
TokensInv ==
    /\ stale \subseteq 1..requests
    /\ \A k \in stale : sessions[k] = Nil
    /\ \A t \in Threads : stage[t] # "idle" => request[t].number \notin stale

\* A request with such a cookie asks for the index and gets nowhere.
StaleInv ==
    \A t \in Threads :
        stage[t] # "idle" /\ request[t].cookie \in stale =>
            /\ stage[t] \in {"cookie", "lookup", "resolve", "render", "finally"}
            /\ ctx[t].userInfo = Nil
            /\ stage[t] = "resolve" => outcome[t] = "NotLoginException"
            /\ stage[t] \in {"render", "finally"} => outcome[t] \in {"login timeout", "Exception"}

RestartInv ==
    /\ IInv /\ TokensInv /\ StaleInv
    /\ restarts \in 0..MaxRestarts

-----------------------------------------------------------------------------
LEMMA InitRestartInv == RestartInit => RestartInv
<1> SUFFICES ASSUME RestartInit
             PROVE  RestartInv
  OBVIOUS
<1>1. IInv
  BY InitIInv DEF RestartInit
<1>. QED
  BY <1>1, RestartAssumption DEF RestartInit, RestartInv, TokensInv, StaleInv, Init

(* The server is started again. *)
LEMMA RestartRestartInv ==
    ASSUME RestartInv, Restart
    PROVE  RestartInv'
<1> USE NilIsNone, RestartAssumption
<1>1. /\ requests \in 0..MaxRequests /\ requests' = requests /\ stale' = 1..requests
      /\ \A k \in Cookies : sessions'[k] = Nil
      /\ \A t \in Threads : stage'[t] = "idle" /\ request'[t] = Nil /\ ctx'[t] = Nil
                            /\ pc'[t] = "idle"
      /\ pc'[Sweeper] = "idle"
  BY DEF Restart, RestartInv, IInv, TypeOK
<1>2. stale' \subseteq Cookies
  BY <1>1 DEF Cookies, Tokens
<1>3. TokensInv' /\ StaleInv'
  BY <1>1, <1>2 DEF TokensInv, StaleInv
<1>4. TypeOK'
  <2>1. Cache!TypeOK'
    BY DEF Restart, RestartInv, IInv, TypeOK, Cache!TypeOK
  <2>2. barred' \in [Threads -> SUBSET Users]
    BY DEF Restart
  <2>3. /\ stage' \in [Threads -> {"idle", "cookie", "lookup", "query", "issue",
                                   "store", "resolve", "render", "finally"}]
        /\ scheduled' \in BOOLEAN
    BY DEF Restart
  <2>4. /\ sessions' \in [Cookies -> Cache!LocalCacheObject \union {Nil}]
        /\ accounts' \in [Users -> Statuses] /\ jar' \subseteq Tokens
        /\ requests' \in 0..MaxRequests
    BY DEF Restart, RestartInv, IInv, TypeOK
  <2>. QED
    BY <2>1, <2>2, <2>3, <2>4 DEF Restart, TypeOK
<1>5. PlaceInv' /\ NumberInv' /\ UserInv' /\ LookupInv'
  BY <1>1 DEF PlaceInv, NumberInv, UserInv, LookupInv, Cache!SetPc, Cache!GetPc
<1>6. TokenInv' /\ LiveSessionIsKept'
  BY <1>1 DEF Restart, TokenInv, LiveSessionIsKept, Cache!SetPc
<1>7. SweeperInv'
  BY <1>1 DEF Restart, SweeperInv, Cache!DeletePc
<1>8. restarts' \in 0..MaxRestarts
  BY DEF Restart, RestartInv
<1>. QED
  BY <1>3, <1>4, <1>5, <1>6, <1>7, <1>8 DEF RestartInv, IInv

-----------------------------------------------------------------------------
(* A session is stored under the number of a request of now. *)
LEMMA SessionsOfNow ==
    ASSUME RestartInv, [Next]_vars, NEW k \in stale
    PROVE  sessions'[k] = Nil
<1> USE NilIsNone
<1>1. k \in Cookies /\ sessions[k] = Nil
  BY DEF RestartInv, TokensInv, IInv, TypeOK, Cookies, Tokens
<1>2. CASE UNCHANGED sessions
  BY <1>1, <1>2
<1>3. ASSUME NEW a \in Cache!Agents, CacheStep(a), pc[a] = "set.put"
      PROVE  sessions'[k] = Nil
  <2>1. a \in Threads
    BY <1>3 DEF RestartInv, IInv, SweeperInv, Cache!SweepPc, Cache!DeletePc, Cache!Agents
  <2>2. stage[a] = "store" /\ key[a] = request[a].number
    BY <1>3, <2>1 DEF RestartInv, IInv, PlaceInv, TokenInv, Cache!SetPc
  <2>3. key[a] # k
    BY <2>1, <2>2 DEF RestartInv, TokensInv
  <2>. QED
    BY <1>1, <1>3, <2>3 DEF CacheStep, RestartInv, IInv, TypeOK
<1>4. ASSUME NEW a \in Cache!Agents, CacheStep(a), pc[a] # "set.put"
      PROVE  UNCHANGED sessions
  BY <1>4 DEF CacheStep
<1>5. ASSUME NEW t \in Threads, Serve(t)
      PROVE  UNCHANGED sessions
  BY <1>5 DEF Serve, CookieMissing, CookieLookup, Authenticate, QueryAccount, QueryFails,
              IssueToken, LoggedIn, Resolve, Render, RenderFails, Finish, history
<1>6. ASSUME Schedule \/ Sweep \/ Tick \/ (\E u \in Users, s \in Changes : SetStatus(u, s))
             \/ (\E t \in Threads, r \in Arriving : Accept(t, r)) \/ UNCHANGED vars
      PROVE  UNCHANGED sessions
  BY <1>6 DEF Schedule, Sweep, Tick, SetStatus, Accept, history, vars
<1>. QED
  BY <1>2, <1>3, <1>4, <1>5, <1>6 DEF Next

(* The request of a thread stays the same until it is over. *)
LEMMA RequestStays ==
    ASSUME RestartInv, Next, NEW t \in Threads
    PROVE  \/ /\ stage'[t] # "idle" /\ stage[t] = "idle"
              /\ \E r \in Arriving : Accept(t, r) /\ request'[t] = r
           \/ stage'[t] = "idle"
           \/ stage[t] # "idle" /\ request'[t] = request[t]
<1> USE NilIsNone DEF RestartInv, IInv, TypeOK
<1>1. ASSUME NEW u \in Threads, NEW r \in Arriving, Accept(u, r)
      PROVE  \/ /\ stage'[t] # "idle" /\ stage[t] = "idle"
                /\ Accept(t, r) /\ request'[t] = r
             \/ stage'[t] = "idle"
             \/ stage[t] # "idle" /\ request'[t] = request[t]
  <2>1. \E to \in {"cookie", "query", "render"} : Goto(u, "idle", to)
    <3>1. r.page \in {"index", "login", "submit", "other"}
      BY <1>1, ArrivingIsRequest, SessionAssumption DEF Accept, Request
    <3>. QED
      BY <1>1, <3>1 DEF Accept, Dispatch, Show
  <2>2. request' = [request EXCEPT ![u] = r]
    BY <1>1 DEF Accept
  <2>. QED
    BY <1>1, <2>1, <2>2 DEF Goto
<1>2. ASSUME NEW u \in Threads, Serve(u), ~Finish(u)
      PROVE  stage'[t] = "idle" \/ (stage[t] # "idle" /\ request'[t] = request[t])
  <2>1. request' = request
    BY <1>2 DEF Serve, CookieMissing, CookieLookup, Authenticate, QueryAccount, QueryFails,
                IssueToken, LoggedIn, Resolve, Render, RenderFails
  <2>2. stage[u] # "idle"
    BY <1>2 DEF Serve, CookieMissing, CookieLookup, Authenticate, QueryAccount, QueryFails,
                IssueToken, LoggedIn, Resolve, Render, RenderFails, Throw, Show, Goto
  <2>3. t # u => stage'[t] = stage[t]
    BY <1>2 DEF Serve, CookieMissing, CookieLookup, Authenticate, QueryAccount, QueryFails,
                IssueToken, LoggedIn, Resolve, Render, RenderFails, Throw, Show, Goto
  <2>. QED
    BY <2>1, <2>2, <2>3
<1>3. ASSUME NEW u \in Threads, Finish(u)
      PROVE  stage'[t] = "idle" \/ (stage[t] # "idle" /\ request'[t] = request[t])
  BY <1>3 DEF Finish, Goto
<1>4. ASSUME Schedule \/ Sweep \/ Tick \/ (\E u \in Users, s \in Changes : SetStatus(u, s))
             \/ (\E a \in Cache!Agents : CacheStep(a))
      PROVE  UNCHANGED <<stage, request>>
  BY <1>4 DEF Schedule, Sweep, Tick, SetStatus, CacheStep, threadVars, webVars
<1>. QED
  BY <1>1, <1>2, <1>3, <1>4 DEF Next

LEMMA ServeStale ==
    ASSUME RestartInv, NEW u \in Threads, Serve(u), stale' = stale
    PROVE  StaleInv'
<1> USE NilIsNone
<1>1. SUFFICES ASSUME NEW t \in Threads, stage'[t] # "idle", request'[t].cookie \in stale
               PROVE  /\ stage'[t] \in {"cookie", "lookup", "resolve", "render", "finally"}
                      /\ ctx'[t].userInfo = Nil
                      /\ stage'[t] = "resolve" => outcome'[t] = "NotLoginException"
                      /\ stage'[t] \in {"render", "finally"}
                           => outcome'[t] \in {"login timeout", "Exception"}
  BY DEF StaleInv
<1> USE DEF RestartInv, IInv, TypeOK
<1>2. CASE t # u
  <2>1. /\ stage'[t] = stage[t] /\ ctx'[t] = ctx[t] /\ outcome'[t] = outcome[t]
        /\ request'[t] = request[t]
    BY <1>2 DEF Serve, CookieMissing, CookieLookup, Authenticate, QueryAccount, QueryFails,
                IssueToken, LoggedIn, Resolve, Render, RenderFails, Finish, Throw, Show, Goto
  <2>. QED
    BY <1>1, <2>1 DEF StaleInv
<1>3. CASE t = u
  <2>1. stage[t] # "idle" /\ request'[t] = request[t]
    BY <1>1, <1>3 DEF Serve, CookieMissing, CookieLookup, Authenticate, QueryAccount, QueryFails,
                IssueToken, LoggedIn, Resolve, Render, RenderFails, Finish, Throw, Show, Goto
  <2>2. /\ stage[t] \in {"cookie", "lookup", "resolve", "render", "finally"}
        /\ ctx[t].userInfo = Nil
        /\ stage[t] = "resolve" => outcome[t] = "NotLoginException"
        /\ stage[t] \in {"render", "finally"} => outcome[t] \in {"login timeout", "Exception"}
    BY <1>1, <2>1 DEF StaleInv
  <2>3. /\ request[t].cookie # Nil /\ request[t].cookie \in Cookies
        /\ sessions[request[t].cookie] = Nil
    BY <1>1, <2>1 DEF TokensInv, Cookies, Tokens
  <2>4. CASE CookieMissing(u) \/ QueryAccount(u) \/ QueryFails(u) \/ IssueToken(u) \/ LoggedIn(u)
    BY <1>3, <2>2, <2>3, <2>4
       DEF CookieMissing, QueryAccount, QueryFails, IssueToken, LoggedIn, Throw, Show, Goto
  <2>5. CASE CookieLookup(u)
    BY <1>3, <2>2, <2>5 DEF CookieLookup, Goto
  <2>6. CASE Authenticate(u)
    <3>1. stage[t] = "lookup" /\ pc[t] = "idle"
      BY <1>3, <2>6 DEF Authenticate
    <3>2. answer[t] = Nil
      BY <2>3, <3>1 DEF LookupInv
    <3>. QED
      BY <1>3, <2>2, <2>6, <3>2 DEF Authenticate, Throw, Goto
  <2>7. CASE Resolve(u)
    BY <1>3, <2>2, <2>7 DEF Resolve, Show, Goto, ErrorPage
  <2>8. CASE Render(u) \/ RenderFails(u)
    BY <1>3, <2>2, <2>8 DEF Render, RenderFails, Goto
  <2>9. CASE Finish(u)
    BY <1>1, <1>3, <2>9 DEF Finish, Goto
  <2>. QED
    BY <2>4, <2>5, <2>6, <2>7, <2>8, <2>9 DEF Serve
<1>. QED
  BY <1>2, <1>3

LEMMA AcceptStale ==
    ASSUME RestartInv, NEW u \in Threads, NEW r \in Arriving, Accept(u, r), stale' = stale
    PROVE  StaleInv'
<1> USE NilIsNone, SessionAssumption
<1>1. SUFFICES ASSUME NEW t \in Threads, stage'[t] # "idle", request'[t].cookie \in stale
               PROVE  /\ stage'[t] \in {"cookie", "lookup", "resolve", "render", "finally"}
                      /\ ctx'[t].userInfo = Nil
                      /\ stage'[t] = "resolve" => outcome'[t] = "NotLoginException"
                      /\ stage'[t] \in {"render", "finally"}
                           => outcome'[t] \in {"login timeout", "Exception"}
  BY DEF StaleInv
<1>2. r \in Request /\ r.page \in {"index", "login", "submit", "other"}
  BY ArrivingIsRequest DEF Accept, RestartInv, Request
<1> USE DEF RestartInv, IInv, TypeOK
<1>3. CASE t # u
  <2>1. /\ stage'[t] = stage[t] /\ ctx'[t] = ctx[t] /\ outcome'[t] = outcome[t]
        /\ request'[t] = request[t]
    BY <1>2, <1>3 DEF Accept, InitContext, Dispatch, Show, Goto
  <2>. QED
    BY <1>1, <2>1 DEF StaleInv
<1>4. CASE t = u
  <2>1. request'[t] = r
    BY <1>4 DEF Accept
  <2>2. r.cookie # Nil
    <3>1. stale \subseteq Tokens
      BY DEF TokensInv, Tokens
    <3>2. r.cookie \in stale
      BY <1>1, <2>1
    <3>. QED
      BY <3>1, <3>2
  <2>3. r.page = "index" /\ stage[t] = "idle" /\ stage'[t] = "cookie"
    BY <1>2, <1>4, <2>2 DEF Accept, WellFormed, Dispatch, Goto
  <2>4. ctx'[t].userInfo = Nil
    BY <1>4, <2>3 DEF Accept, InitContext, PlaceInv
  <2>. QED
    BY <2>3, <2>4
<1>. QED
  BY <1>3, <1>4

(* A step of the server that runs. *)
LEMMA StepRestartInv ==
    ASSUME RestartInv, [Next]_vars, UNCHANGED <<restarts, stale>>
    PROVE  RestartInv'
<1> USE NilIsNone
<1>1. IInv'
  BY NextIInv DEF RestartInv
<1>2. requests \in Nat /\ requests' \in Nat /\ requests <= requests'
  <2>1. requests \in Nat /\ requests' \in Nat
    BY <1>1 DEF RestartInv, IInv, TypeOK
  <2>2. requests' \in {requests, requests + 1}
    BY DEF Next, Accept, Serve, CookieMissing, CookieLookup, Authenticate, QueryAccount,
           QueryFails, IssueToken, LoggedIn, Resolve, Render, RenderFails, Finish, CacheStep,
           Schedule, Sweep, Tick, SetStatus, vars, webVars, threadVars
  <2>. QED
    BY <2>1, <2>2
<1>3. TokensInv'
  <2>1. stale' \subseteq 1..requests'
    BY <1>2 DEF RestartInv, TokensInv
  <2>2. \A k \in stale' : sessions'[k] = Nil
    BY SessionsOfNow
  <2>3. ASSUME NEW t \in Threads, stage'[t] # "idle"
        PROVE  request'[t].number \notin stale
    <3>1. CASE UNCHANGED vars
      BY <2>3, <3>1 DEF vars, webVars, RestartInv, TokensInv
    <3>2. CASE Next
      <4>1. CASE stage[t] # "idle" /\ request'[t] = request[t]
        BY <4>1 DEF RestartInv, TokensInv
      <4>2. ASSUME NEW r \in Arriving, Accept(t, r), request'[t] = r
            PROVE  request'[t].number \notin stale
        <5>1. r.number = requests + 1
          BY <4>2, ArrivingIsRequest DEF Accept, RestartInv
        <5>. QED
          BY <1>2, <4>2, <5>1 DEF RestartInv, TokensInv
      <4>. QED
        BY <2>3, <3>2, <4>1, <4>2, RequestStays
    <3>. QED
      BY <3>1, <3>2
  <2>. QED
    BY <2>1, <2>2, <2>3 DEF TokensInv
<1>4. StaleInv'
  <2>1. ASSUME NEW t \in Threads, Serve(t)
        PROVE  StaleInv'
    BY <2>1, ServeStale
  <2>2. ASSUME NEW t \in Threads, NEW r \in Arriving, Accept(t, r)
        PROVE  StaleInv'
    BY <2>2, AcceptStale
  <2>3. ASSUME Schedule \/ Sweep \/ Tick \/ (\E u \in Users, s \in Changes : SetStatus(u, s))
               \/ (\E a \in Cache!Agents : CacheStep(a)) \/ UNCHANGED vars
        PROVE  UNCHANGED <<stage, request, ctx, outcome>>
    BY <2>3 DEF Schedule, Sweep, Tick, SetStatus, CacheStep, threadVars, webVars, vars
  <2>. QED
    BY <2>1, <2>2, <2>3 DEF Next, RestartInv, StaleInv
<1>. QED
  BY <1>1, <1>3, <1>4 DEF RestartInv

LEMMA NextRestartInv == RestartInv /\ [RestartNext]_restartVars => RestartInv'
<1> SUFFICES ASSUME RestartInv, [RestartNext]_restartVars
             PROVE  RestartInv'
  OBVIOUS
<1>1. CASE Restart
  BY <1>1, RestartRestartInv
<1>2. CASE ~Restart
  <2>1. [Next]_vars /\ UNCHANGED <<restarts, stale>>
    BY <1>2 DEF RestartNext, restartVars
  <2>. QED
    BY <2>1, StepRestartInv
<1>. QED
  BY <1>1, <1>2

(* The invariant is inductive. *)
THEOREM RestartInvariance == RestartSpec => []RestartInv
BY InitRestartInv, NextRestartInv, PTL DEF RestartSpec

(* Every variable keeps its type over restarts, too. *)
THEOREM RestartTypeCorrect == RestartSpec => []RestartTypeOK
<1>1. RestartInv => RestartTypeOK
  BY NilIsNone DEF RestartInv, TokensInv, RestartTypeOK, IInv, TypeOK, Tokens
<1>. QED
  BY RestartInvariance, <1>1, PTL

(* A browser that kept its cookie over a restart is asked to log in again, and *)
(* is never taken for somebody who has logged in since.                        *)
THEOREM StaleCookiesLogOut == RestartSpec => []StaleCookieLogsOut
<1>1. RestartInv => StaleCookieLogsOut
  BY DEF RestartInv, StaleInv, StaleCookieLogsOut
<1>. QED
  BY RestartInvariance, <1>1, PTL
=============================================================================
