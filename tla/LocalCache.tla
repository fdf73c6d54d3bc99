----------------------------- MODULE LocalCache -----------------------------
(***************************************************************************)
(* LocalCacheService with the threads that call it, the read-write lock it *)
(* takes, and LocalCacheExpireTask, the background task that walks over    *)
(* the map without the lock and deletes what has expired.                  *)
(*                                                                         *)
(* A call is cut where another thread can come in between: computing the   *)
(* expiry date, waiting for the lock, reading the map, reading the clock.  *)
(***************************************************************************)
EXTENDS Integers, Sequences

CONSTANTS
    Threads,    \* threads that call the service
    Sweeper,    \* the thread that runs LocalCacheExpireTask
    Keys,       \* cache keys
    Values,     \* cached objects
    Ttls,       \* times to live passed to set; zero and below mean "-1"
    BackSteps,  \* by how much the wall clock may be set back, {} for never
    MaxNow,     \* bound on the clock
    Nil         \* Java's null

Agents == Threads \union {Sweeper}

LocalCacheObject == [value : Values, expire : Int]

ASSUME AgentAssumption == Sweeper \notin Threads
ASSUME NilAssumption ==
    Nil \notin Keys \union Values \union Agents \union LocalCacheObject
ASSUME ClockAssumption ==
    /\ Ttls \subseteq Int
    /\ BackSteps \subseteq Nat
    /\ MaxNow \in Nat

VARIABLES
    now,      \* System.currentTimeMillis()
    map,      \* the ConcurrentHashMap: map[k] is an object or Nil
    readers,  \* the agents that hold the read lock
    writer,   \* the agent that holds the write lock, or Nil
    queue,    \* the agents that wait for the lock, first come first
    pc,       \* where each agent is in its call
    key,      \* the argument key of the call
    item,     \* the LocalCacheObject the call has built or read
    answer,   \* what the last get of each caller returned
    todo,     \* the keys whose entry the iterator of the expire task has yet to visit
    removed   \* removed[k]: the last entry of k that was taken out of the map while
              \* the iterator had yet to visit it, or Nil

vars == <<now, map, readers, writer, queue, pc, key, item, answer, todo, removed>>
lock == <<readers, writer, queue>>
iterator == <<todo, removed>>

SetPc    == {"set.lock", "set.put"}
GetPc    == {"get.lock", "get.read", "get.check"}
DeletePc == {"delete.lock", "delete.remove"}
SweepPc  == {"sweep.next", "sweep.check"}

TypeOK ==
    /\ now \in Int
    /\ map \in [Keys -> LocalCacheObject \union {Nil}]
    /\ readers \subseteq Agents
    /\ writer \in Agents \union {Nil}
    /\ queue \in Seq(Agents)
    /\ pc \in [Agents -> {"idle"} \union SetPc \union GetPc \union DeletePc \union SweepPc]
    /\ key \in [Agents -> Keys \union {Nil}]
    /\ item \in [Agents -> LocalCacheObject \union {Nil}]
    /\ answer \in [Threads -> Values \union {Nil}]
    /\ todo \subseteq Keys
    /\ removed \in [Keys -> LocalCacheObject \union {Nil}]

Init ==
    /\ now = 0
    /\ map = [k \in Keys |-> Nil]
    /\ readers = {}
    /\ writer = Nil
    /\ queue = <<>>
    /\ pc = [a \in Agents |-> "idle"]
    /\ key = [a \in Agents |-> Nil]
    /\ item = [a \in Agents |-> Nil]
    /\ answer = [t \in Threads |-> Nil]
    /\ todo = {}
    /\ removed = [k \in Keys |-> Nil]

-----------------------------------------------------------------------------
(* The lock and the bookkeeping every call shares. *)

(***************************************************************************)
(* ReentrantReadWriteLock, not fair: many readers or one writer.  A writer *)
(* that arrives may overtake the queue; a reader that arrives waits when   *)
(* the first in the queue is a writer, which keeps overlapping readers     *)
(* from shutting writers out.                                              *)
(***************************************************************************)
Writing(a) == pc[a] \in {"set.lock", "delete.lock"}

Free(a) == writer = Nil /\ (Writing(a) => readers = {})

Queued(a) == \E i \in 1..Len(queue) : queue[i] = a

WriterIsFirst == queue # <<>> /\ Writing(Head(queue))

MayOvertake(a) == WriterIsFirst => Writing(a)

Enter(a) ==
    /\ Free(a)
    /\ \/ ~Queued(a) /\ MayOvertake(a) /\ UNCHANGED queue
       \/ queue # <<>> /\ Head(queue) = a /\ queue' = Tail(queue)

LockWrite(a) ==
    /\ Enter(a)
    /\ writer' = a
    /\ UNCHANGED readers

LockRead(a) ==
    /\ Enter(a)
    /\ readers' = readers \union {a}
    /\ UNCHANGED writer

\* The lock cannot be had now.
Enqueue(a) ==
    /\ pc[a] \in {"set.lock", "get.lock", "delete.lock"}
    /\ ~Queued(a)
    /\ ~(Free(a) /\ MayOvertake(a))
    /\ queue' = Append(queue, a)
    /\ UNCHANGED <<now, map, readers, writer, pc, key, item, answer, iterator>>

Unlock(a) ==
    /\ readers' = readers \ {a}
    /\ writer' = IF writer = a THEN Nil ELSE writer
    /\ UNCHANGED queue

Goto(a, from, to) ==
    /\ pc[a] = from
    /\ pc' = [pc EXCEPT ![a] = to]

\* The call returns: its local variables are gone.  The expire task goes back
\* to its loop, a caller is idle again.
Return(a, from) ==
    /\ Goto(a, from, IF a = Sweeper THEN "sweep.next" ELSE "idle")
    /\ key' = [key EXCEPT ![a] = Nil]
    /\ item' = [item EXCEPT ![a] = Nil]

-----------------------------------------------------------------------------
(* set(key, value, ttl) *)

ExpireOf(ttl) == IF ttl > 0 THEN now + ttl ELSE -1

\* The object and its expiry date are made before the lock is asked for.
SetCall(t, k, v, ttl) ==
    /\ Goto(t, "idle", "set.lock")
    /\ key' = [key EXCEPT ![t] = k]
    /\ item' = [item EXCEPT ![t] = [value |-> v, expire |-> ExpireOf(ttl)]]
    /\ UNCHANGED <<now, map, lock, answer, iterator>>

SetLock(t) ==
    /\ Goto(t, "set.lock", "set.put")
    /\ LockWrite(t)
    /\ UNCHANGED <<now, map, key, item, answer, iterator>>

\* What a put of k may do to an iterator that is under way, which is weakly
\* consistent: it may or may not come across an entry that is new.  A put of a
\* key that is there overwrites the entry in place.
Iterating(k) ==
    IF map[k] = Nil /\ pc[Sweeper] # "idle" THEN {todo, todo \union {k}} ELSE {todo}

SetPut(t) ==
    /\ Return(t, "set.put")
    /\ map' = [map EXCEPT ![key[t]] = item[t]]
    /\ todo' \in Iterating(key[t])
    /\ Unlock(t)
    /\ UNCHANGED <<now, answer, removed>>

-----------------------------------------------------------------------------
(* get(key) *)

GetCall(t, k) ==
    /\ Goto(t, "idle", "get.lock")
    /\ key' = [key EXCEPT ![t] = k]
    /\ answer' = [answer EXCEPT ![t] = Nil]
    /\ UNCHANGED <<now, map, lock, item, iterator>>

GetLock(t) ==
    /\ Goto(t, "get.lock", "get.read")
    /\ LockRead(t)
    /\ UNCHANGED <<now, map, key, item, answer, iterator>>

\* Mutant of GetAbsent: the early return does not unlock.
GetAbsentLocked(t) ==
    /\ Return(t, "get.read")
    /\ map[key[t]] = Nil
    /\ UNCHANGED <<now, map, lock, answer, iterator>>

\* No object: return null, which unlocks.
GetAbsent(t) ==
    /\ Return(t, "get.read")
    /\ map[key[t]] = Nil
    /\ Unlock(t)
    /\ UNCHANGED <<now, map, answer, iterator>>

\* Mutant of GetRead: the lock is given back before the expiry date is checked.
GetReadUnlocking(t) ==
    /\ Goto(t, "get.read", "get.check")
    /\ map[key[t]] # Nil
    /\ item' = [item EXCEPT ![t] = map[key[t]]]
    /\ Unlock(t)
    /\ UNCHANGED <<now, map, key, answer, iterator>>

GetRead(t) ==
    /\ Goto(t, "get.read", "get.check")
    /\ map[key[t]] # Nil
    /\ item' = [item EXCEPT ![t] = map[key[t]]]
    /\ UNCHANGED <<now, map, lock, key, answer, iterator>>

\* Mutant of GetCheck: the wrapper is returned instead of its value.
GetCheckWrapper(t) ==
    /\ Return(t, "get.check")
    /\ answer' = [answer EXCEPT ![t] = IF item[t].expire > now THEN item[t] ELSE Nil]
    /\ Unlock(t)
    /\ UNCHANGED <<now, map, iterator>>

\* Mutant of GetCheck: an object is still good at its expiry date.
GetCheckLate(t) ==
    /\ Return(t, "get.check")
    /\ answer' = [answer EXCEPT ![t] =
                    IF item[t].expire >= now THEN item[t].value ELSE Nil]
    /\ Unlock(t)
    /\ UNCHANGED <<now, map, iterator>>

\* The clock is read after the object.
GetCheck(t) ==
    /\ Return(t, "get.check")
    /\ answer' = [answer EXCEPT ![t] =
                    IF item[t].expire > now THEN item[t].value ELSE Nil]
    /\ Unlock(t)
    /\ UNCHANGED <<now, map, iterator>>

-----------------------------------------------------------------------------
(* delete(key), for callers and for the expire task *)

DeleteCall(t, k) ==
    /\ Goto(t, "idle", "delete.lock")
    /\ key' = [key EXCEPT ![t] = k]
    /\ UNCHANGED <<now, map, lock, item, answer, iterator>>

\* Mutant of DeleteLock: the remove runs under the read lock.
DeleteLockShared(a) ==
    /\ Goto(a, "delete.lock", "delete.remove")
    /\ LockRead(a)
    /\ UNCHANGED <<now, map, key, item, answer, iterator>>

DeleteLock(a) ==
    /\ Goto(a, "delete.lock", "delete.remove")
    /\ LockWrite(a)
    /\ UNCHANGED <<now, map, key, item, answer, iterator>>

\* An entry the iterator has yet to visit leaves the map, but the iterator may
\* already hold it or reach it from a neighbour.
DeleteRemove(a) ==
    /\ Return(a, "delete.remove")
    /\ map' = [map EXCEPT ![key[a]] = Nil]
    /\ todo' = todo \ {key[a]}
    /\ removed' = IF key[a] \in todo
                  THEN [removed EXCEPT ![key[a]] = map[key[a]]]
                  ELSE removed
    /\ Unlock(a)
    /\ UNCHANGED <<now, answer>>

-----------------------------------------------------------------------------
(* LocalCacheExpireTask.run(), scheduled at a fixed rate: one run at a time *)

\* Mutant of SweepBegin: the date -1 is taken for "never expires".
SweepBeginTimed ==
    /\ Goto(Sweeper, "idle", "sweep.next")
    /\ todo' = {k \in Keys : map[k] # Nil /\ map[k].expire >= 0}
    /\ UNCHANGED <<now, map, lock, key, item, answer, removed>>

SweepBegin ==
    /\ Goto(Sweeper, "idle", "sweep.next")
    /\ todo' = {k \in Keys : map[k] # Nil}
    /\ UNCHANGED <<now, map, lock, key, item, answer, removed>>

\* The iterator moves on, without the lock, to the next entry: one of the map,
\* or one that has left the map.  Key and object are copied.
Visit(k, object) ==
    /\ Goto(Sweeper, "sweep.next", "sweep.check")
    /\ key' = [key EXCEPT ![Sweeper] = k]
    /\ item' = [item EXCEPT ![Sweeper] = object]
    /\ UNCHANGED <<now, map, lock, answer>>

SweepNext(k) ==
    /\ k \in todo
    /\ Visit(k, map[k])
    /\ todo' = todo \ {k}
    /\ UNCHANGED removed

SweepNextRemoved(k) ==
    /\ removed[k] # Nil
    /\ Visit(k, removed[k])
    /\ removed' = [removed EXCEPT ![k] = Nil]
    /\ UNCHANGED todo

\* Mutant of SweepExpired: the comparison is the wrong way round.
SweepExpiredInverted ==
    /\ Goto(Sweeper, "sweep.check", "delete.lock")
    /\ item[Sweeper].expire > now
    /\ UNCHANGED <<now, map, lock, key, item, answer, iterator>>

\* The object read earlier is compared with the clock, then deleted by key.
SweepExpired ==
    /\ Goto(Sweeper, "sweep.check", "delete.lock")
    /\ item[Sweeper].expire < now
    /\ UNCHANGED <<now, map, lock, key, item, answer, iterator>>

SweepKeep ==
    /\ Return(Sweeper, "sweep.check")
    /\ item[Sweeper].expire >= now
    /\ UNCHANGED <<now, map, lock, answer, iterator>>

SweepEnd ==
    /\ Goto(Sweeper, "sweep.next", "idle")
    /\ todo = {}
    /\ removed' = [k \in Keys |-> Nil]
    /\ UNCHANGED <<now, map, lock, key, item, answer, todo>>

-----------------------------------------------------------------------------
(* The wall clock *)

Tick ==
    /\ now < MaxNow
    /\ now' = now + 1
    /\ UNCHANGED <<map, lock, pc, key, item, answer, iterator>>

SetBack(d) ==
    /\ d <= now
    /\ now' = now - d
    /\ UNCHANGED <<map, lock, pc, key, item, answer, iterator>>

-----------------------------------------------------------------------------
Call(t) ==
    \/ \E k \in Keys, v \in Values, ttl \in Ttls : SetCall(t, k, v, ttl)
    \/ \E k \in Keys : GetCall(t, k)
    \/ \E k \in Keys : DeleteCall(t, k)

Acquire(a) == SetLock(a) \/ GetLock(a) \/ DeleteLock(a)

Proceed(a) == SetPut(a) \/ GetAbsent(a) \/ GetRead(a) \/ GetCheck(a) \/ DeleteRemove(a)

Sweep ==
    \/ SweepBegin
    \/ \E k \in Keys : SweepNext(k) \/ SweepNextRemoved(k)
    \/ SweepExpired
    \/ SweepKeep
    \/ SweepEnd

Next ==
    \/ \E t \in Threads : Call(t)
    \/ \E a \in Agents : Enqueue(a) \/ Acquire(a) \/ Proceed(a)
    \/ Sweep
    \/ Tick
    \/ \E d \in BackSteps : SetBack(d)

Spec == Init /\ [][Next]_vars

(***************************************************************************)
(* Fairness.  A thread inside a call runs on; the executor starts the task *)
(* again every minute, and the task runs on.  Nobody is obliged to make a  *)
(* call and the clock may stand still.  A thread that arrives at the lock  *)
(* gets it or joins the queue.  For the first in the queue the lock is     *)
(* free again and again but not continuously, since a writer may overtake  *)
(* it: a thread that is woken at each release gets it at some time, which  *)
(* is strong fairness.                                                     *)
(***************************************************************************)
FairSpec ==
    /\ Spec
    /\ \A a \in Agents :
         /\ WF_vars(Enqueue(a) \/ Acquire(a))
         /\ SF_vars(Queued(a) /\ Acquire(a))
         /\ WF_vars(Proceed(a))
    /\ WF_vars(Sweep)

-----------------------------------------------------------------------------
(* Properties *)

\* The object a get has read is still the one in the map when the get reads
\* the clock and decides: whoever changes the map holds the write lock.
ReadIsStable ==
    \A t \in Threads : pc[t] = "get.check" => map[key[t]] = item[t]

\* For its callers the service is an atomic cache: whatever the interleaving
\* with other calls and with the expire task, each get is answered from the
\* map and the clock of one instant.
Asked(t) == IF pc[t] \in GetPc THEN key[t] ELSE Nil

Atomic == INSTANCE AtomicCache WITH
    entries <- map,
    asked <- [t \in Threads |-> Asked(t)]

ImplementsAtomicCache == Atomic!Spec

\* Every call returns, also while the expire task runs and while readers and
\* writers compete for the lock: each exit of set, get and delete unlocks.
CallsReturn ==
    \A t \in Threads : pc[t] # "idle" ~> pc[t] = "idle"

\* What no get can return any more does not stay: an expired object, one that
\* was stored with a time to live of zero or less included, is purged from
\* the map unless it is replaced.
Expired(k) == map[k] # Nil /\ map[k].expire < now

ExpiredIsPurged ==
    \A k \in Keys : Expired(k) ~> ~Expired(k)

\* The expire task deletes what "is expired", as its log line says, and
\* nothing else.
SweepDeletesOnlyExpired ==
    [][\A k \in Keys :
         pc[Sweeper] = "delete.remove" /\ pc'[Sweeper] # "delete.remove"
         /\ map[k] # Nil /\ map'[k] = Nil
         => map[k].expire < now]_vars
=============================================================================
