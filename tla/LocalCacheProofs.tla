-------------------------- MODULE LocalCacheProofs --------------------------
(***************************************************************************)
(* Proofs about LocalCache, for every set of threads, keys and values and  *)
(* for a clock that may be set back.                                       *)
(***************************************************************************)
EXTENDS LocalCache, TLAPS

Holding == {"set.put", "delete.remove"}
Reading == {"get.read", "get.check"}

\* The threads stay in the calls and the task in its loop; an agent inside a
\* call has its argument, and its object once it has built or read one.
ArgumentInv ==
    /\ pc[Sweeper] \in {"idle"} \union SweepPc \union DeletePc
    /\ \A t \in Threads : pc[t] \notin SweepPc
    /\ \A a \in Agents :
         pc[a] \in SetPc \union GetPc \union DeletePc \union {"sweep.check"} => key[a] \in Keys
    /\ \A a \in Agents :
         pc[a] \in SetPc \union {"get.check", "sweep.check"} => item[a] \in LocalCacheObject
    /\ \A t \in Threads : pc[t] \in GetPc => answer[t] = Nil
    /\ \A k \in todo : map[k] # Nil

\* The lock is held by exactly the agents that are between lock and unlock,
\* and a writer is alone.
LockInv ==
    /\ \A a \in Agents : pc[a] \in Holding <=> writer = a
    /\ \A a \in Agents : pc[a] \in Reading <=> a \in readers
    /\ writer # Nil => readers = {}

IInv == TypeOK /\ ArgumentInv /\ LockInv /\ ReadIsStable

-----------------------------------------------------------------------------
(* null is none of the objects, keys and agents. *)
LEMMA NilIsNone ==
    /\ Nil \notin Agents
    /\ Nil \notin Keys
    /\ Nil \notin LocalCacheObject
    /\ Sweeper \in Agents /\ Sweeper \notin Threads
    /\ Threads \subseteq Agents
BY NilAssumption, AgentAssumption DEF Agents

(* The initial state satisfies the invariant. *)
LEMMA InitInv == Init => IInv
BY NilIsNone DEF Init, IInv, TypeOK, ArgumentInv, LockInv, ReadIsStable, SetPc, GetPc,
    DeletePc, SweepPc, Holding, Reading, Agents

(* Each call of a thread preserves the invariant. *)
LEMMA CallInv ==
    ASSUME IInv, NEW t \in Threads, Call(t)
    PROVE  IInv'
<1> USE NilIsNone, ClockAssumption
    DEF IInv, TypeOK, ArgumentInv, LockInv, ReadIsStable, SetPc, GetPc, DeletePc, SweepPc,
        Holding, Reading, Agents, lock, iterator, Goto
<1>1. ASSUME NEW k \in Keys, NEW v \in Values, NEW ttl \in Ttls, SetCall(t, k, v, ttl)
      PROVE  IInv'
  <2>1. [value |-> v, expire |-> ExpireOf(ttl)] \in LocalCacheObject
    BY DEF ExpireOf, LocalCacheObject
  <2>. QED
    BY <1>1, <2>1 DEF SetCall
<1>2. ASSUME NEW k \in Keys, GetCall(t, k)
      PROVE  IInv'
  BY <1>2 DEF GetCall
<1>3. ASSUME NEW k \in Keys, DeleteCall(t, k)
      PROVE  IInv'
  BY <1>3 DEF DeleteCall
<1>. QED
  BY <1>1, <1>2, <1>3 DEF Call

(* Waiting for the lock and taking it preserve the invariant. *)
LEMMA EnterQueue ==
    ASSUME IInv, NEW a \in Agents, Enter(a)
    PROVE  queue' \in Seq(Agents)
BY DEF IInv, TypeOK, Enter

LEMMA LockingInv ==
    ASSUME IInv, NEW a \in Agents, Enqueue(a) \/ Acquire(a)
    PROVE  IInv'
<1> USE NilIsNone
    DEF IInv, TypeOK, ArgumentInv, LockInv, ReadIsStable, SetPc, GetPc, DeletePc, SweepPc,
        Holding, Reading, lock, iterator, Goto
<1>1. CASE Enqueue(a)
  <2>1. queue' \in Seq(Agents)
    BY <1>1 DEF Enqueue
  <2>. QED
    BY <1>1, <2>1 DEF Enqueue
<1>2. CASE SetLock(a)
  <2>1. queue' \in Seq(Agents)
    BY <1>2, EnterQueue DEF SetLock, LockWrite
  <2>. QED
    BY <1>2, <2>1 DEF SetLock, LockWrite, Enter, Free, Writing
<1>3. CASE GetLock(a)
  <2>1. queue' \in Seq(Agents)
    BY <1>3, EnterQueue DEF GetLock, LockRead
  <2>. QED
    BY <1>3, <2>1 DEF GetLock, LockRead, Enter, Free, Writing
<1>4. CASE DeleteLock(a)
  <2>1. queue' \in Seq(Agents)
    BY <1>4, EnterQueue DEF DeleteLock, LockWrite
  <2>. QED
    BY <1>4, <2>1 DEF DeleteLock, LockWrite, Enter, Free, Writing
<1>. QED
  BY <1>1, <1>2, <1>3, <1>4 DEF Acquire

(* The body of a call under the lock preserves the invariant. *)
LEMMA ProceedInv ==
    ASSUME IInv, NEW a \in Agents, Proceed(a)
    PROVE  IInv'
<1> USE NilIsNone
    DEF IInv, TypeOK, ArgumentInv, LockInv, ReadIsStable, SetPc, GetPc, DeletePc, SweepPc,
        Holding, Reading, lock, iterator, Goto, Return, Unlock
<1>1. CASE SetPut(a)
  BY <1>1 DEF SetPut, Iterating
<1>2. CASE GetAbsent(a)
  BY <1>2 DEF GetAbsent
<1>3. CASE GetRead(a)
  BY <1>3 DEF GetRead
<1>4. CASE GetCheck(a)
  <2>1. item[a] \in LocalCacheObject /\ item[a].value \in Values
    BY <1>4 DEF GetCheck, LocalCacheObject
  <2>. QED
    BY <1>4, <2>1 DEF GetCheck
<1>5. CASE DeleteRemove(a)
  BY <1>5 DEF DeleteRemove
<1>. QED
  BY <1>1, <1>2, <1>3, <1>4, <1>5 DEF Proceed

(* The expire task preserves the invariant. *)
LEMMA SweepInv ==
    ASSUME IInv, Sweep
    PROVE  IInv'
<1> USE NilIsNone
    DEF IInv, TypeOK, ArgumentInv, LockInv, ReadIsStable, SetPc, GetPc, DeletePc, SweepPc,
        Holding, Reading, lock, iterator, Goto, Return
<1>1. CASE SweepBegin
  BY <1>1 DEF SweepBegin
<1>2. ASSUME NEW k \in Keys, SweepNext(k)
      PROVE  IInv'
  BY <1>2 DEF SweepNext, Visit
<1>3. ASSUME NEW k \in Keys, SweepNextRemoved(k)
      PROVE  IInv'
  BY <1>3 DEF SweepNextRemoved, Visit
<1>4. CASE SweepExpired
  BY <1>4 DEF SweepExpired
<1>5. CASE SweepKeep
  BY <1>5 DEF SweepKeep
<1>6. CASE SweepEnd
  BY <1>6 DEF SweepEnd
<1>. QED
  BY <1>1, <1>2, <1>3, <1>4, <1>5, <1>6 DEF Sweep

(* Every step, a stuttering step included, preserves the invariant. *)
LEMMA NextInv == IInv /\ [Next]_vars => IInv'
<1> SUFFICES ASSUME IInv, [Next]_vars
             PROVE  IInv'
  OBVIOUS
<1>1. ASSUME NEW t \in Threads, Call(t)
      PROVE  IInv'
  BY <1>1, CallInv
<1>2. ASSUME NEW a \in Agents, Enqueue(a) \/ Acquire(a) \/ Proceed(a)
      PROVE  IInv'
  BY <1>2, LockingInv, ProceedInv
<1>3. CASE Sweep
  BY <1>3, SweepInv
<1>4. CASE Tick \/ (\E d \in BackSteps : SetBack(d))
  BY <1>4, ClockAssumption DEF Tick, SetBack, IInv, TypeOK, ArgumentInv, LockInv,
     ReadIsStable, lock, iterator
<1>5. CASE UNCHANGED vars
  BY <1>5 DEF vars, IInv, TypeOK, ArgumentInv, LockInv, ReadIsStable
<1>. QED
  BY <1>1, <1>2, <1>3, <1>4, <1>5 DEF Next

(* The inductive invariant holds in every reachable state. *)
THEOREM Invariance == Spec => []IInv
<1>. QED
  BY InitInv, NextInv, PTL DEF Spec

(* Every variable of LocalCache keeps its type; in particular get hands out *)
(* cached values or null, never the wrapper object.                         *)
THEOREM TypeCorrect == Spec => []TypeOK
<1>1. IInv => TypeOK
  BY DEF IInv
<1>. QED
  BY <1>1, Invariance, PTL

(* Between reading an object and comparing its expiry date with the clock, a *)
(* get cannot lose the object to a set, a delete or the expire task.         *)
THEOREM ReadsAreStable == Spec => []ReadIsStable
<1>1. IInv => ReadIsStable
  BY DEF IInv
<1>. QED
  BY <1>1, Invariance, PTL

-----------------------------------------------------------------------------
(* LocalCache implements AtomicCache *)

(* The initial states of LocalCache map to those of AtomicCache. *)
LEMMA InitRefines == Init => Atomic!Init
BY NilIsNone DEF Init, Atomic!Init, Asked, GetPc, Agents

(* A step that leaves the map, the clock and the answers alone and moves no *)
(* thread into or out of a get is a stuttering step of AtomicCache.         *)
LEMMA Stutter ==
    ASSUME UNCHANGED <<now, map, answer>>,
           \A t \in Threads : Asked(t)' = Asked(t)
    PROVE  UNCHANGED Atomic!vars
BY DEF Atomic!vars

(* Each step of a call maps to a step of AtomicCache or to a stutter. *)
LEMMA CallRefines ==
    ASSUME IInv, NEW t \in Threads, Call(t)
    PROVE  [Atomic!Next]_Atomic!vars
<1> USE NilIsNone
    DEF IInv, TypeOK, SetPc, GetPc, DeletePc, SweepPc, lock, iterator, Goto, Asked
<1>1. ASSUME NEW k \in Keys, NEW v \in Values, NEW ttl \in Ttls, SetCall(t, k, v, ttl)
      PROVE  UNCHANGED Atomic!vars
  BY <1>1, Stutter DEF SetCall
<1>2. ASSUME NEW k \in Keys, GetCall(t, k)
      PROVE  Atomic!Ask(t, k)
  BY <1>2 DEF GetCall, Atomic!Ask
<1>3. ASSUME NEW k \in Keys, DeleteCall(t, k)
      PROVE  UNCHANGED Atomic!vars
  BY <1>3, Stutter DEF DeleteCall
<1>. QED
  BY <1>1, <1>2, <1>3 DEF Call, Atomic!Next

(* Locking is not seen by AtomicCache. *)
LEMMA LockingRefines ==
    ASSUME IInv, NEW a \in Agents, Enqueue(a) \/ Acquire(a)
    PROVE  UNCHANGED Atomic!vars
BY Stutter, NilIsNone
   DEF IInv, TypeOK, SetPc, GetPc, DeletePc, SweepPc, lock, iterator, Goto, Asked,
       Enqueue, Acquire, SetLock, GetLock, DeleteLock

(* The put, the remove and the decision of a get are the atomic steps. *)
LEMMA ProceedRefines ==
    ASSUME IInv, NEW a \in Agents, Proceed(a)
    PROVE  [Atomic!Next]_Atomic!vars
<1> USE NilIsNone
    DEF IInv, TypeOK, ArgumentInv, LockInv, SetPc, GetPc, DeletePc, SweepPc, Holding, Reading,
        lock, iterator, Goto, Return, Unlock, Asked
<1>1. CASE SetPut(a)
  <2>1. Atomic!Put(key[a])
    BY <1>1 DEF SetPut, Atomic!Put, Atomic!Entry, LocalCacheObject
  <2>. QED
    BY <1>1, <2>1 DEF SetPut, Atomic!Next
<1>2. CASE GetAbsent(a)
  <2>1. a \in Threads /\ key[a] \in Keys
    BY <1>2 DEF GetAbsent, Agents
  <2>2. Asked(a) = key[a] /\ map[key[a]] = Nil /\ answer[a] = Nil
    BY <1>2, <2>1 DEF GetAbsent
  <2>3. [t \in Threads |-> Asked(t)]' = [[t \in Threads |-> Asked(t)] EXCEPT ![a] = Nil]
    BY <1>2, <2>1 DEF GetAbsent
  <2>4. answer' = [answer EXCEPT ![a] = Nil] /\ UNCHANGED <<now, map>>
    BY <1>2, <2>1, <2>2 DEF GetAbsent
  <2>5. Atomic!Answer(a)
    BY <2>1, <2>2, <2>3, <2>4 DEF Atomic!Answer, Atomic!Current
  <2>. QED
    BY <2>1, <2>5 DEF Atomic!Next
<1>3. CASE GetRead(a)
  BY <1>3, Stutter DEF GetRead
<1>4. CASE GetCheck(a)
  <2>1. a \in Threads /\ key[a] \in Keys
    BY <1>4 DEF GetCheck, Agents
  <2>2. Asked(a) = key[a] /\ map[key[a]] = item[a] /\ item[a] # Nil
    BY <1>4, <2>1 DEF GetCheck, ReadIsStable
  <2>3. [t \in Threads |-> Asked(t)]' = [[t \in Threads |-> Asked(t)] EXCEPT ![a] = Nil]
    BY <1>4, <2>1 DEF GetCheck
  <2>4. /\ answer' = [answer EXCEPT ![a] = Atomic!Current(key[a])]
        /\ UNCHANGED <<now, map>>
    BY <1>4, <2>1, <2>2 DEF GetCheck, Atomic!Current
  <2>5. Atomic!Answer(a)
    BY <2>1, <2>2, <2>3, <2>4 DEF Atomic!Answer
  <2>. QED
    BY <2>1, <2>5 DEF Atomic!Next
<1>5. CASE DeleteRemove(a)
  <2>1. Atomic!Remove(key[a]) /\ key[a] \in Keys
    BY <1>5 DEF DeleteRemove, Atomic!Remove
  <2>. QED
    BY <2>1 DEF Atomic!Next
<1>. QED
  BY <1>1, <1>2, <1>3, <1>4, <1>5 DEF Proceed

(* The expire task removes an entry by the delete of the service: its own *)
(* steps are not seen by AtomicCache.                                     *)
LEMMA SweepRefines ==
    ASSUME IInv, Sweep
    PROVE  UNCHANGED Atomic!vars
BY Stutter, NilIsNone
   DEF IInv, TypeOK, SetPc, GetPc, DeletePc, SweepPc, lock, iterator, Goto, Return, Asked,
       Sweep, SweepBegin, SweepNext, SweepNextRemoved, Visit, SweepExpired, SweepKeep, SweepEnd

(* Every step of LocalCache maps to a step of AtomicCache or to a stutter. *)
LEMMA NextRefines == IInv /\ [Next]_vars => [Atomic!Next]_Atomic!vars
<1> SUFFICES ASSUME IInv, [Next]_vars
             PROVE  [Atomic!Next]_Atomic!vars
  OBVIOUS
<1>1. ASSUME NEW t \in Threads, Call(t)
      PROVE  [Atomic!Next]_Atomic!vars
  BY <1>1, CallRefines
<1>2. ASSUME NEW a \in Agents, Enqueue(a) \/ Acquire(a) \/ Proceed(a)
      PROVE  [Atomic!Next]_Atomic!vars
  BY <1>2, LockingRefines, ProceedRefines
<1>3. CASE Sweep
  BY <1>3, SweepRefines
<1>4. CASE Tick \/ (\E d \in BackSteps : SetBack(d))
  <2>1. Atomic!Clock
    BY <1>4, ClockAssumption
       DEF Tick, SetBack, IInv, TypeOK, lock, iterator, Atomic!Clock, Asked
  <2>. QED
    BY <2>1 DEF Atomic!Next
<1>5. CASE UNCHANGED vars
  BY <1>5, Stutter DEF vars, Asked
<1>. QED
  BY <1>1, <1>2, <1>3, <1>4, <1>5 DEF Next

(* To its callers LocalCacheService is an atomic map with expiry dates: the *)
(* lock, the half-done calls, the expire task that walks the map unlocked   *)
(* and the removed entries it may still meet cannot be told apart from it.  *)
THEOREM Refinement == Spec => ImplementsAtomicCache
<1>. QED
  BY InitRefines, NextRefines, Invariance, PTL DEF Spec, Atomic!Spec, ImplementsAtomicCache

=============================================================================
