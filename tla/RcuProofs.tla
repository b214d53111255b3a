------------------------------ MODULE RcuProofs ------------------------------
(***************************************************************************)
(* Proofs about SharedMutex and about Rcu, which embeds it.  First the     *)
(* lock, for any finite set of threads and whatever each of them calls:    *)
(* its lemmas speak of one thread's operation, so that they serve the      *)
(* domain too.  Then the domain, for any objects, any nesting and any      *)
(* number of reads and barriers.  The domain's invariant has five parts:   *)
(* what each thread is in (Roles), who may reclaim (Guard), where the      *)
(* tickets are (Tickets), that a retired object is in one place            *)
(* (OnePlace), and what readers can still see (Grace); with what a barrier *)
(* owes (Owed) and the invariant of the lock they give both properties.    *)
(***************************************************************************)
EXTENDS Rcu, FiniteSetTheorems, SequenceTheorems, TLAPS

-----------------------------------------------------------------------------
\* The lock.

Places == {"idle", "enter", "asleep", "woken", "expired", "held", "notify"}

TypeOK ==
    /\ readers \in Nat /\ waiting_writers \in Nat /\ writer \in BOOLEAN
    /\ op \in [Threads -> Exclusive \cup Shared]
    /\ pc \in [Threads -> Places]

\* Neither conjunct of SharedMutexSafe is inductive alone: a missed wake-up is
\* excluded by the counters, which have to be exact for that.
IInv == TypeOK /\ SharedMutexSafe

\* Any operation of a thread, whichever calls it is given.
Step(t) ==
    \/ \E o \in Exclusive \cup Shared : Call(t, o)
    \/ Inside(t) \/ Timeout(t) \/ SpuriousWakeup(t) \/ Unlock(t)

-----------------------------------------------------------------------------
\* The sets the counters count.

\* What is counted is finite.
LEMMA CountedIsFinite ==
    /\ \A kind : IsFiniteSet(Holders(kind)) /\ Cardinality(Holders(kind)) \in Nat
    /\ IsFiniteSet(Waiters) /\ Cardinality(Waiters) \in Nat
<1>1. ASSUME NEW kind
      PROVE  IsFiniteSet(Holders(kind)) /\ Cardinality(Holders(kind)) \in Nat
  <2>1. Holders(kind) \subseteq Threads
    BY DEF Holders
  <2>2. QED BY <2>1, SharedMutexConstants, FS_Subset, FS_CardinalityType
<1>2. IsFiniteSet(Waiters) /\ Cardinality(Waiters) \in Nat
  <2>1. Waiters \subseteq Threads
    BY DEF Waiters
  <2>2. QED BY <2>1, SharedMutexConstants, FS_Subset, FS_CardinalityType
<1>3. QED BY <1>1, <1>2

\* One more and one less.
LEMMA OneMore ==
    ASSUME NEW S, IsFiniteSet(S), NEW x, x \notin S
    PROVE  Cardinality(S \cup {x}) = Cardinality(S) + 1
BY FS_AddElement

LEMMA OneLess ==
    ASSUME NEW S, IsFiniteSet(S), NEW x \in S
    PROVE  Cardinality(S \ {x}) = Cardinality(S) - 1
BY FS_RemoveElement

\* Nobody of a kind holds the lock when its count is 0.
LEMMA NoneCounted ==
    ASSUME NEW kind, Cardinality(Holders(kind)) = 0
    PROVE  Holders(kind) = {}
BY CountedIsFinite, FS_EmptySet

\* While a writer holds the lock no reader does.
LEMMA WriterIsAlone ==
    ASSUME IInv, NEW t \in Threads, pc[t] = "held", op[t] \in Exclusive
    PROVE  Holders(Shared) = {}
<1>1. writer
  <2>1. t \in Holders(Exclusive)
    BY DEF Holders
  <2>2. QED BY <2>1, NoneCounted DEF IInv, TypeOK, SharedMutexSafe, CountsExact
<1>2. QED BY <1>1, NoneCounted DEF IInv, SharedMutexSafe, CountsExact

-----------------------------------------------------------------------------
\* The operations, one by one.

\* A call begins: nothing is counted for it yet.
LEMMA CallStep ==
    ASSUME IInv, NEW t \in Threads, NEW o \in Exclusive \cup Shared, Call(t, o)
    PROVE  IInv'
<1>1. TypeOK'
  BY DEF IInv, TypeOK, Call, Goto, Places
<1>2. \A kind : Holders(kind)' = Holders(kind)
  BY DEF IInv, TypeOK, Call, Goto, Holders
<1>3. Waiters' = Waiters
  BY DEF IInv, TypeOK, Call, Goto, Waiters, Writes
<1>4. CountsExact'
  BY <1>2, <1>3 DEF IInv, SharedMutexSafe, CountsExact, Call
<1>5. NoMissedWakeup'
  BY DEF IInv, TypeOK, SharedMutexSafe, NoMissedWakeup, MayEnter, Writes, Call, Goto
<1>6. QED BY <1>1, <1>4, <1>5 DEF IInv, SharedMutexSafe

\* The counters when a thread that is not a waiting writer any more, or never
\* was one, is let in.
LEMMA GrantCounts ==
    ASSUME IInv, NEW t \in Threads, MayEnter(t), Grant(t), UNCHANGED op,
           pc[t] # "held"
    PROVE  /\ readers' = Cardinality(Holders(Shared)')
           /\ Cardinality(Holders(Exclusive)') = IF writer' THEN 1 ELSE 0
           /\ writer' => readers' = 0
           /\ Waiters' = Waiters \ {t}
<1>1. CASE Writes(t)
  <2>1. Holders(Shared)' = Holders(Shared) /\ Holders(Exclusive)' = Holders(Exclusive) \cup {t}
    BY <1>1 DEF IInv, TypeOK, Grant, Goto, Holders, Writes, Exclusive, Shared
  <2>2. t \notin Holders(Exclusive)
    BY DEF Holders
  <2>3. Cardinality(Holders(Exclusive)') = 1
    BY <1>1, <2>1, <2>2, CountedIsFinite, OneMore
       DEF IInv, SharedMutexSafe, CountsExact, MayEnter
  <2>4. Waiters' = Waiters \ {t}
    BY DEF IInv, TypeOK, Grant, Goto, Waiters, Writes
  <2>5. QED
    BY <1>1, <2>1, <2>3, <2>4 DEF IInv, SharedMutexSafe, CountsExact, Grant, MayEnter
<1>2. CASE ~ Writes(t)
  <2>1. Holders(Shared)' = Holders(Shared) \cup {t} /\ Holders(Exclusive)' = Holders(Exclusive)
    BY <1>2 DEF IInv, TypeOK, Grant, Goto, Holders, Writes, Exclusive, Shared
  <2>2. t \notin Holders(Shared)
    BY DEF Holders
  <2>3. Cardinality(Holders(Shared)') = readers + 1
    BY <2>1, <2>2, CountedIsFinite, OneMore DEF IInv, SharedMutexSafe, CountsExact
  <2>4. Waiters' = Waiters \ {t}
    BY DEF IInv, TypeOK, Grant, Goto, Waiters, Writes
  <2>5. QED
    BY <1>2, <2>1, <2>3, <2>4 DEF IInv, TypeOK, SharedMutexSafe, CountsExact, Grant, MayEnter
<1>3. QED BY <1>1, <1>2

\* A grant gives the counters and the flag values of their types.
LEMMA GrantTypes ==
    ASSUME IInv, NEW t \in Threads, Grant(t), UNCHANGED op, waiting_writers' \in Nat
    PROVE  TypeOK'
<1>1. pc' \in [Threads -> Places] /\ op' \in [Threads -> Exclusive \cup Shared]
  BY DEF IInv, TypeOK, Grant, Goto, Places
<1>2. readers' \in Nat
  BY DEF IInv, TypeOK, Grant
<1>3. writer' \in BOOLEAN
  <2>1. CASE writer' = TRUE
    BY <2>1
  <2>2. CASE writer' = writer
    BY <2>2 DEF IInv, TypeOK
  <2>3. QED BY <2>1, <2>2 DEF Grant
<1>4. QED BY <1>1, <1>2, <1>3 DEF TypeOK

\* The first critical section: let in, turned away or asleep and, for a
\* writer, counted.
LEMMA EnterStep ==
    ASSUME IInv, NEW t \in Threads, Enter(t)
    PROVE  IInv'
<1>1. CASE MayEnter(t)
  <2>1. Grant(t) /\ UNCHANGED <<waiting_writers, op>> /\ pc[t] = "enter"
    BY <1>1 DEF Enter
  <2>2. TypeOK'
    BY <2>1, GrantTypes DEF IInv, TypeOK
  <2>3. Waiters' = Waiters
    BY <2>1, GrantCounts, <1>1 DEF Waiters
  <2>4. CountsExact'
    BY <1>1, <2>1, <2>3, GrantCounts DEF IInv, SharedMutexSafe, CountsExact
  <2>5. NoMissedWakeup'
    BY <1>1, <2>1 DEF IInv, TypeOK, SharedMutexSafe, NoMissedWakeup, MayEnter, Writes, Grant, Goto
  <2>6. QED BY <2>2, <2>4, <2>5 DEF IInv, SharedMutexSafe
<1>2. CASE ~ MayEnter(t) /\ Writes(t) /\ op[t] \notin Tries
  <2>1. /\ pc[t] = "enter" /\ pc' = [pc EXCEPT ![t] = "asleep"]
        /\ waiting_writers' = waiting_writers + 1 /\ UNCHANGED <<readers, writer, op>>
    BY <1>2 DEF Enter, Goto
  <2>2. TypeOK'
    BY <2>1 DEF IInv, TypeOK, Places
  <2>3. \A kind : Holders(kind)' = Holders(kind)
    BY <2>1 DEF IInv, TypeOK, Holders
  <2>4. Waiters' = Waiters \cup {t} /\ t \notin Waiters
    BY <1>2, <2>1 DEF IInv, TypeOK, Waiters, Writes
  <2>5. Cardinality(Waiters') = Cardinality(Waiters) + 1
    BY <2>4, CountedIsFinite, OneMore
  <2>6. CountsExact'
    BY <2>1, <2>3, <2>5 DEF IInv, SharedMutexSafe, CountsExact
  <2>7. NoMissedWakeup'
    BY <1>2, <2>1 DEF IInv, TypeOK, SharedMutexSafe, NoMissedWakeup, MayEnter, Writes
  <2>8. QED BY <2>2, <2>6, <2>7 DEF IInv, SharedMutexSafe
<1>3. CASE ~ MayEnter(t) /\ ~ (Writes(t) /\ op[t] \notin Tries)
  <2>1. /\ pc[t] = "enter" /\ UNCHANGED <<readers, waiting_writers, writer, op>>
        /\ pc' = [pc EXCEPT ![t] = IF op[t] \in Tries THEN "idle" ELSE "asleep"]
    BY <1>3 DEF IInv, TypeOK, Enter, Goto
  <2>2. TypeOK'
    BY <2>1 DEF IInv, TypeOK, Places
  <2>3. \A kind : Holders(kind)' = Holders(kind)
    BY <2>1 DEF IInv, TypeOK, Holders
  <2>4. Waiters' = Waiters
    BY <1>3, <2>1 DEF IInv, TypeOK, Waiters, Writes
  <2>5. CountsExact'
    BY <2>1, <2>3, <2>4 DEF IInv, SharedMutexSafe, CountsExact
  <2>6. NoMissedWakeup'
    BY <1>3, <2>1 DEF IInv, TypeOK, SharedMutexSafe, NoMissedWakeup, MayEnter, Writes
  <2>7. QED BY <2>2, <2>5, <2>6 DEF IInv, SharedMutexSafe
<1>4. QED BY <1>1, <1>2, <1>3

\* The wait looks again: a writer that is let in or out of time leaves the
\* count, and one that gives up wakes whom it held back.
LEMMA RecheckStep ==
    ASSUME IInv, NEW t \in Threads, Recheck(t)
    PROVE  IInv'
<1>1. pc[t] \in {"woken", "expired"} /\ UNCHANGED op
  BY DEF Recheck
<1>2. CASE MayEnter(t)
  <2>1. Grant(t) /\ waiting_writers' = waiting_writers - (IF Writes(t) THEN 1 ELSE 0)
    BY <1>2 DEF Recheck, LeavesQueue
  <2>2. Waiters' = Waiters \ {t}
    BY <1>1, <1>2, <2>1, GrantCounts
  <2>3. t \in Waiters <=> Writes(t)
    BY <1>1 DEF Waiters
  <2>4. waiting_writers' = Cardinality(Waiters')
    <3>1. CASE Writes(t)
      BY <3>1, <2>1, <2>2, <2>3, CountedIsFinite, OneLess DEF IInv, SharedMutexSafe, CountsExact
    <3>2. CASE ~ Writes(t)
      <4>1. Waiters' = Waiters
        BY <3>2, <2>2, <2>3
      <4>2. QED BY <3>2, <4>1, <2>1 DEF IInv, TypeOK, SharedMutexSafe, CountsExact
    <3>3. QED BY <3>1, <3>2
  <2>5. waiting_writers' \in Nat
    <3>1. Waiters' \subseteq Threads
      BY DEF Waiters
    <3>2. QED BY <2>4, <3>1, SharedMutexConstants, FS_Subset, FS_CardinalityType
  <2>6. TypeOK'
    BY <1>1, <2>1, <2>5, GrantTypes
  <2>7. CountsExact'
    BY <1>1, <1>2, <2>1, <2>4, GrantCounts DEF CountsExact
  <2>8. NoMissedWakeup'
    BY <1>1, <1>2, <2>1 DEF IInv, TypeOK, SharedMutexSafe, NoMissedWakeup, MayEnter, Writes, Grant, Goto
  <2>9. QED BY <2>6, <2>7, <2>8 DEF IInv, SharedMutexSafe
<1>3. CASE ~ MayEnter(t) /\ pc[t] = "woken"
  <2>1. /\ pc' = [pc EXCEPT ![t] = "asleep"]
        /\ UNCHANGED <<readers, waiting_writers, writer, op>>
    BY <1>3 DEF IInv, TypeOK, Recheck, LeavesQueue, Goto
  <2>2. TypeOK'
    BY <2>1 DEF IInv, TypeOK, Places
  <2>3. \A kind : Holders(kind)' = Holders(kind)
    BY <1>3, <2>1 DEF IInv, TypeOK, Holders
  <2>4. Waiters' = Waiters
    BY <1>3, <2>1 DEF IInv, TypeOK, Waiters, Writes
  <2>5. CountsExact'
    BY <2>1, <2>3, <2>4 DEF IInv, SharedMutexSafe, CountsExact
  <2>6. NoMissedWakeup'
    BY <1>3, <2>1 DEF IInv, TypeOK, SharedMutexSafe, NoMissedWakeup, MayEnter, Writes
  <2>7. QED BY <2>2, <2>5, <2>6 DEF IInv, SharedMutexSafe
<1>4. CASE ~ MayEnter(t) /\ pc[t] = "expired" /\ Writes(t)
  <2>1. /\ NotifyAll(t, "idle") /\ UNCHANGED <<readers, writer, op>>
        /\ waiting_writers' = waiting_writers - 1
    BY <1>4 DEF Recheck, LeavesQueue, Expire
  <2>2. \A kind : Holders(kind)' = Holders(kind)
    BY <1>4, <2>1 DEF IInv, TypeOK, Holders, NotifyAll
  <2>3. Waiters' = Waiters \ {t} /\ t \in Waiters
    BY <1>4, <2>1 DEF IInv, TypeOK, Waiters, Writes, NotifyAll
  <2>4. Cardinality(Waiters') = Cardinality(Waiters) - 1 /\ Cardinality(Waiters') \in Nat
    <3>1. IsFiniteSet(Waiters')
      BY <2>3, CountedIsFinite, FS_RemoveElement
    <3>2. QED BY <2>3, <3>1, CountedIsFinite, OneLess, FS_CardinalityType
  <2>5. TypeOK'
    BY <2>1, <2>4 DEF IInv, TypeOK, SharedMutexSafe, CountsExact, Places, NotifyAll
  <2>6. CountsExact'
    BY <2>1, <2>2, <2>4 DEF IInv, SharedMutexSafe, CountsExact
  <2>7. NoMissedWakeup'
    BY <2>1 DEF IInv, TypeOK, NoMissedWakeup, NotifyAll
  <2>8. QED BY <2>5, <2>6, <2>7 DEF IInv, SharedMutexSafe
<1>5. CASE ~ MayEnter(t) /\ pc[t] = "expired" /\ ~ Writes(t)
  <2>1. /\ pc' = [pc EXCEPT ![t] = "idle"]
        /\ UNCHANGED <<readers, waiting_writers, writer, op>>
    BY <1>5 DEF IInv, TypeOK, Recheck, LeavesQueue, Expire, Goto
  <2>2. TypeOK'
    BY <2>1 DEF IInv, TypeOK, Places
  <2>3. \A kind : Holders(kind)' = Holders(kind)
    BY <1>5, <2>1 DEF IInv, TypeOK, Holders
  <2>4. Waiters' = Waiters
    BY <1>5, <2>1 DEF IInv, TypeOK, Waiters, Writes
  <2>5. CountsExact'
    BY <2>1, <2>3, <2>4 DEF IInv, SharedMutexSafe, CountsExact
  <2>6. NoMissedWakeup'
    BY <1>5, <2>1 DEF IInv, TypeOK, SharedMutexSafe, NoMissedWakeup, MayEnter, Writes
  <2>7. QED BY <2>2, <2>5, <2>6 DEF IInv, SharedMutexSafe
<1>6. QED BY <1>1, <1>2, <1>3, <1>4, <1>5

\* A timed wait runs out, or the condition wakes somebody for nothing.
LEMMA WakeStep ==
    ASSUME IInv, NEW t \in Threads, Timeout(t) \/ SpuriousWakeup(t)
    PROVE  IInv'
<1>1. PICK p \in {"expired", "woken"} :
        /\ pc[t] = "asleep" /\ pc' = [pc EXCEPT ![t] = p]
        /\ UNCHANGED <<readers, waiting_writers, writer, op>>
  BY DEF Timeout, SpuriousWakeup, Goto
<1>2. TypeOK'
  BY <1>1 DEF IInv, TypeOK, Places
<1>3. \A kind : Holders(kind)' = Holders(kind)
  BY <1>1 DEF IInv, TypeOK, Holders
<1>4. Waiters' = Waiters
  BY <1>1 DEF IInv, TypeOK, Waiters, Writes
<1>5. CountsExact'
  BY <1>1, <1>3, <1>4 DEF IInv, SharedMutexSafe, CountsExact
<1>6. NoMissedWakeup'
  BY <1>1 DEF IInv, TypeOK, SharedMutexSafe, NoMissedWakeup, MayEnter, Writes
<1>7. QED BY <1>2, <1>5, <1>6 DEF IInv, SharedMutexSafe

\* unlock and unlock_shared: one holder less, and if that lets anybody in,
\* the notification follows.
LEMMA UnlockStep ==
    ASSUME IInv, NEW t \in Threads, Unlock(t)
    PROVE  IInv'
<1>1. pc[t] = "held" /\ UNCHANGED <<waiting_writers, op>>
  BY DEF Unlock
<1>2. Waiters' = Waiters
  BY <1>1 DEF IInv, TypeOK, Unlock, Goto, Waiters, Writes
<1>3. CASE Writes(t)
  <2>1. writer' = FALSE /\ pc' = [pc EXCEPT ![t] = "notify"] /\ UNCHANGED readers
    BY <1>3 DEF Unlock, Goto
  <2>2. TypeOK'
    BY <1>1, <2>1 DEF IInv, TypeOK, Places
  <2>3. Holders(Shared)' = Holders(Shared) /\ Holders(Exclusive)' = Holders(Exclusive) \ {t}
    BY <1>1, <1>3, <2>1 DEF IInv, TypeOK, Holders, Writes, Exclusive, Shared
  <2>4. t \in Holders(Exclusive)
    BY <1>1, <1>3 DEF Holders, Writes
  <2>5. Cardinality(Holders(Exclusive)') = 0 /\ writer
    <3>1. writer
      BY <2>4, NoneCounted DEF IInv, TypeOK, SharedMutexSafe, CountsExact
    <3>2. QED
      BY <2>3, <2>4, <3>1, CountedIsFinite, OneLess DEF IInv, SharedMutexSafe, CountsExact
  <2>6. CountsExact'
    BY <1>1, <1>2, <2>1, <2>3, <2>5 DEF IInv, SharedMutexSafe, CountsExact
  <2>7. NoMissedWakeup'
    BY <2>1 DEF IInv, TypeOK, NoMissedWakeup
  <2>8. QED BY <2>2, <2>6, <2>7 DEF IInv, SharedMutexSafe
<1>4. CASE ~ Writes(t)
  <2>1. /\ readers' = readers - 1 /\ UNCHANGED writer
        /\ pc' = [pc EXCEPT ![t] = IF readers = 1 THEN "notify" ELSE "idle"]
    BY <1>4 DEF Unlock, Goto
  <2>2. Holders(Shared)' = Holders(Shared) \ {t} /\ Holders(Exclusive)' = Holders(Exclusive)
    BY <1>1, <1>4, <2>1 DEF IInv, TypeOK, Holders, Writes, Exclusive, Shared
  <2>3. t \in Holders(Shared)
    BY <1>1, <1>4 DEF IInv, TypeOK, Holders, Writes
  <2>4. readers' = Cardinality(Holders(Shared)')
    BY <2>1, <2>2, <2>3, CountedIsFinite, OneLess DEF IInv, SharedMutexSafe, CountsExact
  <2>5. readers # 0 /\ readers' \in Nat
    BY <2>1, <2>3, NoneCounted DEF IInv, TypeOK, SharedMutexSafe, CountsExact
  <2>6. TypeOK'
    BY <1>1, <2>1, <2>5 DEF IInv, TypeOK, Places
  <2>7. CountsExact'
    BY <1>1, <1>2, <2>1, <2>2, <2>4, <2>5 DEF IInv, SharedMutexSafe, CountsExact
  <2>8. NoMissedWakeup'
    BY <1>1, <2>1, <2>5 DEF IInv, TypeOK, SharedMutexSafe, NoMissedWakeup, MayEnter, Writes
  <2>9. QED BY <2>6, <2>7, <2>8 DEF IInv, SharedMutexSafe
<1>5. QED BY <1>3, <1>4

\* notify_all: nobody sleeps after it.
LEMMA NotifyStep ==
    ASSUME IInv, NEW t \in Threads, Notify(t)
    PROVE  IInv'
<1>1. /\ pc[t] = "notify" /\ NotifyAll(t, "idle")
      /\ UNCHANGED <<readers, waiting_writers, writer, op>>
  BY DEF Notify
<1>2. TypeOK'
  BY <1>1 DEF IInv, TypeOK, NotifyAll, Places
<1>3. \A kind : Holders(kind)' = Holders(kind)
  BY <1>1 DEF IInv, TypeOK, NotifyAll, Holders
<1>4. Waiters' = Waiters
  BY <1>1 DEF IInv, TypeOK, NotifyAll, Waiters, Writes
<1>5. CountsExact'
  BY <1>1, <1>3, <1>4 DEF IInv, SharedMutexSafe, CountsExact
<1>6. NoMissedWakeup'
  BY <1>1 DEF IInv, TypeOK, NoMissedWakeup, NotifyAll
<1>7. QED BY <1>2, <1>5, <1>6 DEF IInv, SharedMutexSafe

-----------------------------------------------------------------------------
\* The specification.

\* Every operation of every thread keeps the invariant.
LEMMA StepIInv ==
    ASSUME IInv, NEW t \in Threads, Step(t)
    PROVE  IInv'
BY CallStep, EnterStep, RecheckStep, WakeStep, UnlockStep, NotifyStep DEF Step, Inside

LEMMA StutterIInv == IInv /\ UNCHANGED smVars => IInv'
BY DEF smVars, IInv, TypeOK, SharedMutexSafe, CountsExact, NoMissedWakeup, Holders, Waiters,
       Writes, MayEnter

\* A fresh __base satisfies it.
LEMMA InitIInv == Init => IInv
<1> SUFFICES ASSUME Init PROVE IInv
  OBVIOUS
<1>1. TypeOK
  BY DEF Init, TypeOK, Places, Exclusive
<1>2. (\A kind : Holders(kind) = {}) /\ Waiters = {}
  BY DEF Init, Holders, Waiters
<1>3. CountsExact
  BY <1>2, FS_EmptySet DEF Init, CountsExact
<1>4. NoMissedWakeup
  BY DEF Init, NoMissedWakeup
<1>5. QED BY <1>1, <1>3, <1>4 DEF IInv, SharedMutexSafe

\* What a thread may call is an operation.
LEMMA NextIsSteps == Next => \E t \in Threads : Step(t)
BY SharedMutexConstants DEF Next, Step

LEMMA NextIInv == IInv /\ [Next]_smVars => IInv'
BY StepIInv, StutterIInv, NextIsSteps

LEMMA Invariance == Spec => []IInv
<1>1. QED BY InitIInv, NextIInv, PTL DEF Spec

\* shared_mutex and shared_timed_mutex: through any mixture of calls,
\* timeouts, failures and spurious wake-ups the two counters and the flag say
\* who is in and who waits, a writer is in alone, and nobody sleeps on a lock
\* that would let them in unless a notification is on its way.
THEOREM CountersAndSleepersAgree == Spec => []SharedMutexSafe
<1>1. IInv => SharedMutexSafe
  BY DEF IInv
<1>2. QED BY Invariance, <1>1, PTL

-----------------------------------------------------------------------------
\* Implementation of RwLock.

\* Who is let in finds the lock of the abstract specification as its rules
\* demand; who leaves, leaves it.
LEMMA StepRefines ==
    ASSUME IInv, NEW t \in Threads, Step(t)
    PROVE  GrantsAsRwLock
<1>1. ASSUME pc[t] # "held", MayEnter(t), Grant(t), UNCHANGED op
      PROVE  GrantsAsRwLock
  <2>1. CASE Writes(t)
    <3>1. Holders(Shared) = {} /\ Holders(Exclusive) = {}
      BY <1>1, <2>1, NoneCounted DEF IInv, TypeOK, SharedMutexSafe, CountsExact, MayEnter
    <3>2. Holders(Shared)' = Holders(Shared) /\ Holders(Exclusive)' = {t}
      BY <1>1, <2>1, <3>1 DEF IInv, TypeOK, Grant, Goto, Holders, Writes, Exclusive, Shared
    <3>3. RW!Lock(t)
      BY <3>1, <3>2 DEF RW!Lock
    <3>4. QED BY <3>3 DEF GrantsAsRwLock, RW!Next
  <2>2. CASE ~ Writes(t)
    <3>1. Holders(Exclusive) = {}
      BY <1>1, <2>2, NoneCounted DEF IInv, TypeOK, SharedMutexSafe, CountsExact, MayEnter
    <3>2. /\ Holders(Shared)' = Holders(Shared) \cup {t}
          /\ Holders(Exclusive)' = Holders(Exclusive)
      BY <1>1, <2>2 DEF IInv, TypeOK, Grant, Goto, Holders, Writes, Exclusive, Shared
    <3>3. RW!LockShared(t)
      BY <3>1, <3>2 DEF RW!LockShared
    <3>4. QED BY <3>3 DEF GrantsAsRwLock, RW!Next
  <2>3. QED BY <2>1, <2>2
<1>2. CASE Unlock(t)
  <2>1. \A kind : Holders(kind)' = Holders(kind) \ {t}
    BY <1>2 DEF IInv, TypeOK, Unlock, Goto, Holders
  <2>2. RW!Unlock(t)
    BY <2>1 DEF RW!Unlock
  <2>3. QED BY <2>2 DEF GrantsAsRwLock, RW!Next
<1>3. ASSUME \A kind : Holders(kind)' = Holders(kind) PROVE GrantsAsRwLock
  BY <1>3 DEF GrantsAsRwLock, RW!vars
<1>4. ASSUME NEW o \in Exclusive \cup Shared, Call(t, o) PROVE GrantsAsRwLock
  BY <1>3, <1>4 DEF IInv, TypeOK, Call, Goto, Holders
<1>5. CASE Enter(t)
  <2>1. CASE MayEnter(t)
    BY <1>1, <1>5, <2>1 DEF Enter
  <2>2. CASE ~ MayEnter(t)
    BY <1>3, <1>5, <2>2 DEF IInv, TypeOK, Enter, Goto, Holders
  <2>3. QED BY <2>1, <2>2
<1>6. CASE Recheck(t)
  <2>1. CASE MayEnter(t)
    BY <1>1, <1>6, <2>1 DEF Recheck
  <2>2. CASE ~ MayEnter(t)
    BY <1>3, <1>6, <2>2 DEF IInv, TypeOK, Recheck, Expire, Goto, NotifyAll, Holders
  <2>3. QED BY <2>1, <2>2
<1>7. CASE Notify(t)
  BY <1>3, <1>7 DEF IInv, TypeOK, Notify, NotifyAll, Holders
<1>8. CASE Timeout(t) \/ SpuriousWakeup(t)
  BY <1>3, <1>8 DEF IInv, TypeOK, Timeout, SpuriousWakeup, Goto, Holders
<1>9. QED BY <1>2, <1>4, <1>5, <1>6, <1>7, <1>8 DEF Step, Inside

LEMMA StutterRefines == UNCHANGED smVars => GrantsAsRwLock
BY DEF smVars, GrantsAsRwLock, RW!vars, Holders

\* The class is a readers-writer lock: readers together or one writer, each
\* from the step that grants the lock to unlock or unlock_shared.
THEOREM SharedMutexIsARwLock == Spec => ImplementsRwLock
<1>1. Init => RW!Init
  BY DEF Init, RW!Init, Holders
<1>2. IInv /\ [Next]_smVars => GrantsAsRwLock
  BY StepRefines, StutterRefines, NextIsSteps
<1>3. IInv /\ [Next]_smVars => [GrantsAsRwLock]_smVars
  BY <1>2
<1>4. QED BY <1>1, <1>3, Invariance, PTL DEF Spec, ImplementsRwLock

-----------------------------------------------------------------------------
\* The domain.

Record == [obj : Objects, ticket : Nat]

RcuTypeOK ==
    /\ queue \in Seq(Record) /\ freed \in Seq(Objects)
    /\ next_ticket \in Nat /\ completed_ticket \in Nat
    /\ reclaim_guard \in SUBSET Threads
    /\ depth \in [Threads -> Nat] /\ target \in [Threads -> Nat]
    /\ at \in [Threads -> {"out", "guard", "sync", "synced", "take", "reclaim",
                           "complete", "done"}]
    /\ ready \in [Threads -> Seq(Record)]
    /\ current \in Objects
    /\ seen \in [Threads -> SUBSET Objects] /\ due \in [Threads -> SUBSET Objects]

Guarded(t) == at[t] \in {"sync", "synced", "take", "reclaim", "complete"}
Reclaims(t) == at[t] \in {"reclaim", "complete"}

\* A reader is out of the barrier and holds the shared lock; a thread in the
\* barrier uses the lock only to synchronize.
Roles ==
    \A t \in Threads :
        /\ depth[t] > 0 => at[t] = "out" /\ pc[t] = "held" /\ op[t] \in Shared
        /\ seen[t] # {} => depth[t] > 0
        /\ at[t] \notin {"out", "sync", "synced"} => pc[t] = "idle"
        /\ at[t] \in {"sync", "synced"} => pc[t] = "idle" \/ op[t] = "lock"

\* One barrier at a time is past the guard.
Guard == \A t \in Threads : Guarded(t) <=> reclaim_guard = {t}

\* Tickets run without a gap from what was completed, over what one barrier
\* has taken, to what is queued.
Tickets ==
    /\ \A i \in DOMAIN queue : queue[i].ticket = next_ticket - Len(queue) + i
    /\ \A t \in Threads :
          /\ target[t] <= next_ticket
          /\ ready[t] # <<>> <=> Reclaims(t)
          /\ \A i \in DOMAIN ready[t] : ready[t][i].ticket = completed_ticket + i
          /\ Reclaims(t) => /\ next_ticket = completed_ticket + Len(ready[t]) + Len(queue)
                            /\ target[t] <= next_ticket - Len(queue)
          /\ at[t] = "complete" => /\ Len(freed) = completed_ticket + 1
                                   /\ freed[Len(freed)] = ready[t][1].obj
    /\ (\A t \in Threads : ~ Reclaims(t)) => next_ticket = completed_ticket + Len(queue)
    /\ (\A t \in Threads : at[t] # "complete") => Len(freed) = completed_ticket

\* Nothing is retired twice, and what is retired is not published again.
OnePlace ==
    /\ \A i, j \in DOMAIN queue : queue[i].obj = queue[j].obj => i = j
    /\ \A i, j \in DOMAIN freed : freed[i] = freed[j] => i = j
    /\ \A i \in DOMAIN queue, j \in DOMAIN freed : queue[i].obj # freed[j]
    /\ \A t \in Threads :
          /\ \A i, j \in DOMAIN ready[t] : ready[t][i].obj = ready[t][j].obj => i = j
          /\ \A i \in DOMAIN ready[t], j \in DOMAIN queue : ready[t][i].obj # queue[j].obj
          /\ \A i \in DOMAIN ready[t], j \in DOMAIN freed :
                ready[t][i].obj = freed[j] => at[t] = "complete" /\ i = 1

\* No reader sees what a barrier may reclaim: after it has synchronized, no
\* record up to its target, and nothing it has taken or reclaimed.
Grace ==
    /\ current \notin Retired
    /\ \A u \in Threads :
          /\ \A k \in DOMAIN freed : freed[k] \notin seen[u]
          /\ \A t \in Threads :
                /\ \A i \in DOMAIN ready[t] : ready[t][i].obj \notin seen[u]
                /\ at[t] \in {"synced", "take"} =>
                      \A i \in DOMAIN queue :
                          queue[i].ticket <= target[t] => queue[i].obj \notin seen[u]

\* What was due when a barrier began is reclaimed, taken or queued for it.
IsFreed(o) == \E k \in DOMAIN freed : freed[k] = o
IsTaken(o) == \E u \in Threads : \E i \in DOMAIN ready[u] : ready[u][i].obj = o
Owed ==
    \A t \in Threads : \A o \in due[t] :
        \/ IsFreed(o)
        \/ at[t] # "done" /\ IsTaken(o)
        \/ /\ at[t] # "done"
           /\ \E i \in DOMAIN queue : queue[i].obj = o /\ queue[i].ticket <= target[t]

RcuInv == IInv /\ RcuTypeOK /\ Roles /\ Guard /\ Tickets /\ OnePlace /\ Grace /\ Owed

-----------------------------------------------------------------------------
\* The lock inside the domain.

\* Every step of the domain is a step of one thread at the lock, or leaves it.
LEMMA RcuStepAtTheLock == RcuNext => UNCHANGED smVars \/ \E t \in Threads : Step(t)
BY SharedMutexConstants
   DEF RcuNext, ReadLock, ReadNested, ReadUnlock, Read, LockStep, Barrier, BarrierStep,
       TakeReclaimGuard, Synchronize, TakeReady, Reclaim, Complete, Return, Retire, Step,
       Exclusive, Shared

LEMMA LockKept == IInv /\ [RcuNext]_rcuVars => IInv'
BY RcuStepAtTheLock, StepIInv, StutterIInv DEF rcuVars

\* While a barrier holds the lock exclusively nobody sees anything.
LEMMA NobodyReads ==
    ASSUME RcuInv, NEW t \in Threads, at[t] = "sync", pc[t] = "held", NEW u \in Threads
    PROVE  seen[u] = {}
<1>1. op[t] \in Exclusive
  BY DEF RcuInv, Roles, Exclusive
<1>2. u \notin Holders(Shared)
  BY <1>1, WriterIsAlone DEF RcuInv
<1>3. QED BY <1>2 DEF RcuInv, RcuTypeOK, Roles, Holders

-----------------------------------------------------------------------------
\* The readers' operations: they leave the queue and the barriers alone.

\* What is said of the queue and the barriers stays true.
LEMMA BarriersUntouched ==
    ASSUME RcuInv, UNCHANGED lockPart
    PROVE  Guard' /\ Tickets' /\ OnePlace' /\ Owed' /\ (current \notin Retired)'
BY DEF RcuInv, lockPart, Guard, Guarded, Tickets, Reclaims, OnePlace, Owed, IsFreed, IsTaken,
       Grace, Retired

\* Nor can a reader see more, if it sees no more than before and the current
\* object.
LEMMA GraceKept ==
    ASSUME RcuInv, UNCHANGED lockPart, \A u \in Threads : seen'[u] \subseteq seen[u] \cup {current}
    PROVE  Grace'
<1>1. /\ \A k \in DOMAIN freed : freed[k] # current
      /\ \A i \in DOMAIN queue : queue[i].obj # current
      /\ \A t \in Threads : \A i \in DOMAIN ready[t] : ready[t][i].obj # current
  BY DEF RcuInv, Grace, Retired, ToSet
<1>2. QED BY <1>1, BarriersUntouched DEF RcuInv, lockPart, Grace

LEMMA ReadLockStep ==
    ASSUME RcuInv, NEW t \in Threads, NEW o \in Shared, ReadLock(t, o)
    PROVE  RcuTypeOK' /\ Roles' /\ Guard' /\ Tickets' /\ OnePlace' /\ Grace' /\ Owed'
<1>1. UNCHANGED <<lockPart, depth, seen>>
  BY DEF ReadLock
<1>2. RcuTypeOK'
  BY <1>1 DEF RcuInv, RcuTypeOK, lockPart
<1>3. Roles'
  BY <1>1 DEF RcuInv, RcuTypeOK, IInv, TypeOK, Roles, lockPart, ReadLock, Outside, Call, Goto
<1>4. QED BY <1>1, <1>2, <1>3, BarriersUntouched, GraceKept

LEMMA ReadNestedStep ==
    ASSUME RcuInv, NEW t \in Threads, ReadNested(t)
    PROVE  RcuTypeOK' /\ Roles' /\ Guard' /\ Tickets' /\ OnePlace' /\ Grace' /\ Owed'
<1>1. /\ UNCHANGED <<lockPart, smVars, seen>> /\ depth[t] > 0
      /\ depth' = [depth EXCEPT ![t] = @ + 1]
  BY RcuConstants DEF ReadNested, RcuInv, RcuTypeOK
<1>2. RcuTypeOK'
  BY <1>1 DEF RcuInv, RcuTypeOK, lockPart
<1>3. Roles'
  BY <1>1 DEF RcuInv, RcuTypeOK, Roles, lockPart, smVars
<1>4. QED BY <1>1, <1>2, <1>3, BarriersUntouched, GraceKept

LEMMA ReadUnlockStep ==
    ASSUME RcuInv, NEW t \in Threads, ReadUnlock(t)
    PROVE  RcuTypeOK' /\ Roles' /\ Guard' /\ Tickets' /\ OnePlace' /\ Grace' /\ Owed'
<1>1. /\ UNCHANGED lockPart /\ at[t] = "out" /\ depth[t] > 0
      /\ depth' = [depth EXCEPT ![t] = @ - 1]
      /\ seen' = [seen EXCEPT ![t] = IF depth[t] > 1 THEN @ ELSE {}]
  BY DEF ReadUnlock, RcuInv, RcuTypeOK
<1>2. RcuTypeOK'
  BY <1>1 DEF RcuInv, RcuTypeOK, lockPart
<1>3. Roles'
  <2>1. CASE depth[t] > 1
    BY <1>1, <2>1 DEF RcuInv, RcuTypeOK, Roles, lockPart, ReadUnlock, smVars
  <2>2. CASE depth[t] = 1
    <3>1. op' = op /\ \A u \in Threads : u # t => pc'[u] = pc[u]
      BY <2>2 DEF RcuInv, IInv, TypeOK, ReadUnlock, Unlock, Goto
    <3>2. depth'[t] = 0 /\ seen'[t] = {} /\ at' = at
      BY <1>1, <2>2 DEF RcuInv, RcuTypeOK, lockPart
    <3>3. \A u \in Threads : u # t => depth'[u] = depth[u] /\ seen'[u] = seen[u]
      BY <1>1 DEF RcuInv, RcuTypeOK
    <3>4. QED BY <1>1, <3>1, <3>2, <3>3 DEF RcuInv, Roles
  <2>3. QED BY <1>1, <2>1, <2>2 DEF RcuInv, RcuTypeOK
<1>4. QED BY <1>1, <1>2, <1>3, BarriersUntouched, GraceKept DEF RcuInv, RcuTypeOK

LEMMA ReadStep ==
    ASSUME RcuInv, NEW t \in Threads, Read(t)
    PROVE  RcuTypeOK' /\ Roles' /\ Guard' /\ Tickets' /\ OnePlace' /\ Grace' /\ Owed'
<1>1. /\ UNCHANGED <<lockPart, smVars, depth>> /\ depth[t] > 0
      /\ seen' = [seen EXCEPT ![t] = @ \cup {current}]
  BY DEF Read
<1>2. RcuTypeOK'
  BY <1>1 DEF RcuInv, RcuTypeOK, lockPart
<1>3. Roles'
  BY <1>1 DEF RcuInv, RcuTypeOK, Roles, lockPart, smVars
<1>4. QED BY <1>1, <1>2, <1>3, BarriersUntouched, GraceKept DEF RcuInv, RcuTypeOK

\* A reader that is let in was no reader before, for it waits inside the lock.
LEMMA LockStepStep ==
    ASSUME RcuInv, NEW t \in Threads, LockStep(t)
    PROVE  RcuTypeOK' /\ Roles' /\ Guard' /\ Tickets' /\ OnePlace' /\ Grace' /\ Owed'
<1>1. /\ UNCHANGED <<lockPart, seen, op>> /\ pc[t] \notin {"held", "idle"}
      /\ depth' = [depth EXCEPT ![t] = IF pc'[t] = "held" /\ op[t] \in Shared THEN 1 ELSE @]
  BY DEF LockStep, Inside, Enter, Recheck, Notify
<1>2. RcuTypeOK'
  BY <1>1 DEF RcuInv, RcuTypeOK, lockPart
<1>3. \A u \in Threads \ {t} : pc[u] \in {"held", "idle"} => pc'[u] = pc[u]
  BY DEF RcuInv, IInv, TypeOK, LockStep, Inside, Enter, Recheck, Notify, Grant, Goto, Expire,
         NotifyAll
<1>4. "lock" \notin Shared
  BY DEF Shared
<1>5. Roles'
  BY <1>1, <1>3, <1>4 DEF RcuInv, RcuTypeOK, Roles, lockPart
<1>6. QED BY <1>1, <1>2, <1>5, BarriersUntouched, GraceKept

-----------------------------------------------------------------------------
\* rcu_retire.

\* The new record comes last, with the next ticket: above every target, so no
\* barrier that has synchronized will take it.
LEMMA RetireStep ==
    ASSUME RcuInv, NEW t \in Threads, NEW o \in Objects, Retire(t, o)
    PROVE  RcuTypeOK' /\ Roles' /\ Guard' /\ Tickets' /\ OnePlace' /\ Grace' /\ Owed'
<1> DEFINE new == [obj |-> current, ticket |-> next_ticket + 1]
<1>1. /\ o # current /\ o \notin Retired /\ current' = o
      /\ next_ticket' = next_ticket + 1 /\ queue' = Append(queue, new)
      /\ UNCHANGED <<smVars, completed_ticket, reclaim_guard, depth, at, target, ready,
                     seen, freed, due>>
  BY DEF Retire
<1>2. new \in Record /\ new.obj = current /\ new.ticket = next_ticket + 1
  BY DEF RcuInv, RcuTypeOK, Record
<1> HIDE DEF new
<1>3. /\ queue' \in Seq(Record) /\ Len(queue') = Len(queue) + 1
      /\ \A i \in 1 .. Len(queue) : queue'[i] = queue[i]
      /\ queue'[Len(queue) + 1] = new
  BY <1>1, <1>2, AppendProperties DEF RcuInv, RcuTypeOK
<1>4. /\ DOMAIN queue = 1 .. Len(queue) /\ Len(queue) \in Nat
      /\ DOMAIN queue' = 1 .. Len(queue) + 1
  BY <1>3 DEF RcuInv, RcuTypeOK
<1>5. /\ \A k \in DOMAIN freed : freed[k] # current /\ freed[k] # o
      /\ \A i \in DOMAIN queue : queue[i].obj # current /\ queue[i].obj # o
      /\ \A u \in Threads : \A i \in DOMAIN ready[u] :
            ready[u][i].obj # current /\ ready[u][i].obj # o
  BY <1>1 DEF RcuInv, Grace, Retired, ToSet
<1>6. RcuTypeOK'
  BY <1>1, <1>3 DEF RcuInv, RcuTypeOK
<1>7. Roles'
  BY <1>1 DEF RcuInv, Roles, smVars
<1>8. Guard'
  BY <1>1 DEF RcuInv, Guard, Guarded
<1>9. Tickets'
  <2>1. \A i \in DOMAIN queue' : queue'[i].ticket = next_ticket' - Len(queue') + i
    <3>1. next_ticket \in Nat /\ next_ticket' - Len(queue') = next_ticket - Len(queue)
      BY <1>1, <1>3, <1>4 DEF RcuInv, RcuTypeOK
    <3>2. ASSUME NEW i \in 1 .. Len(queue)
          PROVE  queue'[i].ticket = next_ticket - Len(queue) + i
      BY <1>3, <1>4 DEF RcuInv, Tickets
    <3>3. queue'[Len(queue) + 1].ticket = next_ticket - Len(queue) + (Len(queue) + 1)
      BY <1>2, <1>3, <1>4, <3>1
    <3>4. QED BY <1>4, <3>1, <3>2, <3>3
  <2>2. ASSUME NEW u \in Threads, Reclaims(u)
        PROVE  /\ next_ticket' = completed_ticket + Len(ready[u]) + Len(queue')
               /\ target[u] <= next_ticket' - Len(queue')
    <3>1. /\ next_ticket = completed_ticket + Len(ready[u]) + Len(queue)
          /\ target[u] <= next_ticket - Len(queue)
      BY <2>2 DEF RcuInv, Tickets
    <3>2. Len(ready[u]) \in Nat /\ target[u] \in Nat /\ next_ticket \in Nat
      BY DEF RcuInv, RcuTypeOK
    <3>3. QED BY <1>1, <1>3, <1>4, <3>1, <3>2 DEF RcuInv, RcuTypeOK
  <2>3. \A u \in Threads : target[u] <= next_ticket'
    BY <1>1 DEF RcuInv, RcuTypeOK, Tickets
  <2>4. ASSUME \A u \in Threads : ~ Reclaims(u)
        PROVE  next_ticket' = completed_ticket + Len(queue')
    <3>1. next_ticket = completed_ticket + Len(queue)
      BY <2>4 DEF RcuInv, Tickets
    <3>2. QED BY <1>1, <1>3, <1>4, <3>1 DEF RcuInv, RcuTypeOK
  <2>5. QED BY <1>1, <2>1, <2>2, <2>3, <2>4 DEF RcuInv, Tickets, Reclaims
<1>10. OnePlace'
  <2>1. \A i, j \in DOMAIN queue' : queue'[i].obj = queue'[j].obj => i = j
    BY <1>2, <1>3, <1>4, <1>5 DEF RcuInv, OnePlace
  <2>2. \A i \in DOMAIN queue', j \in DOMAIN freed : queue'[i].obj # freed[j]
    BY <1>2, <1>3, <1>4, <1>5 DEF RcuInv, OnePlace
  <2>3. \A u \in Threads : \A i \in DOMAIN ready[u], j \in DOMAIN queue' :
            ready[u][i].obj # queue'[j].obj
    BY <1>2, <1>3, <1>4, <1>5 DEF RcuInv, OnePlace
  <2>4. QED BY <1>1, <2>1, <2>2, <2>3 DEF RcuInv, OnePlace
<1>11. Grace'
  <2>1. \A i \in DOMAIN queue' : queue'[i].obj # o
    BY <1>1, <1>2, <1>3, <1>4, <1>5
  <2>2. (current \notin Retired)'
    BY <1>1, <1>5, <2>1 DEF Retired, ToSet
  <2>3. ASSUME NEW u \in Threads, NEW v \in Threads, at[v] \in {"synced", "take"},
               NEW i \in DOMAIN queue', queue'[i].ticket <= target[v]
        PROVE  queue'[i].obj \notin seen[u]
    <3>1. target[v] <= next_ticket /\ target[v] \in Nat /\ next_ticket \in Nat
      BY DEF RcuInv, RcuTypeOK, Tickets
    <3>2. i \in DOMAIN queue
      BY <1>2, <1>3, <1>4, <2>3, <3>1
    <3>3. QED BY <1>3, <1>4, <2>3, <3>2 DEF RcuInv, Grace
  <2>4. QED BY <1>1, <2>2, <2>3 DEF RcuInv, Grace
<1>12. Owed'
  <2>1. ASSUME NEW u \in Threads, NEW x,
               \E i \in DOMAIN queue : queue[i].obj = x /\ queue[i].ticket <= target[u]
        PROVE  \E i \in DOMAIN queue' : queue'[i].obj = x /\ queue'[i].ticket <= target[u]
    BY <1>3, <1>4, <2>1
  <2>2. QED BY <1>1, <2>1 DEF RcuInv, Owed, IsFreed, IsTaken
<1>13. QED BY <1>6, <1>7, <1>8, <1>9, <1>10, <1>11, <1>12

-----------------------------------------------------------------------------
\* The steps of a barrier before it takes anything, and its return.

\* They move one thread and leave queue, records and tickets alone.
LEMMA MoveKeepsRecords ==
    ASSUME RcuInv, NEW t \in Threads, NEW p, Move(t, p),
           ~ Reclaims(t), p \notin {"reclaim", "complete"},
           UNCHANGED <<queue, next_ticket, completed_ticket, ready, freed>>,
           target' \in [Threads -> Nat], target'[t] <= next_ticket,
           \A u \in Threads \ {t} : target'[u] = target[u]
    PROVE  Tickets' /\ OnePlace'
<1>1. \A u \in Threads : u # t => at'[u] = at[u]
  BY DEF Move, RcuInv, RcuTypeOK
<1>2. at'[t] = p
  BY DEF Move, RcuInv, RcuTypeOK
<1>3. \A u \in Threads : (Reclaims(u)' <=> Reclaims(u)) /\ (at'[u] = "complete" <=> at[u] = "complete")
  BY <1>1, <1>2 DEF Reclaims
<1>4. \A u \in Threads : Reclaims(u) => u # t
  OBVIOUS
<1>5. Tickets'
  BY <1>3, <1>4 DEF RcuInv, Tickets
<1>6. OnePlace'
  BY <1>3 DEF RcuInv, OnePlace
<1>7. QED BY <1>5, <1>6

\* Readers cannot see more for it, if the thread does not come to have
\* synchronized by it.
LEMMA MoveKeepsGrace ==
    ASSUME RcuInv, NEW t \in Threads, NEW p, Move(t, p),
           UNCHANGED <<queue, ready, freed, current, seen>>,
           p \in {"synced", "take"} =>
               \A u \in Threads : \A i \in DOMAIN queue :
                   queue[i].ticket <= target[t] => queue[i].obj \notin seen[u],
           p \in {"synced", "take"} => target'[t] = target[t],
           \A u \in Threads \ {t} : target'[u] = target[u]
    PROVE  Grace'
<1>1. (current \notin Retired)'
  BY DEF RcuInv, Grace, Retired
<1>2. ASSUME NEW u \in Threads, NEW v \in Threads, at'[v] \in {"synced", "take"},
             NEW i \in DOMAIN queue, queue[i].ticket <= target'[v]
      PROVE  queue[i].obj \notin seen[u]
  <2>1. CASE v = t
    BY <1>2, <2>1 DEF Move, RcuInv, RcuTypeOK
  <2>2. CASE v # t
    BY <1>2, <2>2 DEF Move, RcuInv, RcuTypeOK, Grace
  <2>3. QED BY <2>1, <2>2
<1>3. QED BY <1>1, <1>2 DEF RcuInv, Grace

\* With nobody reclaiming and everything completed, the queue is empty and
\* what was retired is reclaimed.
LEMMA AllCompleted ==
    ASSUME RcuInv, completed_ticket >= next_ticket, NEW x \in Retired
    PROVE  IsFreed(x)
<1>1. \A u \in Threads : ready[u] = <<>>
  <2> SUFFICES ASSUME NEW u \in Threads, Reclaims(u) PROVE FALSE
    BY DEF RcuInv, Tickets
  <2>1. Len(ready[u]) \in Nat /\ Len(ready[u]) > 0
    BY EmptySeq, LenProperties DEF RcuInv, RcuTypeOK, Tickets
  <2>2. next_ticket = completed_ticket + Len(ready[u]) + Len(queue)
    BY DEF RcuInv, Tickets
  <2>3. QED BY <2>1, <2>2 DEF RcuInv, RcuTypeOK
<1>2. queue = <<>>
  <2>1. next_ticket = completed_ticket + Len(queue)
    BY <1>1 DEF RcuInv, Tickets
  <2>2. Len(queue) = 0
    BY <2>1 DEF RcuInv, RcuTypeOK
  <2>3. QED BY <2>2, EmptySeq DEF RcuInv, RcuTypeOK
<1>3. QED BY <1>1, <1>2 DEF Retired, ToSet, IsFreed

\* __barrier begins: with nothing to wait for it is over, and then everything
\* retired is reclaimed already.
LEMMA BarrierStepFirst ==
    ASSUME RcuInv, NEW t \in Threads, Barrier(t)
    PROVE  RcuTypeOK' /\ Roles' /\ Guard' /\ Tickets' /\ OnePlace' /\ Grace' /\ Owed'
<1> DEFINE p == IF completed_ticket >= next_ticket THEN "done" ELSE "guard"
<1>1. /\ at[t] = "out" /\ pc[t] = "idle" /\ depth[t] = 0
      /\ target' = [target EXCEPT ![t] = next_ticket]
      /\ due' = [due EXCEPT ![t] = Retired]
      /\ Move(t, p)
      /\ UNCHANGED <<smVars, queue, next_ticket, completed_ticket, reclaim_guard, ready,
                     freed, current, seen, depth>>
  BY DEF Barrier, barrierPart, Outside
<1>2. p \in {"done", "guard"}
  OBVIOUS
<1>3. p = "done" => completed_ticket >= next_ticket
  OBVIOUS
<1> HIDE DEF p
<1>4. at' = [at EXCEPT ![t] = p]
  BY <1>1 DEF Move
<1>5. Retired \subseteq Objects
  <2>1. \A i \in DOMAIN queue : queue[i] \in Record
    BY ElementOfSeq DEF RcuInv, RcuTypeOK
  <2>2. \A u \in Threads : \A i \in DOMAIN ready[u] : ready[u][i] \in Record
    BY ElementOfSeq DEF RcuInv, RcuTypeOK
  <2>3. \A i \in DOMAIN freed : freed[i] \in Objects
    BY ElementOfSeq DEF RcuInv, RcuTypeOK
  <2>4. QED BY <2>1, <2>2, <2>3 DEF Retired, ToSet, Record
<1>6. RcuTypeOK'
  BY <1>1, <1>2, <1>4, <1>5 DEF RcuInv, RcuTypeOK
<1>7. Roles'
  BY <1>1, <1>2, <1>4 DEF RcuInv, RcuTypeOK, Roles, smVars
<1>8. Guard'
  BY <1>1, <1>2, <1>4 DEF RcuInv, RcuTypeOK, Guard, Guarded
<1>9. Tickets' /\ OnePlace'
  <2>1. ~ Reclaims(t) /\ p \notin {"reclaim", "complete"}
    BY <1>1, <1>2 DEF Reclaims
  <2>2. target'[t] <= next_ticket /\ \A u \in Threads \ {t} : target'[u] = target[u]
    BY <1>1 DEF RcuInv, RcuTypeOK
  <2>3. target' \in [Threads -> Nat]
    BY <1>1 DEF RcuInv, RcuTypeOK
  <2>4. QED BY <1>1, <2>1, <2>2, <2>3, MoveKeepsRecords
<1>10. Grace'
  <2>1. \A u \in Threads \ {t} : target'[u] = target[u]
    BY <1>1 DEF RcuInv, RcuTypeOK
  <2>2. QED BY <1>1, <1>2, <2>1, MoveKeepsGrace
<1>11. Owed'
  <2>1. ASSUME NEW x \in Retired, p = "done" PROVE IsFreed(x)
    BY <1>3, <2>1, AllCompleted
  <2>2. ASSUME NEW x \in Retired
        PROVE  \/ IsFreed(x) \/ IsTaken(x)
               \/ \E i \in DOMAIN queue : queue[i].obj = x /\ queue[i].ticket <= next_ticket
    <3>1. \A i \in DOMAIN queue : queue[i].ticket <= next_ticket
      BY DEF RcuInv, RcuTypeOK, Tickets
    <3>2. QED BY <3>1 DEF Retired, ToSet, IsFreed, IsTaken
  <2>3. ASSUME NEW x \in due'[t]
        PROVE  \/ IsFreed(x)'
               \/ at'[t] # "done" /\ IsTaken(x)'
               \/ /\ at'[t] # "done"
                  /\ \E i \in DOMAIN queue' : queue'[i].obj = x /\ queue'[i].ticket <= target'[t]
    <3>1. x \in Retired /\ target'[t] = next_ticket /\ at'[t] = p
      BY <1>1, <1>4, <2>3 DEF RcuInv, RcuTypeOK
    <3>2. QED BY <1>1, <1>2, <2>1, <2>2, <3>1 DEF IsFreed, IsTaken
  <2>4. \A u \in Threads \ {t} : due'[u] = due[u] /\ at'[u] = at[u] /\ target'[u] = target[u]
    BY <1>1, <1>4 DEF RcuInv, RcuTypeOK
  <2>5. ASSUME NEW u \in Threads \ {t}, NEW x \in due'[u]
        PROVE  \/ IsFreed(x)'
               \/ at'[u] # "done" /\ IsTaken(x)'
               \/ /\ at'[u] # "done"
                  /\ \E i \in DOMAIN queue' : queue'[i].obj = x /\ queue'[i].ticket <= target'[u]
    BY <1>1, <2>4, <2>5 DEF RcuInv, Owed, IsFreed, IsTaken
  <2>6. QED BY <2>3, <2>5 DEF Owed
<1>12. QED BY <1>6, <1>7, <1>8, <1>9, <1>10, <1>11

\* What is owed stays owed as long as the barrier goes on.
LEMMA MoveKeepsOwed ==
    ASSUME RcuInv, NEW t \in Threads, NEW p, Move(t, p), p # "done",
           UNCHANGED <<queue, ready, freed, due, target>>
    PROVE  Owed'
BY DEF Move, RcuInv, RcuTypeOK, Owed, IsFreed, IsTaken

\* Where nobody reclaims, the records queued are those above completed_ticket.
LEMMA NobodyReclaims ==
    ASSUME RcuInv, \A u \in Threads : ~ Reclaims(u)
    PROVE  /\ next_ticket = completed_ticket + Len(queue)
           /\ \A i \in DOMAIN queue : queue[i].ticket = completed_ticket + i
           /\ \A o : ~ IsTaken(o)
<1>1. next_ticket = completed_ticket + Len(queue)
  BY DEF RcuInv, Tickets
<1>2. \A i \in DOMAIN queue : queue[i].ticket = completed_ticket + i
  <2>1. next_ticket - Len(queue) = completed_ticket
    BY <1>1 DEF RcuInv, RcuTypeOK
  <2>2. QED BY <2>1 DEF RcuInv, Tickets
<1>3. \A u \in Threads : ready[u] = <<>>
  BY DEF RcuInv, Tickets
<1>4. QED BY <1>1, <1>2, <1>3 DEF IsTaken

\* The guard obtained, another barrier may have done the work: what it
\* completed is what this one was to wait for.
LEMMA TakeReclaimGuardStep ==
    ASSUME RcuInv, NEW t \in Threads, TakeReclaimGuard(t)
    PROVE  RcuTypeOK' /\ Roles' /\ Guard' /\ Tickets' /\ OnePlace' /\ Grace' /\ Owed'
<1> DEFINE p == IF completed_ticket >= target[t] THEN "done" ELSE "sync"
<1>1. /\ at[t] = "guard" /\ reclaim_guard = {} /\ Move(t, p)
      /\ UNCHANGED <<smVars, queue, next_ticket, completed_ticket, target, ready, freed,
                     due, current, seen, depth>>
  BY DEF TakeReclaimGuard, barrierPart
<1>2. p \in {"done", "sync"} /\ (p = "done" => completed_ticket >= target[t])
      /\ reclaim_guard' = IF p = "done" THEN {} ELSE {t}
  BY <1>1 DEF TakeReclaimGuard
<1> HIDE DEF p
<1>3. at' = [at EXCEPT ![t] = p] /\ ~ Reclaims(t)
  BY <1>1 DEF Move, Reclaims
<1>4. RcuTypeOK'
  BY <1>1, <1>2, <1>3 DEF RcuInv, RcuTypeOK
<1>5. Roles'
  BY <1>1, <1>2, <1>3 DEF RcuInv, RcuTypeOK, Roles, smVars
<1>6. \A u \in Threads : ~ Guarded(u)
  BY <1>1 DEF RcuInv, Guard
<1>7. Guard'
  BY <1>1, <1>2, <1>3, <1>6 DEF RcuInv, RcuTypeOK, Guard, Guarded
<1>8. Tickets' /\ OnePlace'
  <2>1. target' \in [Threads -> Nat] /\ target'[t] <= next_ticket
    BY <1>1 DEF RcuInv, RcuTypeOK, Tickets
  <2>2. QED BY <1>1, <1>2, <1>3, <2>1, MoveKeepsRecords
<1>9. Grace'
  BY <1>1, <1>2, MoveKeepsGrace
<1>10. Owed'
  <2>1. CASE p = "sync"
    BY <1>1, <2>1, MoveKeepsOwed
  <2>2. CASE p = "done"
    <3>1. \A u \in Threads : ~ Reclaims(u)
      BY <1>6 DEF Guarded, Reclaims
    <3>2. ASSUME NEW i \in DOMAIN queue PROVE ~ (queue[i].ticket <= target[t])
      <4>1. queue[i].ticket = completed_ticket + i /\ i \in Nat \ {0}
        BY <3>1, NobodyReclaims DEF RcuInv, RcuTypeOK
      <4>2. QED BY <1>2, <2>2, <4>1 DEF RcuInv, RcuTypeOK
    <3>3. \A o \in due[t] : IsFreed(o)
      BY <1>1, <3>1, <3>2, NobodyReclaims DEF RcuInv, Owed
    <3>4. \A u \in Threads \ {t} : at'[u] = at[u]
      BY <1>3 DEF RcuInv, RcuTypeOK
    <3>5. QED BY <1>1, <3>3, <3>4 DEF RcuInv, Owed, IsFreed, IsTaken
  <2>3. QED BY <1>2, <2>1, <2>2
<1>11. QED BY <1>4, <1>5, <1>7, <1>8, <1>9, <1>10

\* lock, unlock: while the barrier holds the lock nobody reads, and who reads
\* after that finds only what is published then.
LEMMA SynchronizeStep ==
    ASSUME RcuInv, NEW t \in Threads, Synchronize(t)
    PROVE  RcuTypeOK' /\ Roles' /\ Guard' /\ Tickets' /\ OnePlace' /\ Grace' /\ Owed'
<1>1. UNCHANGED <<queue, next_ticket, completed_ticket, reclaim_guard, target, ready, freed,
                  due, current, seen, depth>>
  BY DEF Synchronize, barrierPart
<1>2. target' \in [Threads -> Nat] /\ target'[t] <= next_ticket
  BY <1>1 DEF RcuInv, RcuTypeOK, Tickets
<1>3. CASE at[t] = "sync" /\ pc[t] = "idle" /\ Call(t, "lock") /\ UNCHANGED at
  <2>1. UNCHANGED lockPart /\ RcuTypeOK'
    BY <1>1, <1>3 DEF RcuInv, RcuTypeOK, lockPart
  <2>2. Roles'
    BY <1>1, <1>3 DEF RcuInv, IInv, TypeOK, Roles, Call, Goto
  <2>3. QED BY <1>1, <2>1, <2>2, BarriersUntouched, GraceKept
<1>4. CASE at[t] = "sync" /\ pc[t] = "held" /\ Unlock(t) /\ Move(t, "synced")
  <2>1. at' = [at EXCEPT ![t] = "synced"] /\ ~ Reclaims(t)
    BY <1>4 DEF Move, Reclaims
  <2>2. RcuTypeOK'
    BY <1>1, <2>1 DEF RcuInv, RcuTypeOK
  <2>3. op' = op /\ \A u \in Threads \ {t} : pc'[u] = pc[u]
    BY <1>4 DEF RcuInv, IInv, TypeOK, Unlock, Goto
  <2>4. op[t] = "lock"
    BY <1>4 DEF RcuInv, Roles
  <2>5. Roles'
    BY <1>1, <1>4, <2>1, <2>3, <2>4 DEF RcuInv, RcuTypeOK, Roles
  <2>6. Guard'
    BY <1>1, <1>4, <2>1 DEF RcuInv, RcuTypeOK, Guard, Guarded
  <2>7. Tickets' /\ OnePlace'
    BY <1>1, <1>2, <1>4, <2>1, MoveKeepsRecords
  <2>8. \A u \in Threads : seen[u] = {}
    BY <1>4, NobodyReads
  <2>9. Grace'
    BY <1>1, <1>4, <2>8, MoveKeepsGrace
  <2>10. Owed'
    BY <1>1, <1>4, MoveKeepsOwed
  <2>11. QED BY <2>2, <2>5, <2>6, <2>7, <2>9, <2>10
<1>5. CASE at[t] = "synced" /\ pc[t] = "idle" /\ Move(t, "take") /\ UNCHANGED smVars
  <2>1. at' = [at EXCEPT ![t] = "take"] /\ ~ Reclaims(t)
    BY <1>5 DEF Move, Reclaims
  <2>2. RcuTypeOK'
    BY <1>1, <2>1 DEF RcuInv, RcuTypeOK
  <2>3. Roles'
    BY <1>1, <1>5, <2>1 DEF RcuInv, RcuTypeOK, Roles, smVars
  <2>4. Guard'
    BY <1>1, <1>5, <2>1 DEF RcuInv, RcuTypeOK, Guard, Guarded
  <2>5. Tickets' /\ OnePlace'
    BY <1>1, <1>2, <1>5, <2>1, MoveKeepsRecords
  <2>6. \A u \in Threads : \A i \in DOMAIN queue :
          queue[i].ticket <= target[t] => queue[i].obj \notin seen[u]
    BY <1>5 DEF RcuInv, Grace
  <2>7. Grace'
    BY <1>1, <1>5, <2>6, MoveKeepsGrace
  <2>8. Owed'
    BY <1>1, <1>5, MoveKeepsOwed
  <2>9. QED BY <2>2, <2>3, <2>4, <2>5, <2>7, <2>8
<1>6. QED BY <1>3, <1>4, <1>5 DEF Synchronize

\* The call returns: what it owed is reclaimed.
LEMMA ReturnStep ==
    ASSUME RcuInv, NEW t \in Threads, Return(t)
    PROVE  RcuTypeOK' /\ Roles' /\ Guard' /\ Tickets' /\ OnePlace' /\ Grace' /\ Owed'
<1>1. /\ at[t] = "done" /\ Move(t, "out")
      /\ due' = [due EXCEPT ![t] = {}] /\ target' = [target EXCEPT ![t] = 0]
      /\ UNCHANGED <<smVars, queue, next_ticket, completed_ticket, reclaim_guard, ready,
                     freed, current, seen, depth>>
  BY DEF Return, barrierPart
<1>2. at' = [at EXCEPT ![t] = "out"] /\ ~ Reclaims(t)
  BY <1>1 DEF Move, Reclaims
<1>3. RcuTypeOK'
  BY <1>1, <1>2 DEF RcuInv, RcuTypeOK
<1>4. Roles'
  BY <1>1, <1>2 DEF RcuInv, RcuTypeOK, Roles, smVars
<1>5. Guard'
  BY <1>1, <1>2 DEF RcuInv, RcuTypeOK, Guard, Guarded
<1>6. target' \in [Threads -> Nat] /\ target'[t] <= next_ticket
      /\ \A u \in Threads \ {t} : target'[u] = target[u]
  BY <1>1 DEF RcuInv, RcuTypeOK
<1>7. Tickets' /\ OnePlace'
  BY <1>1, <1>2, <1>6, MoveKeepsRecords
<1>8. Grace'
  BY <1>1, <1>6, MoveKeepsGrace
<1>9. Owed'
  <2>1. due'[t] = {} /\ \A u \in Threads \ {t} : due'[u] = due[u] /\ at'[u] = at[u]
    BY <1>1, <1>2 DEF RcuInv, RcuTypeOK
  <2>2. QED BY <1>1, <1>6, <2>1 DEF RcuInv, Owed, IsFreed, IsTaken
<1>10. QED BY <1>3, <1>4, <1>5, <1>7, <1>8, <1>9

-----------------------------------------------------------------------------
\* The records change hands.

\* Only one barrier is past the guard.
LEMMA OneGuarded ==
    ASSUME RcuInv, NEW t \in Threads, Guarded(t), NEW u \in Threads \ {t}
    PROVE  ~ Guarded(u) /\ ~ Reclaims(u) /\ ready[u] = <<>>
<1>1. reclaim_guard = {t} /\ (Guarded(u) => reclaim_guard = {u})
  BY DEF RcuInv, Guard
<1>2. ~ Guarded(u)
  BY <1>1
<1>3. ~ Reclaims(u)
  BY <1>2 DEF Guarded, Reclaims
<1>4. QED BY <1>2, <1>3 DEF RcuInv, Tickets

\* The records up to the target are the first Ready(t) ones.
LEMMA ReadyIsAPrefix ==
    ASSUME RcuInv, NEW t \in Threads, at[t] = "take"
    PROVE  /\ Ready(t) \in 0 .. Len(queue)
           /\ \A i \in DOMAIN queue : queue[i].ticket <= target[t] <=> i <= Ready(t)
<1> DEFINE n == Len(queue)
           c == completed_ticket
           g == target[t]
           m == IF g <= c THEN 0 ELSE IF g >= c + n THEN n ELSE g - c
<1>1. n \in Nat /\ c \in Nat /\ g \in Nat /\ DOMAIN queue = 1 .. n
  BY DEF RcuInv, RcuTypeOK
<1>2. \A u \in Threads : ~ Reclaims(u)
  BY OneGuarded DEF Guarded, Reclaims
<1>3. \A i \in 1 .. n : queue[i].ticket = c + i
  BY <1>1, <1>2, NobodyReclaims
<1>4. m \in 0 .. n
  BY <1>1
<1>5. \A i \in 1 .. n : c + i <= g <=> i <= m
  BY <1>1
<1> HIDE DEF n, c, g, m
<1>6. {i \in DOMAIN queue : queue[i].ticket <= target[t]} = 1 .. m
  <2>1. \A i \in 1 .. n : queue[i].ticket <= g <=> i <= m
    BY <1>3, <1>5
  <2>2. 1 .. m \subseteq 1 .. n
    BY <1>1, <1>4
  <2>3. QED BY <1>1, <1>4, <2>1, <2>2 DEF g
<1>7. Ready(t) = m
  <2>1. m \in Int /\ Cardinality(1 .. m) = IF 1 > m THEN 0 ELSE m - 1 + 1
    BY <1>1, <1>4, FS_Interval
  <2>2. Cardinality(1 .. m) = m
    BY <1>1, <1>4, <2>1
  <2>3. QED BY <1>6, <2>2 DEF Ready
<1>8. QED BY <1>1, <1>3, <1>4, <1>5, <1>7 DEF n, g

\* The barrier takes what is its own to reclaim; with nothing to take, nothing
\* it owed is left.
LEMMA TakeReadyStep ==
    ASSUME RcuInv, NEW t \in Threads, TakeReady(t)
    PROVE  RcuTypeOK' /\ Roles' /\ Guard' /\ Tickets' /\ OnePlace' /\ Grace' /\ Owed'
<1> DEFINE n == Len(queue)
           r == Ready(t)
           p == IF Ready(t) = 0 THEN "done" ELSE "reclaim"
<1>1. /\ at[t] = "take" /\ Move(t, p)
      /\ ready' = [ready EXCEPT ![t] = SubSeq(queue, 1, r)]
      /\ queue' = SubSeq(queue, r + 1, n)
      /\ reclaim_guard' = IF r = 0 THEN {} ELSE reclaim_guard
      /\ UNCHANGED <<smVars, next_ticket, completed_ticket, target, freed, due, current,
                     seen, depth>>
  BY DEF TakeReady, barrierPart
<1>2. /\ n \in Nat /\ r \in 0 .. n /\ DOMAIN queue = 1 .. n
      /\ \A i \in 1 .. n : queue[i].ticket <= target[t] <=> i <= r
  BY <1>1, ReadyIsAPrefix DEF RcuInv, RcuTypeOK
<1>3. /\ p \in {"done", "reclaim"} /\ (p = "done" <=> r = 0)
      /\ at' = [at EXCEPT ![t] = p]
  BY <1>1 DEF Move
<1> HIDE DEF n, r, p
<1>4. /\ ready'[t] = SubSeq(queue, 1, r)
      /\ \A u \in Threads \ {t} : /\ ready'[u] = ready[u] /\ ready[u] = <<>>
                                  /\ at'[u] = at[u] /\ ~ Reclaims(u) /\ ~ Guarded(u)
  BY <1>1, <1>3, OneGuarded DEF RcuInv, RcuTypeOK, Guarded
<1>5. \A i \in 1 .. n : queue[i] \in Record
  BY <1>2, ElementOfSeq DEF RcuInv, RcuTypeOK, n
<1>6. /\ ready'[t] \in Seq(Record) /\ Len(ready'[t]) = r /\ DOMAIN ready'[t] = 1 .. r
      /\ \A i \in 1 .. r : ready'[t][i] = queue[i]
  <2>1. \A i \in 1 .. r : queue[i] \in Record
    BY <1>2, <1>5
  <2>2. /\ SubSeq(queue, 1, r) \in Seq(Record)
        /\ Len(SubSeq(queue, 1, r)) = IF 1 <= r THEN r - 1 + 1 ELSE 0
        /\ \A i \in 1 .. r - 1 + 1 : SubSeq(queue, 1, r)[i] = queue[1 + i - 1]
    BY <1>2, <2>1, SubSeqProperties
  <2>3. QED BY <1>2, <1>4, <2>2
<1>7. /\ queue' \in Seq(Record) /\ Len(queue') = n - r /\ DOMAIN queue' = 1 .. n - r
      /\ \A i \in 1 .. n - r : queue'[i] = queue[r + i]
  <2>1. \A i \in r + 1 .. n : queue[i] \in Record
    BY <1>2, <1>5
  <2>2. /\ SubSeq(queue, r + 1, n) \in Seq(Record)
        /\ Len(SubSeq(queue, r + 1, n)) = IF r + 1 <= n THEN n - (r + 1) + 1 ELSE 0
        /\ \A i \in 1 .. n - (r + 1) + 1 : SubSeq(queue, r + 1, n)[i] = queue[r + 1 + i - 1]
    BY <1>2, <2>1, SubSeqProperties
  <2>3. QED BY <1>1, <1>2, <2>2
<1>8. RcuTypeOK'
  BY <1>1, <1>3, <1>4, <1>6, <1>7 DEF RcuInv, RcuTypeOK
<1>9. Roles'
  BY <1>1, <1>3 DEF RcuInv, RcuTypeOK, Roles, smVars
<1>10. Guard'
  <2>1. reclaim_guard = {t} /\ at'[t] = p
    BY <1>1, <1>3 DEF RcuInv, RcuTypeOK, Guard, Guarded
  <2>2. QED BY <1>1, <1>3, <1>4, <2>1 DEF Guard, Guarded
<1>11. /\ \A u \in Threads : ~ Reclaims(u)
       /\ next_ticket = completed_ticket + n
       /\ \A i \in 1 .. n : queue[i].ticket = completed_ticket + i
       /\ \A o : ~ IsTaken(o)
  <2>1. \A u \in Threads : ~ Reclaims(u)
    BY <1>1, <1>4 DEF Reclaims
  <2>2. QED BY <1>2, <2>1, NobodyReclaims DEF n
<1>12. r > 0 => target[t] <= completed_ticket + r
  <2>1. target[t] \in Nat /\ completed_ticket \in Nat /\ target[t] <= next_ticket
    BY DEF RcuInv, RcuTypeOK, Tickets
  <2>2. CASE r = n
    BY <1>11, <2>1, <2>2
  <2>3. CASE r < n
    <3>1. r + 1 \in 1 .. n /\ ~ (queue[r + 1].ticket <= target[t])
      BY <1>2, <2>3
    <3>2. queue[r + 1].ticket = completed_ticket + (r + 1)
      BY <1>11, <3>1
    <3>3. QED BY <1>2, <2>1, <3>1, <3>2
  <2>4. QED BY <1>2, <2>2, <2>3
<1>13. Tickets'
  <2>1. \A i \in DOMAIN queue' : queue'[i].ticket = next_ticket - Len(queue') + i
    <3>1. ASSUME NEW i \in 1 .. n - r
          PROVE  queue'[i].ticket = completed_ticket + (r + i)
      <4>1. r + i \in 1 .. n /\ queue'[i] = queue[r + i]
        BY <1>2, <1>7
      <4>2. QED BY <1>11, <4>1
    <3>2. completed_ticket \in Nat
      BY DEF RcuInv, RcuTypeOK
    <3>3. QED BY <1>2, <1>7, <1>11, <3>1, <3>2
  <2>2. Reclaims(t)' <=> r > 0
    BY <1>2, <1>3 DEF RcuInv, RcuTypeOK, Reclaims
  <2>3. ready'[t] # <<>> <=> r > 0
    BY <1>2, <1>6, EmptySeq
  <2>4. \A u \in Threads \ {t} : ~ Reclaims(u)' /\ at'[u] # "complete" /\ ready'[u] = <<>>
    BY <1>4 DEF Reclaims
  <2>5. \A i \in DOMAIN ready'[t] : ready'[t][i].ticket = completed_ticket + i
    BY <1>2, <1>6, <1>11
  <2>6. r > 0 => /\ next_ticket = completed_ticket + Len(ready'[t]) + Len(queue')
                 /\ target[t] <= next_ticket - Len(queue')
    BY <1>2, <1>6, <1>7, <1>11, <1>12 DEF RcuInv, RcuTypeOK
  <2>7. r = 0 => next_ticket = completed_ticket + Len(queue')
    BY <1>2, <1>7, <1>11
  <2>8. at'[t] # "complete" /\ Len(freed) = completed_ticket
    BY <1>1, <1>3, <1>11 DEF RcuInv, RcuTypeOK, Tickets, Reclaims
  <2>9. \A u \in Threads : target[u] <= next_ticket
    BY DEF RcuInv, Tickets
  <2>10. ASSUME NEW u \in Threads
         PROVE  /\ ready'[u] # <<>> <=> Reclaims(u)'
                /\ \A i \in DOMAIN ready'[u] : ready'[u][i].ticket = completed_ticket + i
                /\ Reclaims(u)' => /\ next_ticket = completed_ticket + Len(ready'[u]) + Len(queue')
                                   /\ target[u] <= next_ticket - Len(queue')
                /\ at'[u] # "complete"
    <3>1. CASE u = t
      BY <2>2, <2>3, <2>5, <2>6, <2>8, <3>1
    <3>2. CASE u # t
      <4>1. ~ Reclaims(u)' /\ at'[u] # "complete" /\ ready'[u] = <<>> /\ DOMAIN ready'[u] = {}
        BY <2>4, <3>2
      <4>2. QED BY <4>1
    <3>3. QED BY <3>1, <3>2
  <2>11. (\A u \in Threads : ~ Reclaims(u)') => next_ticket = completed_ticket + Len(queue')
    BY <1>2, <2>2, <2>7
  <2>12. UNCHANGED <<next_ticket, completed_ticket, target, freed>>
    BY <1>1
  <2>13. \A u \in Threads : at'[u] # "complete"
    BY <2>10
  <2>14. QED BY <2>1, <2>8, <2>9, <2>10, <2>11, <2>12, <2>13 DEF Tickets
<1>14. OnePlace'
  <2>1. \A i, j \in 1 .. n : queue[i].obj = queue[j].obj => i = j
    BY <1>2 DEF RcuInv, OnePlace
  <2>2. \A i \in 1 .. n, k \in DOMAIN freed : queue[i].obj # freed[k]
    BY <1>2 DEF RcuInv, OnePlace
  <2>3. ASSUME NEW i \in DOMAIN queue', NEW j \in DOMAIN queue', queue'[i].obj = queue'[j].obj
        PROVE  i = j
    <3>1. r + i \in 1 .. n /\ r + j \in 1 .. n
      BY <1>2, <1>7
    <3>2. queue[r + i].obj = queue[r + j].obj
      BY <1>7, <2>3
    <3>3. QED BY <1>2, <1>7, <2>1, <3>1, <3>2
  <2>4. ASSUME NEW i \in DOMAIN queue', NEW k \in DOMAIN freed
        PROVE  queue'[i].obj # freed[k]
    <3>1. r + i \in 1 .. n /\ queue'[i] = queue[r + i]
      BY <1>2, <1>7
    <3>2. QED BY <2>2, <3>1
  <2>5. /\ \A i, j \in DOMAIN ready'[t] : ready'[t][i].obj = ready'[t][j].obj => i = j
        /\ \A i \in DOMAIN ready'[t], k \in DOMAIN freed : ready'[t][i].obj # freed[k]
    BY <1>2, <1>6, <2>1, <2>2
  <2>6. \A i \in DOMAIN ready'[t], j \in DOMAIN queue' : ready'[t][i].obj # queue'[j].obj
    BY <1>2, <1>6, <1>7, <2>1
  <2>7. \A u \in Threads \ {t} : DOMAIN ready'[u] = {}
    BY <1>4
  <2>8. \A i, j \in DOMAIN freed : freed[i] = freed[j] => i = j
    BY DEF RcuInv, OnePlace
  <2>9. ASSUME NEW u \in Threads
        PROVE  /\ \A i, j \in DOMAIN ready'[u] : ready'[u][i].obj = ready'[u][j].obj => i = j
               /\ \A i \in DOMAIN ready'[u], j \in DOMAIN queue' : ready'[u][i].obj # queue'[j].obj
               /\ \A i \in DOMAIN ready'[u], k \in DOMAIN freed : ready'[u][i].obj # freed[k]
    BY <2>5, <2>6, <2>7
  <2>10. freed' = freed
    BY <1>1
  <2>11. /\ \A i, j \in DOMAIN queue' : queue'[i].obj = queue'[j].obj => i = j
         /\ \A i, j \in DOMAIN freed' : freed'[i] = freed'[j] => i = j
         /\ \A i \in DOMAIN queue', j \in DOMAIN freed' : queue'[i].obj # freed'[j]
    BY <2>3, <2>4, <2>8, <2>10
  <2>12. \A u \in Threads :
            /\ \A i, j \in DOMAIN ready'[u] : ready'[u][i].obj = ready'[u][j].obj => i = j
            /\ \A i \in DOMAIN ready'[u], j \in DOMAIN queue' : ready'[u][i].obj # queue'[j].obj
            /\ \A i \in DOMAIN ready'[u], j \in DOMAIN freed' : ready'[u][i].obj # freed'[j]
    BY <2>9, <2>10
  <2>13. QED BY <2>11, <2>12 DEF OnePlace
<1>15. Grace'
  <2>1. \A u \in Threads : \A i \in DOMAIN ready'[t] : ready'[t][i].obj \notin seen[u]
    BY <1>1, <1>2, <1>6 DEF RcuInv, Grace
  <2>2. \A u \in Threads \ {t} : DOMAIN ready'[u] = {}
    BY <1>4
  <2>3. \A u \in Threads : at'[u] \notin {"synced", "take"}
    BY <1>3, <1>4 DEF RcuInv, RcuTypeOK, Guarded
  <2>4. /\ \A i \in 1 .. n : queue[i].obj # current
        /\ \A k \in DOMAIN freed : freed[k] # current
    BY <1>2 DEF RcuInv, Grace, Retired, ToSet
  <2>5. (\A i \in DOMAIN queue' : queue'[i].obj # current)
        /\ (\A u \in Threads : \A i \in DOMAIN ready'[u] : ready'[u][i].obj # current)
    BY <1>2, <1>6, <1>7, <2>2, <2>4
  <2>6. (current \notin Retired)'
    <3>1. current' = current /\ freed' = freed
      BY <1>1
    <3>2. current \notin {queue'[i].obj : i \in DOMAIN queue'}
      BY <2>5
    <3>3. current \notin {freed[i] : i \in DOMAIN freed}
      BY <2>4
    <3>4. current \notin UNION {{ready'[u][i].obj : i \in DOMAIN ready'[u]} : u \in Threads}
      BY <2>5
    <3>5. QED BY <3>1, <3>2, <3>3, <3>4 DEF Retired, ToSet
  <2>7. \A u \in Threads : \A k \in DOMAIN freed : freed[k] \notin seen[u]
    BY DEF RcuInv, Grace
  <2>8. QED BY <1>1, <2>1, <2>2, <2>3, <2>6, <2>7 DEF Grace
<1>16. Owed'
  <2>0. UNCHANGED <<freed, due, target>>
    BY <1>1
  <2> SUFFICES ASSUME NEW u \in Threads, NEW o \in due[u], ~ IsFreed(o)
               PROVE  /\ at'[u] # "done"
                      /\ \/ IsTaken(o)'
                         \/ \E i \in DOMAIN queue' : queue'[i].obj = o /\ queue'[i].ticket <= target[u]
    BY <2>0 DEF Owed, IsFreed, IsTaken
  <2>1. PICK i \in 1 .. n : at[u] # "done" /\ queue[i].obj = o /\ queue[i].ticket <= target[u]
    BY <1>2, <1>11 DEF RcuInv, Owed
  <2>2. CASE i <= r
    <3>1. i \in 1 .. r /\ r # 0
      BY <1>2, <2>1, <2>2
    <3>2. IsTaken(o)'
      BY <1>6, <2>1, <3>1 DEF IsTaken
    <3>3. at'[u] # "done"
      BY <1>3, <1>4, <2>1, <3>1 DEF RcuInv, RcuTypeOK
    <3>4. QED BY <3>2, <3>3
  <2>3. CASE ~ (i <= r)
    <3>1. u # t
      BY <1>2, <2>1, <2>3
    <3>2. i - r \in 1 .. n - r /\ queue'[i - r] = queue[i]
      <4>1. i - r \in 1 .. n - r /\ r + (i - r) = i
        BY <1>2, <2>3
      <4>2. QED BY <1>7, <4>1
    <3>3. QED BY <1>4, <1>7, <2>1, <3>1, <3>2
  <2>4. QED BY <2>2, <2>3
<1>17. QED BY <1>8, <1>9, <1>10, <1>13, <1>14, <1>15, <1>16

\* A reclaim function runs: its object was taken, so no reader sees it, and it
\* was not reclaimed before.
LEMMA ReclaimStep ==
    ASSUME RcuInv, NEW t \in Threads, Reclaim(t)
    PROVE  RcuTypeOK' /\ Roles' /\ Guard' /\ Tickets' /\ OnePlace' /\ Grace' /\ Owed'
<1> DEFINE x == ready[t][1].obj
           l == Len(freed)
<1>1. /\ at[t] = "reclaim" /\ freed' = Append(freed, Head(ready[t]).obj)
      /\ at' = [at EXCEPT ![t] = "complete"]
      /\ UNCHANGED <<smVars, queue, next_ticket, completed_ticket, reclaim_guard, target,
                     ready, due, current, seen, depth>>
  BY DEF Reclaim, barrierPart, Move
<1>2. /\ Guarded(t) /\ Reclaims(t) /\ ready[t] # <<>>
  BY <1>1 DEF Guarded, Reclaims, RcuInv, Tickets
<1>3. 1 \in DOMAIN ready[t] /\ ready[t][1] \in Record /\ Head(ready[t]) = ready[t][1]
  <2>1. ready[t] \in Seq(Record)
    BY DEF RcuInv, RcuTypeOK
  <2>2. Len(ready[t]) \in Nat \ {0} /\ DOMAIN ready[t] = 1 .. Len(ready[t])
    BY <1>2, <2>1, EmptySeq
  <2>3. QED BY <2>1, <2>2, ElementOfSeq
<1>4. x \in Objects
  BY <1>3 DEF Record
<1> HIDE DEF x, l
<1>5. /\ freed' \in Seq(Objects) /\ Len(freed') = l + 1 /\ DOMAIN freed' = 1 .. l + 1
      /\ \A k \in 1 .. l : freed'[k] = freed[k]
      /\ freed'[l + 1] = x /\ l \in Nat /\ DOMAIN freed = 1 .. l
  <2>1. freed \in Seq(Objects) /\ freed' = Append(freed, x)
    BY <1>1, <1>3 DEF RcuInv, RcuTypeOK, x
  <2>2. QED BY <1>4, <2>1, AppendProperties DEF l
<1>6. \A u \in Threads \ {t} : /\ at'[u] = at[u] /\ ~ Reclaims(u) /\ ~ Reclaims(u)'
                               /\ at'[u] # "complete" /\ ready[u] = <<>>
  BY <1>1, <1>2, OneGuarded DEF RcuInv, RcuTypeOK, Reclaims
<1>7. at'[t] = "complete"
  BY <1>1 DEF RcuInv, RcuTypeOK
<1>8. RcuTypeOK'
  BY <1>1, <1>5 DEF RcuInv, RcuTypeOK
<1>9. Roles'
  BY <1>1 DEF RcuInv, RcuTypeOK, Roles, smVars
<1>10. Guard'
  BY <1>1 DEF RcuInv, RcuTypeOK, Guard, Guarded
<1>11. Tickets'
  <2>1. l = completed_ticket
    BY <1>1, <1>6 DEF RcuInv, Tickets, l
  <2>2. Reclaims(t)'
    BY <1>7 DEF Reclaims
  <2>3. Len(freed') = completed_ticket + 1 /\ freed'[Len(freed')] = ready[t][1].obj
    BY <1>5, <2>1 DEF x
  <2>4. \A u \in Threads : Reclaims(u)' <=> Reclaims(u)
    BY <1>2, <1>6, <2>2
  <2>5. \A u \in Threads : at'[u] = "complete" => u = t
    BY <1>6
  <2>6. UNCHANGED <<queue, next_ticket, completed_ticket, target, ready>>
    BY <1>1
  <2>7. QED BY <1>2, <1>7, <2>3, <2>4, <2>5, <2>6 DEF RcuInv, Tickets
<1>12. OnePlace'
  <2>1. \A k \in 1 .. l : freed[k] # x
    BY <1>1, <1>3, <1>5 DEF RcuInv, OnePlace, x
  <2>2. \A i \in DOMAIN queue : queue[i].obj # x
    BY <1>3 DEF RcuInv, OnePlace, x
  <2>3. \A i, j \in DOMAIN freed' : freed'[i] = freed'[j] => i = j
    BY <1>5, <2>1 DEF RcuInv, OnePlace
  <2>4. \A i \in DOMAIN queue, k \in DOMAIN freed' : queue[i].obj # freed'[k]
    BY <1>5, <2>2 DEF RcuInv, OnePlace
  <2>5. ASSUME NEW u \in Threads, NEW i \in DOMAIN ready[u], NEW k \in DOMAIN freed',
               ready[u][i].obj = freed'[k]
        PROVE  at'[u] = "complete" /\ i = 1
    <3>1. u = t
      BY <1>6
    <3>2. k = l + 1
      BY <1>1, <1>5, <2>5, <3>1 DEF RcuInv, OnePlace
    <3>3. i = 1
      BY <1>3, <1>5, <2>5, <3>1, <3>2 DEF RcuInv, OnePlace, x
    <3>4. QED BY <1>7, <3>1, <3>3
  <2>6. UNCHANGED <<queue, ready>>
    BY <1>1
  <2>7. QED BY <2>3, <2>4, <2>5, <2>6 DEF RcuInv, OnePlace
<1>13. Grace'
  <2>1. x # current /\ \A u \in Threads : x \notin seen[u]
    BY <1>3 DEF RcuInv, Grace, Retired, x
  <2>2. \A k \in 1 .. l : freed[k] # current /\ \A u \in Threads : freed[k] \notin seen[u]
    BY <1>5 DEF RcuInv, Grace, Retired, ToSet
  <2>3. UNCHANGED <<queue, ready, current, seen, target>>
    BY <1>1
  <2>4. (current \notin Retired)'
    <3>1. current \notin {freed'[k] : k \in DOMAIN freed'}
      BY <1>5, <2>1, <2>2
    <3>2. QED BY <2>3, <3>1 DEF RcuInv, Grace, Retired, ToSet
  <2>5. \A u \in Threads : \A k \in DOMAIN freed' : freed'[k] \notin seen[u]
    BY <1>5, <2>1, <2>2
  <2>6. \A u \in Threads : at'[u] \in {"synced", "take"} => at[u] \in {"synced", "take"}
    BY <1>6, <1>7
  <2>7. QED BY <2>3, <2>4, <2>5, <2>6 DEF RcuInv, Grace
<1>14. Owed'
  <2>1. \A o : IsFreed(o) => IsFreed(o)'
    BY <1>5 DEF IsFreed
  <2>2. \A u \in Threads : at'[u] = "done" => at[u] = "done"
    BY <1>6, <1>7
  <2>3. UNCHANGED <<queue, ready, due, target>>
    BY <1>1
  <2>4. \A o : IsTaken(o)' <=> IsTaken(o)
    BY <2>3 DEF IsTaken
  <2>5. QED BY <2>1, <2>2, <2>3, <2>4 DEF RcuInv, Owed
<1>15. QED BY <1>8, <1>9, <1>10, <1>11, <1>12, <1>13, <1>14

\* The count follows; after the last record nothing the barrier owed is left.
LEMMA CompleteStep ==
    ASSUME RcuInv, NEW t \in Threads, Complete(t)
    PROVE  RcuTypeOK' /\ Roles' /\ Guard' /\ Tickets' /\ OnePlace' /\ Grace' /\ Owed'
<1> DEFINE l == Len(ready[t])
           p == IF Len(ready[t]) = 1 THEN "done" ELSE "reclaim"
<1>1. /\ at[t] = "complete" /\ completed_ticket' = Head(ready[t]).ticket
      /\ ready' = [ready EXCEPT ![t] = Tail(@)]
      /\ at' = [at EXCEPT ![t] = p]
      /\ reclaim_guard' = IF l = 1 THEN {} ELSE reclaim_guard
      /\ UNCHANGED <<smVars, queue, next_ticket, target, freed, due, current, seen, depth>>
  BY DEF Complete, barrierPart, Move
<1>2. Guarded(t) /\ Reclaims(t) /\ ready[t] # <<>> /\ ready[t] \in Seq(Record)
  BY <1>1 DEF Guarded, Reclaims, RcuInv, RcuTypeOK, Tickets
<1>3. /\ l \in Nat \ {0} /\ DOMAIN ready[t] = 1 .. l /\ Head(ready[t]) = ready[t][1]
      /\ ready'[t] = Tail(ready[t])
  BY <1>1, <1>2, EmptySeq DEF RcuInv, RcuTypeOK
<1>4. p \in {"done", "reclaim"} /\ (p = "done" <=> l = 1) /\ at'[t] = p
  BY <1>1 DEF RcuInv, RcuTypeOK
<1> HIDE DEF l, p
<1>5. /\ ready'[t] \in Seq(Record) /\ Len(ready'[t]) = l - 1 /\ DOMAIN ready'[t] = 1 .. l - 1
      /\ \A i \in 1 .. l - 1 : ready'[t][i] = ready[t][i + 1]
  <2>1. /\ Tail(ready[t]) \in Seq(Record) /\ Len(Tail(ready[t])) = l - 1
        /\ \A i \in 1 .. Len(Tail(ready[t])) : Tail(ready[t])[i] = ready[t][i + 1]
    BY <1>2, HeadTailProperties DEF l
  <2>2. QED BY <1>3, <2>1
<1>6. /\ completed_ticket' = completed_ticket + 1 /\ completed_ticket \in Nat
      /\ Len(freed) = completed_ticket + 1 /\ freed[Len(freed)] = ready[t][1].obj
  BY <1>1, <1>3 DEF RcuInv, RcuTypeOK, Tickets
<1>7. \A u \in Threads \ {t} : /\ at'[u] = at[u] /\ ~ Reclaims(u) /\ ~ Reclaims(u)'
                               /\ ~ Guarded(u) /\ at'[u] # "complete"
                               /\ ready[u] = <<>> /\ ready'[u] = <<>>
  BY <1>1, <1>2, OneGuarded DEF RcuInv, RcuTypeOK, Reclaims
<1>8. RcuTypeOK'
  BY <1>1, <1>4, <1>5, <1>6 DEF RcuInv, RcuTypeOK
<1>9. Roles'
  BY <1>1, <1>4 DEF RcuInv, RcuTypeOK, Roles, smVars
<1>10. Guard'
  <2>1. reclaim_guard = {t}
    BY <1>2 DEF RcuInv, Guard
  <2>2. QED BY <1>1, <1>4, <1>7, <2>1 DEF Guard, Guarded
<1>11. UNCHANGED <<queue, next_ticket, target, freed, due, current, seen>>
  BY <1>1
<1>12. Tickets'
  <2>1. Reclaims(t)' <=> l > 1
    BY <1>3, <1>4 DEF Reclaims
  <2>2. ready'[t] # <<>> <=> l > 1
    <3>1. DOMAIN ready'[t] = 1 .. l - 1 /\ l \in Nat \ {0}
      BY <1>3, <1>5
    <3>2. CASE l = 1
      <4>1. Len(ready'[t]) = 0
        BY <1>5, <3>2
      <4>2. ready'[t] = <<>>
        BY <1>5, <4>1, EmptySeq
      <4>3. QED BY <3>2, <4>2
    <3>3. CASE l # 1
      <4>1. l > 1 /\ 1 \in DOMAIN ready'[t]
        BY <3>1, <3>3
      <4>2. QED BY <4>1
    <3>4. QED BY <3>2, <3>3
  <2>3. ASSUME NEW i \in DOMAIN ready'[t]
        PROVE  ready'[t][i].ticket = completed_ticket' + i
    <3>1. i + 1 \in 1 .. l /\ i \in Nat
      BY <1>3, <1>5
    <3>2. ready[t][i + 1].ticket = completed_ticket + (i + 1)
      BY <1>3, <3>1 DEF RcuInv, Tickets
    <3>3. QED BY <1>5, <1>6, <3>1, <3>2
  <2>4. /\ next_ticket = completed_ticket + l + Len(queue)
        /\ target[t] <= next_ticket - Len(queue)
    BY <1>2 DEF RcuInv, Tickets, l
  <2>5. Len(queue) \in Nat /\ next_ticket \in Nat
    BY DEF RcuInv, RcuTypeOK
  <2>6. next_ticket = completed_ticket' + Len(ready'[t]) + Len(queue)
    <3>1. Len(ready'[t]) = l - 1 /\ l \in Nat
      BY <1>3, <1>5
    <3>2. completed_ticket' = completed_ticket + 1 /\ completed_ticket \in Nat
      BY <1>6
    <3>3. QED BY <2>4, <2>5, <3>1, <3>2
  <2>7. l = 1 => next_ticket = completed_ticket' + Len(queue)
    BY <1>6, <2>4, <2>5
  <2>8. at'[t] # "complete" /\ Len(freed) = completed_ticket'
    BY <1>4, <1>6
  <2>9. ASSUME NEW u \in Threads
        PROVE  /\ target[u] <= next_ticket /\ at'[u] # "complete"
               /\ ready'[u] # <<>> <=> Reclaims(u)'
               /\ \A i \in DOMAIN ready'[u] : ready'[u][i].ticket = completed_ticket' + i
               /\ Reclaims(u)' => /\ next_ticket = completed_ticket' + Len(ready'[u]) + Len(queue)
                                  /\ target[u] <= next_ticket - Len(queue)
    <3>1. target[u] <= next_ticket
      BY DEF RcuInv, Tickets
    <3>2. CASE u = t
      BY <2>1, <2>2, <2>3, <2>4, <2>6, <2>8, <3>1, <3>2
    <3>3. CASE u # t
      <4>1. ~ Reclaims(u)' /\ at'[u] # "complete" /\ ready'[u] = <<>> /\ DOMAIN ready'[u] = {}
        BY <1>7, <3>3
      <4>2. QED BY <3>1, <4>1
    <3>4. QED BY <3>2, <3>3
  <2>10. (\A u \in Threads : ~ Reclaims(u)') => next_ticket = completed_ticket' + Len(queue)
    BY <1>3, <2>1, <2>7
  <2>11. \A i \in DOMAIN queue : queue[i].ticket = next_ticket - Len(queue) + i
    BY DEF RcuInv, Tickets
  <2>12. QED BY <1>11, <2>8, <2>9, <2>10, <2>11 DEF Tickets
<1>13. OnePlace'
  <2>1. ASSUME NEW i \in DOMAIN ready'[t]
        PROVE  i + 1 \in DOMAIN ready[t] /\ ready'[t][i] = ready[t][i + 1] /\ i \in Nat \ {0}
    BY <1>3, <1>5
  <2>2. \A i, j \in DOMAIN ready'[t] : ready'[t][i].obj = ready'[t][j].obj => i = j
    <3> SUFFICES ASSUME NEW i \in DOMAIN ready'[t], NEW j \in DOMAIN ready'[t],
                        ready'[t][i].obj = ready'[t][j].obj
                 PROVE  i = j
      OBVIOUS
    <3>1. i + 1 = j + 1
      BY <2>1 DEF RcuInv, OnePlace
    <3>2. QED BY <2>1, <3>1
  <2>3. \A i \in DOMAIN ready'[t], j \in DOMAIN queue : ready'[t][i].obj # queue[j].obj
    BY <2>1 DEF RcuInv, OnePlace
  <2>4. ASSUME NEW i \in DOMAIN ready'[t], NEW k \in DOMAIN freed
        PROVE  ready'[t][i].obj # freed[k]
    <3>1. i + 1 # 1
      BY <2>1
    <3>2. QED BY <2>1, <3>1 DEF RcuInv, OnePlace
  <2>5. ASSUME NEW u \in Threads
        PROVE  /\ \A i, j \in DOMAIN ready'[u] : ready'[u][i].obj = ready'[u][j].obj => i = j
               /\ \A i \in DOMAIN ready'[u], j \in DOMAIN queue : ready'[u][i].obj # queue[j].obj
               /\ \A i \in DOMAIN ready'[u], k \in DOMAIN freed : ready'[u][i].obj # freed[k]
    <3>1. CASE u = t
      BY <2>2, <2>3, <2>4, <3>1
    <3>2. CASE u # t
      <4>1. DOMAIN ready'[u] = {}
        BY <1>7, <3>2
      <4>2. QED BY <4>1
    <3>3. QED BY <3>1, <3>2
  <2>6. QED BY <1>11, <2>5 DEF RcuInv, OnePlace
<1>14. \A u \in Threads : \A i \in DOMAIN ready'[u] : \E j \in DOMAIN ready[u] : ready'[u][i] = ready[u][j]
  <2> SUFFICES ASSUME NEW u \in Threads, NEW i \in DOMAIN ready'[u]
               PROVE  \E j \in DOMAIN ready[u] : ready'[u][i] = ready[u][j]
    OBVIOUS
  <2>1. CASE u = t
    <3>1. \A k \in DOMAIN ready'[t] : k + 1 \in DOMAIN ready[t] /\ ready'[t][k] = ready[t][k + 1]
      BY <1>3, <1>5
    <3>2. QED BY <2>1, <3>1
  <2>2. CASE u # t
    BY <1>7, <2>2
  <2>3. QED BY <2>1, <2>2
<1>15. Grace'
  <2>1. \A u \in Threads : at'[u] \in {"synced", "take"} => at[u] \in {"synced", "take"}
    BY <1>4, <1>7
  <2>2. \A u \in Threads : \A i \in DOMAIN ready'[u] :
            ready'[u][i].obj # current /\ \A v \in Threads : ready'[u][i].obj \notin seen[v]
    BY <1>14 DEF RcuInv, Grace, Retired
  <2>3. (current \notin Retired)'
    <3>1. current \notin UNION {{ready'[u][i].obj : i \in DOMAIN ready'[u]} : u \in Threads}
      BY <2>2
    <3>2. QED BY <1>11, <3>1 DEF RcuInv, Grace, Retired
  <2>4. QED BY <1>11, <2>1, <2>2, <2>3 DEF RcuInv, Grace
<1>16. Owed'
  <2> SUFFICES ASSUME NEW u \in Threads, NEW o \in due[u], ~ IsFreed(o)
               PROVE  /\ at'[u] # "done"
                      /\ \/ IsTaken(o)'
                         \/ \E i \in DOMAIN queue : queue[i].obj = o /\ queue[i].ticket <= target[u]
    BY <1>11 DEF Owed, IsFreed, IsTaken
  <2>1. at[u] # "done"
    BY DEF RcuInv, Owed
  <2>2. CASE IsTaken(o)
    <3>1. PICK i \in DOMAIN ready[t] : ready[t][i].obj = o
      BY <1>7, <2>2 DEF IsTaken
    <3>2. i # 1
      <4>1. freed \in Seq(Objects) /\ Len(freed) \in Nat \ {0}
        BY <1>6, LenProperties DEF RcuInv, RcuTypeOK
      <4>2. Len(freed) \in DOMAIN freed
        BY <4>1
      <4>3. ready[t][1].obj # o
        BY <1>6, <4>2 DEF IsFreed
      <4>4. QED BY <3>1, <4>3
    <3>3. i - 1 \in 1 .. l - 1 /\ i - 1 + 1 = i /\ l # 1
      BY <1>3, <3>1, <3>2
    <3>4. IsTaken(o)'
      BY <1>5, <3>1, <3>3 DEF IsTaken
    <3>5. at'[u] # "done"
      BY <1>4, <1>7, <2>1, <3>3
    <3>6. QED BY <3>4, <3>5
  <2>3. ASSUME NEW i \in DOMAIN queue, queue[i].obj = o, queue[i].ticket <= target[u]
        PROVE  at'[u] # "done"
    <3>1. queue[i].ticket = next_ticket - Len(queue) + i /\ i \in Nat \ {0}
      BY DEF RcuInv, RcuTypeOK, Tickets
    <3>2. target[t] <= next_ticket - Len(queue)
      BY <1>2 DEF RcuInv, Tickets
    <3>3. u # t
      BY <2>3, <3>1, <3>2 DEF RcuInv, RcuTypeOK
    <3>4. QED BY <1>7, <2>1, <3>3
  <2>4. QED BY <2>2, <2>3 DEF RcuInv, Owed
<1>17. QED BY <1>8, <1>9, <1>10, <1>12, <1>13, <1>15, <1>16

-----------------------------------------------------------------------------
\* The invariant.

LEMMA InitRcuInv == RcuInit => RcuInv
<1> SUFFICES ASSUME RcuInit PROVE RcuInv
  OBVIOUS
<1>1. /\ queue = <<>> /\ freed = <<>> /\ next_ticket = 0 /\ completed_ticket = 0
      /\ reclaim_guard = {} /\ current = First
      /\ \A t \in Threads : /\ depth[t] = 0 /\ at[t] = "out" /\ target[t] = 0
                            /\ ready[t] = <<>> /\ seen[t] = {} /\ due[t] = {}
  BY DEF RcuInit
<1>2. IInv
  BY InitIInv DEF RcuInit
<1>3. RcuTypeOK
  BY RcuConstants DEF RcuInit, RcuTypeOK
<1>4. Roles /\ Guard /\ Owed
  BY <1>1 DEF Roles, Guard, Guarded, Owed
<1>5. /\ DOMAIN queue = {} /\ DOMAIN freed = {} /\ Len(queue) = 0 /\ Len(freed) = 0
      /\ \A t \in Threads : DOMAIN ready[t] = {}
  BY <1>1
<1>6. Tickets /\ OnePlace
  BY <1>1, <1>5 DEF Tickets, Reclaims, OnePlace
<1>7. Grace
  BY <1>1, <1>5 DEF Grace, Retired, ToSet
<1>8. QED BY <1>2, <1>3, <1>4, <1>6, <1>7 DEF RcuInv

LEMMA BarrierStepInv ==
    ASSUME RcuInv, NEW t \in Threads, BarrierStep(t)
    PROVE  RcuTypeOK' /\ Roles' /\ Guard' /\ Tickets' /\ OnePlace' /\ Grace' /\ Owed'
BY TakeReclaimGuardStep, SynchronizeStep, TakeReadyStep, ReclaimStep, CompleteStep, ReturnStep
   DEF BarrierStep

LEMMA RcuStutter ==
    ASSUME RcuInv, UNCHANGED rcuVars
    PROVE  RcuTypeOK' /\ Roles' /\ Guard' /\ Tickets' /\ OnePlace' /\ Grace' /\ Owed'
<1>1. UNCHANGED lockPart /\ UNCHANGED <<smVars, depth, seen>>
  BY DEF rcuVars, lockPart
<1>2. RcuTypeOK'
  BY <1>1 DEF RcuInv, RcuTypeOK, lockPart
<1>3. Roles'
  BY <1>1 DEF RcuInv, Roles, lockPart, smVars
<1>4. QED BY <1>1, <1>2, <1>3, BarriersUntouched, GraceKept

LEMMA RcuNextInv == RcuInv /\ [RcuNext]_rcuVars => RcuInv'
<1> SUFFICES ASSUME RcuInv, [RcuNext]_rcuVars PROVE RcuInv'
  OBVIOUS
<1> DEFINE Rest == RcuTypeOK /\ Roles /\ Guard /\ Tickets /\ OnePlace /\ Grace /\ Owed
<1>1. IInv'
  BY LockKept DEF RcuInv
<1>2. CASE UNCHANGED rcuVars
  <2>1. Rest'
    BY <1>2, RcuStutter
  <2>2. QED BY <1>1, <2>1 DEF RcuInv
<1>3. CASE RcuNext
  <2> SUFFICES Rest'
    BY <1>1 DEF RcuInv
  <2>1. PICK t \in Threads :
           \/ \E o \in Calls[t] \cap (Shared \ Timed) : ReadLock(t, o)
           \/ ReadNested(t) \/ ReadUnlock(t) \/ Read(t) \/ LockStep(t)
           \/ Barrier(t) \/ BarrierStep(t)
           \/ \E o \in Objects : Retire(t, o)
    BY <1>3 DEF RcuNext
  <2>2. CASE \E o \in Calls[t] \cap (Shared \ Timed) : ReadLock(t, o)
    BY <2>2, ReadLockStep
  <2>3. CASE ReadNested(t)
    BY <2>3, ReadNestedStep
  <2>4. CASE ReadUnlock(t)
    BY <2>4, ReadUnlockStep
  <2>5. CASE Read(t)
    BY <2>5, ReadStep
  <2>6. CASE LockStep(t)
    BY <2>6, LockStepStep
  <2>7. CASE Barrier(t)
    BY <2>7, BarrierStepFirst
  <2>8. CASE BarrierStep(t)
    BY <2>8, BarrierStepInv
  <2>9. CASE \E o \in Objects : Retire(t, o)
    BY <2>9, RetireStep
  <2>10. QED BY <2>1, <2>2, <2>3, <2>4, <2>5, <2>6, <2>7, <2>8, <2>9
<1>4. QED BY <1>2, <1>3

LEMMA RcuInvariance == RcuSpec => []RcuInv
BY InitRcuInv, RcuNextInv, PTL DEF RcuSpec

-----------------------------------------------------------------------------
\* The properties.

\* The grace period: nothing a reader may still look at is reclaimed, however
\* reads nest, barriers overlap and writers publish (rcu.cc, __barrier).
THEOREM GracePeriod == RcuSpec => []NoReaderSeesFreed
<1>1. RcuInv => NoReaderSeesFreed
  BY DEF RcuInv, Grace, NoReaderSeesFreed, ToSet
<1>2. QED BY <1>1, RcuInvariance, PTL

\* As many objects as places, if each place has its own.
LEMMA DistinctObjects ==
    ASSUME NEW l \in Nat, NEW T, NEW f \in [1 .. l -> T],
           \A i, j \in 1 .. l : f[i] = f[j] => i = j,
           \A x \in T : \E i \in 1 .. l : f[i] = x
    PROVE  Cardinality(T) = l
<1>1. f \in Bijection(1 .. l, T)
  BY DEF Bijection, Injection, Surjection, IsInjective
<1>2. ExistsBijection(1 .. l, T)
  BY <1>1 DEF ExistsBijection
<1>3. QED BY <1>2, FS_CountingElements

\* What barriers have taken, as a set: as many as one of them still holds.
TakenObjects == UNION {{ready[t][i].obj : i \in DOMAIN ready[t]} : t \in Threads}

LEMMA NothingTaken ==
    ASSUME RcuInv, \A t \in Threads : ~ Reclaims(t)
    PROVE  Cardinality(TakenObjects) = 0
<1>1. \A t \in Threads : DOMAIN ready[t] = {}
  BY DEF RcuInv, Tickets
<1>2. TakenObjects = {}
  BY <1>1 DEF TakenObjects
<1>3. QED BY <1>2, FS_EmptySet

LEMMA TakenByOne ==
    ASSUME RcuInv, NEW t \in Threads, Reclaims(t)
    PROVE  Cardinality(TakenObjects) = Len(ready[t]) /\ Len(ready[t]) \in Nat
<1> DEFINE l == Len(ready[t])
           f == [i \in 1 .. l |-> ready[t][i].obj]
<1>1. ready[t] \in Seq(Record) /\ l \in Nat /\ DOMAIN ready[t] = 1 .. l
  BY DEF RcuInv, RcuTypeOK
<1>2. \A u \in Threads \ {t} : DOMAIN ready[u] = {}
  BY OneGuarded DEF Reclaims, Guarded
<1>3. \A x : x \in TakenObjects <=> \E i \in DOMAIN ready[t] : ready[t][i].obj = x
  BY <1>2 DEF TakenObjects
<1>4. f \in [1 .. l -> TakenObjects]
  BY <1>1, <1>3
<1>5. \A i, j \in 1 .. l : f[i] = f[j] => i = j
  BY <1>1 DEF RcuInv, OnePlace
<1>6. \A x \in TakenObjects : \E i \in 1 .. l : f[i] = x
  BY <1>1, <1>3
<1>7. Cardinality(TakenObjects) = l
  <2> HIDE DEF f, l, TakenObjects
  <2>1. QED BY <1>1, <1>4, <1>5, <1>6, DistinctObjects
<1>8. QED BY <1>1, <1>7

LEMMA TicketsCount ==
    ASSUME RcuInv
    PROVE  ReclaimedInOrder
<1>1. IsInjective(freed)
  BY DEF RcuInv, OnePlace, IsInjective
<1>2. Len(freed) \in Nat /\ Len(queue) \in Nat /\ completed_ticket \in Nat /\ next_ticket \in Nat
  BY DEF RcuInv, RcuTypeOK
<1>3. CASE \A t \in Threads : ~ Reclaims(t)
  <2>1. \A t \in Threads : at[t] # "complete"
    BY <1>3 DEF Reclaims
  <2>2. next_ticket = completed_ticket + Len(queue) /\ Len(freed) = completed_ticket
    BY <1>3, <2>1 DEF RcuInv, Tickets
  <2>3. Cardinality(TakenObjects) = 0
    BY <1>3, NothingTaken
  <2>4. QED BY <1>1, <1>2, <2>1, <2>2, <2>3 DEF ReclaimedInOrder, TakenObjects
<1>4. ASSUME NEW t \in Threads, Reclaims(t) PROVE ReclaimedInOrder
  <2>1. Cardinality(TakenObjects) = Len(ready[t]) /\ Len(ready[t]) \in Nat
    BY <1>4, TakenByOne
  <2>2. next_ticket = completed_ticket + Len(ready[t]) + Len(queue)
    BY <1>4 DEF RcuInv, Tickets
  <2>3. \A u \in Threads \ {t} : at[u] # "complete"
    BY <1>4, OneGuarded DEF Reclaims, Guarded
  <2>4. CASE at[t] = "complete"
    <3>1. Len(freed) = completed_ticket + 1
      BY <2>4 DEF RcuInv, Tickets
    <3>2. QED BY <1>1, <1>2, <2>1, <2>2, <2>4, <3>1 DEF ReclaimedInOrder, TakenObjects
  <2>5. CASE at[t] # "complete"
    <3>1. \A u \in Threads : at[u] # "complete"
      BY <2>3, <2>5
    <3>2. Len(freed) = completed_ticket
      BY <3>1 DEF RcuInv, Tickets
    <3>3. QED BY <1>1, <1>2, <2>1, <2>2, <3>1, <3>2 DEF ReclaimedInOrder, TakenObjects
  <2>6. QED BY <2>4, <2>5
<1>5. QED BY <1>3, <1>4

\* A barrier that returns has everything reclaimed that was retired before it,
\* by itself or by another one; objects are reclaimed once and in the order of
\* their tickets, which completed_ticket counts (rcu.cc, __barrier).
THEOREM BarriersReclaimInOrder == RcuSpec => []BarrierReclaims
<1>1. RcuInv => BarrierIsComplete
  BY DEF RcuInv, Owed, IsFreed, BarrierIsComplete, ToSet, RcuTypeOK
<1>2. RcuInv => BarrierReclaims
  BY <1>1, TicketsCount DEF BarrierReclaims
<1>3. QED BY <1>2, RcuInvariance, PTL

\* Inside the domain, with calls only by readers and barriers, the shared mutex
\* is still the readers-writer lock of its specification.
THEOREM DomainLockIsARwLock == RcuSpec => []SharedMutexSafe /\ ImplementsRwLock
<1>1. RcuInit => RW!Init
  BY DEF RcuInit, Init, RW!Init, Holders
<1>2. RcuInv => IInv /\ SharedMutexSafe
  BY DEF RcuInv, IInv
<1>3. RcuInv /\ [RcuNext]_rcuVars => [GrantsAsRwLock]_smVars
  BY <1>2, RcuStepAtTheLock, StepRefines, StutterRefines DEF rcuVars
<1>4. QED BY <1>1, <1>2, <1>3, RcuInvariance, PTL DEF RcuSpec, ImplementsRwLock
=============================================================================
