---------------------------- MODULE MutexProofs ----------------------------
(***************************************************************************)
(* Proofs about Mutex, for any set of threads and any bounds.              *)
(***************************************************************************)
EXTENDS Mutex, TLAPS

\* Where a thread with grants can be: a holder only re-enters mtx_trylock if
\* the mutex is recursive, and there takes the recursive branch; with a plain
\* mutex it never holds two grants.
HeldPlaces ==
    \A t \in Threads :
        /\ held[t] > 0 => pc[t] \in {"client", "trylock"}
        /\ held[t] > 0 /\ pc[t] = "trylock" => recursive
        /\ held[t] > 1 => recursive

\* Exclusion, said of single threads so that a step needs no witness: a
\* holder sees the word at 1 and no other holder, and a word at 1 has one.
HolderIsAlone ==
    /\ \A t, u \in Threads : Holding(t) /\ Holding(u) => t = u
    /\ \A t \in Threads : Holding(t) => state = 1
    /\ state = 1 => \E t \in Threads : Holding(t)

\* The owner word follows the holder; from "own" to the store of the token
\* and from "release" on it is clear.
OwnerFollows ==
    \A t \in Threads :
        /\ held[t] > 0 => owner = t /\ recursion = held[t]
        /\ pc[t] = "disown" => owner = t
        /\ owner = t => held[t] > 0 \/ pc[t] = "disown"

IInv == TypeOK /\ HeldPlaces /\ HolderIsAlone /\ OwnerFollows /\ NoLostWakeup

\* mtx_init establishes the invariant.
LEMMA InitIInv == Init => IInv
  BY MutexConstants DEF Init, IInv, TypeOK, HeldPlaces, HolderIsAlone,
     OwnerFollows, NoLostWakeup, Holding, Points, Modes

\* Every step of every thread keeps it.
LEMMA NextIInv == IInv /\ [Next]_vars => IInv'
<1> SUFFICES ASSUME IInv, [Next]_vars PROVE IInv'
  OBVIOUS
<1>1. ASSUME NEW t \in Threads, Call(t) PROVE IInv'
  <2>1. TypeOK'
    BY <1>1 DEF IInv, TypeOK, Points, Call, Goto, word
  <2>2. HeldPlaces'
    BY <1>1 DEF IInv, TypeOK, HeldPlaces, Call, Goto, word
  <2>3. HolderIsAlone'
    BY <1>1 DEF IInv, TypeOK, HolderIsAlone, Holding, Call, Goto, word
  <2>4. OwnerFollows'
    BY <1>1 DEF IInv, TypeOK, OwnerFollows, Call, Goto, word
  <2>5. NoLostWakeup'
    BY <1>1 DEF NoLostWakeup, IInv, TypeOK, Call, Goto, word
  <2>6. QED BY <2>1, <2>2, <2>3, <2>4, <2>5 DEF IInv
<1>2. ASSUME NEW t \in Threads, TrylockRecursive(t) PROVE IInv'
  <2>1. TypeOK'
    BY <1>2 DEF IInv, TypeOK, Points, TrylockRecursive, Goto, Granted
  <2>2. HeldPlaces'
    BY <1>2 DEF IInv, TypeOK, HeldPlaces, TrylockRecursive, Goto, Granted
  <2>3. HolderIsAlone'
    BY <1>2 DEF IInv, TypeOK, HolderIsAlone, OwnerFollows, Holding,
       TrylockRecursive, Goto, Granted
  <2>4. OwnerFollows'
    BY <1>2 DEF IInv, TypeOK, OwnerFollows, TrylockRecursive, Goto, Granted
  <2>5. NoLostWakeup'
    BY <1>2 DEF NoLostWakeup, IInv, TypeOK, TrylockRecursive, Goto, Granted
  <2>6. QED BY <2>1, <2>2, <2>3, <2>4, <2>5 DEF IInv
<1>3. ASSUME NEW t \in Threads, TrylockOther(t) PROVE IInv'
  <2>1. TypeOK'
    BY <1>3 DEF IInv, TypeOK, Points, TrylockOther, Goto, word
  <2>2. HeldPlaces'
    BY <1>3 DEF IInv, TypeOK, HeldPlaces, HolderIsAlone, OwnerFollows,
       Holding, TrylockOther, Goto, word
  <2>3. HolderIsAlone'
    BY <1>3 DEF IInv, TypeOK, HolderIsAlone, Holding, TrylockOther, Goto, word
  <2>4. OwnerFollows'
    BY <1>3 DEF IInv, TypeOK, OwnerFollows, TrylockOther, Goto, word
  <2>5. NoLostWakeup'
    BY <1>3 DEF NoLostWakeup, IInv, TypeOK, TrylockOther, Goto, word
  <2>6. QED BY <2>1, <2>2, <2>3, <2>4, <2>5 DEF IInv
<1>4. ASSUME NEW t \in Threads, CompareExchange(t) PROVE IInv'
  <2>1. TypeOK'
    BY <1>4 DEF IInv, TypeOK, Points, CompareExchange, Goto
  <2>2. HeldPlaces'
    BY <1>4 DEF IInv, TypeOK, HeldPlaces, CompareExchange, Goto
  <2>3. HolderIsAlone'
    BY <1>4 DEF IInv, TypeOK, HolderIsAlone, Holding, CompareExchange, Goto
  <2>4. OwnerFollows'
    BY <1>4 DEF IInv, TypeOK, OwnerFollows, CompareExchange, Goto
  <2>5. NoLostWakeup'
    BY <1>4 DEF NoLostWakeup, IInv, TypeOK, CompareExchange, Goto
  <2>6. QED BY <2>1, <2>2, <2>3, <2>4, <2>5 DEF IInv
<1>5. ASSUME NEW t \in Threads, TakeOwnership(t) PROVE IInv'
  <2>1. TypeOK'
    BY <1>5 DEF IInv, TypeOK, Points, TakeOwnership, Goto, Granted
  <2>2. HeldPlaces'
    BY <1>5 DEF IInv, TypeOK, HeldPlaces, TakeOwnership, Goto, Granted
  <2>3. HolderIsAlone'
    BY <1>5 DEF IInv, TypeOK, HolderIsAlone, Holding, TakeOwnership, Goto,
       Granted
  <2>4. OwnerFollows'
    BY <1>5, MutexConstants DEF IInv, TypeOK, HeldPlaces, HolderIsAlone,
       OwnerFollows, Holding, TakeOwnership, Goto, Granted
  <2>5. NoLostWakeup'
    BY <1>5 DEF NoLostWakeup, IInv, TypeOK, TakeOwnership, Goto, Granted
  <2>6. QED BY <2>1, <2>2, <2>3, <2>4, <2>5 DEF IInv
<1>6. ASSUME NEW t \in Threads, DeadlinePassed(t) PROVE IInv'
  <2>1. TypeOK'
    BY <1>6 DEF IInv, TypeOK, Points, DeadlinePassed, Goto, word
  <2>2. HeldPlaces'
    BY <1>6 DEF IInv, TypeOK, HeldPlaces, DeadlinePassed, Goto, word
  <2>3. HolderIsAlone'
    BY <1>6 DEF IInv, TypeOK, HolderIsAlone, Holding, DeadlinePassed, Goto,
       word
  <2>4. OwnerFollows'
    BY <1>6 DEF IInv, TypeOK, OwnerFollows, DeadlinePassed, Goto, word
  <2>5. NoLostWakeup'
    BY <1>6 DEF NoLostWakeup, IInv, TypeOK, DeadlinePassed, Goto, word
  <2>6. QED BY <2>1, <2>2, <2>3, <2>4, <2>5 DEF IInv
<1>7. ASSUME NEW t \in Threads, AddrWait(t) PROVE IInv'
  <2>1. TypeOK'
    BY <1>7 DEF IInv, TypeOK, Points, AddrWait, Goto, word
  <2>2. HeldPlaces'
    BY <1>7 DEF IInv, TypeOK, HeldPlaces, AddrWait, Goto, word
  <2>3. HolderIsAlone'
    BY <1>7 DEF IInv, TypeOK, HolderIsAlone, Holding, AddrWait, Goto, word
  <2>4. OwnerFollows'
    BY <1>7 DEF IInv, TypeOK, OwnerFollows, AddrWait, Goto, word
  <2>5. NoLostWakeup'
    BY <1>7 DEF NoLostWakeup, IInv, TypeOK, AddrWait, Goto, word
  <2>6. QED BY <2>1, <2>2, <2>3, <2>4, <2>5 DEF IInv
<1>8. ASSUME NEW t \in Threads, WaitTimeout(t) PROVE IInv'
  <2>1. TypeOK'
    BY <1>8 DEF IInv, TypeOK, Points, WaitTimeout, Goto, word
  <2>2. HeldPlaces'
    BY <1>8 DEF IInv, TypeOK, HeldPlaces, WaitTimeout, Goto, word
  <2>3. HolderIsAlone'
    BY <1>8 DEF IInv, TypeOK, HolderIsAlone, Holding, WaitTimeout, Goto, word
  <2>4. OwnerFollows'
    BY <1>8 DEF IInv, TypeOK, OwnerFollows, WaitTimeout, Goto, word
  <2>5. NoLostWakeup'
    BY <1>8 DEF NoLostWakeup, IInv, TypeOK, WaitTimeout, Goto, word
  <2>6. QED BY <2>1, <2>2, <2>3, <2>4, <2>5 DEF IInv
<1>9. ASSUME NEW t \in Threads, WaitFails(t) PROVE IInv'
  <2>1. TypeOK'
    BY <1>9 DEF IInv, TypeOK, Points, WaitFails, Goto, word
  <2>2. HeldPlaces'
    BY <1>9 DEF IInv, TypeOK, HeldPlaces, WaitFails, Goto, word
  <2>3. HolderIsAlone'
    BY <1>9 DEF IInv, TypeOK, HolderIsAlone, Holding, WaitFails, Goto, word
  <2>4. OwnerFollows'
    BY <1>9 DEF IInv, TypeOK, OwnerFollows, WaitFails, Goto, word
  <2>5. NoLostWakeup'
    BY <1>9 DEF NoLostWakeup, IInv, TypeOK, WaitFails, Goto, word
  <2>6. QED BY <2>1, <2>2, <2>3, <2>4, <2>5 DEF IInv
<1>10. ASSUME NEW t \in Threads, WokenReturns(t) PROVE IInv'
  <2>1. TypeOK'
    BY <1>10 DEF IInv, TypeOK, Points, WokenReturns, Goto, word
  <2>2. HeldPlaces'
    BY <1>10 DEF IInv, TypeOK, HeldPlaces, WokenReturns, Goto, word
  <2>3. HolderIsAlone'
    BY <1>10 DEF IInv, TypeOK, HolderIsAlone, Holding, WokenReturns, Goto,
       word
  <2>4. OwnerFollows'
    BY <1>10 DEF IInv, TypeOK, OwnerFollows, WokenReturns, Goto, word
  <2>5. NoLostWakeup'
    BY <1>10 DEF NoLostWakeup, IInv, TypeOK, WokenReturns, Goto, word
  <2>6. QED BY <2>1, <2>2, <2>3, <2>4, <2>5 DEF IInv
<1>11. ASSUME NEW t \in Threads, WokenBlocksAgain(t) PROVE IInv'
  <2>1. TypeOK'
    BY <1>11 DEF IInv, TypeOK, Points, WokenBlocksAgain, Goto, word
  <2>2. HeldPlaces'
    BY <1>11 DEF IInv, TypeOK, HeldPlaces, WokenBlocksAgain, Goto, word
  <2>3. HolderIsAlone'
    BY <1>11 DEF IInv, TypeOK, HolderIsAlone, Holding, WokenBlocksAgain, Goto,
       word
  <2>4. OwnerFollows'
    BY <1>11 DEF IInv, TypeOK, OwnerFollows, WokenBlocksAgain, Goto, word
  <2>5. NoLostWakeup'
    BY <1>11 DEF NoLostWakeup, IInv, TypeOK, WokenBlocksAgain, Goto, word
  <2>6. QED BY <2>1, <2>2, <2>3, <2>4, <2>5 DEF IInv
<1>12. ASSUME NEW t \in Threads, UnlockInner(t) PROVE IInv'
  <2>1. TypeOK'
    BY <1>12 DEF IInv, TypeOK, Points, OwnerFollows, UnlockInner
  <2>2. HeldPlaces'
    BY <1>12 DEF IInv, TypeOK, HeldPlaces, UnlockInner
  <2>3. HolderIsAlone'
    BY <1>12 DEF IInv, TypeOK, HolderIsAlone, OwnerFollows, Holding,
       UnlockInner
  <2>4. OwnerFollows'
    BY <1>12 DEF IInv, TypeOK, OwnerFollows, UnlockInner
  <2>5. NoLostWakeup'
    BY <1>12 DEF NoLostWakeup, IInv, TypeOK, UnlockInner
  <2>6. QED BY <2>1, <2>2, <2>3, <2>4, <2>5 DEF IInv
<1>13. ASSUME NEW t \in Threads, UnlockBegin(t) PROVE IInv'
  <2>1. TypeOK'
    BY <1>13 DEF IInv, TypeOK, Points, OwnerFollows, UnlockBegin, Goto, word
  <2>2. HeldPlaces'
    BY <1>13 DEF IInv, TypeOK, HeldPlaces, OwnerFollows, UnlockBegin, Goto,
       word
  <2>3. HolderIsAlone'
    BY <1>13 DEF IInv, TypeOK, HolderIsAlone, OwnerFollows, Holding,
       UnlockBegin, Goto, word
  <2>4. OwnerFollows'
    BY <1>13, MutexConstants DEF IInv, TypeOK, HeldPlaces, OwnerFollows,
       UnlockBegin, Goto, word
  <2>5. NoLostWakeup'
    BY <1>13 DEF NoLostWakeup, IInv, TypeOK, UnlockBegin, Goto, word
  <2>6. QED BY <2>1, <2>2, <2>3, <2>4, <2>5 DEF IInv
<1>14. ASSUME NEW t \in Threads, ClearOwner(t) PROVE IInv'
  <2>1. TypeOK'
    BY <1>14 DEF IInv, TypeOK, Points, ClearOwner, Goto
  <2>2. HeldPlaces'
    BY <1>14 DEF IInv, TypeOK, HeldPlaces, ClearOwner, Goto
  <2>3. HolderIsAlone'
    BY <1>14 DEF IInv, TypeOK, HolderIsAlone, Holding, ClearOwner, Goto
  <2>4. OwnerFollows'
    BY <1>14, MutexConstants DEF IInv, TypeOK, HeldPlaces, OwnerFollows,
       ClearOwner, Goto
  <2>5. NoLostWakeup'
    BY <1>14 DEF NoLostWakeup, IInv, TypeOK, ClearOwner, Goto
  <2>6. QED BY <2>1, <2>2, <2>3, <2>4, <2>5 DEF IInv
<1>15. ASSUME NEW t \in Threads, ClearState(t) PROVE IInv'
  <2>1. TypeOK'
    BY <1>15 DEF IInv, TypeOK, Points, ClearState, Goto
  <2>2. HeldPlaces'
    BY <1>15 DEF IInv, TypeOK, HeldPlaces, ClearState, Goto
  <2>3. HolderIsAlone'
    BY <1>15 DEF IInv, TypeOK, HeldPlaces, HolderIsAlone, Holding, ClearState,
       Goto
  <2>4. OwnerFollows'
    BY <1>15 DEF IInv, TypeOK, OwnerFollows, ClearState, Goto
  <2>5. NoLostWakeup'
    BY <1>15 DEF NoLostWakeup, IInv, TypeOK, ClearState, Goto
  <2>6. QED BY <2>1, <2>2, <2>3, <2>4, <2>5 DEF IInv
<1>16. ASSUME NEW t \in Threads, AddrWake(t) PROVE IInv'
  <2>1. TypeOK'
    BY <1>16 DEF IInv, TypeOK, Points, AddrWake, Goto, word
  <2>2. HeldPlaces'
    BY <1>16 DEF IInv, TypeOK, HeldPlaces, AddrWake, Goto, word
  <2>3. HolderIsAlone'
    BY <1>16 DEF IInv, TypeOK, HolderIsAlone, Holding, AddrWake, Goto, word
  <2>4. OwnerFollows'
    BY <1>16 DEF IInv, TypeOK, OwnerFollows, AddrWake, Goto, word
  <2>5. NoLostWakeup'
    BY <1>16 DEF NoLostWakeup, IInv, TypeOK, AddrWake, Goto, word
  <2>6. QED BY <2>1, <2>2, <2>3, <2>4, <2>5 DEF IInv
<1>17. CASE UNCHANGED vars
  BY <1>17 DEF vars, IInv, TypeOK, HeldPlaces, HolderIsAlone, OwnerFollows,
     NoLostWakeup, Holding
<1>18. QED
  BY <1>1, <1>2, <1>3, <1>4, <1>5, <1>6, <1>7, <1>8, <1>9, <1>10, <1>11,
     <1>12, <1>13, <1>14, <1>15, <1>16, <1>17 DEF Next, LockStep, UnlockStep,
     UnlockRefused

\* The invariant always holds.
LEMMA AlwaysIInv == Spec => []IInv
  BY InitIInv, NextIInv, PTL DEF Spec

\* The mutex's words and every thread's progress keep their types.
THEOREM TypeCorrect == Spec => []TypeOK
<1>1. IInv => TypeOK
  BY DEF IInv
<1>2. QED BY <1>1, AlwaysIInv, PTL

\* However many threads contend, at most one is granted the mutex, and the
\* state word is 1 exactly while one is.
THEOREM Exclusion == Spec => []MutualExclusion
<1>1. IInv => MutualExclusion
  BY DEF IInv, TypeOK, HolderIsAlone, MutualExclusion
<1>2. QED BY <1>1, AlwaysIInv, PTL

\* The owner token and the recursion count agree with what was granted.
THEOREM OwnerToken == Spec => []OwnerTokenIsTruthful
<1>1. IInv => OwnerTokenIsTruthful
  BY DEF IInv, TypeOK, HolderIsAlone, OwnerFollows, OwnerTokenIsTruthful, Holding
<1>2. QED BY <1>1, AlwaysIInv, PTL

\* No wake-up is lost, for any number of waiters, with timeouts, failing
\* waits and waiters that block again.
THEOREM WakeupsKept == Spec => []NoLostWakeup
<1>1. IInv => NoLostWakeup
  BY DEF IInv
<1>2. QED BY <1>1, AlwaysIInv, PTL
-----------------------------------------------------------------------------
\* The refinement mapping picks the one holder there is.
LEMMA HolderMapped ==
  IInv => /\ \A t \in Threads : Holding(t) => HeldBy = t
          /\ (\A t \in Threads : ~Holding(t)) => HeldBy = NoThread
<1> SUFFICES ASSUME IInv
             PROVE /\ \A t \in Threads : Holding(t) => HeldBy = t
                   /\ (\A t \in Threads : ~Holding(t)) => HeldBy = NoThread
  OBVIOUS
<1>1. ASSUME NEW t \in Threads, Holding(t) PROVE HeldBy = t
  <2>1. \A u \in Threads : Holding(u) => u = t
    BY <1>1 DEF IInv, HolderIsAlone
  <2>2. (CHOOSE u \in Threads : Holding(u)) = t
    BY <1>1, <2>1
  <2>3. QED BY <1>1, <2>2 DEF HeldBy
<1>2. QED BY <1>1 DEF HeldBy

\* The abstract state in terms of one thread: t holds, or nobody does.
Mapped ==
    /\ \A t \in Threads : Holding(t) =>
          HeldBy = t /\ DepthOf(HeldBy) = IF held[t] = 0 THEN 1 ELSE held[t]
    /\ (\A t \in Threads : ~Holding(t)) => HeldBy = NoThread /\ DepthOf(HeldBy) = 0

\* The mapping in each of the two cases.
LEMMA AbstractState == IInv => Mapped
  BY HolderMapped, MutexConstants DEF DepthOf, Mapped

\* A step maps to a step of Lock or leaves it alone: the compare-exchange is
\* the abstract acquire, the store of 0 the abstract release.
LEMMA StepImplements ==
  IInv /\ IInv' /\ [Next]_vars => [AbstractLock!Next]_(AbstractLock!lvars)
<1> SUFFICES ASSUME IInv, IInv', [Next]_vars
             PROVE [AbstractLock!Next]_(AbstractLock!lvars)
  OBVIOUS
<1> USE MutexConstants
<1> DEFINE Same == HeldBy' = HeldBy /\ DepthOf(HeldBy)' = DepthOf(HeldBy)
<1>1. Mapped /\ Mapped'
  BY AbstractState, PTL
<1>2. ASSUME NEW t \in Threads, CompareExchange(t), state = 0
      PROVE AbstractLock!Acquire(t)
  <2>1. HeldBy = NoThread
    BY <1>1, <1>2 DEF Mapped, IInv, HolderIsAlone
  <2>2. Holding(t)' /\ held'[t] = 0
    BY <1>2 DEF CompareExchange, Goto, Holding, IInv, TypeOK, HeldPlaces
  <2>3. HeldBy' = t /\ DepthOf(HeldBy)' = 1
    BY <1>1, <2>2 DEF Mapped
  <2>4. QED BY <2>1, <2>3 DEF AbstractLock!Acquire
<1>3. ASSUME NEW t \in Threads, TrylockRecursive(t)
      PROVE AbstractLock!Reacquire(t)
  <2>1. held[t] > 0 /\ held'[t] = held[t] + 1
    BY <1>3 DEF TrylockRecursive, Granted, IInv, TypeOK, OwnerFollows
  <2>2. Holding(t) /\ Holding(t)'
    BY <2>1 DEF Holding, IInv, TypeOK
  <2>3. QED
    BY <1>1, <2>1, <2>2 DEF Mapped, AbstractLock!Reacquire, IInv, TypeOK
<1>4. ASSUME NEW t \in Threads, UnlockInner(t)
      PROVE AbstractLock!ReleaseInner(t)
  <2>1. held[t] > 1 /\ held'[t] = held[t] - 1
    BY <1>4 DEF UnlockInner, IInv, TypeOK, OwnerFollows
  <2>2. Holding(t) /\ Holding(t)'
    BY <2>1 DEF Holding, IInv, TypeOK
  <2>3. QED
    BY <1>1, <2>1, <2>2 DEF Mapped, AbstractLock!ReleaseInner, IInv, TypeOK
<1>5. ASSUME NEW t \in Threads, ClearState(t)
      PROVE AbstractLock!Release(t)
  <2>1. Holding(t) /\ held[t] = 0
    BY <1>5 DEF ClearState, Holding, IInv, TypeOK, HeldPlaces
  <2>2. \A u \in Threads : ~Holding(u)'
    BY <1>5 DEF ClearState, IInv, HolderIsAlone
  <2>3. QED BY <1>1, <2>1, <2>2 DEF Mapped, AbstractLock!Release
<1>6. ASSUME NEW t \in Threads, TakeOwnership(t) \/ UnlockBegin(t) \/ ClearOwner(t)
      PROVE Same
  <2>1. /\ Holding(t) /\ Holding(t)'
        /\ held[t] \in {0, 1} /\ held'[t] \in {0, 1}
    BY <1>6 DEF TakeOwnership, UnlockBegin, ClearOwner, Granted, Goto, Holding,
       IInv, TypeOK, HeldPlaces, OwnerFollows
  <2>2. QED BY <1>1, <2>1 DEF Mapped
<1>7. ASSUME held' = held, \A t \in Threads : Holding(t)' = Holding(t)
      PROVE Same
  BY <1>1, <1>7 DEF Mapped
<1>8. ASSUME NEW t \in Threads,
             \/ Call(t) \/ TrylockOther(t) \/ (CompareExchange(t) /\ state # 0)
             \/ AddrWait(t) \/ WokenReturns(t) \/ AddrWake(t) \/ DeadlinePassed(t)
             \/ WaitTimeout(t) \/ WaitFails(t) \/ WokenBlocksAgain(t)
      PROVE Same
  <2>1. held' = held /\ \A u \in Threads : Holding(u)' = Holding(u)
    BY <1>8 DEF Call, TrylockOther, CompareExchange, AddrWait, WokenReturns, AddrWake,
       DeadlinePassed, WaitTimeout, WaitFails, WokenBlocksAgain, Goto, Holding,
       IInv, TypeOK
  <2>2. QED BY <1>7, <2>1
<1>9. CASE UNCHANGED vars
  <2>1. held' = held /\ \A u \in Threads : Holding(u)' = Holding(u)
    BY <1>9 DEF vars, Holding
  <2>2. Same
    BY <1>7, <2>1
  <2>3. QED BY <2>2 DEF AbstractLock!lvars
<1>10. ASSUME NEW t \in Threads,
              AbstractLock!Acquire(t) \/ AbstractLock!Reacquire(t)
                \/ AbstractLock!ReleaseInner(t) \/ AbstractLock!Release(t)
       PROVE AbstractLock!Next
  BY <1>10 DEF AbstractLock!Next
<1>11. ASSUME Same PROVE UNCHANGED AbstractLock!lvars
  BY <1>11 DEF AbstractLock!lvars
<1>12. CASE Next
  <2> PICK t \in Threads :
        \/ Call(t) \/ LockStep(t) \/ UnlockStep(t) \/ UnlockRefused(t)
        \/ DeadlinePassed(t) \/ WaitTimeout(t) \/ WaitFails(t) \/ WokenBlocksAgain(t)
    BY <1>12 DEF Next
  <2>1. CASE CompareExchange(t) /\ state = 0
    BY <1>2, <1>10, <2>1
  <2>2. CASE TrylockRecursive(t)
    BY <1>3, <1>10, <2>2
  <2>3. CASE UnlockInner(t)
    BY <1>4, <1>10, <2>3
  <2>4. CASE ClearState(t)
    BY <1>5, <1>10, <2>4
  <2>5. CASE TakeOwnership(t) \/ UnlockBegin(t) \/ ClearOwner(t)
    BY <1>6, <1>11, <2>5
  <2>6. CASE \/ Call(t) \/ TrylockOther(t) \/ (CompareExchange(t) /\ state # 0)
             \/ AddrWait(t) \/ WokenReturns(t) \/ AddrWake(t) \/ DeadlinePassed(t)
             \/ WaitTimeout(t) \/ WaitFails(t) \/ WokenBlocksAgain(t)
    BY <1>8, <1>11, <2>6
  <2>7. CASE UnlockRefused(t)
    BY <1>9, <2>7 DEF UnlockRefused
  <2>8. CASE LockStep(t)
    BY <2>1, <2>2, <2>5, <2>6, <2>8 DEF LockStep
  <2>9. CASE UnlockStep(t)
    BY <2>3, <2>4, <2>5, <2>6, <2>9 DEF UnlockStep
  <2>10. QED BY <2>6, <2>7, <2>8, <2>9
<1>13. QED BY <1>9, <1>12

\* The mutex of threads.c, with its three separately accessed words, its
\* waits and its wake-ups, implements the abstract lock.
THEOREM MutexIsALock == Spec => ImplementsLock
<1>1. Init => AbstractLock!Init
  <2>1. ASSUME Init PROVE \A t \in Threads : ~Holding(t)
    <3>1. state # 1
      BY <2>1 DEF Init
    <3>2. HolderIsAlone
      BY <2>1, InitIInv DEF IInv
    <3>3. QED BY <3>1, <3>2 DEF HolderIsAlone
  <2>2. QED BY <2>1, InitIInv, AbstractState DEF Mapped, AbstractLock!Init
<1>2. QED
  BY <1>1, StepImplements, AlwaysIInv, PTL DEF Spec, ImplementsLock, AbstractLock!Spec
=============================================================================
