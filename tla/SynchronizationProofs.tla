----------------------- MODULE SynchronizationProofs -----------------------
(***************************************************************************)
(* Proofs about call_once, the semaphore, the latch, the barrier and       *)
(* stop_token, for every number of threads and every program of theirs.    *)
(* Each component has an inductive invariant of its own; the last section  *)
(* takes them together to Synchronization.                                 *)
(***************************************************************************)
EXTENDS Synchronization, Sequences, SequenceTheorems, FiniteSetTheorems, TLAPS

-----------------------------------------------------------------------------
\* call_once.

\* The state word belongs to the one caller that runs the function.
RunnerAlone ==
    /\ \A t, u \in Callers : pc[t] = "run" /\ pc[u] = "run" => t = u
    /\ \A t \in Callers : pc[t] = "run" => state = 1

\* 2 is stored with the function's completion, and never changes again.
DoneMeansRun == effect = IF state = 2 THEN 1 ELSE 0

\* What a caller's place says once it has passed the election.
PastElection ==
    \A t \in Callers :
        /\ pc[t] = "finish" => state = 2
        /\ pc[t] = "undo" => t \in threw
        /\ pc[t] = "out" /\ t \notin failed \cup threw => state = 2

IInv == TypeOK /\ RunnerAlone /\ DoneMeansRun /\ PastElection /\ SleepersWillBeWoken

\* ONCE_FLAG_INIT establishes the invariant.
LEMMA InitIInv == Init => IInv
  BY DEF Init, IInv, TypeOK, Points, RunnerAlone, DoneMeansRun, PastElection,
     SleepersWillBeWoken

\* Every step of every caller keeps it.
LEMMA NextIInv == IInv /\ [Next]_vars => IInv'
<1> SUFFICES ASSUME IInv, [Next]_vars PROVE IInv'
  OBVIOUS
<1> USE DEF IInv
\* Steps that move one caller and leave the words alone.
<1>1. ASSUME NEW t \in Callers, NEW p \in Points, Goto(t, p),
             UNCHANGED <<state, threw, effect>>, failed \subseteq failed',
             failed' \subseteq Callers,
             p \notin {"run", "finish", "undo"},
             pc[t] \notin {"finish", "undo"},
             p = "asleep" => state = 1,
             p = "out" => state = 2 \/ t \in failed'
      PROVE  IInv'
  <2>1. /\ pc' \in [Callers -> Points] /\ pc'[t] = p
        /\ \A u \in Callers \ {t} : pc'[u] = pc[u]
    BY <1>1 DEF TypeOK, Goto
  <2>2. TypeOK'
    BY <1>1, <2>1 DEF TypeOK
  <2>3. RunnerAlone'
    BY <1>1, <2>1 DEF RunnerAlone
  <2>4. DoneMeansRun'
    BY <1>1 DEF DoneMeansRun
  <2>5. PastElection'
    BY <1>1, <2>1 DEF PastElection
  <2>6. SleepersWillBeWoken'
    BY <1>1, <2>1 DEF SleepersWillBeWoken
  <2>7. QED BY <2>2, <2>3, <2>4, <2>5, <2>6
<1>2. ASSUME NEW t \in Callers, Load(t) PROVE IInv'
  <2>1. CASE state = 2
    BY <1>1, <1>2, <2>1 DEF Load, TypeOK, Points
  <2>2. CASE state = 0
    BY <1>1, <1>2, <2>2 DEF Load, TypeOK, Points
  <2>3. CASE state = 1
    BY <1>1, <1>2, <2>3 DEF Load, TypeOK, Points
  <2>4. QED BY <2>1, <2>2, <2>3 DEF TypeOK
<1>3. ASSUME NEW t \in Callers, CompareExchange(t) PROVE IInv'
  <2>1. CASE state # 0
    BY <1>1, <1>3, <2>1 DEF CompareExchange, TypeOK, Points
  <2>2. CASE state = 0
    <3>1. /\ pc' \in [Callers -> Points] /\ pc'[t] = "run" /\ state' = 1
          /\ \A u \in Callers \ {t} : pc'[u] = pc[u]
          /\ UNCHANGED <<threw, effect, failed>>
      BY <1>3, <2>2 DEF CompareExchange, Goto, TypeOK, Points
    <3>2. TypeOK'
      BY <3>1 DEF TypeOK
    <3>3. RunnerAlone'
      BY <2>2, <3>1 DEF RunnerAlone
    <3>4. DoneMeansRun'
      BY <2>2, <3>1 DEF DoneMeansRun
    <3>5. PastElection'
      BY <2>2, <3>1 DEF PastElection
    <3>6. SleepersWillBeWoken'
      BY <3>1 DEF SleepersWillBeWoken
    <3>7. QED BY <3>2, <3>3, <3>4, <3>5, <3>6
  <2>3. QED BY <2>1, <2>2
<1>4. ASSUME NEW t \in Callers, AddrWait(t) PROVE IInv'
  <2>1. CASE state = 1
    BY <1>1, <1>4, <2>1 DEF AddrWait, TypeOK, Points
  <2>2. CASE state # 1
    BY <1>1, <1>4, <2>2 DEF AddrWait, TypeOK, Points
  <2>3. QED BY <2>1, <2>2
<1>5. ASSUME NEW t \in Callers, WokenReturns(t) PROVE IInv'
  BY <1>1, <1>5 DEF WokenReturns, TypeOK, Points
<1>6. ASSUME NEW t \in Callers, WokenBlocksAgain(t) PROVE IInv'
  BY <1>1, <1>6 DEF WokenBlocksAgain, TypeOK, Points
<1>7. ASSUME NEW t \in Callers, WaitFails(t) PROVE IInv'
  BY <1>1, <1>7 DEF WaitFails, TypeOK, Points
\* The runner leaves the function.
<1>8. ASSUME NEW t \in Callers, Complete(t) PROVE IInv'
  <2>1. /\ pc' \in [Callers -> Points] /\ pc'[t] = "finish" /\ pc[t] = "run"
        /\ \A u \in Callers \ {t} : pc'[u] = pc[u]
        /\ state' = 2 /\ effect' = effect + 1 /\ UNCHANGED <<threw, failed>>
    BY <1>8 DEF Complete, Goto, TypeOK, Points
  <2>2. TypeOK'
    BY <2>1 DEF TypeOK
  <2>3. RunnerAlone'
    BY <2>1 DEF RunnerAlone
  <2>4. DoneMeansRun'
    BY <2>1 DEF DoneMeansRun, RunnerAlone
  <2>5. PastElection'
    BY <2>1 DEF PastElection
  <2>6. SleepersWillBeWoken'
    BY <2>1 DEF SleepersWillBeWoken
  <2>7. QED BY <2>2, <2>3, <2>4, <2>5, <2>6
<1>9. ASSUME NEW t \in Callers, Abort(t) PROVE IInv'
  <2>1. /\ pc' \in [Callers -> Points] /\ pc'[t] = "undo" /\ pc[t] = "run"
        /\ \A u \in Callers \ {t} : pc'[u] = pc[u]
        /\ state' = 0 /\ threw' = threw \cup {t} /\ UNCHANGED <<effect, failed>>
    BY <1>9 DEF Abort, Goto, TypeOK, Points
  <2>2. TypeOK'
    BY <2>1 DEF TypeOK
  <2>3. RunnerAlone'
    BY <2>1 DEF RunnerAlone
  <2>4. DoneMeansRun'
    BY <2>1 DEF DoneMeansRun, RunnerAlone
  <2>5. PastElection'
    BY <2>1 DEF PastElection, RunnerAlone
  <2>6. SleepersWillBeWoken'
    BY <2>1 DEF SleepersWillBeWoken
  <2>7. QED BY <2>2, <2>3, <2>4, <2>5, <2>6
\* The wake-up: nobody is asleep after it.
<1>10. ASSUME NEW t \in Callers, WakeAll(t) PROVE IInv'
  <2>1. /\ pc' \in [Callers -> Points] /\ pc[t] \in {"finish", "undo"}
        /\ \A u \in Callers :
              pc'[u] = IF pc[u] = "asleep" THEN "woken"
                       ELSE IF u = t THEN "out" ELSE pc[u]
        /\ UNCHANGED <<state, threw, effect, failed>>
    BY <1>10 DEF WakeAll, TypeOK, Points
  <2>2. TypeOK'
    BY <2>1 DEF TypeOK
  <2>3. RunnerAlone'
    BY <2>1 DEF RunnerAlone
  <2>4. DoneMeansRun'
    BY <2>1 DEF DoneMeansRun
  <2>5. PastElection'
    BY <2>1 DEF PastElection
  <2>6. SleepersWillBeWoken'
    BY <2>1 DEF SleepersWillBeWoken
  <2>7. QED BY <2>2, <2>3, <2>4, <2>5, <2>6
<1>11. CASE UNCHANGED vars
  BY <1>11 DEF vars, TypeOK, RunnerAlone, DoneMeansRun, PastElection,
     SleepersWillBeWoken
<1>12. QED
  BY <1>2, <1>3, <1>4, <1>5, <1>6, <1>7, <1>8, <1>9, <1>10, <1>11
     DEF Next, Step, Returned

\* The invariant always holds.
LEMMA AlwaysIInv == Spec => []IInv
  BY InitIInv, NextIInv, PTL DEF Spec

\* The state word, the callers' places and the counts keep their types.
THEOREM TypeCorrect == Spec => []TypeOK
<1>1. IInv => TypeOK
  BY DEF IInv
<1>2. QED BY <1>1, AlwaysIInv, PTL

\* However many callers race and however often the function throws, one at a
\* time runs it, and nobody after it ran to its end.
THEOREM OneRun == Spec => []RunsOnce
<1>1. IInv => RunsOnce
  BY DEF IInv, TypeOK, RunnerAlone, DoneMeansRun, RunsOnce
<1>2. QED BY <1>1, AlwaysIInv, PTL

\* A caller whose waits did not fail only gets past a completed function.
THEOREM NobodyPastEarly == Spec => []OutMeansDone
<1>1. IInv => OutMeansDone
  BY DEF IInv, TypeOK, DoneMeansRun, PastElection, OutMeansDone
<1>2. QED BY <1>1, AlwaysIInv, PTL

\* Whoever sleeps on an election that is over has a wake_all ahead.
THEOREM SleepersWoken == Spec => []SleepersWillBeWoken
<1>1. IInv => SleepersWillBeWoken
  BY DEF IInv
<1>2. QED BY <1>1, AlwaysIInv, PTL

\* All that call_once promises but that it returns.
THEOREM CallOnceIsSafe == Spec => []CallOnceSafe
<1>1. TypeOK /\ RunsOnce /\ OutMeansDone /\ SleepersWillBeWoken => CallOnceSafe
  BY DEF CallOnceSafe
<1>2. QED
  BY <1>1, TypeCorrect, OneRun, NobodyPastEarly, SleepersWoken, PTL

-----------------------------------------------------------------------------
\* Arrivals, counted one by one: w gives what each member brings.
UnitsOf(w, S) == UNION {{t} \X (1 .. w[t]) : t \in S}

\* One member brings what it brings.
LEMMA UnitsOfOne ==
    ASSUME NEW t, NEW n \in Nat
    PROVE  IsFiniteSet({t} \X (1 .. n)) /\ Cardinality({t} \X (1 .. n)) = n
<1>1. IsFiniteSet({t}) /\ Cardinality({t}) = 1
  BY FS_Singleton
<1>2. IsFiniteSet(1 .. n) /\ Cardinality(1 .. n) = n
  BY FS_Interval
<1> DEFINE A == {t}
           B == 1 .. n
<1>3. IsFiniteSet(A \X B) /\ Cardinality(A \X B) = Cardinality(A) * Cardinality(B)
  <2> HIDE DEF A, B
  <2>1. IsFiniteSet(A) /\ IsFiniteSet(B)
    BY <1>1, <1>2 DEF A, B
  <2>2. QED BY <2>1, FS_Product
<1>4. QED BY <1>1, <1>2, <1>3

LEMMA UnitsFinite ==
    ASSUME NEW S, IsFiniteSet(S), NEW w, \A t \in S : w[t] \in Nat
    PROVE  IsFiniteSet(UnitsOf(w, S)) /\ Cardinality(UnitsOf(w, S)) \in Nat
<1> DEFINE parts == {{t} \X (1 .. w[t]) : t \in S}
<1> DEFINE part == [t \in S |-> {t} \X (1 .. w[t])]
<1>1. IsFiniteSet(parts)
  <2>1. part \in Surjection(S, parts)
    BY DEF Surjection
  <2> HIDE DEF part, parts
  <2>2. QED BY <2>1, FS_Surjection
<1>2. ASSUME NEW p \in parts PROVE IsFiniteSet(p)
  <2>1. PICK t \in S : p = {t} \X (1 .. w[t])
    OBVIOUS
  <2>2. w[t] \in Nat
    OBVIOUS
  <2>3. QED BY <2>1, <2>2, UnitsOfOne
<1>3. IsFiniteSet(UNION parts)
  BY <1>1, <1>2, FS_UNION
<1>4. QED BY <1>3, FS_CardinalityType DEF UnitsOf

\* The whole is what one member brings and what the others do.
LEMMA UnitsWithout ==
    ASSUME NEW S, IsFiniteSet(S), NEW w, \A t \in S : w[t] \in Nat, NEW t \in S
    PROVE  Cardinality(UnitsOf(w, S)) = w[t] + Cardinality(UnitsOf(w, S \ {t}))
<1> DEFINE one == {t} \X (1 .. w[t])
           rest == UnitsOf(w, S \ {t})
<1>1. UnitsOf(w, S) = one \cup rest /\ one \cap rest = {}
  BY DEF UnitsOf
<1>2. IsFiniteSet(S \ {t})
  BY FS_RemoveElement
<1>3. IsFiniteSet(rest) /\ Cardinality(rest) \in Nat
  BY <1>2, UnitsFinite
<1>4. IsFiniteSet(one) /\ Cardinality(one) = w[t]
  BY UnitsOfOne
<1>5. Cardinality(one \cup rest)
         = Cardinality(one) + Cardinality(rest) - Cardinality(one \cap rest)
  <2> HIDE DEF one, rest
  <2>1. QED BY <1>3, <1>4, FS_Union
<1>6. Cardinality(one \cap rest) = 0
  BY <1>1, FS_EmptySet
<1>7. Cardinality(UnitsOf(w, S)) = Cardinality(one \cup rest) /\ w[t] \in Nat
  BY <1>1
<1> HIDE DEF one
<1>8. QED BY <1>3, <1>4, <1>5, <1>6, <1>7

\* Nothing is to come only from those who bring nothing.
LEMMA NothingToCome ==
    ASSUME NEW S, IsFiniteSet(S), NEW w, \A t \in S : w[t] \in Nat
    PROVE  Cardinality(UnitsOf(w, S)) = 0 <=> \A t \in S : w[t] = 0
<1>1. ASSUME NEW t \in S, w[t] # 0 PROVE Cardinality(UnitsOf(w, S)) # 0
  <2>1. IsFiniteSet(S \ {t})
    BY FS_RemoveElement
  <2>2. Cardinality(UnitsOf(w, S \ {t})) \in Nat
    BY <2>1, UnitsFinite
  <2>3. QED BY <1>1, <2>2, UnitsWithout
<1>2. ASSUME \A t \in S : w[t] = 0 PROVE Cardinality(UnitsOf(w, S)) = 0
  <2>1. UnitsOf(w, S) = {}
    BY <1>2 DEF UnitsOf
  <2>2. QED BY <2>1, FS_EmptySet
<1>3. QED BY <1>1, <1>2

-----------------------------------------------------------------------------
\* The semaphore.

\* The semaphore counts with the operators of FiniteSets.
LEMMA SemSets ==
    /\ \A S : Sem!IsFiniteSet(S) <=> IsFiniteSet(S)
    /\ \A S : Sem!Cardinality(S) = Cardinality(S)
BY DEF Sem!IsFiniteSet, Sem!Cardinality, IsFiniteSet, Cardinality

USE SemSets

\* The inductive invariant.

\* Shapes; who tries to take a permit has seen one, and who waits, or was
\* refused a wait, has seen none.
SemTyped ==
    /\ count \in Nat /\ taken \in Nat /\ released \in Nat
    /\ verdict \in [Threads -> {"none", "true", "false"}]
    /\ pc \in [Threads -> {"idle", "load", "cas", "wait", "refused", "asleep", "woken",
           "wake1", "wakeAll"}]
    /\ loaded \in [Threads -> Nat]
    /\ \A t \in Threads : pc[t] = "cas" => loaded[t] > 0
    /\ \A t \in Threads : pc[t] \in {"wait", "refused", "asleep", "woken"} => loaded[t] = 0
    /\ count = Desired + released - taken

\* Threads that will take a permit or see none, or wake a sleeper that will.
\* One at "wait" is not among them: its time may be up.
Coming == {t \in Threads : pc[t] \in {"load", "cas", "woken", "wake1"}}

\* While a thread sleeps and no thread is about to wake all, each permit has
\* somebody coming for it.
EachHasATaker ==
    (\E t \in Threads : pc[t] = "asleep") /\ (\A t \in Threads : pc[t] # "wakeAll") =>
        count <= Cardinality(Coming)

SemInv == SemTyped /\ EachHasATaker

LEMMA ComingFinite ==
    ASSUME Sem!SemaphoreConstants
    PROVE  IsFiniteSet(Coming) /\ Cardinality(Coming) \in Nat
BY FS_Subset, FS_CardinalityType DEF Sem!SemaphoreConstants, Coming

LEMMA ComingFinitePrime ==
    ASSUME Sem!SemaphoreConstants
    PROVE  IsFiniteSet(Coming') /\ Cardinality(Coming') \in Nat
BY FS_Subset, FS_CardinalityType DEF Sem!SemaphoreConstants, Coming

LEMMA SemaphoreInit == ASSUME Sem!SemaphoreConstants, Sem!Init PROVE SemInv
BY DEF Sem!Init, Sem!SemaphoreConstants, SemInv, SemTyped, EachHasATaker

LEMMA SemaphoreAcquire ==
    ASSUME Sem!SemaphoreConstants, SemInv, NEW t \in Threads, NEW u \in BOOLEAN,
           Sem!Acquire(t, u)
    PROVE  SemInv'
<1>1. SemTyped'
  BY DEF SemInv, SemTyped, Sem!Acquire, Sem!Goto
<1>2. Coming \subseteq Coming'
  BY DEF SemInv, SemTyped, Sem!Acquire, Sem!Goto, Coming
<1>3. Cardinality(Coming) <= Cardinality(Coming')
  BY <1>2, ComingFinitePrime, FS_Subset
<1>4. EachHasATaker'
  <2>1. /\ count' = count
        /\ \A v \in Threads : pc'[v] = "asleep" => pc[v] = "asleep"
        /\ \A v \in Threads : pc[v] = "wakeAll" => pc'[v] = "wakeAll"
    BY DEF SemInv, SemTyped, Sem!Acquire, Sem!Goto
  <2>2. QED BY <1>3, <2>1, ComingFinite, ComingFinitePrime DEF SemInv, SemTyped, EachHasATaker
<1>5. QED BY <1>1, <1>4 DEF SemInv

\* A step of a thread that comes, sees no permit or stays among those who come,
\* and changes nobody else, keeps the balance.
LEMMA KeepsComing ==
    ASSUME Sem!SemaphoreConstants, SemInv, SemTyped', count' = count,
           \A v \in Threads : pc[v] = "wakeAll" => pc'[v] = "wakeAll",
           \/ count = 0
           \/ /\ Coming \subseteq Coming'
              /\ \A v \in Threads : pc'[v] = "asleep" => pc[v] = "asleep"
    PROVE  SemInv'
<1>1. CASE count = 0
  BY <1>1, ComingFinitePrime DEF SemInv, EachHasATaker
<1>2. CASE /\ Coming \subseteq Coming'
           /\ \A v \in Threads : pc'[v] = "asleep" => pc[v] = "asleep"
  <2>1. Cardinality(Coming) <= Cardinality(Coming')
    BY <1>2, ComingFinitePrime, FS_Subset
  <2>2. EachHasATaker'
    BY <1>2, <2>1, ComingFinite, ComingFinitePrime DEF SemInv, SemTyped, EachHasATaker
  <2>3. QED BY <2>2 DEF SemInv
<1>3. QED BY <1>1, <1>2

LEMMA SemaphoreLoad ==
    ASSUME Sem!SemaphoreConstants, SemInv, NEW t \in Threads, Sem!Load(t) PROVE SemInv'
<1>1. SemTyped'
  BY DEF SemInv, SemTyped, Sem!Load, Sem!Goto
<1>2. count > 0 => Coming \subseteq Coming' /\ \A v \in Threads : pc'[v] = "asleep" =>
          pc[v] = "asleep"
  BY DEF SemInv, SemTyped, Sem!Load, Sem!Goto, Coming
<1>3. /\ count' = count
      /\ \A v \in Threads : pc[v] = "wakeAll" => pc'[v] = "wakeAll"
  BY DEF SemInv, SemTyped, Sem!Load, Sem!Goto
<1>4. count = 0 \/ count > 0
  BY DEF SemInv, SemTyped
<1>5. QED BY <1>1, <1>2, <1>3, <1>4, KeepsComing

LEMMA SemaphoreCompareExchange ==
    ASSUME Sem!SemaphoreConstants, SemInv, NEW t \in Threads, Sem!CompareExchange(t)
          PROVE SemInv'
<1>1. CASE count = loaded[t]
  <2>1. /\ pc[t] = "cas" /\ pc' = [pc EXCEPT ![t] = "idle"]
        /\ count' = count - 1 /\ taken' = taken + 1
        /\ loaded' = [loaded EXCEPT ![t] = 0] /\ UNCHANGED released
        /\ verdict' = [verdict EXCEPT ![t] = IF timed[t] THEN "true" ELSE "none"]
    BY <1>1 DEF Sem!CompareExchange, Sem!Goto
  <2>2. SemTyped'
    BY <1>1, <2>1 DEF SemInv, SemTyped, Sem!SemaphoreConstants
  <2>3. t \in Coming /\ Coming' = Coming \ {t}
    BY <2>1 DEF SemInv, SemTyped, Coming
  <2>4. Cardinality(Coming') = Cardinality(Coming) - 1
    BY <2>3, ComingFinite, FS_RemoveElement
  <2>5. EachHasATaker'
    BY <2>1, <2>4, ComingFinite DEF SemInv, SemTyped, EachHasATaker
  <2>6. QED BY <2>2, <2>5 DEF SemInv
<1>2. CASE count # loaded[t]
  <2>1. /\ pc[t] = "cas" /\ loaded' = [loaded EXCEPT ![t] = count]
        /\ pc' = [pc EXCEPT ![t] = IF count > 0 THEN "cas" ELSE "wait"]
        /\ UNCHANGED <<count, taken, released, verdict>>
    BY <1>2 DEF Sem!CompareExchange, Sem!Goto
  <2>2. SemTyped'
    BY <2>1 DEF SemInv, SemTyped
  <2>3. /\ count > 0 => Coming \subseteq Coming'
        /\ \A v \in Threads : pc'[v] = "asleep" => pc[v] = "asleep"
        /\ \A v \in Threads : pc[v] = "wakeAll" => pc'[v] = "wakeAll"
        /\ count = 0 \/ count > 0
    BY <2>1 DEF SemInv, SemTyped, Coming
  <2>4. QED BY <2>1, <2>2, <2>3, KeepsComing
<1>3. QED BY <1>1, <1>2

LEMMA SemaphoreWait ==
    ASSUME Sem!SemaphoreConstants, SemInv, NEW t \in Threads, Sem!Wait(t) PROVE SemInv'
<1>1. SemTyped'
  BY DEF SemInv, SemTyped, Sem!Wait, Sem!Goto
<1>2. /\ count' = count
      /\ count = 0 \/ count > 0
      /\ \A v \in Threads : pc[v] = "wakeAll" => pc'[v] = "wakeAll"
      /\ Coming \subseteq Coming'
      /\ count > 0 => \A v \in Threads : pc'[v] = "asleep" => pc[v] = "asleep"
  BY DEF SemInv, SemTyped, Sem!Wait, Sem!Goto, Coming
<1>3. QED BY <1>1, <1>2, KeepsComing

\* A wait that failed sends acquire to look again, and a timed call away.
LEMMA SemaphoreWaitFails ==
    ASSUME Sem!SemaphoreConstants, SemInv, NEW t \in Threads, Sem!WaitFails(t)
    PROVE  SemInv'
<1>1. SemTyped'
  BY DEF SemInv, SemTyped, Sem!WaitFails, Sem!Goto
<1>2. /\ count' = count
      /\ \A v \in Threads : pc[v] = "wakeAll" => pc'[v] = "wakeAll"
      /\ Coming \subseteq Coming'
      /\ \A v \in Threads : pc'[v] = "asleep" => pc[v] = "asleep"
  BY DEF SemInv, SemTyped, Sem!WaitFails, Sem!Goto, Coming
<1>3. QED BY <1>1, <1>2, KeepsComing

LEMMA SemaphoreReturnRefused ==
    ASSUME Sem!SemaphoreConstants, SemInv, NEW t \in Threads, Sem!ReturnRefused(t)
    PROVE  SemInv'
<1>1. SemTyped'
  BY DEF SemInv, SemTyped, Sem!ReturnRefused, Sem!Goto
<1>2. /\ count' = count
      /\ \A v \in Threads : pc[v] = "wakeAll" => pc'[v] = "wakeAll"
      /\ Coming \subseteq Coming'
      /\ \A v \in Threads : pc'[v] = "asleep" => pc[v] = "asleep"
  BY DEF SemInv, SemTyped, Sem!ReturnRefused, Sem!Goto, Coming
<1>3. QED BY <1>1, <1>2, KeepsComing

LEMMA SemaphoreTimeout ==
    ASSUME Sem!SemaphoreConstants, SemInv, NEW t \in Threads, Sem!Timeout(t) PROVE SemInv'
<1>1. SemTyped'
  BY DEF SemInv, SemTyped, Sem!Timeout, Sem!Goto
<1>2. /\ count' = count
      /\ \A v \in Threads : pc[v] = "wakeAll" => pc'[v] = "wakeAll"
      /\ Coming \subseteq Coming'
      /\ \A v \in Threads : pc'[v] = "asleep" => pc[v] = "asleep"
  BY DEF SemInv, SemTyped, Sem!Timeout, Sem!Goto, Coming
<1>3. QED BY <1>1, <1>2, KeepsComing

LEMMA SemaphoreWoken ==
    ASSUME Sem!SemaphoreConstants, SemInv, NEW t \in Threads, Sem!Woken(t) PROVE SemInv'
<1>1. SemTyped'
  BY DEF SemInv, SemTyped, Sem!Woken, Sem!Goto
<1>2. /\ count' = count
      /\ count = 0 \/ count > 0
      /\ \A v \in Threads : pc[v] = "wakeAll" => pc'[v] = "wakeAll"
      /\ count > 0 => /\ Coming \subseteq Coming'
                      /\ \A v \in Threads : pc'[v] = "asleep" => pc[v] = "asleep"
  BY DEF SemInv, SemTyped, Sem!Woken, Sem!Goto, Coming
<1>3. QED BY <1>1, <1>2, KeepsComing

\* One permit brings one waker, several one that wakes all.
LEMMA SemaphoreRelease ==
    ASSUME Sem!SemaphoreConstants, SemInv, NEW t \in Threads, NEW n \in Permits,
           Sem!Release(t, n)
    PROVE  SemInv'
<1>1. /\ pc[t] = "idle" /\ count' = count + n /\ released' = released + n
      /\ pc' = [pc EXCEPT ![t] = IF n = 1 THEN "wake1" ELSE "wakeAll"]
      /\ verdict' = [verdict EXCEPT ![t] = "none"]
      /\ UNCHANGED <<loaded, taken>> /\ n \in Nat
  BY DEF Sem!Release, Sem!Goto, Sem!WakePoint, Sem!SemaphoreConstants
<1>2. SemTyped'
  BY <1>1 DEF SemInv, SemTyped, Sem!SemaphoreConstants
<1>3. CASE n = 1
  <2>1. t \notin Coming /\ Coming' = Coming \cup {t}
    BY <1>1, <1>3 DEF SemInv, SemTyped, Coming
  <2>2. Cardinality(Coming') = Cardinality(Coming) + 1
    BY <2>1, ComingFinite, FS_AddElement
  <2>3. EachHasATaker'
    <3>1. /\ \A v \in Threads : pc'[v] = "asleep" => pc[v] = "asleep"
          /\ \A v \in Threads : pc[v] = "wakeAll" => pc'[v] = "wakeAll"
      BY <1>1, <1>3 DEF SemInv, SemTyped
    <3>2. QED BY <1>1, <1>3, <2>2, <3>1, ComingFinite DEF SemInv, SemTyped, EachHasATaker
  <2>4. QED BY <1>2, <2>3 DEF SemInv
<1>4. CASE n # 1
  <2>1. pc'[t] = "wakeAll"
    BY <1>1, <1>4 DEF SemInv, SemTyped
  <2>2. QED BY <1>2, <2>1 DEF SemInv, EachHasATaker
<1>5. QED BY <1>3, <1>4

LEMMA SemaphoreNotify ==
    ASSUME Sem!SemaphoreConstants, SemInv, NEW t \in Threads, Sem!Notify(t) PROVE SemInv'
<1> DEFINE sleepers == {u \in Threads : pc[u] = "asleep"}
<1>1. PICK S \in SUBSET sleepers :
        /\ IF pc[t] = "wakeAll" \/ sleepers = {} THEN S = sleepers ELSE Cardinality(S) = 1
        /\ pc' = [u \in Threads |-> IF u = t THEN "idle" ELSE IF u \in S THEN "woken" ELSE pc[u]]
  BY DEF Sem!Notify
<1>2. pc[t] \in {"wake1", "wakeAll"} /\ UNCHANGED <<count, loaded, taken, released, verdict>>
  BY DEF Sem!Notify
<1>3. SemTyped'
  BY <1>1, <1>2 DEF SemInv, SemTyped
<1>4. CASE S = sleepers
  <2>1. \A u \in Threads : pc'[u] # "asleep"
    BY <1>1, <1>4
  <2>2. QED BY <1>3, <2>1 DEF SemInv, EachHasATaker
<1>5. CASE S # sleepers
  <2>1. pc[t] = "wake1" /\ Cardinality(S) = 1
    BY <1>1, <1>2, <1>5
  <2>2. IsFiniteSet(S)
    BY FS_Subset DEF Sem!SemaphoreConstants
  <2>3. PICK u : S = {u}
    BY <2>1, <2>2, FS_Singleton
  <2>4. u \in Threads /\ pc[u] = "asleep" /\ u # t
    BY <2>1, <2>3
  <2>5. /\ t \in Coming /\ u \notin Coming
        /\ Coming' = (Coming \ {t}) \cup {u}
    BY <1>1, <2>1, <2>3, <2>4 DEF Coming
  <2>6. IsFiniteSet(Coming \ {t}) /\ Cardinality(Coming \ {t}) = Cardinality(Coming) - 1
    BY <2>5, ComingFinite, FS_RemoveElement
  <2>7. Cardinality((Coming \ {t}) \cup {u}) = Cardinality(Coming \ {t}) + 1
    BY <2>5, <2>6, FS_AddElement
  <2>8. Cardinality(Coming') = Cardinality(Coming)
    BY <2>5, <2>6, <2>7, ComingFinite
  <2>9. /\ \A v \in Threads : pc'[v] = "asleep" => pc[v] = "asleep"
        /\ \A v \in Threads : pc[v] = "wakeAll" => pc'[v] = "wakeAll"
    BY <1>1, <2>1, <2>3, <2>4
  <2>10. QED BY <1>2, <1>3, <2>8, <2>9 DEF SemInv, EachHasATaker
<1>6. QED BY <1>4, <1>5

LEMMA SemaphoreNext ==
    ASSUME Sem!SemaphoreConstants, SemInv, [Sem!Next]_(Sem!vars)
    PROVE  SemInv'
<1>1. CASE UNCHANGED Sem!vars
  BY <1>1 DEF Sem!vars, SemInv, SemTyped, EachHasATaker, Coming
<1>2. ASSUME NEW t \in Threads,
             \/ Sem!Acquire(t, TRUE) \/ Sem!Acquire(t, FALSE) \/ Sem!Progress(t)
             \/ Sem!Timeout(t) \/ Sem!WaitFails(t)
             \/ \E n \in Permits : Sem!Release(t, n)
      PROVE  SemInv'
  BY <1>2, SemaphoreAcquire, SemaphoreLoad, SemaphoreCompareExchange, SemaphoreWait,
     SemaphoreReturnRefused, SemaphoreWoken, SemaphoreNotify, SemaphoreTimeout,
     SemaphoreWaitFails, SemaphoreRelease DEF Sem!Progress
<1>3. QED BY <1>1, <1>2 DEF Sem!Next

\* A verdict of failure is given by Wait when time is up and by ReturnRefused
\* when the wait failed, to who has seen no permit.
LEMMA SemaphoreVerdict ==
    ASSUME SemInv, [Sem!Next]_(Sem!vars)
    PROVE  [Sem!FailsLate]_(Sem!vars)
<1> SUFFICES ASSUME Sem!Next, NEW u \in Threads, verdict[u] = "none", verdict'[u] = "false"
             PROVE  (u \in expired \/ pc[u] = "refused") /\ loaded[u] = 0
  BY DEF Sem!FailsLate
<1>1. PICK t \in Threads :
        \/ Sem!Acquire(t, TRUE) \/ Sem!Acquire(t, FALSE) \/ Sem!Progress(t)
        \/ Sem!Timeout(t) \/ Sem!WaitFails(t)
        \/ \E n \in Permits : Sem!Release(t, n)
  BY DEF Sem!Next
<1>2. CASE \/ Sem!Acquire(t, TRUE) \/ Sem!Acquire(t, FALSE)
           \/ Sem!Timeout(t) \/ Sem!WaitFails(t)
           \/ \E n \in Permits : Sem!Release(t, n)
  BY <1>2 DEF SemInv, SemTyped, Sem!Acquire, Sem!Timeout, Sem!WaitFails, Sem!Release
<1>3. CASE Sem!Load(t) \/ Sem!CompareExchange(t) \/ Sem!Woken(t) \/ Sem!Notify(t)
  BY <1>3 DEF SemInv, SemTyped, Sem!Load, Sem!CompareExchange, Sem!Woken, Sem!Notify
<1>4. CASE Sem!Wait(t) \/ Sem!ReturnRefused(t)
  <2>1. u = t
    BY <1>4 DEF SemInv, SemTyped, Sem!Wait, Sem!ReturnRefused
  <2>2. QED BY <1>4, <2>1 DEF SemInv, SemTyped, Sem!Wait, Sem!ReturnRefused
<1>5. QED BY <1>1, <1>2, <1>3, <1>4 DEF Sem!Progress

\* No permit is given twice or lost; nobody sleeps while there is a permit and
\* nobody on the way.
LEMMA SemaphoreInvSafe ==
    ASSUME Sem!SemaphoreConstants, SemInv
    PROVE  Sem!PermitsConserved /\ Sem!SleeperHasNoPermit
<1>1. Sem!PermitsConserved
  BY DEF SemInv, SemTyped, Sem!PermitsConserved
<1>2. ASSUME count > 0, NEW t \in Threads, pc[t] = "asleep"
      PROVE  \E u \in Threads : pc[u] \notin {"idle", "asleep"}
  <2>1. CASE \E u \in Threads : pc[u] = "wakeAll"
    BY <2>1
  <2>2. CASE \A u \in Threads : pc[u] # "wakeAll"
    <3>1. Cardinality(Coming) # 0
      BY <1>2, <2>2, ComingFinite DEF SemInv, SemTyped, EachHasATaker
    <3>2. Coming # {}
      BY <3>1, FS_EmptySet
    <3>3. QED BY <3>2 DEF Coming
  <2>3. QED BY <2>1, <2>2
<1>3. QED BY <1>1, <1>2 DEF Sem!SleeperHasNoPermit

HIDE SemSets

-----------------------------------------------------------------------------
\* The latch.

\* The latch counts with the operators of FiniteSets.
LEMMA LatSets ==
    /\ \A S : Lat!IsFiniteSet(S) <=> IsFiniteSet(S)
    /\ \A S : Lat!Cardinality(S) = Cardinality(S)
BY DEF Lat!IsFiniteSet, Lat!Cardinality, IsFiniteSet, Cardinality

USE LatSets

LEMMA LatchUnits == \A S : Lat!Units(S) = UnitsOf(CountsDown, S)
BY DEF Lat!Units, UnitsOf

\* The inductive invariant.

\* Shapes; who has something to bring and has not counted down is about to.
LatchTyped ==
    /\ count \in Int /\ arrived \subseteq {t \in Callers : CountsDown[t] # 0}
    /\ pc \in [Callers -> {"arrive", "notify", "load", "wait", "asleep", "woken", "out"}]
    /\ loaded \in [Callers -> Int]
    /\ \A t \in Callers : pc[t] = "arrive" <=> (CountsDown[t] # 0 /\ t \notin arrived)

\* The count is what those bring who have not arrived, and a wait ends at 0.
CountIsToCome ==
    /\ count = Cardinality(Lat!Units(Callers \ arrived))
    /\ \A t \in Callers : pc[t] = "out" => count = 0

LatchInv == LatchTyped /\ CountIsToCome

LEMMA LatchInit == ASSUME Lat!LatchConstants, Lat!Init PROVE LatchInv
<1>1. Cardinality(Lat!Units(Callers)) \in Nat
  BY UnitsFinite, LatchUnits DEF Lat!LatchConstants
<1>2. Callers \ arrived = Callers
  BY DEF Lat!Init
<1>3. LatchTyped
  BY <1>1 DEF Lat!LatchConstants, Lat!Init, Lat!Expected, LatchTyped
<1>4. CountIsToCome
  BY <1>2 DEF Lat!Init, Lat!Expected, CountIsToCome
<1>5. QED BY <1>3, <1>4 DEF LatchInv

LEMMA LatchCountDown ==
    ASSUME Lat!LatchConstants, LatchInv, NEW t \in Callers, Lat!CountDown(t) PROVE LatchInv'
<1> USE DEF Lat!LatchConstants
<1>1. t \in Callers \ arrived /\ CountsDown[t] # 0
  BY DEF LatchInv, LatchTyped, Lat!CountDown
<1>2. IsFiniteSet(Callers \ arrived)
  BY FS_Subset
<1>3. /\ Callers \ arrived' = (Callers \ arrived) \ {t}
      /\ arrived' = arrived \cup {t} /\ count' = count - CountsDown[t]
      /\ pc' = [pc EXCEPT ![t] = IF Lat!Last(t) THEN "notify" ELSE "load"] /\ UNCHANGED loaded
  BY DEF Lat!CountDown, Lat!Goto
<1>4. Cardinality(Lat!Units(Callers \ arrived))
         = CountsDown[t] + Cardinality(Lat!Units(Callers \ arrived'))
  BY <1>1, <1>2, <1>3, UnitsWithout, LatchUnits
<1>5. Cardinality(Lat!Units(Callers \ arrived')) \in Nat
  BY <1>2, <1>3, FS_RemoveElement, UnitsFinite, LatchUnits
<1>6. count # 0
  BY <1>1, <1>4, <1>5 DEF LatchInv, CountIsToCome
<1>7. LatchTyped'
  BY <1>1, <1>3 DEF LatchInv, LatchTyped
<1>8. CountIsToCome'
  <2>1. count' = Cardinality(Lat!Units(Callers \ arrived'))
    BY <1>1, <1>3, <1>4, <1>5 DEF LatchInv, CountIsToCome
  <2>2. Cardinality(Lat!Units(Callers \ arrived))' = Cardinality(Lat!Units(Callers \ arrived'))
    BY DEF Lat!Units
  <2>3. ASSUME NEW u \in Callers PROVE pc'[u] # "out"
    BY <1>3, <1>6 DEF LatchInv, LatchTyped, CountIsToCome
  <2>4. QED BY <2>1, <2>2, <2>3 DEF CountIsToCome
<1>9. QED BY <1>7, <1>8 DEF LatchInv

\* The other steps leave count and arrivals alone.
LEMMA LatchWaiting ==
    ASSUME Lat!LatchConstants, LatchInv, NEW t \in Callers,
           Lat!NotifyAll(t) \/ Lat!Load(t) \/ Lat!Wait(t)
    PROVE  LatchInv'
<1>1. UNCHANGED <<count, arrived>>
  BY DEF Lat!NotifyAll, Lat!Load, Lat!Wait
<1>2. /\ \A u \in Callers : pc'[u] = "arrive" <=> pc[u] = "arrive"
      /\ \A u \in Callers : pc'[u] = "out" => pc[u] = "out" \/ count = 0
      /\ pc' \in [Callers -> {"arrive", "notify", "load", "wait", "asleep", "woken", "out"}]
  BY DEF LatchInv, LatchTyped, Lat!NotifyAll, Lat!Load, Lat!Wait, Lat!Goto
<1>3. loaded' \in [Callers -> Int]
  BY DEF LatchInv, LatchTyped, Lat!NotifyAll, Lat!Load, Lat!Wait
<1>4. LatchTyped'
  BY <1>1, <1>2, <1>3 DEF LatchInv, LatchTyped
<1>5. CountIsToCome'
  BY <1>1, <1>2 DEF LatchInv, CountIsToCome, Lat!Units
<1>6. QED BY <1>4, <1>5 DEF LatchInv

LEMMA LatchNext ==
    ASSUME Lat!LatchConstants, LatchInv, [Lat!Next]_(Lat!vars)
    PROVE  LatchInv'
<1>1. CASE UNCHANGED Lat!vars
  BY <1>1 DEF Lat!vars, LatchInv, LatchTyped, CountIsToCome, Lat!Units
<1>2. ASSUME NEW t \in Callers, Lat!Progress(t) PROVE LatchInv'
  BY <1>2, LatchCountDown, LatchWaiting DEF Lat!Progress
<1>3. CASE Lat!Finished
  BY <1>1, <1>3 DEF Lat!Finished
<1>4. QED BY <1>1, <1>2, <1>3 DEF Lat!Next

\* latch::wait returns only when every arrival has been counted.
LEMMA LatchInvSafe == ASSUME Lat!LatchConstants, LatchInv PROVE Lat!NobodyEarly
<1> SUFFICES ASSUME NEW t \in Callers, pc[t] = "out"
             PROVE  arrived = {u \in Callers : CountsDown[u] # 0}
  BY DEF Lat!NobodyEarly
<1>1. IsFiniteSet(Callers \ arrived)
  BY FS_Subset DEF Lat!LatchConstants
<1>2. \A u \in Callers \ arrived : CountsDown[u] = 0
  BY <1>1, NothingToCome, LatchUnits DEF LatchInv, CountIsToCome, Lat!LatchConstants
<1>3. QED BY <1>2 DEF LatchInv, LatchTyped

HIDE LatSets

-----------------------------------------------------------------------------
\* The barrier.

\* The barrier counts with the operators of FiniteSets.
LEMMA BarSets ==
    /\ \A S : Bar!IsFiniteSet(S) <=> IsFiniteSet(S)
    /\ \A S : Bar!Cardinality(S) = Cardinality(S)
BY DEF Bar!IsFiniteSet, Bar!Cardinality, IsFiniteSet, Cardinality

USE BarSets

\* The inductive invariant.

BarrierPoints == {"idle", "complete", "advance", "unlock", "notify", "look", "wait", "woken",
    "asleep"}
Finishing == {"complete", "advance", "unlock"}

\* Shapes; a token is of a phase that has begun; who left brought one arrival.
BarrierTyped ==
    /\ expected \in Int /\ remaining \in Int /\ phase \in Nat /\ completed \in Int
    /\ pc \in [Threads -> BarrierPoints] /\ token \in [Threads -> Int]
    /\ dropped \subseteq {t \in Threads : Weight[t] = 1}
    /\ \A t \in Threads : token[t] <= phase
    \* Who is in no phase, or left, has its token from one that is over.
    /\ \A t \in Threads : pc[t] = "idle" \/ t \in dropped => token[t] < phase

\* One thread at a time finishes a phase, and only a phase in which nobody is
\* late is finished.
OneFinishes ==
    /\ \A t, u \in Threads : pc[t] \in Finishing /\ pc[u] \in Finishing => t = u
    /\ \A t \in Threads : pc[t] \in {"complete", "advance"} => Bar!Late = {}

\* The counts, and the completion of the phase under way.
CountsExact ==
    /\ expected = Cardinality(Bar!Units(Threads \ dropped))
    /\ remaining = Cardinality(Bar!Units(Bar!Late))
    /\ completed = IF \E t \in Threads : pc[t] = "advance" THEN phase + 1 ELSE phase

BarrierInv == BarrierTyped /\ OneFinishes /\ CountsExact

LEMMA BarrierUnits == \A S : Bar!Units(S) = UnitsOf(Weight, S)
BY DEF Bar!Units, UnitsOf

LEMMA BarrierWeights ==
    ASSUME Bar!BarrierConstants
    PROVE  \A t \in Threads : Weight[t] \in Nat \ {0}
BY DEF Bar!BarrierConstants

LEMMA BarrierCards ==
    ASSUME Bar!BarrierConstants, NEW S \in SUBSET Threads
    PROVE  /\ IsFiniteSet(S) /\ Cardinality(Bar!Units(S)) \in Nat
           /\ Cardinality(Bar!Units(S)) = 0 <=> S = {}
           /\ \A t \in S :
                  Cardinality(Bar!Units(S)) = Weight[t] + Cardinality(Bar!Units(S \ {t}))
<1>1. IsFiniteSet(S)
  BY FS_Subset DEF Bar!BarrierConstants
<1>2. \A t \in S : Weight[t] \in Nat \ {0}
  BY BarrierWeights
<1>3. QED BY <1>1, <1>2, UnitsFinite, NothingToCome, UnitsWithout, BarrierUnits

\* An arrival, with or without leaving: the last one finishes the phase.
LEMMA BarrierArrival ==
    ASSUME Bar!BarrierConstants, BarrierInv, NEW t \in Threads, Bar!MutexFree,
           pc[t] = "idle", t \notin dropped
    PROVE  /\ t \in Bar!Late
           /\ remaining - Weight[t] = Cardinality(Bar!Units(Bar!Late \ {t}))
           /\ remaining - Weight[t] = 0 <=> Bar!Late \ {t} = {}
           /\ expected - Weight[t] = Cardinality(Bar!Units(Threads \ (dropped \cup {t})))
<1>1. t \in Bar!Late
  BY DEF BarrierInv, BarrierTyped, Bar!Late
<1>2. Bar!Late \in SUBSET Threads /\ Bar!Late \ {t} \in SUBSET Threads
  BY DEF Bar!Late
<1>3. Threads \ dropped \in SUBSET Threads /\ t \in Threads \ dropped
  OBVIOUS
<1>4. (Threads \ dropped) \ {t} = Threads \ (dropped \cup {t})
  OBVIOUS
<1>5. (Threads \ dropped) \ {t} \in SUBSET Threads
  OBVIOUS
<1>6. Weight[t] \in Nat
  BY BarrierWeights
<1>7. /\ remaining = Weight[t] + Cardinality(Bar!Units(Bar!Late \ {t}))
      /\ Cardinality(Bar!Units(Bar!Late \ {t})) \in Nat
      /\ Cardinality(Bar!Units(Bar!Late \ {t})) = 0 <=> Bar!Late \ {t} = {}
  BY <1>1, <1>2, BarrierCards DEF BarrierInv, CountsExact
<1>8. /\ expected = Weight[t] + Cardinality(Bar!Units((Threads \ dropped) \ {t}))
      /\ Cardinality(Bar!Units((Threads \ dropped) \ {t})) \in Nat
  BY <1>3, <1>5, BarrierCards DEF BarrierInv, CountsExact
<1> DEFINE others == Cardinality(Bar!Units(Bar!Late \ {t}))
           rest == Cardinality(Bar!Units((Threads \ dropped) \ {t}))
<1>9. remaining = Weight[t] + others /\ expected = Weight[t] + rest /\ others \in Nat
          /\ rest \in Nat
  BY <1>7, <1>8
<1>10. remaining - Weight[t] = others /\ expected - Weight[t] = rest
  <2> HIDE DEF others, rest
  <2>1. QED BY <1>6, <1>9
<1>11. QED BY <1>1, <1>4, <1>7, <1>10

LEMMA UnitsPrime == ASSUME NEW S PROVE Bar!Units(S)' = Bar!Units(S')
BY DEF Bar!Units

LEMMA BarrierInit == ASSUME Bar!BarrierConstants, Bar!Init PROVE BarrierInv
<1>1. Bar!Late = Threads /\ Threads \ dropped = Threads
  BY DEF Bar!Init, Bar!Late
<1>2. Cardinality(Bar!Units(Threads)) \in Nat
  BY BarrierCards
<1>3. BarrierTyped
  BY <1>2 DEF Bar!Init, Bar!Total, BarrierTyped, BarrierPoints
<1>4. OneFinishes
  BY DEF Bar!Init, OneFinishes, Finishing
<1>5. CountsExact
  BY <1>1 DEF Bar!Init, Bar!Total, CountsExact
<1>6. QED BY <1>3, <1>4, <1>5 DEF BarrierInv

LEMMA BarrierArrive ==
    ASSUME Bar!BarrierConstants, BarrierInv, NEW t \in Threads, Bar!Arrive(t) PROVE BarrierInv'
<1>1. /\ pc[t] = "idle" /\ t \notin dropped /\ Bar!MutexFree
      /\ token' = [token EXCEPT ![t] = phase] /\ remaining' = remaining - Weight[t]
      /\ pc' = [pc EXCEPT ![t] = IF remaining' = 0 THEN "complete" ELSE "look"]
      /\ UNCHANGED <<expected, phase, dropped, completed>>
  BY DEF Bar!Arrive, Bar!Goto
<1>2. /\ t \in Bar!Late /\ remaining' = Cardinality(Bar!Units(Bar!Late \ {t}))
      /\ remaining' = 0 <=> Bar!Late \ {t} = {}
  BY <1>1, BarrierArrival
<1>3. Bar!Late' = Bar!Late \ {t}
  BY <1>1, <1>2 DEF Bar!Late, BarrierInv, BarrierTyped
<1>4. BarrierTyped'
  BY <1>1, BarrierWeights DEF BarrierInv, BarrierTyped, BarrierPoints
<1>5. OneFinishes'
  BY <1>1, <1>2, <1>3 DEF BarrierInv, BarrierTyped, OneFinishes, Bar!MutexFree, Finishing
<1>6. (\E u \in Threads : pc'[u] = "advance") <=> (\E u \in Threads : pc[u] = "advance")
  BY <1>1 DEF BarrierInv, BarrierTyped
<1>7. CountsExact'
  BY <1>1, <1>2, <1>3, <1>6 DEF BarrierInv, CountsExact, Bar!Units
<1>8. QED BY <1>4, <1>5, <1>7 DEF BarrierInv

LEMMA BarrierArriveAndDrop ==
    ASSUME Bar!BarrierConstants, BarrierInv, NEW t \in Threads, Bar!ArriveAndDrop(t)
          PROVE BarrierInv'
<1>1. /\ pc[t] = "idle" /\ t \notin dropped /\ Bar!MutexFree /\ Weight[t] = 1
      /\ remaining' = remaining - Weight[t] /\ expected' = expected - Weight[t]
      /\ dropped' = dropped \cup {t}
      /\ pc' = [pc EXCEPT ![t] = IF remaining' = 0 THEN "complete" ELSE "idle"]
      /\ UNCHANGED <<token, phase, completed>>
  BY DEF Bar!ArriveAndDrop, Bar!Goto
<1>2. /\ t \in Bar!Late /\ remaining' = Cardinality(Bar!Units(Bar!Late \ {t}))
      /\ remaining' = 0 <=> Bar!Late \ {t} = {}
      /\ expected' = Cardinality(Bar!Units(Threads \ dropped'))
  BY <1>1, BarrierArrival
<1>3. Bar!Late' = Bar!Late \ {t}
  BY <1>1, <1>2 DEF Bar!Late, BarrierInv, BarrierTyped
<1>4. BarrierTyped'
  BY <1>1 DEF BarrierInv, BarrierTyped, BarrierPoints
<1>5. OneFinishes'
  BY <1>1, <1>2, <1>3 DEF BarrierInv, BarrierTyped, OneFinishes, Bar!MutexFree, Finishing
<1>6. (\E u \in Threads : pc'[u] = "advance") <=> (\E u \in Threads : pc[u] = "advance")
  BY <1>1 DEF BarrierInv, BarrierTyped
<1>7. CountsExact'
  BY <1>1, <1>2, <1>3, <1>6 DEF BarrierInv, CountsExact, Bar!Units
<1>8. QED BY <1>4, <1>5, <1>7 DEF BarrierInv

LEMMA BarrierComplete ==
    ASSUME BarrierInv, NEW t \in Threads, Bar!Complete(t) PROVE BarrierInv'
<1>1. /\ pc[t] = "complete" /\ completed' = completed + 1
      /\ pc' = [pc EXCEPT ![t] = "advance"]
      /\ UNCHANGED <<expected, remaining, phase, token, dropped>>
  BY DEF Bar!Complete, Bar!Goto
<1>2. Bar!Late' = Bar!Late
  BY <1>1 DEF Bar!Late
<1>3. BarrierTyped'
  BY <1>1 DEF BarrierInv, BarrierTyped, BarrierPoints
<1>4. OneFinishes'
  BY <1>1, <1>2 DEF BarrierInv, BarrierTyped, OneFinishes, Finishing
<1>5. CountsExact'
  <2>1. ~ \E u \in Threads : pc[u] = "advance"
    BY <1>1 DEF BarrierInv, OneFinishes, Finishing
  <2>2. pc'[t] = "advance"
    BY <1>1 DEF BarrierInv, BarrierTyped
  <2>3. completed' = phase' + 1
    BY <1>1, <2>1 DEF BarrierInv, CountsExact
  <2>4. QED BY <1>1, <1>2, <2>2, <2>3 DEF BarrierInv, CountsExact, Bar!Units
<1>6. QED BY <1>3, <1>4, <1>5 DEF BarrierInv

LEMMA BarrierAdvance ==
    ASSUME BarrierInv, NEW t \in Threads, Bar!Advance(t) PROVE BarrierInv'
<1>1. /\ pc[t] = "advance" /\ remaining' = expected /\ phase' = phase + 1
      /\ pc' = [pc EXCEPT ![t] = "unlock"]
      /\ UNCHANGED <<expected, token, dropped, completed>>
  BY DEF Bar!Advance, Bar!Goto
<1>2. Bar!Late' = Threads \ dropped
  BY <1>1 DEF Bar!Late, BarrierInv, BarrierTyped
<1>3. BarrierTyped'
  BY <1>1 DEF BarrierInv, BarrierTyped, BarrierPoints
<1>4. \A u \in Threads : pc[u] \in Finishing => u = t
  BY <1>1 DEF BarrierInv, OneFinishes, Finishing
<1>5. OneFinishes'
  BY <1>1, <1>4 DEF BarrierInv, BarrierTyped, OneFinishes, Finishing
<1>6. CountsExact'
  <2>1. ~ \E u \in Threads : pc'[u] = "advance"
    BY <1>1, <1>4 DEF BarrierInv, BarrierTyped, Finishing
  <2>2. completed' = phase'
    BY <1>1 DEF BarrierInv, CountsExact
  <2>3. QED BY <1>1, <1>2, <2>1, <2>2 DEF BarrierInv, CountsExact, Bar!Units
<1>7. QED BY <1>3, <1>5, <1>6 DEF BarrierInv

\* The rest moves threads that hold no mutex, or lets go of it.
LEMMA BarrierMoves ==
    ASSUME BarrierInv, NEW t \in Threads,
           Bar!Unlock(t) \/ Bar!NotifyAll(t) \/ Bar!Look(t) \/ Bar!Wait(t)
    PROVE  BarrierInv'
<1>1. UNCHANGED <<expected, remaining, phase, token, dropped, completed>>
  BY DEF Bar!Unlock, Bar!NotifyAll, Bar!Look, Bar!Wait
<1>2. /\ pc' \in [Threads -> BarrierPoints]
      /\ \A u \in Threads : pc'[u] \in Finishing => pc'[u] = pc[u]
      /\ \A u \in Threads : pc[u] \in {"complete", "advance"} => pc'[u] = pc[u]
      /\ \A u \in Threads : pc'[u] = "idle" => \/ pc[u] = "idle" \/ u \in dropped
                                               \/ token[u] # phase
  BY DEF BarrierInv, BarrierTyped, Bar!Unlock, Bar!NotifyAll, Bar!Look, Bar!Wait, Bar!Goto,
         BarrierPoints, Finishing
<1>3. Bar!Late' = Bar!Late
  BY <1>1 DEF Bar!Late
<1>4. BarrierTyped'
  BY <1>1, <1>2 DEF BarrierInv, BarrierTyped
<1>5. OneFinishes'
  BY <1>2, <1>3 DEF BarrierInv, OneFinishes, Finishing
<1>6. (\E u \in Threads : pc'[u] = "advance") <=> (\E u \in Threads : pc[u] = "advance")
  BY <1>2 DEF Finishing
<1>7. CountsExact'
  BY <1>1, <1>3, <1>6 DEF BarrierInv, CountsExact, Bar!Units
<1>8. QED BY <1>4, <1>5, <1>7 DEF BarrierInv

LEMMA BarrierNext ==
    ASSUME Bar!BarrierConstants, BarrierInv, [Bar!Next]_(Bar!vars)
    PROVE  BarrierInv'
<1>1. CASE UNCHANGED Bar!vars
  BY <1>1 DEF Bar!vars, BarrierInv, BarrierTyped, OneFinishes, CountsExact, Bar!Late, Bar!Units
<1>2. ASSUME NEW t \in Threads, Bar!Progress(t) PROVE BarrierInv'
  BY <1>2, BarrierArrive, BarrierArriveAndDrop, BarrierComplete, BarrierAdvance, BarrierMoves
     DEF Bar!Progress
<1>3. CASE Bar!Finished
  BY <1>1, <1>3 DEF Bar!Finished
<1>4. QED BY <1>1, <1>2, <1>3 DEF Bar!Next

\* The completion runs once, between the last arrival and the first departure.
LEMMA BarrierInvSafe == ASSUME Bar!BarrierConstants, BarrierInv PROVE Bar!BarrierSafe
<1>1. ASSUME NEW t \in Threads, pc[t] = "complete", NEW u \in Threads \ dropped
      PROVE  token[u] = phase
  BY <1>1 DEF BarrierInv, OneFinishes, Bar!Late
<1>2. completed - phase \in {0, 1}
  BY DEF BarrierInv, CountsExact, BarrierTyped
<1>3. ASSUME NEW t \in Threads, pc[t] = "idle", token[t] >= 0 PROVE completed > token[t]
  BY <1>3 DEF BarrierInv, CountsExact, BarrierTyped
<1>4. QED BY <1>1, <1>2, <1>3
          DEF Bar!BarrierSafe, Bar!PhasesAreWhole, Bar!RemainingIsOwed, BarrierInv, CountsExact

HIDE BarSets

-----------------------------------------------------------------------------
\* stop_token.

\* A stop source counts with the operators of FiniteSets.
LEMMA TokSets ==
    /\ \A S : Tok!IsFiniteSet(S) <=> IsFiniteSet(S)
    /\ \A S : Tok!Cardinality(S) = Cardinality(S)
BY DEF Tok!IsFiniteSet, Tok!Cardinality, IsFiniteSet, Cardinality

USE TokSets

\* Places of a thread that constructs a callback, and of one that destroys it.
Constructing(t) == pc[t] \in {"construct", "sources", "register", "inline", "untoken"}
Destroying(t) == pc[t] \in {"unregister", "await", "notify", "unreference"}

\* The request has popped a callback and not left its frame; the callback's own
\* record still points to the frame.
InFrame(t) == pc[t] \in {"call", "body", "after", "clear", "stop", "drain", "asleep"}
Runs(t) == pc[t] \in {"call", "body", "clear"} \/ (pc[t] = "after" /\ ~frame.ownerDestroyed)

Frames == [running : BOOLEAN, ownerDestroyed : BOOLEAN, waiters : Int, exists : BOOLEAN]

StopTyped ==
    /\ sources \in BOOLEAN /\ requested \in BOOLEAN
    /\ alive \subseteq Callbacks /\ registered \subseteq alive /\ callees \subseteq Callbacks
    /\ execution \in [Callbacks -> Threads \cup {NoOne}]
    /\ frame \in Frames
    /\ pc \in [Threads -> {"idle", "construct", "sources", "register", "inline", "untoken",
                           "unregister", "await", "notify", "unreference", "addref", "lock",
                           "call", "body", "after", "clear", "stop", "drain", "asleep",
                           "unref"}]
    /\ cb \in [Threads -> Callbacks \cup {NoOne}]
    /\ \A t \in Threads : cb[t] = NoOne <=> pc[t] \in {"idle", "addref", "lock", "unref"}
    /\ victim \in Callbacks \cup {NoOne}

\* One request in all; its caller's source is there until the request holds
\* a reference of its own.
OneRequest ==
    /\ \A t \in Threads : Tok!Requesting(t) => requested
    /\ \A t, u \in Threads : Tok!Requesting(t) /\ Tok!Requesting(u) => t = u
    /\ \A t \in Threads : pc[t] = "addref" => sources

\* A callback has one thread that constructs or destroys it, whose memory it is;
\* before it is registered the request has nothing to do with it.
OneOwner ==
    /\ \A t, u \in Threads :
          (Constructing(t) \/ Destroying(t)) /\ cb[t] = cb[u] /\ t # u =>
             /\ Tok!Requesting(u)
             /\ pc[t] \in {"untoken", "unregister", "await", "notify", "unreference"}
    /\ \A t \in Threads : pc[t] = "construct" => cb[t] \notin alive
    /\ \A t \in Threads :
          Destroying(t) \/ pc[t] \in {"sources", "register", "inline", "untoken"} =>
              cb[t] \in alive
    /\ \A t \in Threads :
          pc[t] \in {"sources", "register", "inline", "await", "notify", "unreference"} =>
              cb[t] \notin registered

\* A body destroys a callback that is there, its own or one nobody is about.
OneVictim ==
    /\ victim # NoOne =>
          victim \in alive /\ \A t \in Threads : cb[t] = victim => Tok!Requesting(t)
    /\ \A t \in Threads : pc[t] = "body" => victim # NoOne
    /\ victim # NoOne => \E t \in Threads : pc[t] = "body"

\* The frame and the callback that runs in it.
OneFrame ==
    /\ \A t \in Threads : InFrame(t) => frame.exists
    /\ \A t \in Threads : pc[t] \in {"call", "body", "after", "clear", "stop"} => frame.running
    /\ \A t \in Threads : pc[t] \in {"call", "body", "clear"} => ~frame.ownerDestroyed
    /\ \A t \in Threads : Runs(t) => cb[t] \in alive /\ execution[cb[t]] = t
    /\ \A t \in Threads : pc[t] = "after" /\ frame.ownerDestroyed => cb[t] \notin alive
    /\ \A c \in alive : execution[c] # NoOne =>
          Runs(execution[c]) /\ cb[execution[c]] = c
    /\ \A t \in Threads : InFrame(t) => cb[t] \notin registered

\* Who destroys a callback in its frame waits there.
AwaitedRun ==
    /\ \A t \in Threads : pc[t] = "await" => \E u \in Threads : InFrame(u) /\ cb[u] = cb[t]
    /\ \A t, u \in Threads :
          pc[t] \in {"notify", "unreference"} /\ cb[u] = cb[t] /\ u # t =>
              pc[u] \in {"stop", "drain", "asleep"}

\* What has been called and what is still to be.
CalledOnce ==
    /\ ~called
    /\ \A c \in registered : c \notin callees
    /\ \A t \in Threads :
          pc[t] \in {"sources", "register", "inline", "call"} => cb[t] \notin callees
    /\ \A t \in Threads : InFrame(t) /\ pc[t] # "call" => cb[t] \in callees

Served(c) ==
    \/ c \in callees \/ c \in registered \/ c \in unheard
    \/ \E t \in Threads :
          /\ cb[t] = c
          /\ pc[t] \in {"sources", "register", "inline", "unregister", "await", "notify",
                        "unreference", "call"}

AllServed == \A c \in alive : Served(c)

DoneWhenOver ==
    /\ \A t \in Threads : pc[t] = "unref" => registered = {}
    /\ requested /\ (\A t \in Threads : ~Tok!Requesting(t)) => registered = {}

ListExact ==
    /\ list \in Seq(Callbacks)
    /\ \A c \in Callbacks : c \in registered <=> \E i \in 1 .. Len(list) : list[i] = c
    /\ \A i, j \in 1 .. Len(list) : list[i] = list[j] => i = j

HoldingThreads == {t \in Threads : Constructing(t) \/ (Tok!Requesting(t) /\ pc[t] # "addref")}
Source == IF sources THEN 1 ELSE 0
References == references = Source + Cardinality(HoldingThreads) + Cardinality(alive)
Waiting == {t \in Threads : pc[t] = "await"}
WaitersExact == frame.exists => frame.waiters = Cardinality(Waiting)

CallsExact ==
    /\ StopTyped /\ OneRequest /\ OneOwner /\ OneVictim /\ OneFrame /\ AwaitedRun
    /\ CalledOnce /\ AllServed /\ DoneWhenOver

StopInv == CallsExact /\ ListExact /\ References /\ WaitersExact

LEMMA WaitingFinite ==
    ASSUME Tok!StopTokenConstants PROVE IsFiniteSet(Waiting) /\ Cardinality(Waiting) \in Nat
BY FS_Subset, FS_CardinalityType DEF Tok!StopTokenConstants, Waiting

LEMMA NobodyAwaits ==
    ASSUME Tok!StopTokenConstants, WaitersExact, frame.exists, frame.waiters = 0
    PROVE  \A u \in Threads : pc[u] # "await"
<1>1. Waiting = {}
  BY WaitingFinite, FS_EmptySet DEF WaitersExact
<1>2. QED BY <1>1 DEF Waiting

LEMMA EmptyList == ASSUME ListExact, StopTyped PROVE list = << >> <=> registered = {}
<1>1. list = << >> => registered = {}
  BY DEF ListExact, StopTyped
<1>2. registered = {} => list = << >>
  <2> SUFFICES ASSUME registered = {}, list # << >> PROVE FALSE
    OBVIOUS
  <2>1. 1 \in 1 .. Len(list) /\ list[1] \in Callbacks
    BY DEF ListExact
  <2>2. QED BY <2>1 DEF ListExact
<1>3. QED BY <1>1, <1>2

LEMMA Popped ==
    ASSUME ListExact, StopTyped, list # << >>
    PROVE  /\ Head(list) \in registered
           /\ list' = Tail(list) /\ registered' = registered \ {Head(list)} => ListExact'
<1>1. Len(list) \in Nat \ {0} /\ Head(list) = list[1]
  BY DEF ListExact
<1>2. Head(list) \in registered
  BY <1>1 DEF ListExact
<1>3. ASSUME list' = Tail(list), registered' = registered \ {Head(list)} PROVE ListExact'
  <2>1. Tail(list) \in Seq(Callbacks) /\ Len(Tail(list)) = Len(list) - 1
        /\ \A i \in 1 .. Len(list) - 1 : Tail(list)[i] = list[i + 1]
    BY <1>1 DEF ListExact
  <2>2. \A i, j \in 1 .. Len(list'): list'[i] = list'[j] => i = j
    BY <1>1, <1>3, <2>1 DEF ListExact
  <2>3. ASSUME NEW c \in Callbacks
        PROVE c \in registered' <=> \E i \in 1 .. Len(list') : list'[i] = c
    <3>1. ASSUME c \in registered' PROVE \E i \in 1 .. Len(list') : list'[i] = c
      <4>1. PICK i \in 1 .. Len(list) : list[i] = c
        BY <1>3, <3>1 DEF ListExact
      <4>2. i # 1
        BY <1>1, <1>3, <3>1, <4>1
      <4>3. i - 1 \in 1 .. Len(list') /\ list'[i - 1] = c
        BY <1>1, <1>3, <2>1, <4>1, <4>2
      <4>4. QED BY <4>3
    <3>2. ASSUME NEW i \in 1 .. Len(list'), list'[i] = c PROVE c \in registered'
      <4>1. i + 1 \in 1 .. Len(list) /\ list[i + 1] = c /\ i + 1 # 1 /\ 1 \in 1 .. Len(list)
        BY <1>1, <1>3, <2>1, <3>2
      <4>2. c # list[1] /\ c \in registered
        BY <4>1 DEF ListExact
      <4>3. QED BY <1>1, <1>3, <4>2
    <3>3. QED BY <3>1, <3>2
  <2>4. QED BY <1>3, <2>1, <2>2, <2>3 DEF ListExact
<1>4. QED BY <1>2, <1>3

LEMMA Prepended ==
    ASSUME ListExact, StopTyped, NEW c \in Callbacks \ registered,
           list' = <<c>> \o list, registered' = registered \cup {c}
    PROVE  ListExact'
<1>1. /\ list' \in Seq(Callbacks) /\ Len(list') = Len(list) + 1 /\ list'[1] = c
      /\ Len(list) \in Nat
      /\ \A i \in 2 .. Len(list) + 1 : list'[i] = list[i - 1]
  BY DEF ListExact
<1>2. \A i \in 1 .. Len(list) : list[i] # c
  BY DEF ListExact
<1>3. \A i, j \in 1 .. Len(list') : list'[i] = list'[j] => i = j
  <2> SUFFICES ASSUME NEW i \in 1 .. Len(list'), NEW j \in 1 .. Len(list'), list'[i] = list'[j]
               PROVE  i = j
    OBVIOUS
  <2>1. i # 1 => i - 1 \in 1 .. Len(list) /\ list'[i] = list[i - 1]
    BY <1>1
  <2>2. j # 1 => j - 1 \in 1 .. Len(list) /\ list'[j] = list[j - 1]
    BY <1>1
  <2>3. CASE i = 1 \/ j = 1
    BY <1>1, <1>2, <2>1, <2>2, <2>3
  <2>4. CASE i # 1 /\ j # 1
    <3>1. i - 1 = j - 1
      BY <2>1, <2>2, <2>4 DEF ListExact
    <3>2. QED BY <3>1
  <2>5. QED BY <2>3, <2>4
<1>4. ASSUME NEW d \in Callbacks
      PROVE d \in registered' <=> \E i \in 1 .. Len(list') : list'[i] = d
  <2>1. ASSUME d \in registered PROVE \E i \in 1 .. Len(list') : list'[i] = d
    <3>1. PICK i \in 1 .. Len(list) : list[i] = d
      BY <2>1 DEF ListExact
    <3>2. i + 1 \in 1 .. Len(list') /\ list'[i + 1] = d
      BY <1>1, <3>1
    <3>3. QED BY <3>2
  <2>2. ASSUME NEW i \in 1 .. Len(list'), list'[i] = d PROVE d \in registered'
    <3>1. CASE i = 1
      BY <1>1, <2>2, <3>1
    <3>2. CASE i # 1
      <4>1. i - 1 \in 1 .. Len(list) /\ list[i - 1] = d
        BY <1>1, <2>2, <3>2
      <4>2. QED BY <4>1 DEF ListExact
    <3>3. QED BY <3>1, <3>2
  <2>3. d = c => \E i \in 1 .. Len(list') : list'[i] = d
    BY <1>1
  <2>4. QED BY <2>1, <2>2, <2>3
<1>5. QED BY <1>1, <1>3, <1>4 DEF ListExact

LEMMA Unlinks ==
    ASSUME ListExact, StopTyped, NEW c \in Callbacks,
           list' = Tok!Unlinked(c), registered' = registered \ {c}
    PROVE  ListExact'
<1> DEFINE at == {i \in 1 .. Len(list) : list[i] = c}
           k == CHOOSE j \in at : TRUE
<1>1. CASE c \notin registered
  BY <1>1 DEF Tok!Unlinked, ListExact
<1>2. CASE c \in registered
  <2>1. k \in 1 .. Len(list) /\ list[k] = c /\ at # {}
    <3>1. at # {}
      BY <1>2 DEF ListExact
    <3>2. QED BY <3>1
  <2>2. list' = [j \in 1 .. Len(list) - 1 |-> IF j < k THEN list[j] ELSE list[j + 1]]
    BY <1>2, <2>1 DEF Tok!Unlinked
  <2> HIDE DEF at, k
  <2>3. Len(list) \in Nat \ {0} /\ \A i \in 1 .. Len(list) : list[i] \in Callbacks
    BY <2>1 DEF ListExact
  <2>4. list' \in Seq(Callbacks) /\ Len(list') = Len(list) - 1
    <3>1. \A j \in 1 .. Len(list) - 1 : (IF j < k THEN list[j] ELSE list[j + 1]) \in Callbacks
      BY <2>1, <2>3
    <3>2. QED BY <2>2, <2>3, <3>1
  <2> DEFINE old(j) == IF j < k THEN j ELSE j + 1
  <2>5. \A j \in 1 .. Len(list') : old(j) \in 1 .. Len(list) /\ list'[j] = list[old(j)]
            /\ old(j) # k
    BY <2>1, <2>2, <2>3, <2>4
  <2>6. \A i, j \in 1 .. Len(list') : list'[i] = list'[j] => i = j
    <3> SUFFICES ASSUME NEW i \in 1 .. Len(list'), NEW j \in 1 .. Len(list'),
        list'[i] = list'[j]
                 PROVE  i = j
      OBVIOUS
    <3>1. old(i) = old(j)
      BY <2>5 DEF ListExact
    <3>2. QED BY <2>1, <2>3, <2>4, <3>1
  <2>7. ASSUME NEW d \in Callbacks
        PROVE d \in registered' <=> \E i \in 1 .. Len(list') : list'[i] = d
    <3>1. ASSUME d \in registered' PROVE \E i \in 1 .. Len(list') : list'[i] = d
      <4>1. PICK i \in 1 .. Len(list) : list[i] = d
        BY <3>1 DEF ListExact
      <4>2. i # k
        BY <2>1, <3>1, <4>1
      <4>3. CASE i < k
        <5>1. i \in 1 .. Len(list') /\ list'[i] = d
          BY <2>1, <2>2, <2>3, <2>4, <4>1, <4>3
        <5>2. QED BY <5>1
      <4>4. CASE i > k
        <5>1. i - 1 \in 1 .. Len(list') /\ ~(i - 1 < k) /\ (i - 1) + 1 = i
          BY <2>1, <2>3, <2>4, <4>1, <4>4
        <5>2. list'[i - 1] = d
          BY <2>2, <2>4, <4>1, <5>1
        <5>3. QED BY <5>1, <5>2
      <4>5. QED BY <2>1, <4>1, <4>2, <4>3, <4>4
    <3>2. ASSUME NEW i \in 1 .. Len(list'), list'[i] = d PROVE d \in registered'
      BY <2>1, <2>5, <3>2 DEF ListExact
    <3>3. QED BY <3>1, <3>2
  <2>8. QED BY <2>4, <2>6, <2>7 DEF ListExact
<1>3. QED BY <1>1, <1>2

LEMMA TokenStep ==
    ASSUME Tok!StopTokenConstants, CallsExact, ListExact, WaitersExact, NEW t \in Threads,
           Tok!Token(t)
    PROVE  CallsExact'
<1>1. StopTyped'
  BY DEF CallsExact, StopTyped, Tok!Token, Tok!Goto
<1>2. OneRequest'
  BY DEF CallsExact, OneRequest, Tok!Token, Tok!Goto, Tok!Requesting
<1>3. OneOwner'
  BY DEF CallsExact, StopTyped, OneOwner, Tok!Token, Tok!Goto, Constructing, Destroying,
     Tok!Requesting
<1>4. OneVictim'
  BY DEF CallsExact, OneVictim, Tok!Token, Tok!Goto, Tok!Requesting
<1>5. OneFrame'
  BY DEF CallsExact, OneFrame, Tok!Token, Tok!Goto, InFrame, Runs
<1>6. AwaitedRun'
  BY DEF CallsExact, AwaitedRun, Tok!Token, Tok!Goto, InFrame
<1>7. CalledOnce'
  BY DEF CallsExact, CalledOnce, Tok!Token, Tok!Goto, InFrame
<1>8. AllServed'
  BY DEF CallsExact, AllServed, Served, Tok!Token, Tok!Goto
<1>9. DoneWhenOver'
  BY DEF CallsExact, DoneWhenOver, Tok!Token, Tok!Goto, Tok!Requesting
<1> QED BY <1>1, <1>2, <1>3, <1>4, <1>5, <1>6, <1>7, <1>8, <1>9 DEF CallsExact

LEMMA ConstructStep ==
    ASSUME Tok!StopTokenConstants, CallsExact, ListExact, WaitersExact, NEW t \in Threads,
           Tok!Construct(t)
    PROVE  CallsExact'
<1>1. StopTyped'
  BY DEF CallsExact, StopTyped, Tok!Construct, Tok!Goto
<1>2. OneRequest'
  BY DEF CallsExact, OneRequest, Tok!Construct, Tok!Goto, Tok!Requesting
<1>3. OneOwner'
  BY DEF CallsExact, StopTyped, OneOwner, Tok!Construct, Tok!Goto, Constructing,
     Destroying, Tok!Requesting
<1>4. OneVictim'
  BY DEF CallsExact, OneVictim, Tok!Construct, Tok!Goto, Tok!Requesting
<1>5. OneFrame'
  BY DEF CallsExact, StopTyped, OneFrame, OneOwner, Tok!Construct, Tok!Goto, Constructing,
     InFrame, Runs
<1>6. AwaitedRun'
  BY DEF CallsExact, AwaitedRun, Tok!Construct, Tok!Goto, InFrame
<1>7. CalledOnce'
  BY DEF CallsExact, CalledOnce, OneOwner, Tok!Construct, Tok!Goto, Constructing, InFrame
<1>8. AllServed'
  BY DEF CallsExact, StopTyped, AllServed, Served, Tok!Construct, Tok!Goto
<1>9. DoneWhenOver'
  BY DEF CallsExact, DoneWhenOver, Tok!Construct, Tok!Goto, Tok!Requesting
<1> QED BY <1>1, <1>2, <1>3, <1>4, <1>5, <1>6, <1>7, <1>8, <1>9 DEF CallsExact

LEMMA LoadSourcesStep ==
    ASSUME Tok!StopTokenConstants, CallsExact, ListExact, WaitersExact, NEW t \in Threads,
           Tok!LoadSources(t)
    PROVE  CallsExact'
<1>1. StopTyped'
  BY DEF CallsExact, StopTyped, Tok!LoadSources, Tok!Goto
<1>2. OneRequest'
  BY DEF CallsExact, StopTyped, OneRequest, Tok!LoadSources, Tok!Goto, Tok!Requesting
<1>3. OneOwner'
  BY DEF CallsExact, StopTyped, OneOwner, Tok!LoadSources, Tok!Goto, Constructing,
     Destroying, Tok!Requesting
<1>4. OneVictim'
  BY DEF CallsExact, StopTyped, OneVictim, Tok!LoadSources, Tok!Goto, Tok!Requesting
<1>5. OneFrame'
  BY DEF CallsExact, StopTyped, OneFrame, Tok!LoadSources, Tok!Goto, InFrame, Runs
<1>6. AwaitedRun'
  BY DEF CallsExact, StopTyped, AwaitedRun, Tok!LoadSources, Tok!Goto, InFrame
<1>7. CalledOnce'
  BY DEF CallsExact, StopTyped, CalledOnce, Tok!LoadSources, Tok!Goto, InFrame
<1>8. AllServed'
  BY DEF CallsExact, StopTyped, AllServed, Served, Tok!LoadSources, Tok!Goto
<1>9. DoneWhenOver'
  BY DEF CallsExact, StopTyped, DoneWhenOver, Tok!LoadSources, Tok!Goto, Tok!Requesting
<1> QED BY <1>1, <1>2, <1>3, <1>4, <1>5, <1>6, <1>7, <1>8, <1>9 DEF CallsExact

LEMMA RegisterStep ==
    ASSUME Tok!StopTokenConstants, CallsExact, ListExact, WaitersExact, NEW t \in Threads,
           Tok!Register(t)
    PROVE  CallsExact'
<1>1. StopTyped'
  BY DEF CallsExact, StopTyped, OneOwner, Tok!Register, Tok!Goto
<1>2. OneRequest'
  BY DEF CallsExact, StopTyped, OneRequest, Tok!Register, Tok!Goto, Tok!Requesting
<1>3. OneOwner'
  BY DEF CallsExact, StopTyped, OneOwner, Tok!Register, Tok!Goto, Constructing, Destroying,
     Tok!Requesting
<1>4. OneVictim'
  BY DEF CallsExact, StopTyped, OneVictim, Tok!Register, Tok!Goto, Tok!Requesting
<1>5. OneFrame'
  BY DEF CallsExact, StopTyped, OneFrame, OneRequest, Tok!Register, Tok!Goto, InFrame,
     Runs, Tok!Requesting
<1>6. AwaitedRun'
  BY DEF CallsExact, StopTyped, AwaitedRun, Tok!Register, Tok!Goto, InFrame
<1>7. CalledOnce'
  BY DEF CallsExact, StopTyped, CalledOnce, Tok!Register, Tok!Goto, InFrame
<1>8. AllServed'
  BY DEF CallsExact, StopTyped, AllServed, Served, Tok!Register, Tok!Goto
<1>9. DoneWhenOver'
  BY DEF CallsExact, StopTyped, DoneWhenOver, OneRequest, Tok!Register, Tok!Goto,
     Tok!Requesting
<1> QED BY <1>1, <1>2, <1>3, <1>4, <1>5, <1>6, <1>7, <1>8, <1>9 DEF CallsExact

LEMMA InlineStep ==
    ASSUME Tok!StopTokenConstants, CallsExact, ListExact, WaitersExact, NEW t \in Threads,
           Tok!Inline(t)
    PROVE  CallsExact'
<1>1. StopTyped'
  BY DEF CallsExact, StopTyped, Tok!Inline, Tok!Goto, Tok!CallOf
<1>2. OneRequest'
  BY DEF CallsExact, OneRequest, Tok!Inline, Tok!Goto, Tok!Requesting
<1>3. OneOwner'
  BY DEF CallsExact, OneOwner, Tok!Inline, Tok!Goto, Constructing, Destroying,
     Tok!Requesting
<1>4. OneVictim'
  BY DEF CallsExact, OneVictim, Tok!Inline, Tok!Goto, Tok!Requesting
<1>5. OneFrame'
  BY DEF CallsExact, OneFrame, Tok!Inline, Tok!Goto, InFrame, Runs
<1>6. AwaitedRun'
  BY DEF CallsExact, AwaitedRun, Tok!Inline, Tok!Goto, InFrame
<1>7. CalledOnce'
  <2>1. cb[t] \in alive /\ cb[t] \notin callees /\ cb[t] \notin registered
    BY DEF CallsExact, OneOwner, CalledOnce, Tok!Inline
  <2>2. called' = FALSE /\ callees' = callees \cup {cb[t]}
    BY <2>1 DEF CallsExact, CalledOnce, Tok!Inline, Tok!CallOf
  <2>3. \A u \in Threads : u # t => cb[u] # cb[t]
    BY DEF CallsExact, OneOwner, Tok!Inline, Constructing
  <2>4. /\ pc[t] = "inline" /\ pc' = [pc EXCEPT ![t] = "untoken"]
        /\ UNCHANGED <<registered, cb>>
    BY DEF Tok!Inline, Tok!Goto
  <2>5. QED BY <2>1, <2>2, <2>3, <2>4 DEF CallsExact, StopTyped, CalledOnce, InFrame
<1>8. AllServed'
  BY DEF CallsExact, AllServed, Served, Tok!Inline, Tok!Goto, Tok!CallOf
<1>9. DoneWhenOver'
  BY DEF CallsExact, DoneWhenOver, Tok!Inline, Tok!Goto, Tok!Requesting
<1> QED BY <1>1, <1>2, <1>3, <1>4, <1>5, <1>6, <1>7, <1>8, <1>9 DEF CallsExact

LEMMA UntokenStep ==
    ASSUME Tok!StopTokenConstants, CallsExact, ListExact, WaitersExact, NEW t \in Threads,
           Tok!Untoken(t)
    PROVE  CallsExact'
<1>1. StopTyped'
  BY DEF CallsExact, StopTyped, Tok!Untoken, Tok!Goto
<1>2. OneRequest'
  BY DEF CallsExact, OneRequest, Tok!Untoken, Tok!Goto, Tok!Requesting
<1>3. OneOwner'
  BY DEF CallsExact, StopTyped, OneOwner, Tok!Untoken, Tok!Goto, Constructing, Destroying,
     Tok!Requesting
<1>4. OneVictim'
  BY DEF CallsExact, OneVictim, Tok!Untoken, Tok!Goto, Tok!Requesting
<1>5. OneFrame'
  BY DEF CallsExact, OneFrame, Tok!Untoken, Tok!Goto, InFrame, Runs
<1>6. AwaitedRun'
  BY DEF CallsExact, StopTyped, AwaitedRun, Tok!Untoken, Tok!Goto, InFrame
<1>7. CalledOnce'
  BY DEF CallsExact, CalledOnce, Tok!Untoken, Tok!Goto, InFrame
<1>8. AllServed'
  BY DEF CallsExact, AllServed, Served, Tok!Untoken, Tok!Goto
<1>9. DoneWhenOver'
  BY DEF CallsExact, DoneWhenOver, Tok!Untoken, Tok!Goto, Tok!Requesting
<1> QED BY <1>1, <1>2, <1>3, <1>4, <1>5, <1>6, <1>7, <1>8, <1>9 DEF CallsExact

LEMMA DestroyStep ==
    ASSUME Tok!StopTokenConstants, CallsExact, ListExact, WaitersExact, NEW t \in Threads,
           Tok!Destroy(t)
    PROVE  CallsExact'
<1>1. StopTyped'
  BY DEF CallsExact, StopTyped, Tok!Destroy, Tok!Goto, Tok!Requesting
<1>2. OneRequest'
  BY DEF CallsExact, OneRequest, Tok!Destroy, Tok!Goto, Tok!Requesting
<1>3. OneOwner'
  BY DEF CallsExact, StopTyped, OneOwner, Tok!Destroy, Tok!Goto, Constructing, Destroying,
     Tok!Requesting
<1>4. OneVictim'
  BY DEF CallsExact, OneVictim, Tok!Destroy, Tok!Goto, Tok!Requesting
<1>5. OneFrame'
  BY DEF CallsExact, OneFrame, Tok!Destroy, Tok!Goto, InFrame, Runs
<1>6. AwaitedRun'
  BY DEF CallsExact, AwaitedRun, Tok!Destroy, Tok!Goto, InFrame, Tok!Requesting
<1>7. CalledOnce'
  BY DEF CallsExact, CalledOnce, Tok!Destroy, Tok!Goto, InFrame
<1>8. AllServed'
  BY DEF CallsExact, AllServed, Served, Tok!Destroy, Tok!Goto
<1>9. DoneWhenOver'
  BY DEF CallsExact, DoneWhenOver, Tok!Destroy, Tok!Goto, Tok!Requesting
<1> QED BY <1>1, <1>2, <1>3, <1>4, <1>5, <1>6, <1>7, <1>8, <1>9 DEF CallsExact

LEMMA UnregisterStep ==
    ASSUME Tok!StopTokenConstants, CallsExact, ListExact, WaitersExact, NEW t \in Threads,
           Tok!Unregister(t)
    PROVE  CallsExact'
<1>1. StopTyped'
  BY DEF CallsExact, StopTyped, Tok!Unregister, Tok!Goto, Frames
<1>2. OneRequest'
  BY DEF CallsExact, StopTyped, OneRequest, Tok!Unregister, Tok!Goto, Tok!Requesting
<1>3. OneOwner'
  BY DEF CallsExact, StopTyped, OneOwner, Tok!Unregister, Tok!Goto, Constructing,
     Destroying, Tok!Requesting
<1>4. OneVictim'
  BY DEF CallsExact, StopTyped, OneVictim, Tok!Unregister, Tok!Goto, Tok!Requesting
<1>5. OneFrame'
  BY DEF CallsExact, StopTyped, OneFrame, Tok!Unregister, Tok!Goto, Frames, InFrame, Runs
<1>6. AwaitedRun'
  BY DEF Tok!StopTokenConstants, CallsExact, StopTyped, AwaitedRun, OneOwner, OneFrame,
     Tok!Unregister, Tok!Goto, Destroying, InFrame, Runs, Tok!Requesting
<1>7. CalledOnce'
  BY DEF CallsExact, StopTyped, CalledOnce, Tok!Unregister, Tok!Goto, InFrame
<1>8. AllServed'
  BY DEF CallsExact, StopTyped, AllServed, Served, Tok!Unregister, Tok!Goto
<1>9. DoneWhenOver'
  BY DEF CallsExact, StopTyped, DoneWhenOver, Tok!Unregister, Tok!Goto, Tok!Requesting
<1> QED BY <1>1, <1>2, <1>3, <1>4, <1>5, <1>6, <1>7, <1>8, <1>9 DEF CallsExact

LEMMA AwaitStep ==
    ASSUME Tok!StopTokenConstants, CallsExact, ListExact, WaitersExact, NEW t \in Threads,
           Tok!Await(t)
    PROVE  CallsExact'
<1>1. StopTyped'
  BY DEF CallsExact, StopTyped, Tok!Await, Tok!Goto, Frames
<1>2. OneRequest'
  BY DEF CallsExact, OneRequest, Tok!Await, Tok!Goto, Tok!Requesting
<1>3. OneOwner'
  BY DEF CallsExact, OneOwner, Tok!Await, Tok!Goto, Constructing, Destroying, Tok!Requesting
<1>4. OneVictim'
  BY DEF CallsExact, OneVictim, Tok!Await, Tok!Goto, Tok!Requesting
<1>5. OneFrame'
  BY DEF CallsExact, OneFrame, Tok!Await, Tok!Goto, InFrame, Runs
<1>6. AwaitedRun'
  BY DEF CallsExact, StopTyped, AwaitedRun, OneOwner, OneFrame, Tok!Await, Tok!Goto,
     Destroying, InFrame, Tok!Requesting
<1>7. CalledOnce'
  BY DEF CallsExact, CalledOnce, Tok!Await, Tok!Goto, InFrame
<1>8. AllServed'
  BY DEF CallsExact, AllServed, Served, Tok!Await, Tok!Goto
<1>9. DoneWhenOver'
  BY DEF CallsExact, DoneWhenOver, Tok!Await, Tok!Goto, Tok!Requesting
<1> QED BY <1>1, <1>2, <1>3, <1>4, <1>5, <1>6, <1>7, <1>8, <1>9 DEF CallsExact

\* The wake sends the requester to look again, if it sleeps.
LEMMA NotifyWaitersStep ==
    ASSUME Tok!StopTokenConstants, CallsExact, ListExact, WaitersExact, NEW t \in Threads,
           Tok!NotifyWaiters(t)
    PROVE  CallsExact'
<1> USE DEF Tok!NotifyWaiters
<1>1. StopTyped'
  BY DEF CallsExact, StopTyped
<1>2. OneRequest'
  BY DEF CallsExact, OneRequest, Tok!Requesting
<1>3. OneOwner'
  BY DEF CallsExact, OneOwner, Constructing, Destroying, Tok!Requesting
<1>4. OneVictim'
  BY DEF CallsExact, OneVictim, Tok!Requesting
<1>5. OneFrame'
  BY DEF CallsExact, StopTyped, OneFrame, InFrame, Runs
<1>6. AwaitedRun'
  BY DEF CallsExact, AwaitedRun, InFrame
<1>7. CalledOnce'
  BY DEF CallsExact, CalledOnce, InFrame
<1>8. AllServed'
  BY DEF CallsExact, AllServed, Served
<1>9. DoneWhenOver'
  BY DEF CallsExact, DoneWhenOver, Tok!Requesting
<1> QED BY <1>1, <1>2, <1>3, <1>4, <1>5, <1>6, <1>7, <1>8, <1>9 DEF CallsExact

LEMMA UnreferenceStep ==
    ASSUME Tok!StopTokenConstants, CallsExact, ListExact, WaitersExact, NEW t \in Threads,
           Tok!Unreference(t)
    PROVE  CallsExact'
<1>1. StopTyped'
  BY DEF CallsExact, StopTyped, OneOwner, Tok!Unreference, Tok!Goto
<1>2. OneRequest'
  BY DEF CallsExact, OneRequest, Tok!Unreference, Tok!Goto, Tok!Requesting
<1>3. OneOwner'
  BY DEF CallsExact, StopTyped, OneOwner, Tok!Unreference, Tok!Goto, Constructing,
     Destroying, Tok!Requesting
<1>4. OneVictim'
  BY DEF CallsExact, OneVictim, Tok!Unreference, Tok!Goto, Tok!Requesting
<1>5. OneFrame'
  BY DEF CallsExact, OneFrame, AwaitedRun, Tok!Unreference, Tok!Goto, InFrame, Runs
<1>6. AwaitedRun'
  BY DEF CallsExact, StopTyped, AwaitedRun, Tok!Unreference, Tok!Goto, InFrame
<1>7. CalledOnce'
  BY DEF CallsExact, CalledOnce, Tok!Unreference, Tok!Goto, InFrame
<1>8. AllServed'
  BY DEF CallsExact, AllServed, Served, Tok!Unreference, Tok!Goto
<1>9. DoneWhenOver'
  BY DEF CallsExact, DoneWhenOver, Tok!Unreference, Tok!Goto, Tok!Requesting
<1> QED BY <1>1, <1>2, <1>3, <1>4, <1>5, <1>6, <1>7, <1>8, <1>9 DEF CallsExact

LEMMA DestroySourcesStep ==
    ASSUME Tok!StopTokenConstants, CallsExact, ListExact, WaitersExact, NEW t \in Threads,
           Tok!DestroySources(t)
    PROVE  CallsExact'
<1>1. StopTyped'
  BY DEF CallsExact, StopTyped, Tok!DestroySources, Tok!DropSources
<1>2. OneRequest'
  BY DEF CallsExact, OneRequest, Tok!DestroySources, Tok!Requesting
<1>3. OneOwner'
  BY DEF CallsExact, OneOwner, Tok!DestroySources, Constructing, Destroying
<1>4. OneVictim'
  BY DEF CallsExact, OneVictim, Tok!DestroySources
<1>5. OneFrame'
  BY DEF CallsExact, OneFrame, Tok!DestroySources, InFrame, Runs
<1>6. AwaitedRun'
  BY DEF CallsExact, AwaitedRun, Tok!DestroySources, InFrame
<1>7. CalledOnce'
  BY DEF CallsExact, CalledOnce, Tok!DestroySources, InFrame
<1>8. AllServed'
  BY DEF CallsExact, AllServed, Served, Tok!DestroySources, Tok!DropSources
<1>9. DoneWhenOver'
  BY DEF CallsExact, DoneWhenOver, Tok!DestroySources
<1> QED BY <1>1, <1>2, <1>3, <1>4, <1>5, <1>6, <1>7, <1>8, <1>9 DEF CallsExact

LEMMA RequestStep ==
    ASSUME Tok!StopTokenConstants, CallsExact, ListExact, WaitersExact, NEW t \in Threads,
           Tok!Request(t)
    PROVE  CallsExact'
<1>1. StopTyped'
  BY DEF CallsExact, StopTyped, Tok!Request, Tok!Goto
<1>2. OneRequest'
  BY DEF CallsExact, OneRequest, Tok!Request, Tok!Goto, Tok!Requesting
<1>3. OneOwner'
  BY DEF CallsExact, OneOwner, Tok!Request, Tok!Goto, Constructing, Destroying,
     Tok!Requesting
<1>4. OneVictim'
  BY DEF CallsExact, OneVictim, Tok!Request, Tok!Goto, Tok!Requesting
<1>5. OneFrame'
  BY DEF CallsExact, OneFrame, Tok!Request, Tok!Goto, InFrame, Runs
<1>6. AwaitedRun'
  BY DEF CallsExact, AwaitedRun, Tok!Request, Tok!Goto, InFrame
<1>7. CalledOnce'
  BY DEF CallsExact, CalledOnce, Tok!Request, Tok!Goto, InFrame
<1>8. AllServed'
  BY DEF CallsExact, AllServed, Served, Tok!Request, Tok!Goto
<1>9. DoneWhenOver'
  BY DEF CallsExact, StopTyped, DoneWhenOver, Tok!Request, Tok!Goto, Tok!Requesting
<1> QED BY <1>1, <1>2, <1>3, <1>4, <1>5, <1>6, <1>7, <1>8, <1>9 DEF CallsExact

LEMMA AddRefStep ==
    ASSUME Tok!StopTokenConstants, CallsExact, ListExact, WaitersExact, NEW t \in Threads,
           Tok!AddRef(t)
    PROVE  CallsExact'
<1>1. StopTyped'
  BY DEF CallsExact, StopTyped, Tok!AddRef, Tok!Goto
<1>2. OneRequest'
  BY DEF CallsExact, OneRequest, Tok!AddRef, Tok!Goto, Tok!Requesting
<1>3. OneOwner'
  BY DEF CallsExact, OneOwner, Tok!AddRef, Tok!Goto, Constructing, Destroying,
     Tok!Requesting
<1>4. OneVictim'
  BY DEF CallsExact, OneVictim, Tok!AddRef, Tok!Goto, Tok!Requesting
<1>5. OneFrame'
  BY DEF CallsExact, OneFrame, Tok!AddRef, Tok!Goto, InFrame, Runs
<1>6. AwaitedRun'
  BY DEF CallsExact, AwaitedRun, Tok!AddRef, Tok!Goto, InFrame
<1>7. CalledOnce'
  BY DEF CallsExact, CalledOnce, Tok!AddRef, Tok!Goto, InFrame
<1>8. AllServed'
  BY DEF CallsExact, AllServed, Served, Tok!AddRef, Tok!Goto
<1>9. DoneWhenOver'
  BY DEF CallsExact, DoneWhenOver, Tok!AddRef, Tok!Goto, Tok!Requesting
<1> QED BY <1>1, <1>2, <1>3, <1>4, <1>5, <1>6, <1>7, <1>8, <1>9 DEF CallsExact

LEMMA PopStep ==
    ASSUME Tok!StopTokenConstants, CallsExact, ListExact, WaitersExact, NEW t \in Threads,
           Tok!Pop(t)
    PROVE  CallsExact'
<1>1. StopTyped'
  <2>1. CASE list = << >>
    BY <2>1 DEF CallsExact, StopTyped, Tok!Pop, Tok!Goto
  <2>2. CASE list # << >>
    <3>1. Head(list) \in registered /\ Head(list) \in Callbacks /\ Head(list) # NoOne
      BY <2>2, Popped DEF CallsExact, StopTyped, Tok!StopTokenConstants
    <3>2. frame' \in Frames
      <4>1. frame' = [running |-> TRUE, ownerDestroyed |-> FALSE, waiters |-> 0,
                exists |-> TRUE]
        BY <2>2 DEF Tok!Pop
      <4>2. QED BY <4>1 DEF Frames
    <3>3. cb' = [cb EXCEPT ![t] = Head(list)] /\ pc' = [pc EXCEPT ![t] = "call"]
              /\ pc[t] = "lock"
      BY <2>2 DEF Tok!Pop, Tok!Goto
    <3>4. \A u \in Threads : cb'[u] = NoOne <=> pc'[u] \in {"idle", "addref", "lock", "unref"}
      BY <3>1, <3>3 DEF CallsExact, StopTyped
    <3>5. registered' = registered \ {Head(list)}
              /\ execution' = [execution EXCEPT ![Head(list)] = t]
          /\ UNCHANGED <<sources, requested, alive, callees, victim>>
      BY <2>2 DEF Tok!Pop
    <3>6. QED BY <3>1, <3>2, <3>3, <3>4, <3>5 DEF CallsExact, StopTyped
  <2>3. QED BY <2>1, <2>2
<1>2. OneRequest'
  BY EmptyList, Popped DEF CallsExact, StopTyped, OneRequest, Tok!Pop, Tok!Goto,
     Tok!Requesting
<1>3. OneOwner'
  BY EmptyList, Popped DEF Tok!StopTokenConstants, CallsExact, StopTyped, OneOwner,
     Tok!Pop, Tok!Goto, Frames, Constructing, Destroying, Tok!Requesting
<1>4. OneVictim'
  BY EmptyList, Popped DEF CallsExact, StopTyped, OneVictim, Tok!Pop, Tok!Goto,
     Tok!Requesting
<1>5. OneFrame'
  BY EmptyList, Popped DEF CallsExact, StopTyped, OneFrame, OneRequest, Tok!Pop, Tok!Goto,
     InFrame, Runs, Tok!Requesting
<1>6. AwaitedRun'
  BY EmptyList, Popped DEF CallsExact, StopTyped, AwaitedRun, OneOwner, Tok!Pop, Tok!Goto,
     InFrame
<1>7. CalledOnce'
  BY EmptyList, Popped DEF CallsExact, StopTyped, CalledOnce, OneFrame, Tok!Pop, Tok!Goto,
     InFrame
<1>8. AllServed'
  BY EmptyList, Popped DEF CallsExact, StopTyped, AllServed, Served, Tok!Pop, Tok!Goto
<1>9. DoneWhenOver'
  BY EmptyList, Popped DEF CallsExact, StopTyped, DoneWhenOver, Tok!Pop, Tok!Goto,
     Tok!Requesting
<1> QED BY <1>1, <1>2, <1>3, <1>4, <1>5, <1>6, <1>7, <1>8, <1>9 DEF CallsExact

LEMMA CallStep ==
    ASSUME Tok!StopTokenConstants, CallsExact, ListExact, WaitersExact, NEW t \in Threads,
           Tok!Call(t)
    PROVE  CallsExact'
<1>1. StopTyped'
  <2>1. victim' \in Callbacks \cup {NoOne} /\ callees' \subseteq Callbacks
            /\ sources' \in BOOLEAN
    BY DEF CallsExact, StopTyped, Tok!Call, Tok!CallOf, Tok!DropSources
  <2>2. /\ pc[t] = "call" /\ pc' \in {[pc EXCEPT ![t] = "after"], [pc EXCEPT ![t] = "body"]}
        /\ UNCHANGED <<requested, list, alive, registered, execution, frame, cb, built>>
    BY DEF Tok!Call, Tok!Goto
  <2>3. QED BY <2>1, <2>2 DEF CallsExact, StopTyped
<1>2. OneRequest'
  BY DEF CallsExact, StopTyped, OneRequest, Tok!Call, Tok!Goto, Tok!Requesting
<1>3. OneOwner'
  BY DEF CallsExact, StopTyped, OneOwner, Tok!Call, Tok!Goto, Constructing, Destroying,
     Tok!Requesting
<1>4. OneVictim'
  <2>1. victim = NoOne
    BY DEF CallsExact, OneVictim, OneRequest, Tok!Requesting, Tok!Call
  <2>2. CASE pc' = [pc EXCEPT ![t] = "after"] /\ UNCHANGED victim
    BY <2>1, <2>2 DEF CallsExact, StopTyped, OneVictim, Tok!Call
  <2>3. CASE /\ victim' \in alive /\ pc' = [pc EXCEPT ![t] = "body"]
             /\ \A u \in Threads : cb[u] = victim' => u = t
    <3>1. victim' # NoOne /\ pc'[t] = "body" /\ alive' = alive /\ cb' = cb
      BY <2>3 DEF CallsExact, StopTyped, Tok!StopTokenConstants, Tok!Call
    <3>2. \A u \in Threads : cb'[u] = victim' => Tok!Requesting(u)'
      BY <2>3, <3>1 DEF Tok!Requesting
    <3>3. QED BY <2>3, <3>1, <3>2 DEF OneVictim
  <2>4. cb[t] \in alive
    BY DEF CallsExact, OneFrame, Runs, Tok!Call
  <2>5. QED BY <2>2, <2>3, <2>4 DEF Tok!Call, Tok!Goto
<1>5. OneFrame'
  BY DEF CallsExact, StopTyped, OneFrame, Tok!Call, Tok!Goto, InFrame, Runs
<1>6. AwaitedRun'
  BY DEF CallsExact, StopTyped, AwaitedRun, Tok!Call, Tok!Goto, InFrame
<1>7. CalledOnce'
  BY DEF CallsExact, StopTyped, CalledOnce, OneOwner, OneFrame, Tok!Call, Tok!Goto,
     Tok!CallOf, Frames, Constructing, InFrame, Runs
<1>8. AllServed'
  BY DEF CallsExact, StopTyped, AllServed, Served, Tok!Call, Tok!Goto, Tok!CallOf,
     Tok!DropSources
<1>9. DoneWhenOver'
  BY DEF CallsExact, StopTyped, DoneWhenOver, Tok!Call, Tok!Goto, Tok!Requesting
<1> QED BY <1>1, <1>2, <1>3, <1>4, <1>5, <1>6, <1>7, <1>8, <1>9 DEF CallsExact

LEMMA BodyStep ==
    ASSUME Tok!StopTokenConstants, CallsExact, ListExact, WaitersExact, NEW t \in Threads,
           Tok!Body(t)
    PROVE  CallsExact'
<1>1. StopTyped'
  BY DEF CallsExact, StopTyped, Tok!Body, Tok!Goto, Frames
<1>2. OneRequest'
  BY DEF CallsExact, OneRequest, Tok!Body, Tok!Goto, Tok!Requesting
<1>3. OneOwner'
  BY DEF CallsExact, OneOwner, OneVictim, Tok!Body, Tok!Goto, Constructing, Destroying,
     Tok!Requesting
<1>4. OneVictim'
  BY DEF CallsExact, StopTyped, OneVictim, OneRequest, Tok!Body, Tok!Goto, Tok!Requesting
<1>5. OneFrame'
  BY DEF Tok!StopTokenConstants, CallsExact, StopTyped, OneFrame, OneRequest, OneVictim,
     Tok!Body, Tok!Goto, Frames, InFrame, Runs, Tok!Requesting
<1>6. AwaitedRun'
  BY DEF CallsExact, AwaitedRun, Tok!Body, Tok!Goto, InFrame
<1>7. CalledOnce'
  BY DEF CallsExact, CalledOnce, Tok!Body, Tok!Goto, InFrame
<1>8. AllServed'
  BY DEF CallsExact, AllServed, Served, Tok!Body, Tok!Goto
<1>9. DoneWhenOver'
  BY DEF CallsExact, DoneWhenOver, Tok!Body, Tok!Goto, Tok!Requesting
<1> QED BY <1>1, <1>2, <1>3, <1>4, <1>5, <1>6, <1>7, <1>8, <1>9 DEF CallsExact

LEMMA AfterStep ==
    ASSUME Tok!StopTokenConstants, CallsExact, ListExact, WaitersExact, NEW t \in Threads,
           Tok!After(t)
    PROVE  CallsExact'
<1>1. StopTyped'
  BY DEF CallsExact, StopTyped, Tok!After, Tok!Goto
<1>2. OneRequest'
  BY DEF CallsExact, OneRequest, Tok!After, Tok!Goto, Tok!Requesting
<1>3. OneOwner'
  BY DEF CallsExact, OneOwner, Tok!After, Tok!Goto, Constructing, Destroying, Tok!Requesting
<1>4. OneVictim'
  BY DEF CallsExact, OneVictim, Tok!After, Tok!Goto, Tok!Requesting
<1>5. OneFrame'
  BY DEF CallsExact, OneFrame, Tok!After, Tok!Goto, InFrame, Runs
<1>6. AwaitedRun'
  BY DEF CallsExact, AwaitedRun, Tok!After, Tok!Goto, InFrame
<1>7. CalledOnce'
  BY DEF CallsExact, CalledOnce, Tok!After, Tok!Goto, InFrame
<1>8. AllServed'
  BY DEF CallsExact, AllServed, Served, Tok!After, Tok!Goto
<1>9. DoneWhenOver'
  BY DEF CallsExact, DoneWhenOver, Tok!After, Tok!Goto, Tok!Requesting
<1> QED BY <1>1, <1>2, <1>3, <1>4, <1>5, <1>6, <1>7, <1>8, <1>9 DEF CallsExact

LEMMA ClearStep ==
    ASSUME Tok!StopTokenConstants, CallsExact, ListExact, WaitersExact, NEW t \in Threads,
           Tok!Clear(t)
    PROVE  CallsExact'
<1>1. StopTyped'
  BY DEF CallsExact, StopTyped, Tok!Clear, Tok!Goto
<1>2. OneRequest'
  BY DEF CallsExact, OneRequest, Tok!Clear, Tok!Goto, Tok!Requesting
<1>3. OneOwner'
  BY DEF CallsExact, OneOwner, Tok!Clear, Tok!Goto, Constructing, Destroying, Tok!Requesting
<1>4. OneVictim'
  BY DEF CallsExact, OneVictim, Tok!Clear, Tok!Goto, Tok!Requesting
<1>5. OneFrame'
  BY DEF CallsExact, StopTyped, OneFrame, Tok!Clear, Tok!Goto, InFrame, Runs
<1>6. AwaitedRun'
  BY DEF CallsExact, AwaitedRun, Tok!Clear, Tok!Goto, InFrame
<1>7. CalledOnce'
  BY DEF CallsExact, CalledOnce, Tok!Clear, Tok!Goto, InFrame
<1>8. AllServed'
  BY DEF CallsExact, AllServed, Served, Tok!Clear, Tok!Goto
<1>9. DoneWhenOver'
  BY DEF CallsExact, DoneWhenOver, Tok!Clear, Tok!Goto, Tok!Requesting
<1> QED BY <1>1, <1>2, <1>3, <1>4, <1>5, <1>6, <1>7, <1>8, <1>9 DEF CallsExact

LEMMA StopRunningStep ==
    ASSUME Tok!StopTokenConstants, CallsExact, ListExact, WaitersExact, NEW t \in Threads,
           Tok!StopRunning(t)
    PROVE  CallsExact'
<1>1. StopTyped'
  BY DEF CallsExact, StopTyped, Tok!StopRunning, Tok!Goto, Frames
<1>2. OneRequest'
  BY DEF CallsExact, OneRequest, Tok!StopRunning, Tok!Goto, Tok!Requesting
<1>3. OneOwner'
  BY DEF CallsExact, OneOwner, Tok!StopRunning, Tok!Goto, Constructing, Destroying,
     Tok!Requesting
<1>4. OneVictim'
  BY DEF CallsExact, OneVictim, Tok!StopRunning, Tok!Goto, Tok!Requesting
<1>5. OneFrame'
  BY DEF CallsExact, StopTyped, OneFrame, OneRequest, Tok!StopRunning, Tok!Goto, InFrame,
     Runs, Tok!Requesting
<1>6. AwaitedRun'
  BY DEF CallsExact, AwaitedRun, Tok!StopRunning, Tok!Goto, InFrame
<1>7. CalledOnce'
  BY DEF CallsExact, CalledOnce, Tok!StopRunning, Tok!Goto, InFrame
<1>8. AllServed'
  BY DEF CallsExact, AllServed, Served, Tok!StopRunning, Tok!Goto
<1>9. DoneWhenOver'
  BY DEF CallsExact, DoneWhenOver, Tok!StopRunning, Tok!Goto, Tok!Requesting
<1> QED BY <1>1, <1>2, <1>3, <1>4, <1>5, <1>6, <1>7, <1>8, <1>9 DEF CallsExact

LEMMA DrainStep ==
    ASSUME Tok!StopTokenConstants, CallsExact, ListExact, WaitersExact, NEW t \in Threads,
           Tok!Drain(t)
    PROVE  CallsExact'
<1>1. StopTyped'
  <2>1. frame' \in Frames
    <3>1. Tok!NoFrame \in Frames
      BY DEF Tok!NoFrame, Frames
    <3>2. QED BY <3>1 DEF CallsExact, StopTyped, Tok!Drain
  <2>2. QED BY <2>1 DEF CallsExact, StopTyped, Tok!Drain, Tok!Goto
<1>2. OneRequest'
  BY DEF CallsExact, StopTyped, OneRequest, Tok!Drain, Tok!Goto, Tok!Requesting
<1>3. OneOwner'
  BY DEF CallsExact, StopTyped, OneOwner, Tok!Drain, Tok!Goto, Constructing, Destroying,
     Tok!Requesting
<1>4. OneVictim'
  BY DEF CallsExact, StopTyped, OneVictim, Tok!Drain, Tok!Goto, Tok!Requesting
<1>5. OneFrame'
  BY DEF CallsExact, StopTyped, OneFrame, OneRequest, Tok!Drain, Tok!Goto, InFrame, Runs,
     Tok!Requesting
<1>6. AwaitedRun'
  <2>1. CASE frame.waiters = 0
    <3>1. pc[t] = "drain" /\ pc' = [pc EXCEPT ![t] = "lock"] /\ cb' = [cb EXCEPT ![t] = NoOne]
      BY <2>1 DEF Tok!Drain, Tok!Goto
    <3>2. \A u \in Threads : pc[u] # "await"
      BY <2>1, NobodyAwaits DEF Tok!Drain, CallsExact, OneFrame, InFrame
    <3>3. QED BY <3>1, <3>2 DEF CallsExact, StopTyped, AwaitedRun, InFrame
  <2>2. CASE frame.waiters # 0
    BY <2>2 DEF CallsExact, StopTyped, AwaitedRun, Tok!Drain, Tok!Goto, InFrame
  <2>3. QED BY <2>1, <2>2
<1>7. CalledOnce'
  BY DEF CallsExact, StopTyped, CalledOnce, Tok!Drain, Tok!Goto, InFrame
<1>8. AllServed'
  BY DEF CallsExact, StopTyped, AllServed, Served, Tok!Drain, Tok!Goto
<1>9. DoneWhenOver'
  BY DEF CallsExact, StopTyped, DoneWhenOver, Tok!Drain, Tok!Goto, Tok!Requesting
<1> QED BY <1>1, <1>2, <1>3, <1>4, <1>5, <1>6, <1>7, <1>8, <1>9 DEF CallsExact

LEMMA EarlyReturnStep ==
    ASSUME Tok!StopTokenConstants, CallsExact, ListExact, WaitersExact, NEW t \in Threads,
           Tok!EarlyReturn(t)
    PROVE  CallsExact'
<1>1. StopTyped'
  BY DEF CallsExact, StopTyped, Tok!EarlyReturn, Tok!Goto
<1>2. OneRequest'
  BY DEF CallsExact, OneRequest, Tok!EarlyReturn, Tok!Goto, Tok!Requesting
<1>3. OneOwner'
  BY DEF CallsExact, OneOwner, Tok!EarlyReturn, Tok!Goto, Constructing, Destroying,
     Tok!Requesting
<1>4. OneVictim'
  BY DEF CallsExact, OneVictim, Tok!EarlyReturn, Tok!Goto, Tok!Requesting
<1>5. OneFrame'
  BY DEF CallsExact, StopTyped, OneFrame, Tok!EarlyReturn, Tok!Goto, InFrame, Runs
<1>6. AwaitedRun'
  BY DEF CallsExact, AwaitedRun, Tok!EarlyReturn, Tok!Goto, InFrame
<1>7. CalledOnce'
  BY DEF CallsExact, CalledOnce, Tok!EarlyReturn, Tok!Goto, InFrame
<1>8. AllServed'
  BY DEF CallsExact, AllServed, Served, Tok!EarlyReturn, Tok!Goto
<1>9. DoneWhenOver'
  BY DEF CallsExact, DoneWhenOver, Tok!EarlyReturn, Tok!Goto, Tok!Requesting
<1> QED BY <1>1, <1>2, <1>3, <1>4, <1>5, <1>6, <1>7, <1>8, <1>9 DEF CallsExact

LEMMA UnrefStep ==
    ASSUME Tok!StopTokenConstants, CallsExact, ListExact, WaitersExact, NEW t \in Threads,
           Tok!Unref(t)
    PROVE  CallsExact'
<1>1. StopTyped'
  BY DEF CallsExact, StopTyped, Tok!Unref, Tok!Goto
<1>2. OneRequest'
  BY DEF CallsExact, OneRequest, Tok!Unref, Tok!Goto, Tok!Requesting
<1>3. OneOwner'
  BY DEF CallsExact, StopTyped, OneOwner, Tok!Unref, Tok!Goto, Constructing, Destroying,
     Tok!Requesting
<1>4. OneVictim'
  BY DEF CallsExact, StopTyped, OneVictim, Tok!Unref, Tok!Goto, Tok!Requesting
<1>5. OneFrame'
  BY DEF CallsExact, OneFrame, Tok!Unref, Tok!Goto, InFrame, Runs
<1>6. AwaitedRun'
  BY DEF CallsExact, AwaitedRun, Tok!Unref, Tok!Goto, InFrame
<1>7. CalledOnce'
  BY DEF CallsExact, CalledOnce, Tok!Unref, Tok!Goto, InFrame
<1>8. AllServed'
  BY DEF CallsExact, AllServed, Served, Tok!Unref, Tok!Goto
<1>9. DoneWhenOver'
  BY DEF CallsExact, DoneWhenOver, Tok!Unref
<1> QED BY <1>1, <1>2, <1>3, <1>4, <1>5, <1>6, <1>7, <1>8, <1>9 DEF CallsExact

\* The steps that leave the list and the callbacks' marks alone.
LEMMA ListStays ==
    ASSUME ListExact, UNCHANGED <<list, registered>> PROVE ListExact'
BY DEF ListExact

LEMMA ListStep ==
    ASSUME Tok!StopTokenConstants, CallsExact, ListExact, NEW t \in Threads,
           \/ Tok!Progress(t) \/ Tok!EarlyReturn(t)
           \/ Tok!Token(t) \/ Tok!Destroy(t) \/ Tok!DestroySources(t) \/ Tok!Request(t)
    PROVE  ListExact'
<1>1. CASE Tok!Register(t)
  <2>1. CASE requested
    BY <1>1, <2>1, ListStays DEF Tok!Register
  <2>2. CASE ~requested
    <3>1. cb[t] \in Callbacks \ registered
      BY <1>1 DEF CallsExact, StopTyped, OneOwner, Tok!Register
    <3>2. QED BY <1>1, <2>2, <3>1, Prepended DEF CallsExact, Tok!Register
  <2>3. QED BY <2>1, <2>2
<1>2. CASE Tok!Unregister(t)
  <2>1. cb[t] \in Callbacks
    BY <1>2 DEF CallsExact, StopTyped, Tok!Unregister
  <2>2. QED BY <1>2, <2>1, Unlinks DEF CallsExact, Tok!Unregister
<1>3. CASE Tok!Body(t)
  <2>1. victim \in Callbacks
    BY <1>3 DEF CallsExact, StopTyped, OneVictim, Tok!Body
  <2>2. QED BY <1>3, <2>1, Unlinks DEF CallsExact, Tok!Body
<1>4. CASE Tok!Pop(t)
  BY <1>4, ListStays, Popped DEF CallsExact, Tok!Pop
<1>5. CASE \/ Tok!Construct(t) \/ Tok!LoadSources(t) \/ Tok!Inline(t) \/ Tok!Untoken(t)
           \/ Tok!Await(t) \/ Tok!NotifyWaiters(t) \/ Tok!Unreference(t)
           \/ Tok!AddRef(t) \/ Tok!Call(t) \/ Tok!After(t) \/ Tok!Clear(t)
           \/ Tok!StopRunning(t) \/ Tok!Drain(t) \/ Tok!EarlyReturn(t) \/ Tok!Unref(t)
           \/ Tok!Token(t) \/ Tok!Destroy(t) \/ Tok!DestroySources(t) \/ Tok!Request(t)
  BY <1>5, ListStays DEF Tok!Construct, Tok!LoadSources, Tok!Inline, Tok!Untoken,
     Tok!Await, Tok!NotifyWaiters, Tok!Unreference, Tok!AddRef, Tok!Call, Tok!After,
     Tok!Clear, Tok!StopRunning, Tok!Drain, Tok!EarlyReturn, Tok!Unref, Tok!Token,
     Tok!Destroy, Tok!DestroySources, Tok!Request
<1>6. QED BY <1>1, <1>2, <1>3, <1>4, <1>5 DEF Tok!Progress

\* The references counted.

LEMMA HoldersFinite ==
    ASSUME Tok!StopTokenConstants, StopTyped
    PROVE  /\ IsFiniteSet(HoldingThreads) /\ Cardinality(HoldingThreads) \in Nat
           /\ IsFiniteSet(alive) /\ Cardinality(alive) \in Nat
BY FS_Subset, FS_CardinalityType DEF Tok!StopTokenConstants, StopTyped, HoldingThreads

LEMMA SourceCounts == Source \in Int
BY DEF Source

\* A thread begins or ends to hold a reference.
LEMMA HolderMore ==
    ASSUME Tok!StopTokenConstants, StopTyped, References, NEW t \in Threads,
           t \notin HoldingThreads,
           HoldingThreads' = HoldingThreads \cup {t}, references' = references + 1,
           UNCHANGED <<sources, alive>>
    PROVE  References'
<1>1. Cardinality(HoldingThreads') = Cardinality(HoldingThreads) + 1
          /\ Cardinality(alive') = Cardinality(alive)
  BY HoldersFinite, FS_AddElement
<1>2. QED BY <1>1, HoldersFinite, SourceCounts DEF References, Source

LEMMA HolderLess ==
    ASSUME Tok!StopTokenConstants, StopTyped, References, NEW t \in Threads,
           t \in HoldingThreads,
           HoldingThreads' = HoldingThreads \ {t}, references' = references - 1,
           UNCHANGED <<sources, alive>>
    PROVE  References'
<1>1. Cardinality(HoldingThreads') = Cardinality(HoldingThreads) - 1
          /\ Cardinality(alive') = Cardinality(alive)
  BY HoldersFinite, FS_RemoveElement
<1>2. QED BY <1>1, HoldersFinite, SourceCounts DEF References, Source

\* A callback comes or goes.
LEMMA CallbackMore ==
    ASSUME Tok!StopTokenConstants, StopTyped, References, NEW c \in Callbacks, c \notin alive,
           HoldingThreads' = HoldingThreads, references' = references + 1,
           alive' = alive \cup {c}, UNCHANGED sources
    PROVE  References'
<1>1. Cardinality(alive') = Cardinality(alive) + 1
          /\ Cardinality(HoldingThreads') = Cardinality(HoldingThreads)
  BY HoldersFinite, FS_AddElement
<1>2. QED BY <1>1, HoldersFinite, SourceCounts DEF References, Source

LEMMA CallbackLess ==
    ASSUME Tok!StopTokenConstants, StopTyped, References, NEW c \in Callbacks, c \in alive,
           HoldingThreads' = HoldingThreads, references' = references - 1,
           alive' = alive \ {c}, UNCHANGED sources
    PROVE  References'
<1>1. Cardinality(alive') = Cardinality(alive) - 1
          /\ Cardinality(HoldingThreads') = Cardinality(HoldingThreads)
  BY HoldersFinite, FS_RemoveElement
<1>2. QED BY <1>1, HoldersFinite, SourceCounts DEF References, Source

\* Nothing changes, or the source goes.
LEMMA SourcesLess ==
    ASSUME Tok!StopTokenConstants, StopTyped, References, HoldingThreads' = HoldingThreads,
           alive' = alive,
           UNCHANGED <<sources, references>> \/ Tok!DropSources
    PROVE  References'
BY HoldersFinite DEF References, Source, Tok!DropSources

LEMMA ReferencesStep ==
    ASSUME Tok!StopTokenConstants, CallsExact, References, NEW t \in Threads,
           \/ Tok!Progress(t) \/ Tok!EarlyReturn(t)
           \/ Tok!Token(t) \/ Tok!Destroy(t) \/ Tok!DestroySources(t) \/ Tok!Request(t)
    PROVE  References'
<1> USE DEF CallsExact
<1>1. CASE Tok!Token(t)
  <2>1. t \notin HoldingThreads /\ HoldingThreads' = HoldingThreads \cup {t}
    BY <1>1 DEF StopTyped, Tok!Token, Tok!Goto, HoldingThreads, Constructing, Tok!Requesting
  <2>2. QED BY <1>1, <2>1, HolderMore DEF Tok!Token
<1>2. CASE Tok!AddRef(t)
  <2>1. t \notin HoldingThreads /\ HoldingThreads' = HoldingThreads \cup {t}
    BY <1>2 DEF StopTyped, Tok!AddRef, Tok!Goto, HoldingThreads, Constructing,
       Tok!Requesting
  <2>2. QED BY <1>2, <2>1, HolderMore DEF Tok!AddRef
<1>3. CASE Tok!Untoken(t)
  <2>1. t \in HoldingThreads /\ HoldingThreads' = HoldingThreads \ {t}
    BY <1>3 DEF StopTyped, Tok!Untoken, Tok!Goto, HoldingThreads, Constructing,
       Tok!Requesting
  <2>2. QED BY <1>3, <2>1, HolderLess DEF Tok!Untoken
<1>4. CASE Tok!Unref(t)
  <2>1. t \in HoldingThreads /\ HoldingThreads' = HoldingThreads \ {t}
    BY <1>4 DEF StopTyped, Tok!Unref, Tok!Goto, HoldingThreads, Constructing, Tok!Requesting
  <2>2. QED BY <1>4, <2>1, HolderLess DEF Tok!Unref
<1>5. CASE Tok!Construct(t)
  <2>1. HoldingThreads' = HoldingThreads
    BY <1>5 DEF StopTyped, Tok!Construct, Tok!Goto, HoldingThreads, Constructing,
       Tok!Requesting
  <2>2. cb[t] \in Callbacks /\ cb[t] \notin alive
    BY <1>5 DEF StopTyped, OneOwner, Tok!Construct
  <2>3. QED BY <1>5, <2>1, <2>2, CallbackMore DEF Tok!Construct
<1>6. CASE Tok!Unreference(t)
  <2>1. HoldingThreads' = HoldingThreads
    BY <1>6 DEF StopTyped, Tok!Unreference, Tok!Goto, HoldingThreads, Constructing,
       Tok!Requesting
  <2>2. cb[t] \in Callbacks /\ cb[t] \in alive
    BY <1>6 DEF StopTyped, OneOwner, Destroying, Tok!Unreference
  <2>3. QED BY <1>6, <2>1, <2>2, CallbackLess DEF Tok!Unreference
<1>7. CASE Tok!Body(t)
  <2>1. HoldingThreads' = HoldingThreads
    BY <1>7 DEF StopTyped, Tok!Body, Tok!Goto, HoldingThreads, Constructing, Tok!Requesting
  <2>2. victim \in Callbacks /\ victim \in alive
    BY <1>7 DEF StopTyped, OneVictim, Tok!Body
  <2>3. QED BY <1>7, <2>1, <2>2, CallbackLess DEF Tok!Body
<1>8. CASE Tok!Call(t)
  <2>1. HoldingThreads' = HoldingThreads
    BY <1>8 DEF StopTyped, Tok!Call, Tok!Goto, HoldingThreads, Constructing, Tok!Requesting
  <2>2. QED BY <1>8, <2>1, SourcesLess DEF Tok!Call
<1>9. CASE Tok!DestroySources(t)
  <2>1. HoldingThreads' = HoldingThreads
    BY <1>9 DEF Tok!DestroySources, HoldingThreads, Constructing, Tok!Requesting
  <2>2. QED BY <1>9, <2>1, SourcesLess DEF Tok!DestroySources
<1>10. CASE \/ Tok!LoadSources(t) \/ Tok!Register(t) \/ Tok!Inline(t)
            \/ Tok!Unregister(t) \/ Tok!Await(t)
            \/ Tok!Pop(t) \/ Tok!After(t) \/ Tok!Clear(t) \/ Tok!StopRunning(t)
            \/ Tok!Drain(t) \/ Tok!EarlyReturn(t) \/ Tok!Destroy(t) \/ Tok!Request(t)
  <2>1. UNCHANGED <<sources, references, alive>>
    BY <1>10 DEF Tok!LoadSources, Tok!Register, Tok!Inline, Tok!Unregister, Tok!Await,
       Tok!Pop, Tok!After, Tok!Clear, Tok!StopRunning, Tok!Drain, Tok!EarlyReturn,
       Tok!Destroy, Tok!Request
  <2>2. PICK p : pc' = [pc EXCEPT ![t] = p] /\ (Constructing(t)' = Constructing(t))
                 /\ ((Tok!Requesting(t) /\ pc[t] # "addref") = (Tok!Requesting(t)
                        /\ pc[t] # "addref")')
    BY <1>10 DEF StopTyped, Tok!LoadSources, Tok!Register, Tok!Inline, Tok!Unregister,
       Tok!Await, Tok!Pop, Tok!After, Tok!Clear, Tok!StopRunning, Tok!Drain,
       Tok!EarlyReturn, Tok!Destroy, Tok!Request, Tok!Goto, Constructing, Tok!Requesting
  <2>3. HoldingThreads' = HoldingThreads
    BY <2>2 DEF StopTyped, HoldingThreads, Constructing, Tok!Requesting
  <2>4. QED BY <2>1, <2>3, SourcesLess
<1>11. CASE Tok!NotifyWaiters(t)
  <2>1. HoldingThreads' = HoldingThreads
    BY <1>11 DEF Tok!NotifyWaiters, HoldingThreads, Constructing, Tok!Requesting
  <2>2. QED BY <1>11, <2>1, SourcesLess DEF Tok!NotifyWaiters
<1>12. QED
  BY <1>1, <1>2, <1>3, <1>4, <1>5, <1>6, <1>7, <1>8, <1>9, <1>10, <1>11 DEF Tok!Progress

\* The waiters counted.

LEMMA WaitersStep ==
    ASSUME Tok!StopTokenConstants, CallsExact, WaitersExact, NEW t \in Threads,
           \/ Tok!Progress(t) \/ Tok!EarlyReturn(t)
           \/ Tok!Token(t) \/ Tok!Destroy(t) \/ Tok!DestroySources(t) \/ Tok!Request(t)
    PROVE  WaitersExact'
<1> USE DEF CallsExact
<1>1. CASE Tok!Unregister(t) /\ execution[cb[t]] # NoOne
  <2>1. t \notin Waiting /\ Waiting' = Waiting \cup {t}
    BY <1>1 DEF StopTyped, Tok!Unregister, Tok!Goto, Waiting
  <2>2. frame' = [frame EXCEPT !.waiters = @ + 1]
    BY <1>1 DEF Tok!Unregister
  <2>3. Cardinality(Waiting') = Cardinality(Waiting) + 1
    BY <2>1, WaitingFinite, FS_AddElement
  <2>4. QED BY <2>2, <2>3, WaitingFinite DEF StopTyped, Frames, WaitersExact
<1>2. CASE Tok!Await(t)
  <2>1. t \in Waiting /\ Waiting' = Waiting \ {t}
    BY <1>2 DEF StopTyped, Tok!Await, Tok!Goto, Waiting
  <2>2. frame' = [frame EXCEPT !.waiters = @ - 1]
    BY <1>2 DEF Tok!Await
  <2>3. Cardinality(Waiting') = Cardinality(Waiting) - 1
    BY <2>1, WaitingFinite, FS_RemoveElement
  <2>4. QED BY <2>2, <2>3, WaitingFinite DEF StopTyped, Frames, WaitersExact
<1>3. CASE Tok!Pop(t) /\ list # << >>
  <2>1. frame'.waiters = 0 /\ pc[t] = "lock" /\ pc' = [pc EXCEPT ![t] = "call"]
    BY <1>3 DEF Tok!Pop, Tok!Goto
  <2>2. \A u \in Threads : ~InFrame(u)
    BY <2>1 DEF OneRequest, InFrame, Tok!Requesting
  <2>3. \A u \in Threads : pc[u] # "await"
    BY <2>2 DEF AwaitedRun
  <2>4. Waiting' = {}
    BY <2>1, <2>3 DEF StopTyped, Waiting
  <2>5. QED BY <2>1, <2>4, FS_EmptySet DEF WaitersExact
<1>4. CASE Tok!Drain(t) /\ frame.waiters = 0
  BY <1>4 DEF Tok!Drain, Tok!NoFrame, WaitersExact
<1>5. CASE \/ Tok!Unregister(t) /\ execution[cb[t]] = NoOne
           \/ Tok!Pop(t) /\ list = << >>
           \/ Tok!Drain(t) /\ frame.waiters # 0
           \/ Tok!Construct(t) \/ Tok!LoadSources(t) \/ Tok!Register(t) \/ Tok!Inline(t)
           \/ Tok!Untoken(t) \/ Tok!NotifyWaiters(t) \/ Tok!Unreference(t)
           \/ Tok!AddRef(t) \/ Tok!Call(t) \/ Tok!Body(t) \/ Tok!After(t) \/ Tok!Clear(t)
           \/ Tok!StopRunning(t) \/ Tok!EarlyReturn(t) \/ Tok!Unref(t)
           \/ Tok!Token(t) \/ Tok!Destroy(t) \/ Tok!DestroySources(t) \/ Tok!Request(t)
  <2>1. (frame'.exists <=> frame.exists) /\ frame'.waiters = frame.waiters
    BY <1>5 DEF StopTyped, Frames, Tok!Unregister, Tok!Pop, Tok!Drain, Tok!Construct,
       Tok!LoadSources, Tok!Register, Tok!Inline, Tok!Untoken, Tok!NotifyWaiters,
       Tok!Unreference, Tok!AddRef, Tok!Call, Tok!Body, Tok!After, Tok!Clear,
       Tok!StopRunning, Tok!EarlyReturn, Tok!Unref, Tok!Token, Tok!Destroy,
       Tok!DestroySources, Tok!Request
  <2>2. \A u \in Threads : pc'[u] = "await" <=> pc[u] = "await"
    BY <1>5 DEF StopTyped, Tok!Goto, Tok!Unregister, Tok!Pop, Tok!Drain, Tok!Construct,
       Tok!LoadSources, Tok!Register, Tok!Inline, Tok!Untoken, Tok!NotifyWaiters,
       Tok!Unreference, Tok!AddRef, Tok!Call, Tok!Body, Tok!After, Tok!Clear,
       Tok!StopRunning, Tok!EarlyReturn, Tok!Unref, Tok!Token, Tok!Destroy,
       Tok!DestroySources, Tok!Request
  <2>3. Waiting' = Waiting
    BY <2>2 DEF Waiting
  <2>4. Cardinality(Waiting') = Cardinality(Waiting)
    BY <2>3
  <2>5. QED BY <2>1, <2>4, Zenon DEF WaitersExact
<1>6. QED BY <1>1, <1>2, <1>3, <1>4, <1>5 DEF Tok!Progress

LEMMA StopInit == ASSUME Tok!StopTokenConstants, Tok!Init PROVE StopInv
<1> USE DEF Tok!Init
<1>1. CallsExact
  <2>1. StopTyped
    <3>1. frame \in Frames
      BY DEF Tok!NoFrame, Frames
    <3>2. QED BY <3>1 DEF Tok!StopTokenConstants, StopTyped
  <2>2. \A t \in Threads : pc[t] = "idle" /\ cb[t] = NoOne /\ ~Tok!Requesting(t)
            /\ ~Constructing(t)
                          /\ ~Destroying(t) /\ ~InFrame(t) /\ ~Runs(t)
    BY DEF Tok!Requesting, Constructing, Destroying, InFrame, Runs
  <2>3. QED BY <2>1, <2>2 DEF CallsExact, OneRequest, OneOwner, OneVictim, OneFrame,
            AwaitedRun, CalledOnce,
                              AllServed, DoneWhenOver
<1>2. ListExact
  BY DEF ListExact
<1>3. HoldingThreads = {} /\ alive = {}
  BY DEF HoldingThreads, Constructing, Tok!Requesting
<1>4. References
  BY <1>3, FS_EmptySet DEF References, Source
<1>5. WaitersExact
  BY DEF WaitersExact, Tok!NoFrame
<1>6. QED BY <1>1, <1>2, <1>4, <1>5 DEF StopInv

LEMMA StopNext ==
    ASSUME Tok!StopTokenConstants, StopInv, [Tok!Next]_(Tok!vars) PROVE StopInv'
<1>1. CASE UNCHANGED Tok!vars
  <2>1. CallsExact'
    BY <1>1 DEF Tok!vars, StopInv, CallsExact, StopTyped, OneRequest, OneOwner, OneVictim,
       OneFrame, AwaitedRun,
       CalledOnce, AllServed, Served, DoneWhenOver, Constructing, Destroying, InFrame,
          Runs, Tok!Requesting
  <2>2. HoldingThreads' = HoldingThreads /\ Waiting' = Waiting
    BY <1>1 DEF Tok!vars, HoldingThreads, Constructing, Tok!Requesting, Waiting
  <2>3. ListExact' /\ References' /\ WaitersExact'
    BY <1>1, <2>2 DEF Tok!vars, StopInv, ListExact, References, Source, WaitersExact
  <2>4. QED BY <2>1, <2>3 DEF StopInv
<1>2. ASSUME NEW t \in Threads,
             \/ Tok!Progress(t) \/ Tok!EarlyReturn(t)
             \/ Tok!Token(t) \/ Tok!Destroy(t) \/ Tok!DestroySources(t) \/ Tok!Request(t)
      PROVE  StopInv'
  <2>1. CallsExact'
    BY <1>2, TokenStep, ConstructStep, LoadSourcesStep, RegisterStep, InlineStep,
       UntokenStep, DestroyStep, UnregisterStep, AwaitStep, NotifyWaitersStep,
       UnreferenceStep, DestroySourcesStep, RequestStep, AddRefStep, PopStep, CallStep,
       BodyStep, AfterStep, ClearStep, StopRunningStep, DrainStep, EarlyReturnStep,
       UnrefStep DEF StopInv, Tok!Progress
  <2>2. ListExact' /\ References' /\ WaitersExact'
    BY <1>2, ListStep, ReferencesStep, WaitersStep DEF StopInv
  <2>3. QED BY <2>1, <2>2 DEF StopInv
<1>3. QED BY <1>1, <1>2 DEF Tok!Next

LEMMA StopInvSafe == ASSUME Tok!StopTokenConstants, StopInv PROVE Tok!StopTokenSafe
<1> USE DEF StopInv, CallsExact
<1>1. Tok!StateOutlivesUse
  <2> SUFFICES ASSUME NEW t \in Threads,
                      pc[t] \in {"construct", "sources", "register", "untoken",
                                 "unregister", "unreference", "addref", "lock", "body",
                                 "clear", "unref"}
               PROVE  references > 0
    BY DEF Tok!StateOutlivesUse
  <2>1. CASE t \in HoldingThreads
    <3>1. Cardinality(HoldingThreads) # 0
      BY <2>1, HoldersFinite, FS_EmptySet
    <3>2. QED BY <3>1, HoldersFinite DEF References, Source
  <2>2. CASE pc[t] \in {"unregister", "unreference"}
    <3>1. alive # {}
      BY <2>2 DEF OneOwner, Destroying
    <3>2. Cardinality(alive) # 0
      BY <3>1, HoldersFinite, FS_EmptySet
    <3>3. QED BY <3>2, HoldersFinite DEF References, Source
  <2>3. CASE pc[t] = "addref"
    BY <2>3, HoldersFinite DEF OneRequest, References, Source
  <2>4. QED BY <2>1, <2>2, <2>3 DEF HoldingThreads, Constructing, Tok!Requesting
<1>2. Tok!CallbackOutlivesCall
  BY DEF Tok!CallbackOutlivesCall, CalledOnce, OneFrame, Runs
<1>3. Tok!FrameOutlivesWaiters
  BY DEF Tok!FrameOutlivesWaiters, AwaitedRun, OneFrame, InFrame, Tok!Requesting
<1>4. Tok!NobodyMissed
  BY DEF Tok!NobodyMissed, AllServed, Served, DoneWhenOver
<1>5. QED BY <1>1, <1>2, <1>3, <1>4 DEF Tok!StopTokenSafe

HIDE TokSets

-----------------------------------------------------------------------------
\* All of them in Synchronization.

\* What holds of the component that runs.
Whole ==
    /\ component = "once" => IInv
    /\ component = "semaphore" => SemInv
    /\ component = "latch" => LatchInv
    /\ component = "barrier" => BarrierInv
    /\ component = "stop token" => StopInv

LEMMA WholeInit == AllInit => Whole
<1> SUFFICES ASSUME AllInit PROVE Whole
  OBVIOUS
<1>1. component = "once" => IInv
  BY InitIInv DEF AllInit
<1>2. component = "semaphore" => SemInv
  BY SemaphoreInit, SemaphoreAssumption DEF AllInit
<1>3. component = "latch" => LatchInv
  BY LatchInit, LatchAssumption DEF AllInit
<1>4. component = "barrier" => BarrierInv
  BY BarrierInit, BarrierAssumption DEF AllInit
<1>5. component = "stop token" => StopInv
  BY StopInit, StopTokenAssumption DEF AllInit
<1> QED BY <1>1, <1>2, <1>3, <1>4, <1>5 DEF Whole

\* A step is a step of the component that runs, which goes on running.
LEMMA StepOfOne ==
    ASSUME [AllNext]_all
    PROVE  /\ component' = component
           /\ component = "once" => [Next]_vars
           /\ component = "semaphore" => [Sem!Next]_(Sem!vars)
           /\ component = "latch" => [Lat!Next]_(Lat!vars)
           /\ component = "barrier" => [Bar!Next]_(Bar!vars)
           /\ component = "stop token" => [Tok!Next]_(Tok!vars)
<1>1. CASE UNCHANGED all
  BY <1>1 DEF all, onces, counts, permits, phases, stops,
     vars, Sem!vars, Lat!vars, Bar!vars, Tok!vars
<1>2. CASE AllNext
  BY <1>2 DEF AllNext, OnceOnly, SemaphoreOnly, LatchOnly, BarrierOnly, StopTokenOnly,
     ConditionOnly
<1> QED BY <1>1, <1>2

LEMMA WholeNext == Whole /\ [AllNext]_all => Whole'
<1> SUFFICES ASSUME Whole, [AllNext]_all PROVE Whole'
  OBVIOUS
<1> USE StepOfOne DEF Whole
<1>1. component' = "once" => IInv'
  BY NextIInv
<1>2. component' = "semaphore" => SemInv'
  BY SemaphoreNext, SemaphoreAssumption
<1>3. component' = "latch" => LatchInv'
  BY LatchNext, LatchAssumption
<1>4. component' = "barrier" => BarrierInv'
  BY BarrierNext, BarrierAssumption
<1>5. component' = "stop token" => StopInv'
  BY StopNext, StopTokenAssumption
<1> QED BY <1>1, <1>2, <1>3, <1>4, <1>5

LEMMA AlwaysWhole == AllSpec => []Whole
BY WholeInit, WholeNext, PTL DEF AllSpec

\* However many callers race and however often the function throws, it runs to
\* its end once, one caller at a time, nobody gets past before that, and a wake
\* is ahead of every sleeper (call_once).
THEOREM OnceIsSafe == AllSpec => []OnceSafe
<1>1. IInv => CallOnceSafe
  BY DEF IInv, TypeOK, RunnerAlone, DoneMeansRun, PastElection, RunsOnce, OutMeansDone,
     CallOnceSafe
<1>2. Whole => OnceSafe
  BY <1>1 DEF Whole, OnceSafe
<1> QED BY <1>2, AlwaysWhole, PTL

\* No permit is given twice or lost; nobody sleeps while there is a permit and
\* nobody on the way; a timed acquire fails only when its time is up or its
\* wait failed, and then it has seen no permit (include/semaphore).
THEOREM SemaphoreIsSafe == AllSpec => SemaphoreSafe
<1>1. Whole => (component = "semaphore" => Sem!PermitsConserved /\ Sem!SleeperHasNoPermit)
  BY SemaphoreInvSafe, SemaphoreAssumption DEF Whole
<1>2. Whole /\ [AllNext]_all => [component = "semaphore" => Sem!FailsLate]_all
  <2> SUFFICES ASSUME Whole, [AllNext]_all, component = "semaphore"
               PROVE  Sem!FailsLate \/ UNCHANGED all
    OBVIOUS
  <2>1. SemInv /\ [Sem!Next]_(Sem!vars)
    BY StepOfOne DEF Whole
  <2>2. Sem!FailsLate \/ UNCHANGED Sem!vars
    BY <2>1, SemaphoreVerdict
  <2>3. ASSUME UNCHANGED Sem!vars PROVE Sem!FailsLate
    BY <2>3 DEF Sem!vars, Sem!FailsLate
  <2> QED BY <2>2, <2>3
<1> QED BY <1>1, <1>2, AlwaysWhole, PTL DEF AllSpec, SemaphoreSafe

\* The completion of each phase runs once, after every arrival and before any
\* departure, and what is to come is what those bring who are late; latch::wait
\* returns only when every arrival was counted (include/barrier, include/latch).
THEOREM PhasesStayWhole == AllSpec => []PhasesAreWhole
<1>1. Whole => PhasesAreWhole
  BY BarrierInvSafe, LatchInvSafe, BarrierAssumption, LatchAssumption
     DEF Whole, PhasesAreWhole
<1> QED BY <1>1, AlwaysWhole, PTL

\* The state of a stop source, its callbacks and the frames of their calls
\* outlive their uses, no callback is called twice, and none is missed whose
\* constructor found the request or a source, as long as no callback called by
\* its own constructor destroys the last source (__request_stop,
\* __state_stop_possible, __register_callback, __unregister_callback).
THEOREM StopTokenIsSafe == AllSpec => []StopTokenSafe
<1>1. Whole => StopTokenSafe
  BY StopInvSafe, StopTokenAssumption DEF Whole, StopTokenSafe
<1> QED BY <1>1, AlwaysWhole, PTL
=============================================================================
