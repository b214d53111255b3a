--------------------------- MODULE RuntimeProofs ----------------------------
(***************************************************************************)
(* Proofs about Linux threads, hazard pointers, the condition variable and *)
(* exit handlers, for every number of threads, objects, items and          *)
(* handlers.  Each has an inductive invariant of its own, which is then    *)
(* taken to Runtime; the last section takes what SequentialProofs proves   *)
(* there as well.                                                          *)
(***************************************************************************)
EXTENDS Runtime, Integers, Sequences, SequenceTheorems, FunctionTheorems,
        FiniteSetTheorems, WellFoundedInduction, TLAPS

-----------------------------------------------------------------------------
\* Linux threads.

\* t has taken w to give it back: off the list, or by joining it.
Takes(t, w) == w \in ready[t] \/ (pc[t] = "join" /\ joins[t] = w)

\* The inductive invariant.

\* TypeOK, and which values go with which thread: only a worker finishes, and
\* the main thread is not made.
ThreadsTyped ==
    /\ tid \subseteq Workers /\ made \subseteq Workers
    /\ result \in [Workers -> 0 .. 1] /\ got \in [Workers -> 0 .. 1]
    /\ freed \in [Workers -> 0 .. 1]
    /\ pc \in [AllThreads -> Points]
    /\ then \in [AllThreads -> {"run", "create", "fini"}]
    /\ joins \in [AllThreads -> AllThreads]
    /\ ready \in [AllThreads -> SUBSET Workers]
    /\ ops \in [AllThreads -> Nat] /\ \A t \in AllThreads : ops[t] <= MaxOps[t]
    /\ pc[Main] \notin {"none", "fini", "exit", "dead"} /\ then[Main] # "fini"

\* A thread has been made unless it is nowhere, and its tid word is set from
\* there until the kernel clears it.  While it reaps for its exit it cannot go
\* back; when it is past that its result is stored.
Lives ==
    /\ \A w \in Workers : w \in made <=> pc[w] # "none"
    /\ \A w \in Workers : w \in tid <=> pc[w] \notin {"none", "dead"}
    /\ \A t \in AllThreads : pc[t] \notin {"reap", "unmap"} => then[t] = "run"
    /\ \A w \in Workers : pc[w] \in {"fini", "exit", "dead"} \/ then[w] = "fini"
                              => result[w] = 1

\* The list holds detached threads, a detached thread has been claimed, and a
\* claimed one was made.  What was made is mapped until it is given back.
Claimed ==
    /\ detached_threads \subseteq detached /\ detached \subseteq claimed
    /\ claimed \subseteq made
    /\ \A w \in Workers : w \in mapped <=> w \in made /\ freed[w] = 0
    /\ \A w \in Workers : freed[w] = 1 => w \in claimed /\ pc[w] = "dead"
    /\ mapped \subseteq Workers

\* Whoever has taken a thread is alone with it: it is not on the list, not
\* given back, and in no other's hands.
OneTaker ==
    /\ \A t \in AllThreads, w \in Workers : Takes(t, w) =>
          w \in claimed /\ freed[w] = 0 /\ w \notin detached_threads
    /\ \A t, u \in AllThreads, w \in Workers : Takes(t, w) /\ Takes(u, w) => t = u
    /\ \A w \in detached_threads : freed[w] = 0
    /\ \A t \in AllThreads : pc[t] = "join" => joins[t] \in Workers

\* A claimed thread is given back, on the list, or in somebody's hands.
NoneLost ==
    \A w \in claimed : \/ freed[w] = 1
                       \/ w \in detached_threads
                       \/ \E t \in AllThreads : Takes(t, w)

\* Threads are reaped that are detached and have left their stack; joined
\* threads are not detached.
Reaped ==
    /\ \A t \in AllThreads : pc[t] # "unmap" => ready[t] = {}
    /\ \A t \in AllThreads, w \in Workers : w \in ready[t] =>
          w \in detached /\ pc[w] = "dead"
    /\ \A t \in AllThreads : pc[t] = "join" => joins[t] \notin detached
    /\ \A w \in claimed \ detached : freed[w] = 1 => got[w] = 1

ThreadsInv == ThreadsTyped /\ Lives /\ Claimed /\ OneTaker /\ NoneLost /\ Reaped

LEMMA ThreadsBasics == Main \notin Workers /\ Workers \subseteq AllThreads
    /\ Main \in AllThreads
                /\ AllThreads = Workers \cup {Main}
BY LinuxThreadsConstants DEF AllThreads

\* One lemma for each action, in the order of the module: it keeps Inv.

LEMMA ReapStep ==
    ASSUME ThreadsInv, NEW t \in AllThreads, Reap(t)
    PROVE  ThreadsInv'
<1> USE ThreadsBasics DEF ThreadsInv, Reap, Goto, ghosts
<1>1. ThreadsTyped'
  BY LinuxThreadsConstants DEF ThreadsTyped, Points, Claimed
<1>2. Lives'
  BY DEF Lives
<1>3. Claimed'
  BY DEF Claimed
<1>4. OneTaker'
  BY DEF OneTaker, Takes, Claimed
<1>5. NoneLost'
  BY DEF NoneLost, Takes, ThreadsTyped, Reaped
<1>6. Reaped'
  BY DEF Reaped, ThreadsTyped, Lives, Claimed
<1>7. QED BY <1>1, <1>2, <1>3, <1>4, <1>5, <1>6

LEMMA UnmapStep ==
    ASSUME ThreadsInv, NEW t \in AllThreads, Unmap(t)
    PROVE  ThreadsInv'
<1> USE ThreadsBasics DEF ThreadsInv, Unmap, GiveBack, Goto
<1>1. ThreadsTyped'
  BY LinuxThreadsConstants DEF ThreadsTyped, Points, OneTaker, Takes
<1>2. Lives'
  BY DEF Lives, ThreadsTyped
<1>3. Claimed'
  BY DEF Claimed, ThreadsTyped, Reaped
<1>4. OneTaker'
  BY DEF OneTaker, Takes, ThreadsTyped, Lives, Claimed
<1>5. NoneLost'
  <2> SUFFICES ASSUME NEW w \in claimed
               PROVE  \/ freed'[w] = 1 \/ w \in detached_threads
                      \/ \E u \in AllThreads : Takes(u, w)'
    BY DEF NoneLost
  <2>1. w \in Workers
    BY DEF ThreadsTyped, Claimed
  <2>2. w \in ready[t] => freed[w] = 0
    BY <2>1 DEF OneTaker, Takes
  <2>3. freed[w] = 1 \/ w \in ready[t] => freed'[w] = 1
    BY <2>1, <2>2
  <2>4. ASSUME NEW u \in AllThreads, Takes(u, w), w \notin ready[t]
        PROVE  Takes(u, w)'
    <3>1. u # t
      BY <2>4 DEF Takes
    <3>2. QED BY <2>4, <3>1 DEF Takes, ThreadsTyped
  <2>5. QED BY <2>3, <2>4 DEF NoneLost
<1>6. Reaped'
  BY DEF Reaped, ThreadsTyped, Claimed
<1>7. QED BY <1>1, <1>2, <1>3, <1>4, <1>5, <1>6

LEMMA CloneStep ==
    ASSUME ThreadsInv, NEW t \in AllThreads, Clone(t)
    PROVE  ThreadsInv'
<1> USE ThreadsBasics DEF ThreadsInv
<1> DEFINE Rest == UNCHANGED <<result, detached, detached_threads, claimed, freed, got, ops,
                               then, joins, ready>>
<1>1. CASE UNCHANGED <<tid, mapped, made>> /\ Goto(t, "run")
  <2> USE <1>1 DEF Clone, Goto
  <2>1. ThreadsTyped'
    BY DEF ThreadsTyped, Points
  <2>2. Lives' /\ Claimed'
    BY DEF Lives, Claimed
  <2>3. \A u \in AllThreads, w \in Workers : Takes(u, w)' <=> Takes(u, w)
    BY DEF Takes
  <2>4. OneTaker' /\ NoneLost' /\ Reaped'
    BY <2>3 DEF OneTaker, NoneLost, Reaped, Claimed, ThreadsTyped
  <2>5. QED BY <2>1, <2>2, <2>4
<1>2. ASSUME NEW v \in Workers \ made,
             made' = made \cup {v} /\ mapped' = mapped \cup {v}, tid' = tid \cup {v},
             pc' = [pc EXCEPT ![t] = "run", ![v] = "run"]
      PROVE  ThreadsInv'
  <2>1. \A u \in AllThreads : pc'[u] = IF u \in {t, v} THEN "run" ELSE pc[u]
    BY <1>2 DEF ThreadsTyped
  <2>2. pc' \in [AllThreads -> Points]
    BY <1>2 DEF ThreadsTyped, Points
  <2>3. pc[t] = "create" /\ Rest /\ pc[v] = "none" /\ t # v
    BY <1>2 DEF Clone, Lives
  <2>4. then[t] = "run" /\ then[v] = "run" /\ ready[t] = {} /\ ready[v] = {}
        /\ freed[v] = 0 /\ v \notin claimed
    BY <1>2, <2>3 DEF Lives, Reaped, Claimed, ThreadsTyped
  <2>5. ThreadsTyped'
    BY <1>2, <2>1, <2>2, <2>3 DEF ThreadsTyped
  <2>6. Lives' /\ Claimed'
    BY <1>2, <2>1, <2>3, <2>4 DEF Lives, Claimed, ThreadsTyped
  <2>7. \A u \in AllThreads, w \in Workers : Takes(u, w)' <=> Takes(u, w)
    BY <2>1, <2>3, <2>4 DEF Takes
  <2>8. OneTaker'
    BY <2>1, <2>3, <2>7 DEF OneTaker
  <2>9. NoneLost'
    <3>1. claimed \subseteq Workers
      BY DEF Claimed, ThreadsTyped
    <3>2. QED BY <2>3, <2>7, <3>1 DEF NoneLost
  <2>10. Reaped'
    BY <2>1, <2>3, <2>4 DEF Reaped
  <2>11. QED BY <2>5, <2>6, <2>8, <2>9, <2>10
<1>3. QED BY <1>1, <1>2 DEF Clone

LEMMA ThrdCreateStep ==
    ASSUME ThreadsInv, NEW t \in AllThreads, thrd_create(t)
    PROVE  ThreadsInv'
<1> USE ThreadsBasics DEF ThreadsInv, thrd_create, Call, ReapThen, Goto, shared
<1>1. ThreadsTyped'
  BY LinuxThreadsConstants DEF ThreadsTyped, Points
<1>2. Lives'
  BY DEF Lives, ThreadsTyped
<1>3. Claimed'
  BY DEF Claimed
<1>4. OneTaker'
  BY DEF OneTaker, Takes
<1>5. NoneLost'
  BY DEF NoneLost, Takes
<1>6. Reaped'
  BY DEF Reaped
<1>7. QED BY <1>1, <1>2, <1>3, <1>4, <1>5, <1>6

LEMMA ThrdDetachStep ==
    ASSUME ThreadsInv, NEW t \in AllThreads, thrd_detach(t)
    PROVE  ThreadsInv'
<1> USE ThreadsBasics DEF ThreadsInv, thrd_detach, Call, ReapThen, Goto
<1>1. ThreadsTyped'
  BY LinuxThreadsConstants DEF ThreadsTyped, Points
<1>2. Lives'
  BY DEF Lives
<1>3. Claimed'
  BY DEF Claimed
<1>4. OneTaker'
  BY DEF OneTaker, Takes, ThreadsTyped, Claimed
<1>5. NoneLost'
  BY DEF NoneLost, Takes
<1>6. Reaped'
  BY DEF Reaped, OneTaker, Takes
<1>7. QED BY <1>1, <1>2, <1>3, <1>4, <1>5, <1>6

LEMMA ThrdJoinStep ==
    ASSUME ThreadsInv, NEW t \in AllThreads, thrd_join(t)
    PROVE  ThreadsInv'
<1> USE ThreadsBasics DEF ThreadsInv, thrd_join, Call, Goto, shared
<1>1. ThreadsTyped'
  BY LinuxThreadsConstants DEF ThreadsTyped, Points
<1>2. Lives'
  BY DEF Lives
<1>3. Claimed'
  BY DEF Claimed
<1>4. OneTaker'
  BY DEF OneTaker, Takes, ThreadsTyped, Claimed
<1>5. NoneLost'
  BY DEF NoneLost, Takes, ThreadsTyped, Reaped
<1>6. Reaped'
  BY DEF Reaped, ThreadsTyped, Claimed
<1>7. QED BY <1>1, <1>2, <1>3, <1>4, <1>5, <1>6

LEMMA JoinFinishStep ==
    ASSUME ThreadsInv, NEW t \in AllThreads, JoinFinish(t)
    PROVE  ThreadsInv'
<1> USE ThreadsBasics DEF ThreadsInv, JoinFinish, GiveBack, ReapThen, Goto
<1>1. ThreadsTyped'
  BY LinuxThreadsConstants DEF ThreadsTyped, Points, OneTaker, Takes
<1>2. Lives'
  BY DEF Lives
<1>3. Claimed'
  BY DEF Claimed, Lives, OneTaker, Takes
<1>4. OneTaker'
  BY DEF OneTaker, Takes, ThreadsTyped, Claimed, Reaped
<1>5. NoneLost'
  <2> SUFFICES ASSUME NEW w \in claimed
               PROVE  \/ freed'[w] = 1 \/ w \in detached_threads
                      \/ \E u \in AllThreads : Takes(u, w)'
    BY DEF NoneLost
  <2>1. w \in Workers
    BY DEF ThreadsTyped, Claimed
  <2>2. w = joins[t] => freed[w] = 0
    BY <2>1 DEF OneTaker, Takes
  <2>3. freed[w] = 1 \/ w = joins[t] => freed'[w] = 1
    BY <2>1, <2>2
  <2>4. ASSUME NEW u \in AllThreads, Takes(u, w), w # joins[t]
        PROVE  Takes(u, w)'
    <3>1. u # t
      BY <2>4 DEF Takes, Reaped
    <3>2. QED BY <2>4, <3>1 DEF Takes, ThreadsTyped
  <2>5. QED BY <2>3, <2>4 DEF NoneLost
<1>6. Reaped'
  BY DEF Reaped, ThreadsTyped, Lives, Claimed
<1>7. QED BY <1>1, <1>2, <1>3, <1>4, <1>5, <1>6

LEMMA FinishStep ==
    ASSUME ThreadsInv, NEW w \in Workers, Finish(w)
    PROVE  ThreadsInv'
<1> USE ThreadsBasics DEF ThreadsInv, Finish, ReapThen, Goto
<1>1. ThreadsTyped'
  BY LinuxThreadsConstants DEF ThreadsTyped, Points
<1>2. Lives'
  BY DEF Lives, ThreadsTyped
<1>3. Claimed'
  BY DEF Claimed
<1>4. OneTaker'
  BY DEF OneTaker, Takes
<1>5. NoneLost'
  BY DEF NoneLost, Takes
<1>6. Reaped'
  BY DEF Reaped
<1>7. QED BY <1>1, <1>2, <1>3, <1>4, <1>5, <1>6

LEMMA FiniStep ==
    ASSUME ThreadsInv, NEW w \in Workers, Fini(w)
    PROVE  ThreadsInv'
<1> USE ThreadsBasics DEF ThreadsInv, Fini, Goto, shared, ghosts
<1>1. ThreadsTyped'
  BY LinuxThreadsConstants DEF ThreadsTyped, Points
<1>2. Lives'
  BY DEF Lives
<1>3. Claimed'
  BY DEF Claimed
<1>4. OneTaker'
  BY DEF OneTaker, Takes
<1>5. NoneLost'
  BY DEF NoneLost, Takes
<1>6. Reaped'
  BY DEF Reaped
<1>7. QED BY <1>1, <1>2, <1>3, <1>4, <1>5, <1>6

LEMMA KernelExitStep ==
    ASSUME ThreadsInv, NEW w \in Workers, KernelExit(w)
    PROVE  ThreadsInv'
<1> USE ThreadsBasics DEF ThreadsInv, KernelExit, Goto, ghosts
<1>1. ThreadsTyped'
  BY LinuxThreadsConstants DEF ThreadsTyped, Points
<1>2. Lives'
  BY DEF Lives, ThreadsTyped
<1>3. Claimed'
  BY DEF Claimed
<1>4. OneTaker'
  BY DEF OneTaker, Takes
<1>5. NoneLost'
  BY DEF NoneLost, Takes
<1>6. Reaped'
  BY DEF Reaped
<1>7. QED BY <1>1, <1>2, <1>3, <1>4, <1>5, <1>6

LEMMA ThreadsInit == Init => ThreadsInv
<1> SUFFICES ASSUME Init PROVE ThreadsInv
  OBVIOUS
<1>1. ThreadsTyped
  BY ThreadsBasics, LinuxThreadsConstants DEF Init, ThreadsTyped, Points
<1>2. QED BY <1>1, ThreadsBasics DEF Init, ThreadsInv, Lives, Claimed, OneTaker, NoneLost,
          Reaped, Takes

LEMMA ThreadsStutter == ThreadsInv /\ UNCHANGED vars => ThreadsInv'
BY DEF vars, shared, ghosts, ThreadsInv, ThreadsTyped, Lives, Claimed, OneTaker, NoneLost,
       Reaped, Takes

LEMMA ThreadsNext == ThreadsInv /\ [Next]_vars => ThreadsInv'
<1> SUFFICES ASSUME ThreadsInv, [Next]_vars PROVE ThreadsInv'
  OBVIOUS
<1>1. ASSUME NEW t \in AllThreads, thrd_create(t) \/ thrd_detach(t) \/ thrd_join(t)
      PROVE ThreadsInv'
  BY <1>1, ThrdCreateStep, ThrdDetachStep, ThrdJoinStep
<1>2. ASSUME NEW t \in AllThreads, Step(t) PROVE ThreadsInv'
  BY <1>2, ReapStep, UnmapStep, CloneStep, JoinFinishStep, FinishStep, FiniStep,
         KernelExitStep DEF Step
<1>3. ASSUME UNCHANGED vars \/ Idle PROVE ThreadsInv'
  BY <1>3, ThreadsStutter DEF Idle
<1>4. QED BY <1>1, <1>2, <1>3 DEF Next

\* Every record a client gave up has one place: given back, on the list, or
\* with the one thread that reaps or joins it (linux/threads.c, thrd_join and
\* ReapDetachedThreads).
LEMMA RecordPlace == ThreadsInv => GivenBackOnce
<1> SUFFICES ASSUME ThreadsInv, NEW w \in claimed
             PROVE  freed[w] + (IF w \in detached_threads THEN 1 ELSE 0)
                      + Cardinality({t \in AllThreads : Takes(t, w)}) = 1
  BY DEF GivenBackOnce, Takes
<1> DEFINE Takers == {t \in AllThreads : Takes(t, w)}
<1>1. w \in Workers /\ freed[w] \in 0 .. 1
  BY DEF ThreadsInv, ThreadsTyped, Claimed
<1>2. CASE Takers = {}
  <2>1. Cardinality(Takers) = 0
    BY <1>2, FS_EmptySet
  <2>2. freed[w] + (IF w \in detached_threads THEN 1 ELSE 0) = 1
    BY <1>1, <1>2 DEF ThreadsInv, NoneLost, OneTaker
  <2>3. QED BY <2>1, <2>2, <1>1
<1>3. CASE Takers # {}
  <2>1. PICK t \in AllThreads : Takers = {t}
    BY <1>1, <1>3 DEF ThreadsInv, OneTaker
  <2>2. Cardinality(Takers) = 1
    BY <2>1, FS_Singleton
  <2>3. freed[w] = 0 /\ w \notin detached_threads
    BY <1>1, <2>1 DEF ThreadsInv, OneTaker
  <2>4. QED BY <2>2, <2>3
<1>4. QED BY <1>2, <1>3

\* The properties follow.
LEMMA ThreadsInvSafe == ASSUME ThreadsInv PROVE StacksSafe
<1>1. TypeOK
  BY LinuxThreadsConstants DEF ThreadsInv, ThreadsTyped, Claimed, Points, TypeOK
<1>2. StacksMapped
  BY ThreadsBasics DEF ThreadsInv, ThreadsTyped, Lives, Claimed, OneTaker, Takes, Alive,
         StacksMapped
<1>3. JoinGetsResult
  BY DEF ThreadsInv, Reaped, JoinGetsResult
<1>4. QED BY <1>1, <1>2, <1>3, RecordPlace DEF StacksSafe

-----------------------------------------------------------------------------
\* Hazard pointers.

\* The registry counts with the operators of FiniteSets.
LEMMA HSets ==
    /\ \A S : H!IsFiniteSet(S) <=> IsFiniteSet(S)
    /\ \A S : H!Cardinality(S) = Cardinality(S)
BY DEF H!IsFiniteSet, H!Cardinality, IsFiniteSet, Cardinality

USE HSets

\* w has taken the object at a off the source and is about to retire it.
Retires(w, a) == pc[w] = "retire" /\ pointer[w] = a

\* The inductive invariant.

\* Shapes; writers and readers have places of their own.
HazardTyped ==
    /\ source \in Addresses \cup {Null} /\ live \subseteq Addresses
    /\ active \subseteq Readers /\ protection \in [Readers -> Addresses \cup {Null}]
    /\ retired \subseteq Addresses /\ ready \in [H!AllThreads -> SUBSET Addresses]
    /\ pointer \in [H!AllThreads -> Addresses \cup {Null}]
    /\ pc \in [H!AllThreads -> {"idle", "protect", "validate", "using", "unprotect", "again",
           "retire"}]
    /\ \A r \in Readers : pc[r] # "retire"
    /\ \A w \in Writers : pc[w] \in {"idle", "retire"}

\* An object is in one place: at the source, in the hand of one writer, retired,
\* or with the one thread that will reclaim it.  So long it is live and its
\* address is not used again.
OnePlace ==
    /\ {source} \ {Null} \subseteq live /\ retired \subseteq live \ {source}
    /\ \A t \in H!AllThreads : ready[t] \subseteq live \ ({source} \cup retired)
    /\ \A t, u \in H!AllThreads : t # u => ready[t] \cap ready[u] = {}
    /\ \A w \in Writers : pc[w] = "retire" =>
          /\ pointer[w] \in live \ ({source} \cup retired) /\ ready[w] = {}
          /\ \A t \in H!AllThreads : pointer[w] \notin ready[t]
    /\ \A v, w \in Writers : pc[v] = "retire" /\ pc[w] = "retire"
           /\ pointer[v] = pointer[w] => v = w
    /\ ~freed

\* A reader in a call owns its slot; from the time it has published a
\* protection to the end of the use the slot says so.
SlotsSay ==
    /\ \A r \in Readers : pc[r] # "idle" => r \in active
    /\ \A r \in Readers : pc[r] \in {"validate", "using"} => protection[r] = pointer[r]

\* What was at the source after it was protected is in no list of objects to
\* reclaim, and does not get there.
Validated ==
    \A r \in Readers : pc[r] = "using" =>
        pointer[r] \in live /\ \A t \in H!AllThreads : pointer[r] \notin ready[t]

HazardInv == HazardTyped /\ OnePlace /\ SlotsSay /\ Validated /\ H!RetiredIsHeldUp

\* One lemma for each action, in the order of the module: it keeps Inv.

LEMMA AcquireSlotStep ==
    ASSUME H!HazardPointerConstants, HazardInv, NEW r \in Readers, H!AcquireSlot(r)
    PROVE  HazardInv'
<1> USE DEF H!HazardPointerConstants, H!AllThreads, HazardInv, H!AcquireSlot, H!SetSlot, H!Count
<1>1. HazardTyped'
  BY DEF HazardTyped
<1>2. OnePlace'
  BY DEF OnePlace
<1>3. SlotsSay'
  BY DEF SlotsSay
<1>4. Validated'
  BY DEF Validated
<1>5. H!RetiredIsHeldUp'
  BY DEF H!RetiredIsHeldUp
<1>6. QED BY <1>1, <1>2, <1>3, <1>4, <1>5

LEMMA LoadStep ==
    ASSUME H!HazardPointerConstants, HazardInv, NEW r \in Readers, H!Load(r)
    PROVE  HazardInv'
<1> USE DEF H!HazardPointerConstants, H!AllThreads, HazardInv, H!Load, H!Goto, H!Count
<1>1. HazardTyped'
  BY DEF HazardTyped
<1>2. OnePlace'
  BY DEF OnePlace
<1>3. SlotsSay'
  BY DEF SlotsSay, HazardTyped
<1>4. Validated'
  BY DEF Validated, HazardTyped
<1>5. H!RetiredIsHeldUp'
  BY DEF H!RetiredIsHeldUp
<1>6. QED BY <1>1, <1>2, <1>3, <1>4, <1>5

LEMMA ProtectStep ==
    ASSUME H!HazardPointerConstants, HazardInv, NEW r \in Readers, H!Protect(r)
    PROVE  HazardInv'
<1> USE DEF H!HazardPointerConstants, H!AllThreads, HazardInv, H!Protect, H!SetSlot,
    H!Collected, H!Goto
<1>1. HazardTyped'
  BY DEF HazardTyped
<1>2. OnePlace'
  BY DEF OnePlace
<1>3. SlotsSay'
  BY DEF SlotsSay, HazardTyped
<1>4. Validated'
  BY DEF Validated, SlotsSay
<1>5. H!RetiredIsHeldUp'
  BY DEF H!RetiredIsHeldUp, HazardTyped
<1>6. QED BY <1>1, <1>2, <1>3, <1>4, <1>5

LEMMA ValidateStep ==
    ASSUME H!HazardPointerConstants, HazardInv, NEW r \in Readers, H!Validate(r)
    PROVE  HazardInv'
<1> USE DEF H!HazardPointerConstants, H!AllThreads, HazardInv, H!Validate, H!Goto
<1>1. HazardTyped'
  BY DEF HazardTyped
<1>2. OnePlace'
  BY DEF OnePlace, HazardTyped
<1>3. SlotsSay'
  BY DEF SlotsSay, HazardTyped
<1>4. Validated'
  BY DEF Validated, HazardTyped, OnePlace
<1>5. H!RetiredIsHeldUp'
  BY DEF H!RetiredIsHeldUp
<1>6. QED BY <1>1, <1>2, <1>3, <1>4, <1>5

LEMMA UnprotectStep ==
    ASSUME H!HazardPointerConstants, HazardInv, NEW r \in Readers, H!Unprotect(r)
    PROVE  HazardInv'
<1> USE DEF H!HazardPointerConstants, H!AllThreads, HazardInv, H!Unprotect, H!SetSlot,
    H!Collected, H!Goto
<1>1. HazardTyped'
  BY DEF HazardTyped
<1>2. OnePlace'
  BY DEF OnePlace
<1>3. SlotsSay'
  BY DEF SlotsSay
<1>4. Validated'
  BY DEF Validated, SlotsSay
<1>5. H!RetiredIsHeldUp'
  BY DEF H!RetiredIsHeldUp, HazardTyped
<1>6. QED BY <1>1, <1>2, <1>3, <1>4, <1>5

LEMMA AgainStep ==
    ASSUME H!HazardPointerConstants, HazardInv, NEW r \in Readers, H!Again(r)
    PROVE  HazardInv'
<1> USE DEF H!HazardPointerConstants, H!AllThreads, HazardInv, H!Again, H!Goto
<1>1. HazardTyped'
  BY DEF HazardTyped
<1>2. OnePlace'
  BY DEF OnePlace
<1>3. SlotsSay'
  BY DEF SlotsSay
<1>4. Validated'
  BY DEF Validated
<1>5. H!RetiredIsHeldUp'
  BY DEF H!RetiredIsHeldUp
<1>6. QED BY <1>1, <1>2, <1>3, <1>4, <1>5

LEMMA ResetStep ==
    ASSUME H!HazardPointerConstants, HazardInv, NEW r \in Readers, H!Reset(r)
    PROVE  HazardInv'
<1> USE DEF H!HazardPointerConstants, H!AllThreads, HazardInv, H!Reset, H!SetSlot,
    H!Collected, H!Goto
<1>1. HazardTyped'
  BY DEF HazardTyped
<1>2. OnePlace'
  BY DEF OnePlace
<1>3. SlotsSay'
  BY DEF SlotsSay, HazardTyped
<1>4. Validated'
  BY DEF Validated, HazardTyped, SlotsSay
<1>5. H!RetiredIsHeldUp'
  BY DEF H!RetiredIsHeldUp, HazardTyped
<1>6. QED BY <1>1, <1>2, <1>3, <1>4, <1>5

LEMMA ReleaseSlotStep ==
    ASSUME H!HazardPointerConstants, HazardInv, NEW r \in Readers, H!ReleaseSlot(r)
    PROVE  HazardInv'
<1> USE DEF H!HazardPointerConstants, H!AllThreads, HazardInv, H!ReleaseSlot, H!SetSlot,
    H!Collected, H!Goto
<1>1. HazardTyped'
  BY DEF HazardTyped
<1>2. OnePlace'
  BY DEF OnePlace
<1>3. SlotsSay'
  BY DEF SlotsSay, HazardTyped
<1>4. Validated'
  BY DEF Validated, HazardTyped, SlotsSay
<1>5. H!RetiredIsHeldUp'
  BY DEF H!RetiredIsHeldUp, HazardTyped
<1>6. QED BY <1>1, <1>2, <1>3, <1>4, <1>5

LEMMA ExchangeStep ==
    ASSUME H!HazardPointerConstants, HazardInv, NEW w \in Writers, H!Exchange(w)
    PROVE  HazardInv'
<1> USE DEF H!HazardPointerConstants, H!AllThreads, HazardInv, H!Exchange, H!Goto, H!Count
<1>1. HazardTyped'
  BY DEF HazardTyped
<1>2. OnePlace'
  BY DEF OnePlace, HazardTyped
<1>3. SlotsSay'
  BY DEF SlotsSay
<1>4. Validated'
  BY DEF Validated
<1>5. H!RetiredIsHeldUp'
  BY DEF H!RetiredIsHeldUp
<1>6. QED BY <1>1, <1>2, <1>3, <1>4, <1>5

LEMMA RetireStep ==
    ASSUME H!HazardPointerConstants, HazardInv, NEW w \in Writers, H!Retire(w)
    PROVE  HazardInv'
<1> USE DEF H!HazardPointerConstants, H!AllThreads, HazardInv, H!Retire, H!IsProtected, H!Goto
<1>1. HazardTyped'
  BY DEF HazardTyped, OnePlace
<1>2. OnePlace'
  BY DEF OnePlace, HazardTyped
<1>3. SlotsSay'
  BY DEF SlotsSay
<1>4. Validated'
  BY DEF Validated, HazardTyped, SlotsSay
<1>5. H!RetiredIsHeldUp'
  BY DEF H!RetiredIsHeldUp, HazardTyped, OnePlace
<1>6. QED BY <1>1, <1>2, <1>3, <1>4, <1>5

LEMMA ReclaimStep ==
    ASSUME H!HazardPointerConstants, HazardInv, NEW t \in H!AllThreads, H!Reclaim(t)
    PROVE  HazardInv'
<1> USE DEF H!HazardPointerConstants, H!AllThreads, HazardInv, H!Reclaim
<1>1. HazardTyped'
  BY DEF HazardTyped
<1>2. OnePlace'
  <2>1. PICK a \in ready[t] : /\ ready' = [ready EXCEPT ![t] = @ \ {a}]
                              /\ live' = live \ {a} /\ freed' = (freed \/ a \notin live)
    OBVIOUS
  <2>2. ~freed'
    BY <2>1 DEF OnePlace
  <2>3. \A u \in H!AllThreads : ready'[u] \subseteq ready[u] /\ (u = t =>
            ready'[u] = ready[u] \ {a})
    BY <2>1 DEF HazardTyped
  <2>4. QED BY <2>1, <2>2, <2>3 DEF OnePlace, HazardTyped
<1>3. SlotsSay'
  BY DEF SlotsSay
<1>4. Validated'
  BY DEF Validated
<1>5. H!RetiredIsHeldUp'
  BY DEF H!RetiredIsHeldUp
<1>6. QED BY <1>1, <1>2, <1>3, <1>4, <1>5

LEMMA HazardInit == H!HazardPointerConstants /\ H!Init => HazardInv
BY DEF H!HazardPointerConstants, H!AllThreads, H!Init, HazardInv, HazardTyped, OnePlace,
       SlotsSay, Validated,
       H!RetiredIsHeldUp

LEMMA HazardStutter == HazardInv /\ UNCHANGED H!vars => HazardInv'
BY DEF H!vars, HazardInv, HazardTyped, OnePlace, SlotsSay, Validated, H!RetiredIsHeldUp

LEMMA HazardNext == H!HazardPointerConstants /\ HazardInv /\ [H!Next]_(H!vars) => HazardInv'
<1> SUFFICES ASSUME H!HazardPointerConstants, HazardInv, [H!Next]_(H!vars) PROVE HazardInv'
  OBVIOUS
<1>1. ASSUME NEW r \in Readers,
             \/ H!AcquireSlot(r) \/ H!Load(r) \/ H!Protect(r) \/ H!Validate(r) \/ H!Unprotect(r)
             \/ H!Again(r) \/ H!Reset(r) \/ H!ReleaseSlot(r)
      PROVE  HazardInv'
  BY <1>1, AcquireSlotStep, LoadStep, ProtectStep, ValidateStep, UnprotectStep, AgainStep,
     ResetStep, ReleaseSlotStep
<1>2. ASSUME NEW w \in Writers, H!Exchange(w) \/ H!Retire(w) PROVE HazardInv'
  BY <1>2, ExchangeStep, RetireStep
<1>3. ASSUME NEW t \in H!AllThreads, H!Reclaim(t) PROVE HazardInv'
  BY <1>3, ReclaimStep
<1>4. QED BY <1>1, <1>2, <1>3, HazardStutter DEF H!Next

\* The properties follow.
LEMMA HazardInvSafe == ASSUME HazardInv PROVE H!HazardPointersSafe
BY DEF HazardInv, OnePlace, Validated, H!HazardPointersSafe, H!ProtectedIsLive, H!ReclaimedOnce

HIDE HSets

-----------------------------------------------------------------------------
\* The condition variable: x1 is holder, x2 depth, x3 generation, x4 items, x5 pc,
\* x6 seen, x7 kind, x8 put.

\* The condition variable counts with the operators of FiniteSets.
LEMMA CSets ==
    /\ \A S : C!IsFiniteSet(S) <=> IsFiniteSet(S)
    /\ \A S : C!Cardinality(S) = Cardinality(S)
BY DEF C!IsFiniteSet, C!Cardinality, IsFiniteSet, Cardinality

USE CSets

\* The counter has a value for every notification that can be made.
NeverComesRound == Cardinality(Producers) * MaxPut < Generations

ConditionAssumed == C!ConditionConstants /\ NeverComesRound

ProducerPoints == {"lock", "put", "give", "advance", "wake", "out"}
ConsumerPoints == C!Points \ {"put", "give", "advance", "wake"}

\* Points inside the locked region, whoever is there.
Region == {"test", "load", "unlock", "leave", "put", "give"}
InRegion(t) ==
    x5[t] \in Region \/ (t \in Producers /\ x5[t] \in {"advance", "wake"} /\ C!Inside(t))

\* Producers whose item is there and whose notification has not begun.
Pending == {p \in Producers : x5[p] = "advance" \/ (x5[p] = "give" /\ ~ C!Inside(p))}

\* Those that will look at the items, or wake somebody, and those that were to
\* look and could not take the mutex back.
Looks(c) == x5[c] \in {"relock", "test", "failed"} \/ (x5[c] = "woken" /\ x6[c] # x3)
Wakers ==
    Pending \cup {p \in Producers : x5[p] = "wake"} \cup {c \in Consumers : Looks(c)}

\* The notifications made so far, one for each item that is not pending.
Notified == {n \in Producers \X (1 .. MaxPut) :
            n[2] < x8[n[1]] \/ (n[2] = x8[n[1]] /\ n[1] \notin Pending)}

\* A consumer that remembers a generation.
Remembers == {"unlock", "compare", "asleep", "woken"}

\* The inductive invariant.

ConditionTyped ==
    /\ x1 \in C!AllThreads \cup {NoThread}
    /\ x4 \in Nat /\ x3 \in Nat
    /\ x5 \in [C!AllThreads -> C!Points]
    /\ x6 \in [Consumers -> Nat]
    /\ x7 \in [C!AllThreads -> C!Kinds]
    /\ x8 \in [Producers -> 0 .. MaxPut]

\* Where each thread can be, and who holds the mutex there.
ConditionHeld ==
    /\ \A p \in Producers :
          /\ x5[p] \in ProducerPoints
          /\ x5[p] \in {"lock", "put"} => x8[p] < MaxPut
          /\ p \in Pending => x8[p] > 0
    /\ \A c \in Consumers : x5[c] \in ConsumerPoints
    /\ \A t \in C!AllThreads : InRegion(t) => x1 = t

\* The counter is the number of notifications made, and nobody has seen more.
GenerationCounts ==
    /\ x3 = Cardinality(Notified)
    /\ \A c \in Consumers : x6[c] <= x3

\* A consumer waits only because there was nothing: all there is now was put
\* since, and if the counter has not moved, by producers that will move it.
NothingSeen ==
    /\ \A c \in Consumers : x5[c] = "load" => x4 = 0
    /\ \A c \in Consumers :
          x5[c] \in Remembers /\ x6[c] = x3 => x4 <= Cardinality(Pending)

\* While somebody sleeps there is, or was, somebody to see to every item.
Enough == C!Asleep # {} => x4 <= Cardinality(Wakers)

NotifyInv == ConditionTyped /\ ConditionHeld /\ GenerationCounts /\ NothingSeen /\ Enough

\* Counting threads.

LEMMA ConditionBasics ==
    ASSUME ConditionAssumed
    PROVE  /\ Consumers \subseteq C!AllThreads /\ Producers \subseteq C!AllThreads
           /\ C!AllThreads = Consumers \cup Producers
           /\ Consumers \cap Producers = {} /\ NoThread \notin C!AllThreads
           /\ Wakers \subseteq C!AllThreads /\ Pending \subseteq Wakers
           /\ Wakers' \subseteq C!AllThreads /\ Pending' \subseteq Wakers'
BY DEF ConditionAssumed, C!ConditionConstants, C!AllThreads, Wakers, Pending

LEMMA ConditionSizes ==
    ASSUME ConditionAssumed, NEW S \in SUBSET C!AllThreads
    PROVE  IsFiniteSet(S) /\ Cardinality(S) \in Nat
BY FS_Subset, FS_CardinalityType DEF ConditionAssumed, C!ConditionConstants

LEMMA AtLeast ==
    ASSUME ConditionAssumed, NEW S \in SUBSET C!AllThreads, NEW T \in SUBSET C!AllThreads,
           S \subseteq T
    PROVE  Cardinality(S) <= Cardinality(T)
BY ConditionSizes, FS_Subset

LEMMA OneMore ==
    ASSUME ConditionAssumed, NEW S \in SUBSET C!AllThreads, NEW x \in C!AllThreads, x \notin S
    PROVE  Cardinality(S \cup {x}) = Cardinality(S) + 1
BY ConditionSizes, FS_AddElement

LEMMA OneLess ==
    ASSUME ConditionAssumed, NEW S \in SUBSET C!AllThreads, NEW x \in S
    PROVE  Cardinality(S \ {x}) = Cardinality(S) - 1
BY ConditionSizes, FS_RemoveElement

\* What depends only on the producers stays when a consumer moves.
LEMMA ProducersStay ==
    ASSUME ConditionAssumed, ConditionTyped, NEW c \in Consumers, NEW q,
           x5' = [x5 EXCEPT ![c] = q],
           UNCHANGED <<x7, x8>>
    PROVE  /\ UNCHANGED <<Pending, Notified>>
           /\ \A p \in Producers : x5'[p] = x5[p]
           /\ \A d \in Consumers \ {c} : x5'[d] = x5[d]
           /\ q \in C!Points => x5'[c] = q /\ x5' \in [C!AllThreads -> C!Points]
<1>1. /\ \A t \in C!AllThreads \ {c} : x5'[t] = x5[t]
      /\ q \in C!Points => x5'[c] = q /\ x5' \in [C!AllThreads -> C!Points]
  BY ConditionBasics DEF ConditionTyped
<1>2. \A p \in Producers : p \in C!AllThreads \ {c}
  BY ConditionBasics
<1>3. UNCHANGED Pending
  BY <1>1, <1>2 DEF Pending, C!Inside
<1>4. UNCHANGED Notified
  BY <1>3 DEF Notified
<1>5. QED BY <1>1, <1>2, <1>3, <1>4, ConditionBasics

\* A consumer.

\* It goes on, and neither the items nor the counter changes.
LEMMA ConsumerMoves ==
    ASSUME ConditionAssumed, NotifyInv, NEW c \in Consumers, NEW q \in ConsumerPoints,
           x5' = [x5 EXCEPT ![c] = q], UNCHANGED <<x3, x4, x6, x7, x8>>,
           x1' \in C!AllThreads \cup {NoThread},
           q \in Region => x1' = c,
           \A t \in C!AllThreads \ {c} : x1 = t => x1' = t,
           q # "load" \/ x4 = 0,
           q \in Remembers => x5[c] \in Remembers,
           q = "asleep" => x6[c] = x3,
           c \in Wakers => q \in {"relock", "test", "failed"} \/ x4 = 0
    PROVE  NotifyInv'
<1>1. /\ UNCHANGED <<Pending, Notified>>
      /\ \A p \in Producers : x5'[p] = x5[p]
      /\ \A d \in Consumers \ {c} : x5'[d] = x5[d]
      /\ x5'[c] = q /\ x5' \in [C!AllThreads -> C!Points]
  BY ProducersStay DEF NotifyInv, ConsumerPoints
<1>2. ConditionTyped'
  BY <1>1 DEF NotifyInv, ConditionTyped
<1>3. ConditionHeld'
  <2>1. \A p \in Producers : /\ x5'[p] \in ProducerPoints
                             /\ x5'[p] \in {"lock", "put"} => x8'[p] < MaxPut
                             /\ p \in Pending' => x8'[p] > 0
    BY <1>1 DEF NotifyInv, ConditionHeld
  <2>2. \A d \in Consumers : x5'[d] \in ConsumerPoints
    BY <1>1 DEF NotifyInv, ConditionHeld
  <2>3. ASSUME NEW t \in C!AllThreads \ {c}, InRegion(t)' PROVE x1' = t
    <3>1. x5'[t] = x5[t]
      BY <1>1, ConditionBasics
    <3>2. InRegion(t)
      BY <2>3, <3>1 DEF InRegion, C!Inside
    <3>3. QED BY <3>2 DEF NotifyInv, ConditionHeld
  <2>4. InRegion(c)' => x1' = c
    BY <1>1, ConditionBasics DEF InRegion
  <2>5. QED BY <2>1, <2>2, <2>3, <2>4 DEF ConditionHeld
<1>4. GenerationCounts'
  BY <1>1 DEF NotifyInv, GenerationCounts
<1>5. NothingSeen'
  BY <1>1 DEF NotifyInv, NothingSeen
<1>6. Wakers \subseteq Wakers' \/ x4 = 0
  <2>1. ASSUME NEW t \in Wakers, x4 # 0 PROVE t \in Wakers'
    <3>1. CASE t = c
      BY <1>1, <2>1, <3>1 DEF Wakers, Looks
    <3>2. CASE t # c
      BY <1>1, <3>2 DEF Wakers, Looks
    <3>3. QED BY <3>1, <3>2
  <2>2. QED BY <2>1
<1>7. Enough'
  <2>1. CASE x4 = 0
    BY <2>1, ConditionBasics, ConditionSizes DEF NotifyInv, Enough
  <2>2. CASE x4 # 0 /\ C!Asleep # {}
    BY <1>6, <2>2, AtLeast, ConditionBasics, ConditionSizes DEF NotifyInv, ConditionTyped,
           Enough
  <2>3. CASE x4 # 0 /\ C!Asleep = {} /\ q = "asleep"
    <3>1. x4 <= Cardinality(Pending)
      BY <2>3 DEF NotifyInv, NothingSeen, Remembers
    <3>2. Pending \in SUBSET C!AllThreads /\ Wakers' \in SUBSET C!AllThreads
              /\ Pending \subseteq Wakers'
      BY <1>1, ConditionBasics
    <3>3. Cardinality(Pending) <= Cardinality(Wakers')
      BY <3>2, AtLeast
    <3>4. QED BY <3>1, <3>2, <3>3, ConditionSizes DEF NotifyInv, ConditionTyped, Enough
  <2>4. CASE C!Asleep = {} /\ q # "asleep"
    BY <1>1, <2>4 DEF C!Asleep, Enough
  <2>5. QED BY <2>1, <2>2, <2>3, <2>4
<1>8. QED BY <1>2, <1>3, <1>4, <1>5, <1>7 DEF NotifyInv

LEMMA ConsumerLockStep ==
    ASSUME ConditionAssumed, NotifyInv, NEW c \in Consumers, C!Lock(c)
    PROVE  NotifyInv'
<1> DEFINE q == IF x5[c] = "expired" THEN "leave" ELSE "test"
<1>1. /\ x5[c] \in {"lock", "relock", "expired"} /\ x5' = [x5 EXCEPT ![c] = q]
      /\ x1 = NoThread /\ x1' = c /\ UNCHANGED <<x3, x4, x6, x7, x8>>
  BY ConditionBasics DEF C!Lock, C!Goto, C!Enter, C!mutex!Acquire
<1>2. q \in ConsumerPoints /\ q \notin Remembers /\ q # "load" /\ (c \in Wakers => q = "test")
  BY <1>1, ConditionBasics DEF ConsumerPoints, C!Points, Remembers, Wakers, Pending, Looks
<1> HIDE DEF q
<1>3. QED BY <1>1, <1>2, ConditionBasics, ConsumerMoves DEF Remembers

LEMMA ConsumerLeaves ==
    ASSUME ConditionAssumed, NotifyInv, NEW c \in Consumers, C!UnlockToWait(c) \/ C!Leave(c)
    PROVE  NotifyInv'
<1>1. PICK q \in {"compare", "out"} :
           /\ x5' = [x5 EXCEPT ![c] = q] /\ x1 = c /\ x1' = NoThread
           /\ UNCHANGED <<x3, x4, x6, x7, x8>>
           /\ x5[c] \in {"unlock", "leave"} /\ (q = "compare" => x5[c] = "unlock")
  BY DEF C!UnlockToWait, C!Leave, C!Goto, C!mutex!Release
<1>2. q \in ConsumerPoints /\ q \notin Region /\ c \notin Wakers
  BY <1>1, ConditionBasics DEF ConsumerPoints, C!Points, Region, Wakers, Pending, Looks
<1>3. QED BY <1>1, <1>2, ConditionBasics, ConsumerMoves DEF Remembers

\* Inside the wait, and out of it, with the mutex still to be taken or not.
LEMMA ConsumerWaits ==
    ASSUME ConditionAssumed, NotifyInv, NEW c \in Consumers,
           C!AddrWait(c) \/ C!WokenReturns(c) \/ C!WokenBlocksAgain(c) \/ C!WaitTimeout(c)
               \/ C!WaitFails(c) \/ C!RelockFails(c)
    PROVE  NotifyInv'
<1>1. PICK q \in {"asleep", "relock", "expired", "failed", "out"} :
           /\ x5' = [x5 EXCEPT ![c] = q]
           /\ UNCHANGED <<x1, x3, x4, x6, x7, x8>>
           /\ x5[c] \in {"compare", "asleep", "woken", "relock", "expired"}
           /\ q = "asleep" => x6[c] = x3 /\ x5[c] \in {"compare", "woken"}
           /\ x5[c] = "woken" => q = "relock" \/ x6[c] = x3
           /\ x5[c] = "relock" => q = "failed"
  BY DEF C!AddrWait, C!WokenReturns, C!WokenBlocksAgain, C!WaitTimeout, C!WaitFails,
         C!RelockFails, C!SameGeneration, C!Goto, C!Quiet
<1>2. q \in ConsumerPoints /\ q \notin Region /\ q # "load"
      /\ (c \in Wakers => q \in {"relock", "failed"})
  BY <1>1, ConditionBasics DEF ConsumerPoints, C!Points, Region, Wakers, Pending, Looks
<1>3. x1' \in C!AllThreads \cup {NoThread}
  BY <1>1 DEF NotifyInv, ConditionTyped
<1>4. QED BY <1>1, <1>2, <1>3, ConsumerMoves DEF Remembers

\* It takes an item, which leaves one fewer to look for, or finds none.
LEMMA TestStep ==
    ASSUME ConditionAssumed, NotifyInv, NEW c \in Consumers, C!Test(c)
    PROVE  NotifyInv'
<1>1. x5[c] = "test" /\ UNCHANGED <<x1, x3, x6, x7, x8>>
  BY DEF C!Test, C!Quiet
<1>2. c \in C!AllThreads /\ x1 = c
  BY <1>1, ConditionBasics DEF NotifyInv, ConditionHeld, InRegion, Region
<1>3. CASE x4 = 0 /\ x5' = [x5 EXCEPT ![c] = "load"] /\ UNCHANGED x4
  <2>1. "load" \in ConsumerPoints /\ "load" \notin Remembers
    BY DEF ConsumerPoints, C!Points, Remembers
  <2>2. QED BY <1>1, <1>2, <1>3, <2>1, ConsumerMoves
<1>4. CASE x4 > 0 /\ x4' = x4 - 1 /\ x5' = [x5 EXCEPT ![c] = "leave"]
  <2>1. /\ UNCHANGED <<Pending, Notified>>
        /\ \A p \in Producers : x5'[p] = x5[p]
        /\ \A d \in Consumers \ {c} : x5'[d] = x5[d]
        /\ x5'[c] = "leave" /\ x5' \in [C!AllThreads -> C!Points]
    BY <1>1, <1>4, ProducersStay DEF NotifyInv, C!Points
  <2>2. ConditionTyped'
    BY <1>1, <1>4, <2>1 DEF NotifyInv, ConditionTyped
  <2>3. ConditionHeld'
    <3>1. \A t \in C!AllThreads \ {c} : InRegion(t)' => InRegion(t)
      BY <1>1, <2>1, ConditionBasics DEF InRegion, C!Inside
    <3>2. "leave" \in ConsumerPoints
      BY DEF ConsumerPoints, C!Points
    <3>3. QED BY <1>1, <1>2, <2>1, <3>1, <3>2 DEF NotifyInv, ConditionHeld
  <2>4. GenerationCounts'
    BY <1>1, <2>1 DEF NotifyInv, GenerationCounts
  <2>5. NothingSeen'
    <3>1. \A d \in Consumers : x5'[d] = "load" => FALSE
      BY <1>4, <2>1 DEF NotifyInv, NothingSeen
    <3>2. \A d \in Consumers : x5'[d] \in Remembers => d # c /\ x5[d] \in Remembers
      BY <2>1 DEF Remembers
    <3>3. Cardinality(Pending) \in Nat
      BY ConditionBasics, ConditionSizes
    <3>4. QED BY <1>1, <1>4, <2>1, <3>1, <3>2, <3>3 DEF NotifyInv, ConditionTyped, NothingSeen
  <2>6. Enough'
    <3>1. Wakers \ {c} \subseteq Wakers'
      BY <1>1, <2>1 DEF Wakers, Looks
    <3>2. c \in Wakers
      BY <1>1 DEF Wakers, Looks
    <3>3. Cardinality(Wakers) - 1 <= Cardinality(Wakers')
      <4>1. Cardinality(Wakers \ {c}) = Cardinality(Wakers) - 1
        BY <3>2, ConditionBasics, OneLess
      <4>2. Wakers \ {c} \in SUBSET C!AllThreads /\ Wakers' \in SUBSET C!AllThreads
        BY ConditionBasics
      <4>3. Cardinality(Wakers \ {c}) <= Cardinality(Wakers')
        BY <3>1, <4>2, AtLeast
      <4>4. QED BY <4>1, <4>3
    <3>4. C!Asleep' \subseteq C!Asleep
      BY <2>1 DEF C!Asleep
    <3>5. Cardinality(Wakers) \in Nat /\ Cardinality(Wakers') \in Nat
      BY ConditionBasics, ConditionSizes
    <3>6. QED BY <1>4, <3>3, <3>4, <3>5 DEF NotifyInv, ConditionTyped, Enough
  <2>7. QED BY <2>2, <2>3, <2>4, <2>5, <2>6 DEF NotifyInv
<1>5. QED BY <1>3, <1>4 DEF C!Test, C!Goto

\* It remembers the generation, with no item there.
LEMMA LoadGenerationStep ==
    ASSUME ConditionAssumed, NotifyInv, NEW c \in Consumers, C!LoadGeneration(c)
    PROVE  NotifyInv'
<1>1. /\ x5[c] = "load" /\ x6' = [x6 EXCEPT ![c] = x3]
      /\ x5' = [x5 EXCEPT ![c] = "unlock"]
      /\ UNCHANGED <<x1, x3, x4, x7, x8>>
  BY DEF C!LoadGeneration, C!Goto, C!Quiet
<1>2. x4 = 0 /\ x1 = c
  BY <1>1, ConditionBasics DEF NotifyInv, ConditionHeld, InRegion, Region, NothingSeen
<1>3. /\ UNCHANGED <<Pending, Notified>>
      /\ \A p \in Producers : x5'[p] = x5[p]
      /\ \A d \in Consumers \ {c} : x5'[d] = x5[d]
      /\ x5'[c] = "unlock" /\ x5' \in [C!AllThreads -> C!Points]
  BY <1>1, ProducersStay DEF NotifyInv, C!Points
<1>4. ConditionTyped'
  BY <1>1, <1>3 DEF NotifyInv, ConditionTyped
<1>5. ConditionHeld'
  <2>1. \A t \in C!AllThreads \ {c} : InRegion(t)' => InRegion(t)
    BY <1>1, <1>3, ConditionBasics DEF InRegion, C!Inside
  <2>2. "unlock" \in ConsumerPoints
    BY DEF ConsumerPoints, C!Points
  <2>3. QED BY <1>1, <1>2, <1>3, <2>1, <2>2 DEF NotifyInv, ConditionHeld
<1>6. GenerationCounts'
  BY <1>1, <1>3 DEF NotifyInv, ConditionTyped, GenerationCounts
<1>7. NothingSeen' /\ Enough'
  <2>1. Cardinality(Pending') \in Nat /\ Cardinality(Wakers') \in Nat
    BY ConditionBasics, ConditionSizes
  <2>2. QED BY <1>1, <1>2, <2>1 DEF NothingSeen, Enough
<1>8. QED BY <1>4, <1>5, <1>6, <1>7 DEF NotifyInv

\* A producer.

\* What depends on the consumers stays when a producer moves.
LEMMA ConsumersStay ==
    ASSUME ConditionAssumed, ConditionTyped, NEW p \in Producers, NEW q \in C!Points,
           x5' = [x5 EXCEPT ![p] = q]
    PROVE  /\ \A c \in Consumers : x5'[c] = x5[c]
           /\ \A r \in Producers \ {p} : x5'[r] = x5[r]
           /\ x5'[p] = q /\ x5' \in [C!AllThreads -> C!Points]
           /\ C!Asleep' = C!Asleep
<1>1. /\ \A t \in C!AllThreads \ {p} : x5'[t] = x5[t]
      /\ x5'[p] = q /\ x5' \in [C!AllThreads -> C!Points]
  BY ConditionBasics DEF ConditionTyped
<1>2. \A c \in Consumers : c \in C!AllThreads \ {p}
  BY ConditionBasics
<1>3. QED BY <1>1, <1>2, ConditionBasics DEF C!Asleep

\* It goes on without touching the items or the counter, and is pending or
\* waking afterwards if it was before.
LEMMA ProducerMoves ==
    ASSUME ConditionAssumed, NotifyInv, NEW p \in Producers, NEW q \in {"lock", "put",
           "advance", "out"},
           x5' = [x5 EXCEPT ![p] = q], UNCHANGED <<x3, x4, x6, x7, x8>>,
           x5[p] \in {"lock", "give"}, q = "advance" <=> x5[p] = "give" /\ ~ C!Inside(p),
           q \in {"lock", "put"} => x8[p] < MaxPut,
           x1' \in C!AllThreads \cup {NoThread}, q = "put" => x1' = p,
           \A t \in C!AllThreads \ {p} : x1 = t => x1' = t
    PROVE  NotifyInv'
<1>1. /\ \A c \in Consumers : x5'[c] = x5[c]
      /\ \A r \in Producers \ {p} : x5'[r] = x5[r]
      /\ x5'[p] = q /\ x5' \in [C!AllThreads -> C!Points] /\ C!Asleep' = C!Asleep
  BY ConsumersStay DEF NotifyInv, C!Points
<1>2. UNCHANGED Pending
  BY <1>1 DEF Pending, C!Inside
<1>3. UNCHANGED <<Notified, Wakers>>
  <2>1. UNCHANGED Notified
    BY <1>2 DEF Notified
  <2>2. {r \in Producers : x5'[r] = "wake"} = {r \in Producers : x5[r] = "wake"}
    BY <1>1
  <2>3. {c \in Consumers : Looks(c)'} = {c \in Consumers : Looks(c)}
    BY <1>1 DEF Looks
  <2>4. QED BY <1>2, <2>1, <2>2, <2>3 DEF Wakers
<1>4. ConditionTyped'
  BY <1>1 DEF NotifyInv, ConditionTyped
<1>5. ConditionHeld'
  <2>1. \A r \in Producers : /\ x5'[r] \in ProducerPoints
                             /\ x5'[r] \in {"lock", "put"} => x8[r] < MaxPut
                             /\ r \in Pending => x8[r] > 0
    BY <1>1 DEF NotifyInv, ConditionHeld, ProducerPoints
  <2>2. \A t \in C!AllThreads \ {p} : InRegion(t)' => InRegion(t)
    BY <1>1, ConditionBasics DEF InRegion, C!Inside
  <2>3. InRegion(p)' => x1' = p
    BY <1>1 DEF InRegion, C!Inside, Region
  <2>4. QED BY <1>1, <1>2, <2>1, <2>2, <2>3 DEF NotifyInv, ConditionHeld
<1>6. GenerationCounts' /\ NothingSeen' /\ Enough'
  BY <1>1, <1>2, <1>3 DEF NotifyInv, GenerationCounts, NothingSeen, Enough
<1>7. QED BY <1>4, <1>5, <1>6 DEF NotifyInv

LEMMA ProducerLockStep ==
    ASSUME ConditionAssumed, NotifyInv, NEW p \in Producers, C!Lock(p)
    PROVE  NotifyInv'
<1>1. /\ x5[p] \in {"lock", "relock", "expired"} /\ x1 = NoThread /\ x1' = p
      /\ UNCHANGED <<x3, x4, x6, x7, x8>>
  BY DEF C!Lock, C!Enter, C!mutex!Acquire
<1>2. x5[p] = "lock" /\ x8[p] < MaxPut
  BY <1>1 DEF NotifyInv, ConditionHeld, ProducerPoints
<1>3. x5' = [x5 EXCEPT ![p] = "put"]
  BY <1>2 DEF C!Lock, C!Goto
<1>4. QED BY <1>1, <1>2, <1>3, ConditionBasics, ProducerMoves

LEMMA GiveStep ==
    ASSUME ConditionAssumed, NotifyInv, NEW p \in Producers, C!Give(p)
    PROVE  NotifyInv'
<1>1. PICK q \in {"lock", "advance", "out"} :
           /\ x5' = [x5 EXCEPT ![p] = q] /\ x5[p] = "give"
           /\ x1 = p /\ x1' = NoThread /\ UNCHANGED <<x3, x4, x6, x7, x8>>
           /\ q = "advance" <=> ~ C!Inside(p)
           /\ q = "lock" => x8[p] < MaxPut
  BY DEF C!Give, C!Goto, C!mutex!Release
<1>2. QED BY <1>1, ConditionBasics, ProducerMoves

\* One item more, and one producer more that has to tell of it.
LEMMA PutStep ==
    ASSUME ConditionAssumed, NotifyInv, NEW p \in Producers, C!Put(p)
    PROVE  NotifyInv'
<1> DEFINE q == IF C!Inside(p) THEN "advance" ELSE "give"
<1>1. /\ x5[p] = "put" /\ x4' = x4 + 1 /\ x8' = [x8 EXCEPT ![p] = @ + 1]
      /\ x5' = [x5 EXCEPT ![p] = q] /\ UNCHANGED <<x1, x3, x6, x7>>
  BY DEF C!Put, C!Goto, C!Quiet
<1>2. x1 = p /\ p \in C!AllThreads
  BY <1>1, ConditionBasics DEF NotifyInv, ConditionHeld, InRegion, Region
<1>3. /\ \A c \in Consumers : x5'[c] = x5[c]
      /\ \A r \in Producers \ {p} : x5'[r] = x5[r] /\ x8'[r] = x8[r]
      /\ x5'[p] = q /\ x5' \in [C!AllThreads -> C!Points] /\ C!Asleep' = C!Asleep
  <2>1. q \in C!Points /\ ConditionTyped
    BY DEF NotifyInv, C!Points
  <2>2. \A r \in Producers \ {p} : x8'[r] = x8[r]
    BY <1>1 DEF NotifyInv
  <2> HIDE DEF q
  <2>3. QED BY <1>1, <2>1, <2>2, ConsumersStay
<1>4. x8[p] \in 0 .. MaxPut - 1 /\ x8'[p] = x8[p] + 1 /\ MaxPut \in Nat
  BY <1>1 DEF NotifyInv, ConditionTyped, ConditionHeld, ConditionAssumed, C!ConditionConstants
<1>5. p \notin Pending /\ Pending' = Pending \cup {p}
  BY <1>1, <1>3 DEF Pending, C!Inside
<1>6. Notified' = Notified
  <2>1. \A n \in Producers \X (1 .. MaxPut) :
           (n[2] < x8'[n[1]] \/ (n[2] = x8'[n[1]] /\ n[1] \notin Pending'))
           <=> (n[2] < x8[n[1]] \/ (n[2] = x8[n[1]] /\ n[1] \notin Pending))
    <3>1. ASSUME NEW r \in Producers, NEW i \in 1 .. MaxPut
          PROVE  (i < x8'[r] \/ (i = x8'[r] /\ r \notin Pending'))
                 <=> (i < x8[r] \/ (i = x8[r] /\ r \notin Pending))
      BY <1>3, <1>4, <1>5
    <3>2. QED BY <3>1
  <2>2. QED BY <2>1 DEF Notified
<1>7. ConditionTyped'
  BY <1>1, <1>3, <1>4 DEF NotifyInv, ConditionTyped
<1>8. ConditionHeld'
  <2>1. \A r \in Producers : /\ x5'[r] \in ProducerPoints
                             /\ x5'[r] \in {"lock", "put"} => x8'[r] < MaxPut
                             /\ r \in Pending' => x8'[r] > 0
    BY <1>3, <1>4, <1>5 DEF NotifyInv, ConditionHeld, ProducerPoints
  <2>2. \A t \in C!AllThreads \ {p} : InRegion(t)' => InRegion(t)
    BY <1>1, <1>3, ConditionBasics DEF InRegion, C!Inside
  <2>3. QED BY <1>1, <1>2, <1>3, <2>1, <2>2 DEF NotifyInv, ConditionHeld
<1>9. GenerationCounts'
  BY <1>1, <1>6 DEF NotifyInv, GenerationCounts
<1>10. NothingSeen'
  <2>1. \A c \in Consumers : x5[c] # "load"
    BY <1>2, ConditionBasics DEF NotifyInv, ConditionHeld, InRegion, Region
  <2>2. Cardinality(Pending') = Cardinality(Pending) + 1 /\ Cardinality(Pending) \in Nat
    BY <1>2, <1>5, ConditionBasics, ConditionSizes, OneMore
  <2>3. QED BY <1>1, <1>3, <2>1, <2>2 DEF NotifyInv, ConditionTyped, NothingSeen
<1>11. Enough'
  <2>1. p \notin Wakers
    BY <1>1, <1>5, ConditionBasics DEF Wakers
  <2>2. Wakers \cup {p} \subseteq Wakers'
    BY <1>1, <1>3, <1>5 DEF Wakers, Looks
  <2>3. Cardinality(Wakers \cup {p}) = Cardinality(Wakers) + 1
    BY <1>2, <2>1, ConditionBasics, OneMore
  <2>4. Wakers \cup {p} \in SUBSET C!AllThreads /\ Wakers' \in SUBSET C!AllThreads
    BY <1>2, ConditionBasics
  <2>5. Cardinality(Wakers \cup {p}) <= Cardinality(Wakers')
    BY <2>2, <2>4, AtLeast
  <2>6. QED BY <1>1, <1>3, <2>3, <2>4, <2>5, ConditionBasics, ConditionSizes DEF NotifyInv,
            ConditionTyped, Enough
<1>12. QED BY <1>7, <1>8, <1>9, <1>10, <1>11 DEF NotifyInv

\* One notification more: whoever waits has seen an older generation now.
LEMMA ConditionAdvanceStep ==
    ASSUME ConditionAssumed, NotifyInv, NEW p \in Producers, C!ConditionAdvance(p)
    PROVE  NotifyInv'
<1>1. /\ x5[p] = "advance" /\ x3' = (x3 + 1) % Generations
      /\ x5' = [x5 EXCEPT ![p] = "wake"] /\ UNCHANGED <<x1, x4, x6, x7, x8>>
  BY DEF C!ConditionAdvance, C!Goto, C!Quiet
<1>2. /\ \A c \in Consumers : x5'[c] = x5[c]
      /\ \A r \in Producers \ {p} : x5'[r] = x5[r]
      /\ x5'[p] = "wake" /\ x5' \in [C!AllThreads -> C!Points] /\ C!Asleep' = C!Asleep
  BY <1>1, ConsumersStay DEF NotifyInv, C!Points
<1>3. p \in Pending /\ Pending' = Pending \ {p}
  BY <1>1, <1>2 DEF Pending, C!Inside
<1>4. x8[p] \in 1 .. MaxPut
  BY <1>3 DEF NotifyInv, ConditionTyped, ConditionHeld
<1>5. <<p, x8[p]>> \notin Notified /\ Notified' = Notified \cup {<<p, x8[p]>>}
  <2>1. ASSUME NEW r \in Producers, NEW i \in 1 .. MaxPut
        PROVE  <<r, i>> \in Notified' <=> <<r, i>> \in Notified \/ <<r, i>> = <<p, x8[p]>>
    BY <1>1, <1>3, <1>4 DEF Notified
  <2>2. /\ Notified \subseteq Producers \X (1 .. MaxPut)
        /\ Notified' \subseteq Producers \X (1 .. MaxPut)
        /\ <<p, x8[p]>> \in Producers \X (1 .. MaxPut)
    BY <1>4 DEF Notified
  <2>3. Notified' = Notified \cup {<<p, x8[p]>>}
    BY <2>1, <2>2
  <2>4. <<p, x8[p]>> \notin Notified
    BY <1>3 DEF Notified
  <2>5. QED BY <2>3, <2>4
<1>6. x3' = x3 + 1 /\ x3 + 1 = Cardinality(Notified')
  <2>1. IsFiniteSet(Notified) /\ IsFiniteSet(Notified') /\ Cardinality(Notified') < Generations
    <3>1. IsFiniteSet(Producers) /\ IsFiniteSet(1 .. MaxPut)
          /\ Cardinality(1 .. MaxPut) = MaxPut
      <4>1. MaxPut \in Nat \ {0}
        BY DEF ConditionAssumed, C!ConditionConstants
      <4>2. /\ IsFiniteSet(1 .. MaxPut)
            /\ Cardinality(1 .. MaxPut) = IF 1 > MaxPut THEN 0 ELSE MaxPut - 1 + 1
        BY <4>1, FS_Interval
      <4>3. QED BY <4>1, <4>2, ConditionBasics, ConditionSizes
    <3>2. /\ IsFiniteSet(Producers \X (1 .. MaxPut))
          /\ Cardinality(Producers \X (1 .. MaxPut)) < Generations
      BY <3>1, FS_Product DEF ConditionAssumed, NeverComesRound
    <3>3. Notified \subseteq Producers \X (1 .. MaxPut)
              /\ Notified' \subseteq Producers \X (1 .. MaxPut)
      BY DEF Notified
    <3>4. /\ IsFiniteSet(Notified) /\ IsFiniteSet(Notified')
          /\ Cardinality(Notified') <= Cardinality(Producers \X (1 .. MaxPut))
      BY <3>2, <3>3, FS_Subset
    <3>5. Cardinality(Notified') \in Nat /\ Cardinality(Producers \X (1 .. MaxPut)) \in Nat
          /\ Generations \in Nat
      BY <3>2, <3>4, FS_CardinalityType DEF ConditionAssumed, C!ConditionConstants
    <3>6. QED BY <3>2, <3>4, <3>5
  <2>2. Cardinality(Notified') = Cardinality(Notified) + 1
    BY <1>5, <2>1, FS_AddElement
  <2>3. x3 + 1 \in 0 .. Generations - 1 /\ Generations \in Nat \ {0}
    BY <2>1, <2>2 DEF NotifyInv, ConditionTyped, GenerationCounts, ConditionAssumed,
           C!ConditionConstants
  <2>4. (x3 + 1) % Generations = x3 + 1
    BY <2>3
  <2>5. QED BY <1>1, <2>2, <2>4 DEF NotifyInv, GenerationCounts
<1>7. \A c \in Consumers : x6[c] < x3'
  BY <1>6 DEF NotifyInv, ConditionTyped, GenerationCounts
<1>8. ConditionTyped'
  BY <1>1, <1>2, <1>6 DEF NotifyInv, ConditionTyped
<1>9. ConditionHeld'
  <2>1. \A r \in Producers : /\ x5'[r] \in ProducerPoints
                             /\ x5'[r] \in {"lock", "put"} => x8[r] < MaxPut
                             /\ r \in Pending' => x8[r] > 0
    BY <1>2, <1>3 DEF NotifyInv, ConditionHeld, ProducerPoints
  <2>2. \A t \in C!AllThreads \ {p} : InRegion(t)' => InRegion(t)
    BY <1>1, <1>2, ConditionBasics DEF InRegion, C!Inside
  <2>3. InRegion(p)' => InRegion(p)
    BY <1>1, <1>2 DEF InRegion, C!Inside, Region
  <2>4. QED BY <1>1, <1>2, <2>1, <2>2, <2>3 DEF NotifyInv, ConditionHeld
<1>10. GenerationCounts'
  BY <1>1, <1>6, <1>7 DEF NotifyInv, ConditionTyped, GenerationCounts
<1>11. NothingSeen'
  BY <1>1, <1>2, <1>7 DEF NotifyInv, NothingSeen
<1>12. Enough'
  <2>1. Wakers \subseteq Wakers'
    <3>1. \A c \in Consumers : Looks(c) => Looks(c)'
      BY <1>1, <1>2, <1>7 DEF NotifyInv, Looks
    <3>2. QED BY <1>2, <1>3, <3>1 DEF Wakers
  <2>2. Cardinality(Wakers) <= Cardinality(Wakers')
    BY <2>1, ConditionBasics, AtLeast
  <2>3. QED BY <1>1, <1>2, <2>2, ConditionBasics, ConditionSizes DEF NotifyInv,
            ConditionTyped, Enough
<1>13. QED BY <1>8, <1>9, <1>10, <1>11, <1>12 DEF NotifyInv

\* A wake takes the producer from those who have to see to an item; if it picks
\* a sleeper that will not look, then nobody else has missed anything.
LEMMA AddrWakeStep ==
    ASSUME ConditionAssumed, NotifyInv, NEW p \in Producers, C!AddrWake(p)
    PROVE  NotifyInv'
<1> DEFINE q == IF C!Inside(p) THEN "give" ELSE IF x8[p] < MaxPut THEN "lock" ELSE "out"
<1>1. PICK Chosen \in C!Picked(x7[p][1] = "broadcast") :
           x5' = [t \in C!AllThreads |->
                    IF t \in Chosen THEN "woken" ELSE IF t # p THEN x5[t] ELSE q]
  BY DEF C!AddrWake
<1>2. x5[p] = "wake" /\ UNCHANGED <<x1, x3, x4, x6, x7, x8>>
  BY DEF C!AddrWake, C!Quiet
<1>3. /\ Chosen \subseteq C!Asleep
      /\ Chosen = C!Asleep \/ \E c \in C!Asleep : Chosen = {c}
  BY DEF C!Picked
<1>4. q \in {"give", "lock", "out"} /\ (q = "give" <=> C!Inside(p)) /\ (q = "lock" =>
          x8[p] < MaxPut)
  OBVIOUS
<1> HIDE DEF q
<1>5. /\ \A c \in Chosen : c \in Consumers /\ x5[c] = "asleep" /\ x5'[c] = "woken"
      /\ \A c \in Consumers \ Chosen : x5'[c] = x5[c]
      /\ \A r \in Producers \ {p} : x5'[r] = x5[r]
      /\ x5'[p] = q
  BY <1>1, <1>3, ConditionBasics DEF C!Asleep
<1>6. x5' \in [C!AllThreads -> C!Points]
  BY <1>1, <1>4 DEF NotifyInv, ConditionTyped, C!Points
<1>7. UNCHANGED Pending
  BY <1>2, <1>4, <1>5 DEF Pending, C!Inside
<1>8. UNCHANGED Notified
  BY <1>2, <1>7 DEF Notified
<1>9. ConditionTyped'
  BY <1>2, <1>6 DEF NotifyInv, ConditionTyped
<1>10. ConditionHeld'
  <2>1. \A r \in Producers : /\ x5'[r] \in ProducerPoints
                             /\ x5'[r] \in {"lock", "put"} => x8[r] < MaxPut
                             /\ r \in Pending => x8[r] > 0
    BY <1>4, <1>5 DEF NotifyInv, ConditionHeld, ProducerPoints
  <2>2. \A c \in Consumers : x5'[c] \in ConsumerPoints
    BY <1>5 DEF NotifyInv, ConditionHeld, ConsumerPoints, C!Points
  <2>3. \A c \in Consumers : InRegion(c)' => InRegion(c)
    BY <1>5, ConditionBasics DEF InRegion, Region
  <2>4. \A r \in Producers : InRegion(r)' => InRegion(r)
    BY <1>2, <1>4, <1>5 DEF InRegion, C!Inside, Region
  <2>5. QED BY <1>2, <1>7, <2>1, <2>2, <2>3, <2>4, ConditionBasics DEF NotifyInv, ConditionHeld
<1>11. GenerationCounts'
  BY <1>2, <1>8 DEF NotifyInv, GenerationCounts
<1>12. NothingSeen'
  <2>1. \A c \in Consumers : /\ x5'[c] = "load" => x5[c] = "load"
                             /\ x5'[c] \in Remembers => x5[c] \in Remembers
    BY <1>5 DEF Remembers
  <2>2. QED BY <1>2, <1>7, <2>1 DEF NotifyInv, NothingSeen
<1>13. Enough'
  <2>1. CASE C!Asleep' = {}
    BY <2>1 DEF Enough
  <2>2. CASE C!Asleep' # {}
    <3>1. C!Asleep' \subseteq C!Asleep \ Chosen
      BY <1>5 DEF C!Asleep
    <3>2. PICK d \in C!Asleep : Chosen = {d}
      BY <1>3, <2>2, <3>1
    <3>3. d \in Consumers /\ x5[d] = "asleep" /\ x5'[d] = "woken"
      BY <1>5, <3>2
    <3>4. Cardinality(Wakers) \in Nat /\ Cardinality(Wakers') \in Nat
              /\ Cardinality(Pending) \in Nat
      BY ConditionBasics, ConditionSizes
    <3>5. CASE x6[d] = x3
      <4>1. x4 <= Cardinality(Pending)
        BY <3>3, <3>5 DEF NotifyInv, NothingSeen, Remembers
      <4>2. Cardinality(Pending) <= Cardinality(Wakers')
        BY <1>7, ConditionBasics, AtLeast
      <4>3. QED BY <1>2, <3>4, <4>1, <4>2 DEF NotifyInv, ConditionTyped, Enough
    <3>6. CASE x6[d] # x3
      <4>1. p \in Wakers /\ p \in C!AllThreads /\ d \in C!AllThreads
        BY <1>2, <3>3, ConditionBasics DEF Wakers
      <4>2. d \notin Wakers /\ d # p
        BY <1>2, <3>3, ConditionBasics DEF Wakers, Pending, Looks
      <4>3. (Wakers \ {p}) \cup {d} \subseteq Wakers'
        <5>1. d \in Wakers'
          BY <1>2, <3>3, <3>6 DEF Wakers, Looks
        <5>2. \A c \in Consumers : Looks(c) => Looks(c)'
          BY <1>2, <1>5 DEF Looks
        <5>3. QED BY <1>5, <1>7, <5>1, <5>2 DEF Wakers
      <4>4. Cardinality(Wakers \ {p}) = Cardinality(Wakers) - 1
        BY <4>1, ConditionBasics, OneLess
      <4>5. Wakers \ {p} \in SUBSET C!AllThreads /\ d \notin Wakers \ {p}
        BY <4>2, ConditionBasics
      <4>6. Cardinality((Wakers \ {p}) \cup {d}) = Cardinality(Wakers \ {p}) + 1
        BY <4>1, <4>5, OneMore
      <4>7. (Wakers \ {p}) \cup {d} \in SUBSET C!AllThreads /\ Wakers' \in SUBSET C!AllThreads
        BY <4>1, <4>5, ConditionBasics
      <4>8. Cardinality((Wakers \ {p}) \cup {d}) <= Cardinality(Wakers')
        BY <4>3, <4>7, AtLeast
      <4>9. Cardinality(Wakers) <= Cardinality(Wakers')
        BY <3>4, <4>4, <4>6, <4>8
      <4>10. x4 <= Cardinality(Wakers)
        BY <3>2 DEF NotifyInv, Enough
      <4>11. QED BY <1>2, <3>4, <4>9, <4>10 DEF NotifyInv, ConditionTyped, Enough
    <3>7. QED BY <3>5, <3>6
  <2>3. QED BY <2>1, <2>2
<1>14. QED BY <1>9, <1>10, <1>11, <1>12, <1>13 DEF NotifyInv

LEMMA NotifyInit == ConditionAssumed /\ C!Init => NotifyInv
<1> SUFFICES ASSUME ConditionAssumed, C!Init PROVE NotifyInv
  OBVIOUS
<1>1. \A t \in C!AllThreads : x5[t] = "lock"
  BY DEF C!Init
<1>2. Notified = {} /\ Pending = {}
  <2>1. Pending = {}
    BY <1>1, ConditionBasics DEF Pending
  <2>2. QED BY <2>1 DEF Notified, C!Init
<1>3. ConditionTyped
  BY DEF C!Init, ConditionTyped, C!Points, C!mutex!Init, ConditionAssumed, C!ConditionConstants
<1>4. ConditionHeld
  BY <1>1, <1>2, ConditionBasics DEF ConditionHeld, C!Init, ProducerPoints, ConsumerPoints,
         C!Points, InRegion, Region,
     ConditionAssumed, C!ConditionConstants
<1>5. GenerationCounts
  BY <1>2, FS_EmptySet DEF GenerationCounts, C!Init
<1>6. NothingSeen /\ Enough
  BY <1>1, ConditionBasics DEF NothingSeen, Enough, Remembers, C!Asleep
<1>7. QED BY <1>3, <1>4, <1>5, <1>6 DEF NotifyInv

LEMMA NotifyStutter == NotifyInv /\ UNCHANGED C!vars => NotifyInv'
<1> SUFFICES ASSUME NotifyInv, UNCHANGED C!vars PROVE NotifyInv'
  OBVIOUS
<1>1. UNCHANGED <<x1, x3, x4, x5, x6, x7, x8>>
  BY DEF C!vars
<1>2. UNCHANGED <<Pending, C!Asleep>>
  BY <1>1 DEF Pending, C!Inside, C!Asleep
<1>3. UNCHANGED <<Notified, Wakers>>
  BY <1>1, <1>2 DEF Notified, Wakers, Looks
<1>4. ConditionTyped' /\ ConditionHeld'
  BY <1>1, <1>2 DEF NotifyInv, ConditionTyped, ConditionHeld, InRegion, C!Inside
<1>5. GenerationCounts' /\ NothingSeen' /\ Enough'
  BY <1>1, <1>2, <1>3 DEF NotifyInv, GenerationCounts, NothingSeen, Enough
<1>6. QED BY <1>4, <1>5 DEF NotifyInv

LEMMA NotifyNext == ConditionAssumed /\ NotifyInv /\ [C!Next]_(C!vars) => NotifyInv'
<1> SUFFICES ASSUME ConditionAssumed, NotifyInv, [C!Next]_(C!vars) PROVE NotifyInv'
  OBVIOUS
<1>1. ASSUME NEW c \in Consumers,
          C!ConsumerStep(c) \/ C!WokenBlocksAgain(c)
             \/ C!WaitTimeout(c) \/ C!WaitFails(c) \/ C!RelockFails(c)
      PROVE  NotifyInv'
  BY <1>1, ConsumerLockStep, TestStep, LoadGenerationStep, ConsumerLeaves, ConsumerWaits
     DEF C!ConsumerStep
<1>2. ASSUME NEW p \in Producers, C!ProducerStep(p)
      PROVE  NotifyInv'
  BY <1>2, ProducerLockStep, PutStep, GiveStep, ConditionAdvanceStep,
         AddrWakeStep DEF C!ProducerStep
<1>3. CASE UNCHANGED C!vars
  BY <1>3, NotifyStutter
<1>4. QED BY <1>1, <1>2, <1>3 DEF C!Next, C!Quiescent

\* What the type invariant says besides: the mutex is entered once, and there
\* are no more items than were put.
Given == {n \in Producers \X (1 .. MaxPut) : n[2] <= x8[n[1]]}

ConditionBounds ==
    /\ x2 = IF x1 = NoThread THEN 0 ELSE 1
    /\ x4 <= Cardinality(Given)

\* One item for each producer and turn at most.
LEMMA AllGiven ==
    ASSUME ConditionAssumed
    PROVE  LET turns == Producers \X (1 .. MaxPut) IN
           /\ IsFiniteSet(turns)
           /\ Cardinality(turns) = Cardinality(Producers) * MaxPut
           /\ Cardinality(turns) \in Nat
<1>1. MaxPut \in Nat \ {0}
  BY DEF ConditionAssumed, C!ConditionConstants
<1>2. /\ IsFiniteSet(1 .. MaxPut)
      /\ Cardinality(1 .. MaxPut) = MaxPut
  <2>1. /\ IsFiniteSet(1 .. MaxPut)
        /\ Cardinality(1 .. MaxPut) = IF 1 > MaxPut THEN 0 ELSE MaxPut - 1 + 1
    BY <1>1, FS_Interval
  <2>2. QED BY <1>1, <2>1
<1>3. IsFiniteSet(Producers) /\ Cardinality(Producers) \in Nat
  BY ConditionBasics, ConditionSizes
<1>4. QED BY <1>1, <1>2, <1>3, FS_Product, FS_CardinalityType

LEMMA BoundsInit == ASSUME ConditionAssumed, C!Init PROVE ConditionBounds
<1>1. Given = {}
  BY DEF Given, C!Init, ConditionAssumed, C!ConditionConstants
<1>2. QED BY <1>1, FS_EmptySet DEF ConditionBounds, C!Init, C!mutex!Init

LEMMA BoundsNext ==
    ASSUME ConditionAssumed, NotifyInv, ConditionBounds, [C!Next]_(C!vars)
    PROVE  ConditionBounds'
<1>1. x2' = IF x1' = NoThread THEN 0 ELSE 1
  <2>1. ASSUME NEW t \in C!AllThreads, C!mutex!Acquire(t) \/ C!mutex!Release(t)
        PROVE  x2' = IF x1' = NoThread THEN 0 ELSE 1
    BY <2>1, ConditionBasics DEF C!mutex!Acquire, C!mutex!Release
  <2>2. CASE C!Quiet
    BY <2>2 DEF C!Quiet, ConditionBounds
  <2>3. \/ C!Quiet
        \/ \E t \in C!AllThreads : C!mutex!Acquire(t) \/ C!mutex!Release(t)
    BY ConditionBasics DEF C!Next, C!vars, C!Quiet, C!ConsumerStep, C!ProducerStep, C!Lock,
           C!Enter, C!Test, C!LoadGeneration,
       C!UnlockToWait, C!AddrWait, C!WokenReturns, C!Leave, C!WokenBlocksAgain,
           C!WaitTimeout, C!WaitFails, C!RelockFails,
       C!Put, C!Give, C!ConditionAdvance, C!AddrWake, C!Quiescent
  <2>4. QED BY <2>1, <2>2, <2>3
<1>2. CASE UNCHANGED <<x4, x8>>
  BY <1>1, <1>2 DEF ConditionBounds, Given
<1>3. ASSUME NEW c \in Consumers, C!Test(c), x4 > 0, x4' = x4 - 1
      PROVE  ConditionBounds'
  <2>1. UNCHANGED x8
    BY <1>3 DEF C!Test
  <2>2. Given \in SUBSET (Producers \X (1 .. MaxPut))
    BY DEF Given
  <2>3. Cardinality(Given) \in Nat
    BY <2>2, AllGiven, FS_Subset, FS_CardinalityType
  <2>4. x4' <= Cardinality(Given')
    BY <1>3, <2>1, <2>3 DEF ConditionBounds, Given, NotifyInv, ConditionTyped
  <2>5. QED BY <1>1, <2>4 DEF ConditionBounds
<1>4. ASSUME NEW p \in Producers, C!Put(p) PROVE ConditionBounds'
  <2>1. /\ x8[p] \in 0 .. MaxPut - 1 /\ x8' = [x8 EXCEPT ![p] = @ + 1]
        /\ x4' = x4 + 1 /\ MaxPut \in Nat
    BY <1>4 DEF C!Put, NotifyInv, ConditionTyped, ConditionHeld, ConditionAssumed,
           C!ConditionConstants
  <2>2. /\ <<p, x8[p] + 1>> \in Producers \X (1 .. MaxPut)
        /\ <<p, x8[p] + 1>> \notin Given
    BY <2>1 DEF Given
  <2>3. ASSUME NEW r \in Producers, NEW i \in 1 .. MaxPut
        PROVE  i <= x8'[r] <=> i <= x8[r] \/ <<r, i>> = <<p, x8[p] + 1>>
    BY <2>1 DEF NotifyInv, ConditionTyped
  <2>4. Given' = Given \cup {<<p, x8[p] + 1>>}
    BY <2>2, <2>3 DEF Given
  <2>5. IsFiniteSet(Given) /\ Cardinality(Given) \in Nat
    BY AllGiven, FS_Subset, FS_CardinalityType DEF Given
  <2>6. Cardinality(Given') = Cardinality(Given) + 1
    BY <2>2, <2>4, <2>5, FS_AddElement
  <2>7. QED BY <1>1, <2>1, <2>5, <2>6 DEF ConditionBounds, NotifyInv, ConditionTyped
<1>5. QED
  BY <1>2, <1>3, <1>4 DEF C!Next, C!vars, C!ConsumerStep, C!ProducerStep, C!Lock, C!Test,
         C!LoadGeneration,
     C!UnlockToWait, C!AddrWait, C!WokenReturns, C!Leave, C!WokenBlocksAgain, C!WaitTimeout,
         C!WaitFails, C!RelockFails,
     C!Give, C!ConditionAdvance, C!AddrWake, C!Quiescent

LEMMA NotifyTypeOK == ASSUME ConditionAssumed, NotifyInv, ConditionBounds PROVE C!TypeOK
<1>1. Cardinality(Producers) * MaxPut \in Nat /\ Generations \in Nat
  BY AllGiven DEF ConditionAssumed, C!ConditionConstants
<1>2. x3 \in 0 .. Generations - 1
  <2>1. Notified \in SUBSET (Producers \X (1 .. MaxPut))
    BY DEF Notified
  <2>2. Cardinality(Notified) <= Cardinality(Producers) * MaxPut
    BY <2>1, AllGiven, FS_Subset
  <2>3. QED BY <1>1, <2>2 DEF NotifyInv, ConditionTyped, GenerationCounts, ConditionAssumed,
            NeverComesRound
<1>3. x4 \in 0 .. Cardinality(Producers) * MaxPut
  <2>1. Given \in SUBSET (Producers \X (1 .. MaxPut))
    BY DEF Given
  <2>2. /\ Cardinality(Given) <= Cardinality(Producers) * MaxPut
        /\ Cardinality(Given) \in Nat
    BY <2>1, AllGiven, FS_Subset, FS_CardinalityType
  <2>3. QED BY <1>1, <2>2 DEF NotifyInv, ConditionTyped, ConditionBounds
<1>4. x6 \in [Consumers -> 0 .. Generations - 1]
  <2>1. \A c \in Consumers : x6[c] \in 0 .. Generations - 1
    BY <1>1, <1>2 DEF NotifyInv, ConditionTyped, GenerationCounts
  <2>2. QED BY <2>1 DEF NotifyInv, ConditionTyped
<1>5. QED BY <1>2, <1>3, <1>4 DEF NotifyInv, ConditionTyped, ConditionBounds, C!TypeOK

\* More items are there than consumers failed, so that somebody who is to see to
\* one is on the way.
LEMMA NotifyKept == ASSUME ConditionAssumed, NotifyInv PROVE C!NoLostNotify
<1> SUFFICES ASSUME x4 > Cardinality(C!Failed), C!Asleep # {}
             PROVE  \E t \in C!AllThreads : C!OnTheWay(t)
  BY DEF C!NoLostNotify, C!Asleep
<1>1. /\ C!Failed \in SUBSET C!AllThreads /\ Wakers \in SUBSET C!AllThreads
      /\ Cardinality(C!Failed) \in Nat /\ Cardinality(Wakers) \in Nat
  BY ConditionSizes, ConditionBasics DEF C!Failed
<1>2. PICK t \in Wakers : t \notin C!Failed
  <2>1. Cardinality(Wakers) > Cardinality(C!Failed)
    BY <1>1 DEF NotifyInv, ConditionTyped, Enough
  <2>2. ~ (Wakers \subseteq C!Failed)
    BY <1>1, <2>1, AtLeast
  <2>3. QED BY <2>2
<1>3. t \in C!AllThreads /\ C!OnTheWay(t)
  BY <1>2, ConditionBasics DEF Wakers, Pending, Looks, C!OnTheWay, C!Failed
<1>4. QED BY <1>3

HIDE CSets

-----------------------------------------------------------------------------
\* Exit handlers: x1 is functions, x2 finiDone, x3 frames, x4 ended, x5 registered,
\* x6 called, x7 taken.

LEMMA LeastNat == ASSUME NEW S, S \subseteq Nat, S # {}
  PROVE \E x \in S : \A y \in S : x <= y
<1> DEFINE T == {0 .. m : m \in S}
<1>1. T \subseteq FiniteSubsetsOf(Nat) /\ T # {}
  <2>1. ASSUME NEW m \in S PROVE IsFiniteSet(0 .. m) /\ 0 .. m \subseteq Nat
    BY FS_Interval
  <2>2. QED BY <2>1 DEF FiniteSubsetsOf
<1>2. IsWellFoundedOn(StrictSubsetOrdering(Nat), FiniteSubsetsOf(Nat))
  BY FS_StrictSubsetOrderingWellFounded
<1>3. PICK Least \in T : \A Y \in T : ~ (<<Y, Least>> \in StrictSubsetOrdering(Nat))
  <2> HIDE DEF T
  <2> QED BY <1>1, <1>2, WFMin, Zenon
<1>4. PICK x \in S : Least = 0 .. x
  OBVIOUS
<1>5. ASSUME NEW y \in S, y < x PROVE FALSE
  <2>1. 0 .. y \subseteq Nat /\ Least \subseteq Nat /\ 0 .. y \subseteq Least /\ 0 .. y # Least
    BY <1>4, <1>5
  <2>2. <<0 .. y, Least>> \in StrictSubsetOrdering(Nat)
    BY <2>1 DEF StrictSubsetOrdering
  <2>3. QED BY <1>3, <2>2
<1>6. QED BY <1>5

\* The walk of a list.

Walk(list, wanted, n, picked) ==
    picked = [m \in 0 .. n |->
                 IF m = 0 THEN << >>
                 ELSE IF list[m] \in wanted THEN Append(picked[m - 1], list[m])
                 ELSE picked[m - 1]]

\* It comes to the end of the list.
LEMMA WalkEnds ==
    ASSUME NEW list, NEW wanted, Len(list) \in Nat
    PROVE  \E picked : Walk(list, wanted, Len(list), picked)
<1> DEFINE S == {n \in 0 .. Len(list) : ~ \E picked : Walk(list, wanted, n, picked)}
<1>1. SUFFICES ASSUME S # {} PROVE FALSE
  OBVIOUS
<1>2. PICK x \in S : \A y \in S : x <= y
  <2>1. S \subseteq Nat
    OBVIOUS
  <2> HIDE DEF S
  <2>2. QED BY <1>1, <2>1, LeastNat
<1>3. x # 0
  <2>1. Walk(list, wanted, 0, [m \in 0 .. 0 |-> << >>])
    BY DEF Walk
  <2>2. QED BY <2>1
<1>4. PICK g : Walk(list, wanted, x - 1, g)
  BY <1>2, <1>3
<1> DEFINE h == [m \in 0 .. x |->
                    IF m < x THEN g[m]
                    ELSE IF list[x] \in wanted THEN Append(g[x - 1], list[x]) ELSE g[x - 1]]
<1>5. Walk(list, wanted, x, h)
  <2>1. ASSUME NEW m \in 0 .. x
        PROVE  h[m] = IF m = 0 THEN << >>
                      ELSE IF list[m] \in wanted THEN Append(h[m - 1], list[m])
                      ELSE h[m - 1]
    <3>1. CASE m = 0
      BY <1>3, <1>4, <3>1 DEF Walk
    <3>2. CASE m # 0 /\ m < x
      <4>1. m \in 0 .. (x - 1) /\ m - 1 \in 0 .. x /\ m - 1 < x
        BY <3>2
      <4>2. g[m] = IF list[m] \in wanted THEN Append(g[m - 1], list[m]) ELSE g[m - 1]
        BY <1>4, <3>2, <4>1 DEF Walk
      <4>3. QED BY <3>2, <4>1, <4>2
    <3>3. CASE m = x
      BY <1>3, <3>3
    <3>4. QED BY <3>1, <3>2, <3>3
  <2> HIDE DEF h
  <2>2. h = [m \in 0 .. x |-> h[m]]
    BY DEF h
  <2>3. QED BY <2>1, <2>2 DEF Walk
<1>6. QED BY <1>5

InOrder(list, earlier) ==
    \A i, j \in 1 .. Len(list) : i < j => <<list[i], list[j]>> \in earlier

\* What it finds of the first n entries: those wanted, in the order of the list.
LEMMA PickedList ==
    ASSUME NEW Entries, NEW list \in Seq(Entries), NEW wanted
    PROVE  /\ E!Picked(list, wanted) \in Seq(Entries)
           /\ E!Range(E!Picked(list, wanted)) = E!Range(list) \cap wanted
           /\ \A earlier : InOrder(list, earlier) => InOrder(E!Picked(list, wanted), earlier)
<1> DEFINE walk == CHOOSE picked : Walk(list, wanted, Len(list), picked)
<1>1. Len(list) \in Nat /\ Walk(list, wanted, Len(list), walk)
  BY WalkEnds
<1>2. E!Picked(list, wanted) = walk[Len(list)]
  BY DEF E!Picked, Walk
<1> HIDE DEF walk
<1> DEFINE Right(n) ==
      /\ walk[n] \in Seq(Entries)
      /\ \A x : (\E i \in 1 .. Len(walk[n]) : walk[n][i] = x) <=>
                  x \in wanted /\ \E i \in 1 .. n : list[i] = x
      /\ \A earlier : InOrder(list, earlier) => InOrder(walk[n], earlier)
<1>3. walk[0] = << >>
  BY <1>1 DEF Walk
<1>4. ASSUME NEW n \in 0 .. Len(list), n # 0
      PROVE  walk[n] = IF list[n] \in wanted THEN Append(walk[n - 1], list[n])
                       ELSE walk[n - 1]
  BY <1>1, <1>4 DEF Walk
<1>5. Right(0)
  BY <1>3 DEF InOrder
<1>6. ASSUME NEW n \in 0 .. Len(list), n # 0, Right(n - 1) PROVE Right(n)
  <2>0. n \in 1 .. Len(list) /\ list[n] \in Entries /\ n - 1 \in Nat
    BY <1>6, <1>1
  <2>1. CASE list[n] \notin wanted
    <3>1. walk[n] = walk[n - 1]
      BY <1>4, <1>6, <2>1
    <3>2. \A x : x \in wanted =>
             ((\E i \in 1 .. n : list[i] = x) <=> \E i \in 1 .. (n - 1) : list[i] = x)
      BY <2>0, <2>1
    <3>3. QED BY <1>6, <3>1, <3>2
  <2>2. CASE list[n] \in wanted
    <3> DEFINE w == walk[n - 1]
    <3>1. walk[n] = Append(w, list[n]) /\ w \in Seq(Entries)
      BY <1>4, <1>6, <2>2
    <3> HIDE DEF w
    <3>2. /\ walk[n] \in Seq(Entries) /\ Len(walk[n]) = Len(w) + 1 /\ Len(w) \in Nat
          /\ \A i \in 1 .. Len(w) : walk[n][i] = w[i]
          /\ walk[n][Len(w) + 1] = list[n]
      BY <3>1, <2>0
    <3>3. \A x : (\E i \in 1 .. Len(walk[n]) : walk[n][i] = x) <=>
                    x = list[n] \/ \E i \in 1 .. Len(w) : w[i] = x
      <4>1. /\ 1 .. Len(walk[n]) = 1 .. Len(w) \cup {Len(w) + 1}
            /\ Len(w) + 1 \in 1 .. Len(walk[n])
        BY <3>2
      <4>2. \A x, i : i \in 1 .. Len(w) /\ w[i] = x =>
                         i \in 1 .. Len(walk[n]) /\ walk[n][i] = x
        BY <3>2, <4>1, Zenon
      <4>3. \A x, i : i \in 1 .. Len(walk[n]) /\ walk[n][i] = x =>
                         x = list[n] \/ (i \in 1 .. Len(w) /\ w[i] = x)
        BY <3>2, <4>1, Zenon
      <4>4. QED BY <3>2, <4>1, <4>2, <4>3, Zenon
    <3>4. \A x : (\E i \in 1 .. n : list[i] = x) <=>
                    x = list[n] \/ \E i \in 1 .. (n - 1) : list[i] = x
      BY <2>0
    <3>5. ASSUME NEW earlier, InOrder(list, earlier) PROVE InOrder(walk[n], earlier)
      <4>1. InOrder(w, earlier)
        BY <1>6, <3>5 DEF w
      <4>2. ASSUME NEW i \in 1 .. Len(w) PROVE <<w[i], list[n]>> \in earlier
        <5>1. PICK k \in 1 .. (n - 1) : list[k] = w[i]
          BY <1>6 DEF w
        <5>2. QED BY <2>0, <3>5, <5>1 DEF InOrder
      <4>3. ASSUME NEW i \in 1 .. Len(walk[n]), NEW j \in 1 .. Len(walk[n]), i < j
            PROVE  <<walk[n][i], walk[n][j]>> \in earlier
        <5>1. i \in 1 .. Len(w)
          BY <3>2, <4>3
        <5>2. CASE j \in 1 .. Len(w)
          BY <3>2, <4>1, <4>3, <5>1, <5>2 DEF InOrder
        <5>3. CASE j = Len(w) + 1
          BY <3>2, <4>2, <5>1, <5>3
        <5>4. QED BY <3>2, <5>2, <5>3
      <4>4. QED BY <4>3 DEF InOrder
    <3>6. \A x : (\E i \in 1 .. Len(w) : w[i] = x) <=>
                   x \in wanted /\ \E i \in 1 .. (n - 1) : list[i] = x
      BY <1>6 DEF w
    <3>7. QED BY <2>2, <3>2, <3>3, <3>4, <3>5, <3>6
  <2>3. QED BY <2>1, <2>2
<1> HIDE DEF Right
<1>7. Right(Len(list))
  <2> DEFINE S == {n \in 0 .. Len(list) : ~Right(n)}
  <2>1. SUFFICES ASSUME S # {} PROVE FALSE
    BY <1>1
  <2>2. PICK x \in S : \A y \in S : x <= y
    <3>1. S \subseteq Nat
      OBVIOUS
    <3> HIDE DEF S
    <3>2. QED BY <2>1, <3>1, LeastNat
  <2>3. x # 0
    BY <1>5
  <2>4. Right(x - 1)
    BY <2>2, <2>3
  <2>5. QED BY <1>6, <2>3, <2>4
<1>8. QED
  <2>1. /\ walk[Len(list)] \in Seq(Entries)
        /\ \A x : (\E i \in 1 .. Len(walk[Len(list)]) : walk[Len(list)][i] = x) <=>
                  x \in wanted /\ \E i \in 1 .. Len(list) : list[i] = x
        /\ \A earlier : InOrder(list, earlier) => InOrder(walk[Len(list)], earlier)
    BY <1>7 DEF Right
  <2>2. E!Range(walk[Len(list)]) = E!Range(list) \cap wanted
    <3> DEFINE found == walk[Len(list)]
    <3>1. /\ found \in Seq(Entries)
          /\ \A x : (\E i \in 1 .. Len(found) : found[i] = x) <=>
                    x \in wanted /\ \E i \in 1 .. Len(list) : list[i] = x
      BY <2>1
    <3> HIDE DEF found
    <3>2. DOMAIN found = 1 .. Len(found) /\ DOMAIN list = 1 .. Len(list)
      BY <3>1
    <3>3. \A x : x \in E!Range(found) <=> \E i \in 1 .. Len(found) : found[i] = x
      BY <3>2, Zenon DEF E!Range
    <3>4. \A x : x \in E!Range(list) <=> \E i \in 1 .. Len(list) : list[i] = x
      BY <3>2, Zenon DEF E!Range
    <3>5. E!Range(found) = E!Range(list) \cap wanted
      BY <3>1, <3>3, <3>4, Zenon
    <3>6. QED BY <3>5 DEF found
  <2>3. QED BY <1>2, <2>1, <2>2
\* The frames.

ExitFrames ==
    [dso : E!Libraries \cup {Null}, entries : Seq(Handlers), running : BOOLEAN,
     exiting : BOOLEAN, found : Seq(Handlers)]

ExitFramed ==
    /\ x3 \in [Exiting -> Seq(ExitFrames)]
    /\ \A t \in Exiting : \A i \in 1 .. Len(x3[t]) :
          /\ x3[t][i].exiting => x3[t][i].dso = Null
          /\ E!Range(x3[t][i].found) \subseteq E!Range(x5)

\* What the frame of t at i has detached and not called.
EntriesAt(t, i) == IF i \in 1 .. Len(x3[t]) THEN x3[t][i].entries ELSE << >>

HoldsHandler(t, i, h) == h \in E!Range(EntriesAt(t, i))

LEMMA WaitingHolds == ASSUME ExitFramed, NEW t \in Exiting
                      PROVE  \A h : h \in E!Waiting(t) <=> \E i \in Nat : HoldsHandler(t, i, h)
<1>1. x3[t] \in Seq(ExitFrames) /\ DOMAIN x3[t] = 1 .. Len(x3[t])
  BY DEF ExitFramed
<1>2. \A i \in Nat : i \notin 1 .. Len(x3[t]) => E!Range(EntriesAt(t, i)) = {}
  BY DEF EntriesAt, E!Range
<1>3. \A h : h \in E!Waiting(t) <=> \E i \in 1 .. Len(x3[t]) : h \in E!Range(x3[t][i].entries)
  BY <1>1 DEF E!Waiting
<1>4. Len(x3[t]) \in Nat
  BY <1>1
<1>5. \A i \in 1 .. Len(x3[t]) : EntriesAt(t, i) = x3[t][i].entries
  BY DEF EntriesAt
<1>6. QED BY <1>2, <1>3, <1>4, <1>5 DEF HoldsHandler

LEMMA FrontIs ==
    ASSUME NEW S, NEW s \in Seq(S), s # << >>
    PROVE  /\ E!Front(s) \in Seq(S) /\ Len(s) \in Nat \ {0} /\ Len(E!Front(s)) = Len(s) - 1
           /\ \A i \in 1 .. (Len(s) - 1) : E!Front(s)[i] = s[i]
<1>1. Len(s) \in Nat \ {0} /\ E!Front(s) = SubSeq(s, 1, Len(s) - 1)
  BY DEF E!Front
<1>2. PICK n \in Nat : n = Len(s) - 1
  BY <1>1
<1>3. \A i \in 1 .. n : s[i] \in S
  BY <1>2
<1>4. /\ SubSeq(s, 1, n) \in Seq(S) /\ Len(SubSeq(s, 1, n)) = n
      /\ \A i \in 1 .. n : SubSeq(s, 1, n)[i] = s[i]
  BY <1>3
<1>5. QED BY <1>1, <1>2, <1>4

LEMMA ExitTopFrame ==
    ASSUME ExitFramed, NEW t \in Exiting, x3[t] # << >>
    PROVE  /\ Len(x3[t]) \in Nat \ {0} /\ E!Top(t) = x3[t][Len(x3[t])]
           /\ E!Top(t) \in ExitFrames
           /\ E!Top(t).exiting => E!Top(t).dso = Null
           /\ E!Range(E!Top(t).found) \subseteq E!Range(x5)
           /\ EntriesAt(t, Len(x3[t])) = E!Top(t).entries
BY DEF ExitFramed, E!Top, E!Last, EntriesAt

\* A frame is pushed, the innermost is replaced, or it is popped.
LEMMA ExitFramePushed ==
    ASSUME ExitFramed, NEW t \in Exiting, NEW frame \in ExitFrames, frame.entries = << >>,
           frame.exiting => frame.dso = Null, frame.found = x5,
           x3' = [x3 EXCEPT ![t] = Append(@, frame)], UNCHANGED x5
    PROVE  /\ ExitFramed'
           /\ \A u \in Exiting, i \in Nat : EntriesAt(u, i)' = EntriesAt(u, i)
<1>1. /\ x3[t] \in Seq(ExitFrames) /\ Len(x3[t]) \in Nat
      /\ \A u \in Exiting : x3'[u] = IF u = t THEN Append(x3[t], frame) ELSE x3[u]
      /\ x3' \in [Exiting -> Seq(ExitFrames)]
  BY DEF ExitFramed
<1>2. /\ Len(x3'[t]) = Len(x3[t]) + 1 /\ x3'[t][Len(x3[t]) + 1] = frame
      /\ \A i \in 1 .. Len(x3[t]) : x3'[t][i] = x3[t][i]
  BY <1>1
<1>3. ExitFramed'
  <2>1. ASSUME NEW u \in Exiting, NEW i \in 1 .. Len(x3'[u])
        PROVE  /\ x3'[u][i].exiting => x3'[u][i].dso = Null
               /\ E!Range(x3'[u][i].found) \subseteq E!Range(x5)
    <3>1. CASE u = t /\ i = Len(x3[t]) + 1
      BY <1>2, <3>1
    <3>2. CASE ~(u = t /\ i = Len(x3[t]) + 1)
      <4>1. x3'[u][i] = x3[u][i] /\ i \in 1 .. Len(x3[u])
        BY <1>1, <1>2, <2>1, <3>2
      <4>2. QED BY <4>1 DEF ExitFramed
    <3>3. QED BY <3>1, <3>2
  <2>2. QED BY <1>1, <2>1 DEF ExitFramed
<1>4. ASSUME NEW u \in Exiting, NEW i \in Nat PROVE EntriesAt(u, i)' = EntriesAt(u, i)
  <2>1. CASE u = t
    BY <1>1, <1>2, <2>1 DEF EntriesAt
  <2>2. CASE u # t
    BY <1>1, <2>2 DEF EntriesAt
  <2>3. QED BY <2>1, <2>2
<1>5. QED BY <1>3, <1>4

LEMMA ExitFrameReplaced ==
    ASSUME ExitFramed, NEW t \in Exiting, x3[t] # << >>,
           NEW frame \in ExitFrames, frame.exiting = E!Top(t).exiting, frame.dso = E!Top(t).dso,
           frame.found = E!Top(t).found, E!SetTop(t, frame), UNCHANGED x5
    PROVE  /\ ExitFramed'
           /\ \A u \in Exiting, i \in Nat :
                 EntriesAt(u, i)' = IF u = t /\ i = Len(x3[t]) THEN frame.entries
                                    ELSE EntriesAt(u, i)
           /\ \A u \in Exiting : Len(x3'[u]) = Len(x3[u])
<1> DEFINE n == Len(x3[t])
<1>1. /\ x3[t] \in Seq(ExitFrames) /\ n \in Nat \ {0}
      /\ E!Front(x3[t]) \in Seq(ExitFrames) /\ Len(E!Front(x3[t])) = n - 1
      /\ \A i \in 1 .. (n - 1) : E!Front(x3[t])[i] = x3[t][i]
      /\ \A u \in Exiting :
            x3'[u] = IF u = t THEN Append(E!Front(x3[t]), frame) ELSE x3[u]
      /\ DOMAIN x3' = Exiting
  BY FrontIs DEF ExitFramed, E!SetTop
<1> HIDE DEF n
<1>3. /\ x3'[t] \in Seq(ExitFrames) /\ Len(x3'[t]) = n /\ x3'[t][n] = frame
      /\ \A i \in 1 .. (n - 1) : x3'[t][i] = x3[t][i]
  <2>1. x3'[t] = Append(E!Front(x3[t]), frame)
    BY <1>1
  <2>2. QED BY <1>1, <2>1
<1>4. x3' \in [Exiting -> Seq(ExitFrames)]
  <2>1. \A u \in Exiting : x3'[u] \in Seq(ExitFrames)
    BY <1>1, <1>3 DEF ExitFramed
  <2>2. x3' = [u \in Exiting |-> x3'[u]]
    BY <1>1 DEF E!SetTop
  <2>3. QED BY <2>1, <2>2
<1>5. ExitFramed'
  <2>1. ASSUME NEW u \in Exiting, NEW i \in 1 .. Len(x3'[u])
        PROVE  /\ x3'[u][i].exiting => x3'[u][i].dso = Null
               /\ E!Range(x3'[u][i].found) \subseteq E!Range(x5)
    <3>1. CASE u = t /\ i = n
      BY <1>3, <3>1, ExitTopFrame
    <3>2. CASE ~(u = t /\ i = n)
      <4>1. x3'[u][i] = x3[u][i] /\ i \in 1 .. Len(x3[u])
        BY <1>1, <1>3, <2>1, <3>2 DEF n
      <4>2. QED BY <4>1 DEF ExitFramed
    <3>3. QED BY <3>1, <3>2
  <2>2. QED BY <1>4, <2>1 DEF ExitFramed
<1>6. ASSUME NEW u \in Exiting, NEW i \in Nat
      PROVE  EntriesAt(u, i)' = IF u = t /\ i = n THEN frame.entries ELSE EntriesAt(u, i)
  <2>1. CASE u = t
    BY <1>1, <1>3, <2>1 DEF EntriesAt, n
  <2>2. CASE u # t
    BY <1>1, <2>2 DEF EntriesAt
  <2>3. QED BY <2>1, <2>2
<1>7. QED BY <1>1, <1>3, <1>5, <1>6 DEF n

LEMMA ExitFramePopped ==
    ASSUME ExitFramed, NEW t \in Exiting, x3[t] # << >>, E!Top(t).entries = << >>,
           x3' = [x3 EXCEPT ![t] = E!Front(@)], UNCHANGED x5
    PROVE  /\ ExitFramed'
           /\ \A u \in Exiting, i \in Nat : EntriesAt(u, i)' = EntriesAt(u, i)
<1> DEFINE n == Len(x3[t])
<1>1. /\ x3[t] \in Seq(ExitFrames) /\ n \in Nat \ {0}
      /\ E!Front(x3[t]) \in Seq(ExitFrames) /\ Len(E!Front(x3[t])) = n - 1
      /\ \A i \in 1 .. (n - 1) : E!Front(x3[t])[i] = x3[t][i]
      /\ \A u \in Exiting : x3'[u] = IF u = t THEN E!Front(x3[t]) ELSE x3[u]
      /\ DOMAIN x3' = Exiting
  BY FrontIs DEF ExitFramed
<1>2. /\ x3'[t] \in Seq(ExitFrames) /\ Len(x3'[t]) = n - 1
      /\ \A i \in 1 .. (n - 1) : x3'[t][i] = x3[t][i]
  <2> HIDE DEF n
  <2>1. x3'[t] = E!Front(x3[t])
    BY <1>1
  <2>2. QED BY <1>1, <2>1
<1> HIDE DEF n
<1>3. x3' \in [Exiting -> Seq(ExitFrames)]
  <2>1. \A u \in Exiting : x3'[u] \in Seq(ExitFrames)
    BY <1>1, <1>2 DEF ExitFramed
  <2>2. x3' = [u \in Exiting |-> x3'[u]]
    BY <1>1
  <2>3. QED BY <2>1, <2>2
<1>4. ExitFramed'
  <2>1. ASSUME NEW u \in Exiting, NEW i \in 1 .. Len(x3'[u])
        PROVE  /\ x3'[u][i].exiting => x3'[u][i].dso = Null
               /\ E!Range(x3'[u][i].found) \subseteq E!Range(x5)
    <3>1. x3'[u][i] = x3[u][i] /\ i \in 1 .. Len(x3[u])
      BY <1>1, <1>2, <2>1 DEF n
    <3>2. QED BY <3>1 DEF ExitFramed
  <2>2. QED BY <1>3, <2>1 DEF ExitFramed
<1>5. ASSUME NEW u \in Exiting, NEW i \in Nat PROVE EntriesAt(u, i)' = EntriesAt(u, i)
  <2>1. CASE u = t /\ i = n
    BY <1>1, <1>2, <2>1, ExitTopFrame DEF EntriesAt, n
  <2>2. CASE u = t /\ i # n
    BY <1>1, <1>2, <2>2 DEF EntriesAt, n
  <2>3. CASE u # t
    BY <1>1, <2>3 DEF EntriesAt
  <2>4. QED BY <2>1, <2>2, <2>3
<1>6. QED BY <1>4, <1>5

\* The inductive invariant.

Newer == {p \in Handlers \X Handlers : E!RegisteredBefore(p[2], p[1])}

ExitTyped ==
    /\ x1 \in Seq(Handlers) /\ x5 \in Seq(Handlers) /\ x6 \in Seq(Handlers)
    /\ x7 = [h \in Handlers |-> x7[h]]
    /\ ExitFramed

\* A handler is registered once and is then in one place.
OneHome ==
    /\ \A i, j \in 1 .. Len(x5) : x5[i] = x5[j] => i = j
    /\ \A i, j \in 1 .. Len(x6) : x6[i] = x6[j] => i = j
    /\ \A h \in Handlers : \A t, u \in Exiting : \A i, j \in Nat :
          HoldsHandler(t, i, h) /\ HoldsHandler(u, j, h) => t = u /\ i = j
    /\ \A h \in Handlers : \A t \in Exiting : \A i \in Nat :
          HoldsHandler(t, i, h) =>
              /\ h \notin E!Range(x6) /\ h \notin E!Range(x1)
              /\ h \in E!Range(x5) /\ x7[h] # << >>
    /\ \A h \in E!Range(x1) :
          h \notin E!Range(x6) /\ h \in E!Range(x5) /\ x7[h] = << >>
    /\ \A h \in E!Range(x6) : h \in E!Range(x5) /\ x7[h] # << >>
    /\ \A h \in Handlers \ E!Range(x5) : x7[h] = << >>
    /\ \A h \in E!Range(x5) :
          \/ h \in E!Range(x1) \/ h \in E!Range(x6)
          \/ \E t \in Exiting : \E i \in Nat : HoldsHandler(t, i, h)

NewestFirst ==
    /\ InOrder(x1, Newer)
    /\ \A t \in Exiting : \A i \in Nat : InOrder(EntriesAt(t, i), Newer)

\* What was detached at once, when n were registered, was then all there was of it.
TakenAll(h, n, d) ==
    /\ n \in 0 .. Len(x5) /\ x7[h] = <<n, d>> /\ h \in E!OfLibrary(d)
    /\ \E i \in 1 .. n : x5[i] = h
    /\ \A i \in 1 .. n : x5[i] \in E!OfLibrary(d) => x5[i] \notin E!Range(x1)

\* Of two that were detached at once the later is called first, and from the same
\* frame.
Later(a, b) ==
    /\ \A t \in Exiting : \A i \in Nat : HoldsHandler(t, i, b) => HoldsHandler(t, i, a)
    /\ a \in E!Range(x6) =>
          \E i, j \in 1 .. Len(x6) : i < j /\ x6[i] = b /\ x6[j] = a

Batches ==
    /\ \A h \in Handlers : x7[h] # << >> => \E n, d : TakenAll(h, n, d)
    /\ \A a, b \in Handlers :
          x7[a] # << >> /\ x7[a] = x7[b] /\ E!RegisteredBefore(a, b) => Later(a, b)

ExitInv == ExitTyped /\ OneHome /\ NewestFirst /\ Batches

LEMMA EntriesTyped == ASSUME ExitFramed, NEW t \in Exiting, NEW i \in Nat
                      PROVE  EntriesAt(t, i) \in Seq(Handlers)
<1>1. CASE i \in 1 .. Len(x3[t])
  <2>1. x3[t][i] \in ExitFrames
    BY <1>1 DEF ExitFramed
  <2>2. QED BY <1>1, <2>1 DEF EntriesAt, ExitFrames
<1>2. CASE i \notin 1 .. Len(x3[t])
  BY <1>2 DEF EntriesAt
<1>3. QED BY <1>1, <1>2

LEMMA ExitInit == E!Init => ExitInv
<1> SUFFICES ASSUME E!Init PROVE ExitInv
  OBVIOUS
<1>1. /\ x1 = << >> /\ x5 = << >> /\ x6 = << >>
      /\ x3 = [t \in Exiting |-> << >>] /\ x7 = [h \in Handlers |-> << >>]
  BY DEF E!Init
<1>2. ExitFramed
  BY <1>1 DEF ExitFramed
<1>3. \A t \in Exiting : \A i \in Nat : EntriesAt(t, i) = << >>
  BY <1>1 DEF EntriesAt
<1>4. \A t \in Exiting : \A i \in Nat : \A h : ~HoldsHandler(t, i, h)
  BY <1>3 DEF HoldsHandler, E!Range
<1>5. E!Range(x1) = {} /\ E!Range(x5) = {} /\ E!Range(x6) = {}
  BY <1>1 DEF E!Range
<1>6. ExitTyped
  BY <1>1, <1>2 DEF ExitTyped
<1>7. OneHome
  BY <1>1, <1>4, <1>5 DEF OneHome
<1>8. NewestFirst
  BY <1>1, <1>3 DEF NewestFirst, InOrder
<1>9. Batches
  BY <1>1 DEF Batches
<1>10. QED BY <1>6, <1>7, <1>8, <1>9 DEF ExitInv

\* A step that moves no handler.
LEMMA ExitQuiet ==
    ASSUME ExitInv, ExitFramed', UNCHANGED <<x1, x5, x6, x7>>,
           \A u \in Exiting, i \in Nat : EntriesAt(u, i)' = EntriesAt(u, i)
    PROVE  ExitInv'
<1>1. \A t \in Exiting : \A i \in Nat : \A h : HoldsHandler(t, i, h)' <=> HoldsHandler(t, i, h)
  BY DEF HoldsHandler
<1>2. \A a, b : E!RegisteredBefore(a, b)' <=> E!RegisteredBefore(a, b)
  BY DEF E!RegisteredBefore
<1>3. Newer' = Newer
  BY <1>2 DEF Newer
<1>4. ExitTyped'
  BY DEF ExitInv, ExitTyped
<1>5. OneHome'
  BY <1>1 DEF ExitInv, OneHome
<1>6. NewestFirst'
  BY <1>3 DEF ExitInv, NewestFirst, InOrder
<1>7. Batches'
  <2>1. \A h, n, d : TakenAll(h, n, d)' <=> TakenAll(h, n, d)
    BY DEF TakenAll, E!OfLibrary
  <2>2. \A a, b : Later(a, b)' <=> Later(a, b)
    BY <1>1 DEF Later
  <2>3. QED BY <1>2, <2>1, <2>2 DEF ExitInv, Batches
<1>8. QED BY <1>4, <1>5, <1>6, <1>7 DEF ExitInv

\* Appending to a list of what was registered or called.
LEMMA HandlerAppended ==
    ASSUME NEW S, NEW s \in Seq(S), NEW x \in S
    PROVE  /\ Append(s, x) \in Seq(S) /\ Len(s) \in Nat /\ Len(Append(s, x)) = Len(s) + 1
           /\ Append(s, x)[Len(s) + 1] = x
           /\ \A i \in 1 .. Len(s) : Append(s, x)[i] = s[i]
           /\ E!Range(Append(s, x)) = E!Range(s) \cup {x}
<1>1. /\ Append(s, x) \in Seq(S) /\ Len(s) \in Nat /\ Len(Append(s, x)) = Len(s) + 1
      /\ Append(s, x)[Len(s) + 1] = x
      /\ \A i \in 1 .. Len(s) : Append(s, x)[i] = s[i]
  OBVIOUS
<1>2. /\ E!Range(Append(s, x)) = {Append(s, x)[i] : i \in 1 .. Len(s) + 1}
      /\ E!Range(s) = {s[i] : i \in 1 .. Len(s)}
  BY <1>1 DEF E!Range
<1>3. QED BY <1>1, <1>2

LEMMA ExitRegisterStep ==
    ASSUME ExitInv, NEW t \in Exiting, E!RegisterExitFunction(t)
    PROVE  ExitInv'
<1>1. PICK h \in Handlers \ E!Range(x5) :
         x1' = <<h>> \o x1 /\ x5' = Append(x5, h)
  BY DEF E!RegisterExitFunction
<1>2. UNCHANGED <<x3, x6, x7>>
  BY DEF E!RegisterExitFunction
<1>3. x1 \in Seq(Handlers) /\ x5 \in Seq(Handlers) /\ x6 \in Seq(Handlers)
  BY DEF ExitInv, ExitTyped
<1>4. /\ x1' \in Seq(Handlers) /\ Len(x1) \in Nat
      /\ Len(x1') = Len(x1) + 1 /\ x1'[1] = h
      /\ \A i \in 1 .. Len(x1) : x1'[i + 1] = x1[i]
      /\ \A i \in 1 .. Len(x1') : i = 1 \/ x1'[i] = x1[i - 1]
  BY <1>1, <1>3
<1>5. E!Range(x1') = {h} \cup E!Range(x1)
  <2>1. /\ E!Range(x1') = {x1'[i] : i \in 1 .. Len(x1')}
        /\ E!Range(x1) = {x1[i] : i \in 1 .. Len(x1)}
    <3>1. DOMAIN x1' = 1 .. Len(x1') /\ DOMAIN x1 = 1 .. Len(x1)
      BY <1>3, <1>4
    <3>2. QED BY <3>1 DEF E!Range
  <2>2. ASSUME NEW i \in 1 .. Len(x1') PROVE x1'[i] \in {h} \cup E!Range(x1)
    BY <1>4, <2>1
  <2>3. ASSUME NEW i \in 1 .. Len(x1) PROVE x1[i] \in E!Range(x1')
    <3>1. i + 1 \in 1 .. Len(x1') /\ x1'[i + 1] = x1[i]
      BY <1>4
    <3>2. QED BY <2>1, <3>1
  <2>4. h \in E!Range(x1')
    <3>1. 1 \in 1 .. Len(x1')
      BY <1>4
    <3>2. QED BY <1>4, <2>1, <3>1
  <2>5. QED BY <2>1, <2>2, <2>3, <2>4
<1>6. /\ x5' \in Seq(Handlers) /\ Len(x5) \in Nat
      /\ Len(x5') = Len(x5) + 1 /\ x5'[Len(x5) + 1] = h
      /\ \A i \in 1 .. Len(x5) : x5'[i] = x5[i]
      /\ E!Range(x5') = E!Range(x5) \cup {h}
  BY <1>1, <1>3, HandlerAppended
<1>7. /\ \A i \in 1 .. Len(x5) : x5[i] # h
      /\ DOMAIN x5 = 1 .. Len(x5) /\ DOMAIN x5' = 1 .. Len(x5')
  BY <1>1, <1>3, <1>6 DEF E!Range
<1>8. ASSUME NEW a, NEW b
      PROVE  /\ E!RegisteredBefore(a, b) => E!RegisteredBefore(a, b)'
             /\ E!RegisteredBefore(a, b)' /\ b # h => E!RegisteredBefore(a, b)
             /\ a \in E!Range(x5) => E!RegisteredBefore(a, h)'
  <2>1. E!RegisteredBefore(a, b) => E!RegisteredBefore(a, b)'
    BY <1>6, <1>7 DEF E!RegisteredBefore
  <2>2. E!RegisteredBefore(a, b)' /\ b # h => E!RegisteredBefore(a, b)
    BY <1>6, <1>7 DEF E!RegisteredBefore
  <2>3. ASSUME a \in E!Range(x5) PROVE E!RegisteredBefore(a, h)'
    <3>1. PICK i \in 1 .. Len(x5) : x5[i] = a
      BY <1>7, <2>3 DEF E!Range
    <3>2. QED BY <1>6, <1>7, <3>1 DEF E!RegisteredBefore
  <2>4. QED BY <2>1, <2>2, <2>3
<1>9. \A u \in Exiting : \A i \in Nat : EntriesAt(u, i)' = EntriesAt(u, i)
  BY <1>2 DEF EntriesAt
<1>10. \A u \in Exiting : \A i \in Nat : \A g : HoldsHandler(u, i, g)' <=> HoldsHandler(u, i, g)
  BY <1>9 DEF HoldsHandler
<1>11. x7[h] = << >> /\ h \notin E!Range(x6)
       /\ \A u \in Exiting : \A i \in Nat : ~HoldsHandler(u, i, h)
  BY <1>1 DEF ExitInv, OneHome
<1>12. ExitTyped'
  <2>1. ExitFramed'
    <3>1. ASSUME NEW u \in Exiting, NEW i \in 1 .. Len(x3[u])
          PROVE  E!Range(x3[u][i].found) \subseteq E!Range(x5')
      BY <1>6 DEF ExitInv, ExitTyped, ExitFramed
    <3>2. QED BY <1>2, <3>1 DEF ExitInv, ExitTyped, ExitFramed
  <2>2. QED BY <1>2, <1>4, <1>6, <2>1 DEF ExitInv, ExitTyped
<1>13. OneHome'
  <2>1. \A i, j \in 1 .. Len(x5') : x5'[i] = x5'[j] => i = j
    <3>1. \A i, j \in 1 .. Len(x5) : x5[i] = x5[j] => i = j
      BY DEF ExitInv, OneHome
    <3>2. QED BY <1>6, <1>7, <3>1
  <2>2. \A i, j \in 1 .. Len(x6') : x6'[i] = x6'[j] => i = j
    BY <1>2 DEF ExitInv, OneHome
  <2>3. \A g \in Handlers : \A u, v \in Exiting : \A i, j \in Nat :
           HoldsHandler(u, i, g)' /\ HoldsHandler(v, j, g)' => u = v /\ i = j
    BY <1>10 DEF ExitInv, OneHome
  <2>4. \A g \in Handlers : \A u \in Exiting : \A i \in Nat :
           HoldsHandler(u, i, g)' =>
               /\ g \notin E!Range(x6') /\ g \notin E!Range(x1')
               /\ g \in E!Range(x5') /\ x7'[g] # << >>
    BY <1>2, <1>5, <1>6, <1>10, <1>11 DEF ExitInv, OneHome
  <2>5. \A g \in E!Range(x1') :
           g \notin E!Range(x6') /\ g \in E!Range(x5') /\ x7'[g] = << >>
    BY <1>2, <1>5, <1>6, <1>11 DEF ExitInv, OneHome
  <2>6. \A g \in E!Range(x6') : g \in E!Range(x5') /\ x7'[g] # << >>
    BY <1>2, <1>6 DEF ExitInv, OneHome
  <2>7. \A g \in Handlers \ E!Range(x5') : x7'[g] = << >>
    BY <1>2, <1>6 DEF ExitInv, OneHome
  <2>8. \A g \in E!Range(x5') :
           \/ g \in E!Range(x1') \/ g \in E!Range(x6')
           \/ \E u \in Exiting : \E i \in Nat : HoldsHandler(u, i, g)'
    <3>1. \A g \in E!Range(x5) :
             \/ g \in E!Range(x1) \/ g \in E!Range(x6)
             \/ \E u \in Exiting : \E i \in Nat : HoldsHandler(u, i, g)
      BY DEF ExitInv, OneHome
    <3>2. QED BY <1>2, <1>5, <1>6, <1>10, <3>1
  <2>9. QED BY <2>1, <2>2, <2>3, <2>4, <2>5, <2>6, <2>7, <2>8 DEF OneHome
<1>14. NewestFirst'
  <2>1. Newer \subseteq Newer'
    BY <1>8 DEF Newer
  <2>2. InOrder(x1', Newer')
    <3>1. ASSUME NEW i \in 1 .. Len(x1'), NEW j \in 1 .. Len(x1'), i < j
          PROVE  <<x1'[i], x1'[j]>> \in Newer'
      <4>1. j - 1 \in 1 .. Len(x1) /\ x1'[j] = x1[j - 1]
        BY <1>4, <3>1
      <4>2. CASE i = 1
        <5>1. x1[j - 1] \in E!Range(x1)
          BY <1>3, <4>1 DEF E!Range
        <5>2. x1[j - 1] \in E!Range(x5) /\ x1[j - 1] \in Handlers
          BY <1>3, <4>1, <5>1 DEF ExitInv, OneHome
        <5>3. QED BY <1>1, <1>4, <1>8, <4>1, <4>2, <5>2 DEF Newer
      <4>3. CASE i # 1
        <5>1. /\ i - 1 \in 1 .. Len(x1) /\ x1'[i] = x1[i - 1]
              /\ i - 1 < j - 1
          BY <1>4, <3>1, <4>3
        <5>2. <<x1[i - 1], x1[j - 1]>> \in Newer
          BY <4>1, <5>1 DEF ExitInv, NewestFirst, InOrder
        <5>3. QED BY <2>1, <4>1, <5>1, <5>2
      <4>4. QED BY <4>2, <4>3
    <3>2. QED BY <3>1 DEF InOrder
  <2>3. \A u \in Exiting : \A i \in Nat : InOrder(EntriesAt(u, i), Newer')
    BY <2>1 DEF ExitInv, NewestFirst, InOrder
  <2>4. QED BY <1>9, <2>2, <2>3 DEF NewestFirst
<1>15. Batches'
  <2>1. ASSUME NEW g \in Handlers, x7[g] # << >> PROVE \E n, d : TakenAll(g, n, d)'
    <3>1. PICK n, d : TakenAll(g, n, d)
      BY <2>1 DEF ExitInv, Batches
    <3>2. n \in 0 .. Len(x5') /\ \A i \in 1 .. n : i \in 1 .. Len(x5)
      BY <1>6, <3>1 DEF TakenAll
    <3>3. TakenAll(g, n, d)'
      BY <1>2, <1>5, <1>6, <1>7, <3>1, <3>2 DEF TakenAll, E!OfLibrary
    <3>4. QED BY <3>3
  <2>2. ASSUME NEW a \in Handlers, NEW b \in Handlers, x7[a] # << >>, x7[a] = x7[b],
               E!RegisteredBefore(a, b)'
        PROVE  Later(a, b)'
    <3>1. E!RegisteredBefore(a, b)
      BY <1>8, <1>11, <2>2
    <3>2. Later(a, b)
      BY <2>2, <3>1 DEF ExitInv, Batches
    <3>3. QED BY <1>2, <1>10, <3>2 DEF Later
  <2>3. QED BY <1>2, <2>1, <2>2 DEF Batches
<1>16. QED BY <1>12, <1>13, <1>14, <1>15 DEF ExitInv

LEMMA ExitInvokeStep ==
    ASSUME ExitInv, NEW t \in Exiting, E!InvokeExitFunction(t)
    PROVE  ExitInv'
<1> DEFINE n == Len(x3[t])
           e == E!Top(t).entries
           h == Head(e)
           frame == [E!Top(t) EXCEPT !.entries = Tail(@), !.running = TRUE]
<1>1. /\ x3[t] # << >> /\ e # << >> /\ x6' = Append(x6, h)
      /\ E!SetTop(t, frame) /\ UNCHANGED <<x1, x5, x7>>
  BY DEF E!InvokeExitFunction
<1>2. ExitFramed
  BY DEF ExitInv, ExitTyped
<1>3. n \in Nat \ {0} /\ E!Top(t) \in ExitFrames /\ EntriesAt(t, n) = e
  BY <1>1, <1>2, ExitTopFrame
<1>4. e \in Seq(Handlers)
  BY <1>3 DEF ExitFrames
<1>5. /\ h \in Handlers /\ Tail(e) \in Seq(Handlers) /\ Len(e) \in Nat \ {0}
      /\ Len(Tail(e)) = Len(e) - 1 /\ h = e[1]
      /\ \A i \in 1 .. Len(Tail(e)) : Tail(e)[i] = e[i + 1]
  BY <1>1, <1>4
<1>6. /\ frame \in ExitFrames /\ frame.exiting = E!Top(t).exiting /\ frame.dso = E!Top(t).dso
      /\ frame.found = E!Top(t).found /\ frame.entries = Tail(e)
  BY <1>3, <1>5 DEF ExitFrames
<1> HIDE DEF n, e, h, frame
<1>7. /\ ExitFramed'
      /\ \A u \in Exiting, i \in Nat :
            EntriesAt(u, i)' = IF u = t /\ i = n THEN Tail(e) ELSE EntriesAt(u, i)
  <2>1. x3[t] # << >> /\ E!SetTop(t, frame) /\ UNCHANGED x5
    BY <1>1
  <2>2. QED BY <1>2, <1>6, <2>1, ExitFrameReplaced DEF n
<1>8. \A i, j \in 1 .. Len(e) : i < j => <<e[i], e[j]>> \in Newer
  BY <1>3 DEF ExitInv, NewestFirst, InOrder
<1>9. \A i, j \in 1 .. Len(x5) : x5[i] = x5[j] => i = j
  BY DEF ExitInv, OneHome
<1>10. x5 \in Seq(Handlers) /\ x6 \in Seq(Handlers)
  BY DEF ExitInv, ExitTyped
<1>11. ASSUME NEW a, NEW b, E!RegisteredBefore(a, b), E!RegisteredBefore(b, a) PROVE FALSE
  <2>1. DOMAIN x5 = 1 .. Len(x5) /\ Len(x5) \in Nat
    BY <1>10
  <2>2. PICK i \in 1 .. Len(x5), j \in 1 .. Len(x5) :
           i < j /\ x5[i] = a /\ x5[j] = b
    BY <1>11, <2>1 DEF E!RegisteredBefore
  <2>3. PICK k \in 1 .. Len(x5), m \in 1 .. Len(x5) :
           k < m /\ x5[k] = b /\ x5[m] = a
    BY <1>11, <2>1 DEF E!RegisteredBefore
  <2>4. k = j /\ m = i
    BY <1>9, <2>2, <2>3
  <2>5. QED BY <2>1, <2>2, <2>3, <2>4
<1>12. E!Range(e) = {h} \cup E!Range(Tail(e)) /\ h \notin E!Range(Tail(e))
  <2>1. DOMAIN e = 1 .. Len(e) /\ DOMAIN Tail(e) = 1 .. Len(Tail(e))
    BY <1>4, <1>5
  <2>2. E!Range(e) = {e[i] : i \in 1 .. Len(e)}
            /\ E!Range(Tail(e)) = {Tail(e)[i] : i \in 1 .. Len(Tail(e))}
    BY <2>1 DEF E!Range
  <2>3. ASSUME NEW i \in 1 .. Len(e) PROVE i = 1 \/ e[i] \in E!Range(Tail(e))
    <3>1. CASE i # 1
      <4>1. i - 1 \in 1 .. Len(Tail(e)) /\ Tail(e)[i - 1] = e[i]
        BY <1>5, <3>1
      <4>2. QED BY <2>2, <4>1
    <3>2. QED BY <3>1
  <2>4. ASSUME NEW i \in 1 .. Len(Tail(e)) PROVE Tail(e)[i] \in E!Range(e) /\ Tail(e)[i] # h
    <3>1. i + 1 \in 1 .. Len(e) /\ 1 \in 1 .. Len(e) /\ Tail(e)[i] = e[i + 1] /\ 1 < i + 1
      BY <1>5
    <3>2. <<e[1], e[i + 1]>> \in Newer
      BY <1>8, <3>1
    <3>3. E!RegisteredBefore(e[i + 1], e[1])
      BY <3>2 DEF Newer
    <3>4. e[i + 1] # e[1]
      BY <1>11, <3>3
    <3>5. QED BY <1>5, <2>2, <3>1, <3>4
  <2>5. h \in E!Range(e)
    BY <1>5, <2>2
  <2>6. QED BY <1>5, <2>2, <2>3, <2>4, <2>5
<1>13. \A u \in Exiting : \A i \in Nat : \A g :
          HoldsHandler(u, i, g)' <=> HoldsHandler(u, i, g) /\ ~(u = t /\ i = n /\ g = h)
  <2>1. ASSUME NEW u \in Exiting, NEW i \in Nat, NEW g
        PROVE  HoldsHandler(u, i, g)' <=> HoldsHandler(u, i, g) /\ ~(u = t /\ i = n /\ g = h)
    <3>1. CASE u = t /\ i = n
      BY <1>3, <1>7, <1>12, <3>1 DEF HoldsHandler
    <3>2. CASE ~(u = t /\ i = n)
      BY <1>7, <3>2 DEF HoldsHandler
    <3>3. QED BY <3>1, <3>2
  <2>2. QED BY <2>1
<1>14. HoldsHandler(t, n, h) /\ n \in Nat
  BY <1>3, <1>12 DEF HoldsHandler
<1>15. /\ h \notin E!Range(x6) /\ h \notin E!Range(x1)
       /\ h \in E!Range(x5) /\ x7[h] # << >>
       /\ \A u \in Exiting : \A i \in Nat : HoldsHandler(u, i, h) => u = t /\ i = n
  BY <1>5, <1>14 DEF ExitInv, OneHome
<1>16. /\ x6' \in Seq(Handlers) /\ Len(x6) \in Nat
       /\ Len(x6') = Len(x6) + 1 /\ x6'[Len(x6) + 1] = h
       /\ \A i \in 1 .. Len(x6) : x6'[i] = x6[i]
       /\ E!Range(x6') = E!Range(x6) \cup {h}
  BY <1>1, <1>5, <1>10, HandlerAppended
<1>17. \A i \in 1 .. Len(x6) : x6[i] # h
  BY <1>10, <1>15 DEF E!Range
<1>18. ExitTyped'
  BY <1>1, <1>7, <1>16 DEF ExitInv, ExitTyped
<1>19. OneHome'
  <2>1. \A i, j \in 1 .. Len(x6') : x6'[i] = x6'[j] => i = j
    <3>1. \A i, j \in 1 .. Len(x6) : x6[i] = x6[j] => i = j
      BY DEF ExitInv, OneHome
    <3>2. QED BY <1>16, <1>17, <3>1
  <2>2. ASSUME NEW g \in Handlers, NEW u \in Exiting, NEW i \in Nat, HoldsHandler(u, i, g)'
        PROVE  g \notin E!Range(x6') /\ g \notin E!Range(x1')
               /\ g \in E!Range(x5') /\ x7'[g] # << >>
    <3>1. HoldsHandler(u, i, g) /\ g # h
      BY <1>13, <1>15, <2>2
    <3>2. QED BY <1>1, <1>16, <3>1 DEF ExitInv, OneHome
  <2>3. ASSUME NEW g \in E!Range(x5')
        PROVE  \/ g \in E!Range(x1') \/ g \in E!Range(x6')
               \/ \E u \in Exiting : \E i \in Nat : HoldsHandler(u, i, g)'
    <3>1. \/ g \in E!Range(x1) \/ g \in E!Range(x6)
          \/ \E u \in Exiting : \E i \in Nat : HoldsHandler(u, i, g)
      BY <1>1, <2>3 DEF ExitInv, OneHome
    <3>2. QED BY <1>1, <1>13, <1>16, <3>1
  <2>4. \A g \in Handlers : \A u, v \in Exiting : \A i, j \in Nat :
           HoldsHandler(u, i, g)' /\ HoldsHandler(v, j, g)' => u = v /\ i = j
    BY <1>13 DEF ExitInv, OneHome
  <2>5. /\ \A i, j \in 1 .. Len(x5') : x5'[i] = x5'[j] => i = j
        /\ \A g \in E!Range(x1') :
              g \notin E!Range(x6') /\ g \in E!Range(x5') /\ x7'[g] = << >>
        /\ \A g \in E!Range(x6') : g \in E!Range(x5') /\ x7'[g] # << >>
        /\ \A g \in Handlers \ E!Range(x5') : x7'[g] = << >>
    BY <1>1, <1>15, <1>16 DEF ExitInv, OneHome
  <2>6. QED BY <2>1, <2>2, <2>3, <2>4, <2>5 DEF OneHome
<1>20. \A a, b : E!RegisteredBefore(a, b)' <=> E!RegisteredBefore(a, b)
  BY <1>1 DEF E!RegisteredBefore
<1>21. NewestFirst'
  <2>1. Newer' = Newer
    BY <1>20 DEF Newer
  <2>2. ASSUME NEW u \in Exiting, NEW i \in Nat PROVE InOrder(EntriesAt(u, i), Newer)'
    <3>1. CASE u = t /\ i = n
      <4>1. InOrder(Tail(e), Newer)
        BY <1>5, <1>8 DEF InOrder
      <4>2. EntriesAt(u, i)' = Tail(e)
        BY <1>7, <3>1
      <4>3. QED BY <2>1, <4>1, <4>2 DEF InOrder
    <3>2. CASE ~(u = t /\ i = n)
      <4>1. InOrder(EntriesAt(u, i), Newer) /\ EntriesAt(u, i)' = EntriesAt(u, i)
        BY <1>7, <3>2 DEF ExitInv, NewestFirst
      <4>2. QED BY <2>1, <4>1 DEF InOrder
    <3>3. QED BY <3>1, <3>2
  <2>3. InOrder(x1, Newer)'
    BY <1>1, <2>1 DEF ExitInv, NewestFirst, InOrder
  <2>4. QED BY <2>2, <2>3 DEF NewestFirst
<1>22. Batches'
  <2>1. ASSUME NEW g \in Handlers, x7[g] # << >> PROVE \E m, d : TakenAll(g, m, d)'
    <3>1. PICK m, d : TakenAll(g, m, d)
      BY <2>1 DEF ExitInv, Batches
    <3>2. TakenAll(g, m, d)'
      BY <1>1, <3>1 DEF TakenAll, E!OfLibrary
    <3>3. QED BY <3>2
  <2>2. ASSUME NEW a \in Handlers, NEW b \in Handlers, x7[a] # << >>, x7[a] = x7[b],
               E!RegisteredBefore(a, b)
        PROVE  Later(a, b)'
    <3>1. Later(a, b)
      BY <2>2 DEF ExitInv, Batches
    <3>2. ASSUME a = h PROVE b \in E!Range(x6)
      <4>1. ASSUME NEW u \in Exiting, NEW i \in Nat, HoldsHandler(u, i, b) PROVE FALSE
        <5>1. HoldsHandler(u, i, a)
          BY <3>1, <4>1 DEF Later
        <5>2. u = t /\ i = n
          BY <1>15, <3>2, <5>1
        <5>3. b \in E!Range(e)
          BY <1>3, <4>1, <5>2 DEF HoldsHandler
        <5>4. PICK k \in 1 .. Len(e) : e[k] = b
          BY <1>4, <5>3 DEF E!Range
        <5>5. k # 1
          BY <1>5, <1>11, <2>2, <3>2, <5>4
        <5>6. <<e[1], e[k]>> \in Newer
          BY <1>5, <1>8, <5>4, <5>5
        <5>7. E!RegisteredBefore(b, a)
          BY <1>5, <3>2, <5>4, <5>6 DEF Newer
        <5>8. QED BY <1>11, <2>2, <5>7
      <4>2. x7[b] # << >>
        BY <2>2
      <4>3. b \in E!Range(x5) /\ b \notin E!Range(x1)
        BY <4>2 DEF ExitInv, OneHome
      <4>4. QED BY <4>1, <4>3 DEF ExitInv, OneHome
    <3>3. \A u \in Exiting : \A i \in Nat : HoldsHandler(u, i, b)' => HoldsHandler(u, i, a)'
      <4>1. ASSUME NEW u \in Exiting, NEW i \in Nat, HoldsHandler(u, i, b)'
            PROVE HoldsHandler(u, i, a)'
        <5>1. HoldsHandler(u, i, b) /\ HoldsHandler(u, i, a)
          BY <1>13, <3>1, <4>1 DEF Later
        <5>2. a # h
          BY <3>2, <5>1 DEF ExitInv, OneHome
        <5>3. QED BY <1>13, <5>1, <5>2
      <4>2. QED BY <4>1
    <3>4. ASSUME a \in E!Range(x6')
          PROVE  \E i, j \in 1 .. Len(x6') : i < j /\ x6'[i] = b /\ x6'[j] = a
      <4>1. CASE a = h
        <5>1. PICK i \in 1 .. Len(x6) : x6[i] = b
          BY <1>10, <3>2, <4>1 DEF E!Range
        <5>2. QED BY <1>16, <4>1, <5>1
      <4>2. CASE a # h
        <5>1. PICK i \in 1 .. Len(x6), j \in 1 .. Len(x6) :
                 i < j /\ x6[i] = b /\ x6[j] = a
          BY <1>16, <3>1, <3>4, <4>2 DEF Later
        <5>2. QED BY <1>16, <5>1
      <4>3. QED BY <4>1, <4>2
    <3>5. QED BY <3>3, <3>4 DEF Later
  <2>3. QED BY <1>1, <1>20, <2>1, <2>2 DEF Batches
<1>23. QED BY <1>18, <1>19, <1>21, <1>22 DEF ExitInv

LEMMA ExitDetachStep ==
    ASSUME ExitInv, NEW t \in Exiting, E!DetachExitFunctions(t), E!More(t)
    PROVE  ExitInv'
<1> DEFINE n == Len(x3[t])
           d == E!Top(t).dso
           e == E!Detached(d)
           S == E!OfLibrary(d)
           m == Len(x5)
           frame == [E!Top(t) EXCEPT !.entries = e]
<1>1. /\ x3[t] # << >> /\ E!Top(t).entries = << >> /\ e # << >> /\ E!SetTop(t, frame)
      /\ x1' = E!Remaining(d) /\ UNCHANGED <<x5, x6>>
      /\ x7' = [h \in Handlers |-> IF h \in E!Range(e) THEN <<m, d>> ELSE x7[h]]
  BY DEF E!DetachExitFunctions, E!More
<1>2. ExitFramed /\ x1 \in Seq(Handlers) /\ x5 \in Seq(Handlers) /\ m \in Nat
      /\ x7 = [h \in Handlers |-> x7[h]]
  BY DEF ExitInv, ExitTyped
<1>3. n \in Nat \ {0} /\ E!Top(t) \in ExitFrames /\ EntriesAt(t, n) = << >>
  BY <1>1, <1>2, ExitTopFrame
<1>4. /\ e \in Seq(Handlers) /\ E!Range(e) = E!Range(x1) \cap S
      /\ \A earlier : InOrder(x1, earlier) => InOrder(e, earlier)
  BY <1>2, PickedList DEF E!Detached, E!OfDso
<1>5. /\ x1' \in Seq(Handlers)
      /\ E!Range(x1') = E!Range(x1) \cap (Handlers \ S)
      /\ \A earlier : InOrder(x1, earlier) => InOrder(x1', earlier)
  BY <1>1, <1>2, PickedList DEF E!Remaining
<1>6. /\ frame \in ExitFrames /\ frame.exiting = E!Top(t).exiting /\ frame.dso = E!Top(t).dso
      /\ frame.found = E!Top(t).found /\ frame.entries = e
  BY <1>3, <1>4 DEF ExitFrames
<1>7. E!Range(x1) \subseteq Handlers /\ S \subseteq Handlers
  BY <1>2 DEF E!Range, E!OfLibrary
<1>8. S = E!OfLibrary(d)
  OBVIOUS
<1> HIDE DEF n, d, e, S, m, frame
<1>9. E!Range(x1) = E!Range(e) \cup E!Range(x1') /\ E!Range(e) \cap E!Range(x1') = {}
  BY <1>4, <1>5, <1>7
<1>10. /\ ExitFramed'
       /\ \A u \in Exiting, i \in Nat :
             EntriesAt(u, i)' = IF u = t /\ i = n THEN e ELSE EntriesAt(u, i)
  <2>1. x3[t] # << >> /\ E!SetTop(t, frame) /\ UNCHANGED x5
    BY <1>1
  <2>2. QED BY <1>2, <1>6, <2>1, ExitFrameReplaced DEF n
<1>11. \A u \in Exiting : \A i \in Nat : \A h :
          HoldsHandler(u, i, h)' <=>
              HoldsHandler(u, i, h) \/ (u = t /\ i = n /\ h \in E!Range(e))
  <2>1. ASSUME NEW u \in Exiting, NEW i \in Nat, NEW h
        PROVE  HoldsHandler(u, i, h)' <=>
            HoldsHandler(u, i, h) \/ (u = t /\ i = n /\ h \in E!Range(e))
    <3>1. CASE u = t /\ i = n
      <4>1. ~HoldsHandler(u, i, h)
        BY <1>3, <3>1 DEF HoldsHandler, E!Range
      <4>2. QED BY <1>10, <3>1, <4>1 DEF HoldsHandler
    <3>2. CASE ~(u = t /\ i = n)
      BY <1>10, <3>2 DEF HoldsHandler
    <3>3. QED BY <3>1, <3>2
  <2>2. QED BY <2>1
<1>12. \A h \in E!Range(x1) :
          /\ h \notin E!Range(x6) /\ h \in E!Range(x5) /\ x7[h] = << >>
          /\ \A u \in Exiting : \A i \in Nat : ~HoldsHandler(u, i, h)
  BY <1>7 DEF ExitInv, OneHome
<1>13. \A h \in Handlers : x7'[h] = IF h \in E!Range(e) THEN <<m, d>> ELSE x7[h]
  BY <1>1
<1>14. <<m, d>> # << >>
  OBVIOUS
<1>15. ExitTyped'
  <2>1. x7' = [h \in Handlers |-> x7'[h]]
    BY <1>1
  <2>2. QED BY <1>1, <1>5, <1>10, <2>1 DEF ExitInv, ExitTyped
<1>16. OneHome'
  <2>1. /\ \A i, j \in 1 .. Len(x5') : x5'[i] = x5'[j] => i = j
        /\ \A i, j \in 1 .. Len(x6') : x6'[i] = x6'[j] => i = j
    BY <1>1 DEF ExitInv, OneHome
  <2>2. ASSUME NEW h \in Handlers, NEW u \in Exiting, NEW v \in Exiting,
               NEW i \in Nat, NEW j \in Nat, HoldsHandler(u, i, h)', HoldsHandler(v, j, h)'
        PROVE  u = v /\ i = j
    <3>1. CASE h \in E!Range(e)
      BY <1>9, <1>11, <1>12, <2>2, <3>1
    <3>2. CASE h \notin E!Range(e)
      <4>1. HoldsHandler(u, i, h) /\ HoldsHandler(v, j, h)
        BY <1>11, <2>2, <3>2
      <4>2. QED BY <4>1 DEF ExitInv, OneHome
    <3>3. QED BY <3>1, <3>2
  <2>3. ASSUME NEW h \in Handlers, NEW u \in Exiting, NEW i \in Nat, HoldsHandler(u, i, h)'
        PROVE  h \notin E!Range(x6') /\ h \notin E!Range(x1')
               /\ h \in E!Range(x5') /\ x7'[h] # << >>
    <3>1. CASE h \in E!Range(e)
      BY <1>1, <1>9, <1>12, <1>13, <1>14, <3>1
    <3>2. CASE h \notin E!Range(e)
      <4>1. HoldsHandler(u, i, h)
        BY <1>11, <2>3, <3>2
      <4>2. /\ h \notin E!Range(x6) /\ h \notin E!Range(x1)
            /\ h \in E!Range(x5) /\ x7[h] # << >>
        BY <4>1 DEF ExitInv, OneHome
      <4>3. QED BY <1>1, <1>9, <1>13, <3>2, <4>2
    <3>3. QED BY <3>1, <3>2
  <2>4. \A h \in E!Range(x1') :
           h \notin E!Range(x6') /\ h \in E!Range(x5') /\ x7'[h] = << >>
    BY <1>1, <1>7, <1>9, <1>12, <1>13
  <2>5. ASSUME NEW h \in E!Range(x6')
        PROVE  h \in E!Range(x5') /\ x7'[h] # << >>
    <3>1. h \in E!Range(x5) /\ x7[h] # << >> /\ h \in Handlers
      <4>1. x6 \in Seq(Handlers)
        BY DEF ExitInv, ExitTyped
      <4>2. QED BY <1>1, <2>5, <4>1 DEF ExitInv, OneHome, E!Range
    <3>2. QED BY <1>1, <1>13, <1>14, <3>1
  <2>6. ASSUME NEW h \in Handlers \ E!Range(x5') PROVE x7'[h] = << >>
    <3>1. h \notin E!Range(e) /\ x7[h] = << >>
      BY <1>1, <1>9, <1>12, <2>6 DEF ExitInv, OneHome
    <3>2. QED BY <1>13, <3>1
  <2>7. ASSUME NEW h \in E!Range(x5')
        PROVE  \/ h \in E!Range(x1') \/ h \in E!Range(x6')
               \/ \E u \in Exiting : \E i \in Nat : HoldsHandler(u, i, h)'
    <3>1. \/ h \in E!Range(x1) \/ h \in E!Range(x6)
          \/ \E u \in Exiting : \E i \in Nat : HoldsHandler(u, i, h)
      BY <1>1, <2>7 DEF ExitInv, OneHome
    <3>2. n \in Nat
      BY <1>3
    <3>3. QED BY <1>1, <1>9, <1>11, <3>1, <3>2
  <2>8. QED BY <2>1, <2>2, <2>3, <2>4, <2>5, <2>6, <2>7 DEF OneHome
<1>17. \A a, b : E!RegisteredBefore(a, b)' <=> E!RegisteredBefore(a, b)
  BY <1>1 DEF E!RegisteredBefore
<1>18. NewestFirst'
  <2>1. Newer' = Newer
    BY <1>17 DEF Newer
  <2>2. InOrder(e, Newer) /\ InOrder(x1', Newer)
    BY <1>4, <1>5 DEF ExitInv, NewestFirst
  <2>3. ASSUME NEW u \in Exiting, NEW i \in Nat PROVE InOrder(EntriesAt(u, i), Newer)'
    <3>1. CASE u = t /\ i = n
      BY <1>10, <2>1, <2>2, <3>1 DEF InOrder
    <3>2. CASE ~(u = t /\ i = n)
      <4>1. InOrder(EntriesAt(u, i), Newer) /\ EntriesAt(u, i)' = EntriesAt(u, i)
        BY <1>10, <3>2 DEF ExitInv, NewestFirst
      <4>2. QED BY <2>1, <4>1 DEF InOrder
    <3>3. QED BY <3>1, <3>2
  <2>4. InOrder(x1, Newer)'
    BY <2>1, <2>2 DEF InOrder
  <2>5. QED BY <2>3, <2>4 DEF NewestFirst
<1>19. ASSUME NEW h \in E!Range(x1) PROVE \E i \in 1 .. m : x5[i] = h
  <2>1. h \in E!Range(x5)
    BY <1>12
  <2>2. QED BY <1>2, <2>1 DEF E!Range, m
<1>20. ASSUME NEW h \in E!Range(e) PROVE \E k, c : TakenAll(h, k, c)'
  <2>1. h \in E!Range(x1) /\ h \in S /\ h \in Handlers
    BY <1>4, <1>7
  <2>2. x7'[h] = <<m, d>>
    BY <1>13, <2>1
  <2>3. \A i \in 1 .. m : x5[i] \in S => x5[i] \notin E!Range(x1')
    BY <1>5
  <2>4. m \in 0 .. Len(x5)
    BY <1>2 DEF m
  <2>5. PICK k, c : k = m /\ c = d
    OBVIOUS
  <2>6. S = E!OfLibrary(c)
    BY <1>8, <2>5
  <2>7. k \in 0 .. Len(x5) /\ x7'[h] = <<k, c>> /\ h \in E!OfLibrary(c)
    BY <2>1, <2>2, <2>4, <2>5, <2>6
  <2>8. \E i \in 1 .. k : x5[i] = h
    BY <1>19, <2>1, <2>5
  <2>9. \A i \in 1 .. k : x5[i] \in E!OfLibrary(c) => x5[i] \notin E!Range(x1')
    BY <2>3, <2>5, <2>6
  <2>10. TakenAll(h, k, c)'
    BY <1>1, <2>7, <2>8, <2>9 DEF TakenAll, E!OfLibrary
  <2>11. QED BY <2>10
<1>21. ASSUME NEW h \in Handlers, h \notin E!Range(e), x7[h] # << >>
       PROVE  \E k, c : TakenAll(h, k, c)' /\ TakenAll(h, k, c)
  <2>1. PICK k, c : TakenAll(h, k, c)
    BY <1>21 DEF ExitInv, Batches
  <2>2. x7'[h] = x7[h]
    BY <1>13, <1>21
  <2>3. TakenAll(h, k, c)'
    BY <1>1, <1>9, <2>1, <2>2 DEF TakenAll, E!OfLibrary
  <2>4. QED BY <2>1, <2>3
<1>22. ASSUME NEW a \in E!Range(e), NEW b \in Handlers, b \notin E!Range(e), x7[b] = <<m, d>>
       PROVE  FALSE
  <2>1. x7[b] # << >>
    BY <1>14, <1>22
  <2>2. PICK k, c : TakenAll(b, k, c)
    BY <2>1 DEF ExitInv, Batches
  <2>3. k = m /\ c = d
    BY <1>22, <2>2 DEF TakenAll
  <2>4. a \in E!Range(x1) /\ a \in S
    BY <1>4
  <2>5. PICK i \in 1 .. m : x5[i] = a
    BY <1>19, <2>4
  <2>6. QED BY <1>8, <2>2, <2>3, <2>4, <2>5 DEF TakenAll
<1>23. Batches'
  <2>1. ASSUME NEW h \in Handlers, x7'[h] # << >> PROVE \E k, c : TakenAll(h, k, c)'
    <3>1. CASE h \in E!Range(e)
      BY <1>20, <3>1
    <3>2. CASE h \notin E!Range(e)
      BY <1>13, <1>21, <2>1, <3>2
    <3>3. QED BY <3>1, <3>2
  <2>2. ASSUME NEW a \in Handlers, NEW b \in Handlers, x7'[a] # << >>,
               x7'[a] = x7'[b], E!RegisteredBefore(a, b)
        PROVE  Later(a, b)'
    <3>1. CASE a \in E!Range(e) /\ b \in E!Range(e)
      <4>1. \A u \in Exiting : \A i \in Nat : HoldsHandler(u, i, b)' => HoldsHandler(u, i, a)'
        BY <1>9, <1>11, <1>12, <3>1
      <4>2. a \notin E!Range(x6')
        BY <1>1, <1>9, <1>12, <3>1
      <4>3. QED BY <4>1, <4>2 DEF Later
    <3>2. CASE a \notin E!Range(e) /\ b \notin E!Range(e)
      <4>1. x7[a] # << >> /\ x7[a] = x7[b]
        BY <1>13, <2>2, <3>2
      <4>2. Later(a, b)
        BY <2>2, <4>1 DEF ExitInv, Batches
      <4>3. \A u \in Exiting : \A i \in Nat : HoldsHandler(u, i, b)' => HoldsHandler(u, i, a)'
        BY <1>11, <3>2, <4>2 DEF Later
      <4>4. QED BY <1>1, <4>2, <4>3 DEF Later
    <3>3. CASE a \in E!Range(e) /\ b \notin E!Range(e)
      BY <1>13, <1>22, <2>2, <3>3
    <3>4. CASE a \notin E!Range(e) /\ b \in E!Range(e)
      BY <1>13, <1>22, <2>2, <3>4
    <3>5. QED BY <3>1, <3>2, <3>3, <3>4
  <2>3. QED BY <1>17, <2>1, <2>2 DEF Batches
<1>24. QED BY <1>15, <1>16, <1>18, <1>23 DEF ExitInv

LEMMA ExitNext == ExitInv /\ [E!Next]_(E!vars) => ExitInv'
<1> SUFFICES ASSUME ExitInv, [E!Next]_(E!vars) PROVE ExitInv'
  OBVIOUS
<1>1. ExitFramed
  BY DEF ExitInv, ExitTyped
<1>2. CASE UNCHANGED E!vars
  <2>1. UNCHANGED <<x1, x3, x5, x6, x7>>
    BY <1>2 DEF E!vars
  <2>2. ExitFramed' /\ \A u \in Exiting, i \in Nat : EntriesAt(u, i)' = EntriesAt(u, i)
    BY <1>1, <2>1 DEF ExitFramed, EntriesAt
  <2>3. QED BY <2>1, <2>2, ExitQuiet
<1>3. ASSUME NEW t \in Exiting, E!RegisterExitFunction(t) PROVE ExitInv'
  BY <1>3, ExitRegisterStep
<1>4. ASSUME NEW t \in Exiting, E!CxaFinalize(t) PROVE ExitInv'
  <2>1. PICK d \in E!Libraries : x3' = [x3 EXCEPT ![t] = Append(@, E!Frame(d, FALSE))]
    BY <1>4 DEF E!CxaFinalize
  <2>2. /\ E!Frame(d, FALSE) \in ExitFrames /\ E!Frame(d, FALSE).entries = << >>
        /\ ~E!Frame(d, FALSE).exiting /\ E!Frame(d, FALSE).found = x5
    BY DEF E!Frame, ExitFrames, ExitInv, ExitTyped
  <2>3. UNCHANGED <<x1, x5, x6, x7>>
    BY <1>4 DEF E!CxaFinalize
  <2>4. QED BY <1>1, <2>1, <2>2, <2>3, ExitFramePushed, ExitQuiet
<1>5. ASSUME NEW t \in Exiting, E!CallExit(t) PROVE ExitInv'
  <2>1. UNCHANGED <<x1, x5, x6, x7>>
    BY <1>5 DEF E!CallExit
  <2>2. CASE UNCHANGED x3
    <3>1. ExitFramed' /\ \A u \in Exiting, i \in Nat : EntriesAt(u, i)' = EntriesAt(u, i)
      BY <1>1, <2>1, <2>2 DEF ExitFramed, EntriesAt
    <3>2. QED BY <2>1, <3>1, ExitQuiet
  <2>3. CASE x3' = [x3 EXCEPT ![t] = Append(@, E!Frame(Null, TRUE))]
    <3>1. /\ E!Frame(Null, TRUE) \in ExitFrames /\ E!Frame(Null, TRUE).entries = << >>
          /\ E!Frame(Null, TRUE).dso = Null /\ E!Frame(Null, TRUE).found = x5
      BY DEF E!Frame, ExitFrames, ExitInv, ExitTyped
    <3>2. QED BY <1>1, <2>1, <2>3, <3>1, ExitFramePushed, ExitQuiet
  <2>4. QED BY <1>5, <2>2, <2>3 DEF E!CallExit
<1>6. ASSUME NEW t \in Exiting, E!DetachExitFunctions(t) PROVE ExitInv'
  <2>1. CASE ~E!More(t)
    <3>1. /\ x3[t] # << >> /\ E!Top(t).entries = << >>
          /\ x3' = [x3 EXCEPT ![t] = E!Front(@)]
          /\ UNCHANGED <<x1, x5, x6, x7>>
      BY <1>6, <2>1 DEF E!DetachExitFunctions
    <3>2. QED BY <1>1, <3>1, ExitFramePopped, ExitQuiet
  <2>2. QED BY <1>6, <2>1, ExitDetachStep
<1>7. ASSUME NEW t \in Exiting, E!InvokeExitFunction(t) PROVE ExitInv'
  BY <1>7, ExitInvokeStep
<1>8. ASSUME NEW t \in Exiting, E!HandlerReturns(t) PROVE ExitInv'
  <2> DEFINE frame == [E!Top(t) EXCEPT !.running = FALSE]
  <2>1. /\ x3[t] # << >> /\ E!SetTop(t, frame)
        /\ UNCHANGED <<x1, x5, x6, x7>>
    BY <1>8 DEF E!HandlerReturns
  <2>2. /\ E!Top(t) \in ExitFrames /\ EntriesAt(t, Len(x3[t])) = E!Top(t).entries
    BY <1>1, <2>1, ExitTopFrame
  <2>3. /\ frame \in ExitFrames /\ frame.exiting = E!Top(t).exiting /\ frame.dso = E!Top(t).dso
        /\ frame.found = E!Top(t).found /\ frame.entries = E!Top(t).entries
    BY <2>2 DEF ExitFrames
  <2> HIDE DEF frame
  <2>4. /\ ExitFramed'
        /\ \A u \in Exiting, i \in Nat :
              EntriesAt(u, i)' = IF u = t /\ i = Len(x3[t]) THEN frame.entries
                                 ELSE EntriesAt(u, i)
    BY <1>1, <2>1, <2>3, ExitFrameReplaced
  <2>5. \A u \in Exiting, i \in Nat : EntriesAt(u, i)' = EntriesAt(u, i)
    BY <2>2, <2>3, <2>4
  <2>6. QED BY <2>1, <2>4, <2>5, ExitQuiet
<1>9. QED
  BY <1>2, <1>3, <1>4, <1>5, <1>6, <1>7, <1>8 DEF E!Next, E!Ended

\* The properties.

LEMMA ExitInvSafe == ExitInv => E!HandlersConserved /\ E!ReverseOrder
<1> SUFFICES ASSUME ExitInv PROVE E!HandlersConserved /\ E!ReverseOrder
  OBVIOUS
<1>1. /\ ExitFramed /\ x1 \in Seq(Handlers) /\ x5 \in Seq(Handlers)
      /\ x6 \in Seq(Handlers)
  BY DEF ExitInv, ExitTyped
<1>2. DOMAIN x6 = 1 .. Len(x6)
  BY <1>1
<1>3. \A t \in Exiting : \A h : h \in E!Waiting(t) <=> \E i \in Nat : HoldsHandler(t, i, h)
  BY <1>1, WaitingHolds
<1>4. \A t \in Exiting : \A i \in Nat : \A h : HoldsHandler(t, i, h) => h \in Handlers
  <2>1. SUFFICES ASSUME NEW t \in Exiting, NEW i \in Nat, NEW h, HoldsHandler(t, i, h)
                 PROVE  h \in Handlers
    OBVIOUS
  <2>2. EntriesAt(t, i) \in Seq(Handlers)
    BY <1>1, EntriesTyped
  <2>3. PICK k \in DOMAIN EntriesAt(t, i) : h = EntriesAt(t, i)[k]
    BY <2>1 DEF HoldsHandler, E!Range
  <2>4. QED BY <2>2, <2>3
<1>5. E!HandlersConserved
  <2>1. \A t, u \in Exiting : t # u => E!Waiting(t) \cap E!Waiting(u) = {}
    BY <1>3, <1>4 DEF ExitInv, OneHome
  <2>2. \A t \in Exiting : E!Waiting(t) \cap (E!Range(x6) \cup E!Range(x1)) = {}
    BY <1>3, <1>4 DEF ExitInv, OneHome
  <2>3. E!Range(x1) \cap E!Range(x6) = {}
    BY DEF ExitInv, OneHome
  <2>4. \A h \in E!Range(x5) :
           h \in E!Range(x6) \cup E!Range(x1) \cup UNION {E!Waiting(t) : t \in Exiting}
    BY <1>3 DEF ExitInv, OneHome
  <2>5. \A h \in E!Range(x6) \cup E!Range(x1) \cup UNION {E!Waiting(t) : t \in Exiting} :
           h \in E!Range(x5)
    BY <1>3, <1>4 DEF ExitInv, OneHome
  <2>6. \A i, j \in DOMAIN x6 : i # j => x6[i] # x6[j]
    BY <1>2 DEF ExitInv, OneHome
  <2>7. QED BY <2>1, <2>2, <2>3, <2>4, <2>5, <2>6 DEF E!HandlersConserved
<1>6. \A i \in 1 .. Len(x6) : E!CalledAt(x6[i]) = i
  BY <1>2 DEF ExitInv, OneHome, E!CalledAt
<1>7. E!ReverseOrder
  <2>1. SUFFICES ASSUME NEW a \in E!Range(x6), NEW b \in E!Range(x6),
                        E!RegisteredBefore(a, b), E!CalledAt(a) < E!CalledAt(b), x7[a] = x7[b]
                 PROVE  FALSE
    BY DEF E!ReverseOrder
  <2>2. a \in Handlers /\ b \in Handlers /\ x7[a] # << >>
    BY <1>1 DEF ExitInv, OneHome, E!Range
  <2>3. Later(a, b)
    BY <2>1, <2>2 DEF ExitInv, Batches
  <2>4. PICK i \in 1 .. Len(x6), j \in 1 .. Len(x6) :
           i < j /\ x6[i] = b /\ x6[j] = a
    BY <2>3 DEF Later
  <2>5. E!CalledAt(a) = j /\ E!CalledAt(b) = i
    BY <1>6, <2>4
  <2>6. QED BY <2>1, <2>4, <2>5
<1>8. QED BY <1>5, <1>7

LEMMA ExitStepSafe == ExitInv /\ [E!Next]_(E!vars) => E!CallsThemAll /\ E!CallsBeforeUnload
<1> SUFFICES ASSUME ExitInv, [E!Next]_(E!vars) PROVE E!CallsThemAll /\ E!CallsBeforeUnload
  OBVIOUS
<1>1. /\ ExitFramed /\ x1 \in Seq(Handlers) /\ x5 \in Seq(Handlers)
      /\ x6 \in Seq(Handlers)
  BY DEF ExitInv, ExitTyped
<1>2. E!HandlersConserved
  BY ExitInvSafe
<1>3. ASSUME NEW t \in Exiting, E!DetachExitFunctions(t), ~E!More(t)
      PROVE  E!Range(x1) \cap E!OfLibrary(E!Top(t).dso) = {}
  <2>1. E!Detached(E!Top(t).dso) = << >>
    BY <1>3 DEF E!More
  <2>2. E!Range(E!Detached(E!Top(t).dso)) = E!Range(x1) \cap E!OfLibrary(E!Top(t).dso)
    BY <1>1, PickedList DEF E!Detached, E!OfDso
  <2>3. QED BY <2>1, <2>2 DEF E!Range
<1>4. E!CallsThemAll
  <2>1. SUFFICES ASSUME x4' = "clean", x4 = "no"
                 PROVE  E!Range(x5) = E!Range(x6) \cup UNION {E!Waiting(t) : t \in Exiting}
    BY DEF E!CallsThemAll
  <2>2. PICK t \in Exiting : E!DetachExitFunctions(t) /\ ~E!More(t) /\ E!Top(t).exiting
    BY <2>1 DEF E!Next, E!vars, E!RegisterExitFunction, E!CxaFinalize, E!CallExit,
           E!DetachExitFunctions,
                E!InvokeExitFunction, E!HandlerReturns, E!Ended
  <2>3. E!Top(t).dso = Null
    BY <1>1, <2>2, ExitTopFrame DEF E!DetachExitFunctions
  <2>4. E!OfLibrary(Null) = Handlers /\ E!Range(x1) \subseteq Handlers
    BY <1>1 DEF E!OfLibrary, E!Range
  <2>5. E!Range(x1) = {}
    BY <1>3, <2>2, <2>3, <2>4
  <2>6. QED BY <1>2, <2>5 DEF E!HandlersConserved
<1>5. E!CallsBeforeUnload
  <2>1. SUFFICES ASSUME NEW t \in Exiting, Len(x3'[t]) < Len(x3[t]), ~E!Top(t).exiting,
                        NEW h \in E!Range(E!Top(t).found), Dso[h] = E!Top(t).dso
                 PROVE  h \in E!Range(x6) \cup UNION {E!Waiting(u) : u \in Exiting}
    BY DEF E!CallsBeforeUnload
  <2>2. /\ E!DetachExitFunctions(t) /\ ~E!More(t)
    <3>1. ASSUME UNCHANGED x3 PROVE FALSE
      <4>1. Len(x3[t]) \in Nat
        BY <1>1 DEF ExitFramed
      <4>2. QED BY <2>1, <3>1, <4>1
    <3>2. ASSUME NEW u \in Exiting, NEW frame \in ExitFrames,
                 x3' = [x3 EXCEPT ![u] = Append(@, frame)]
          PROVE  FALSE
      <4>1. /\ x3'[t] = IF t = u THEN Append(x3[t], frame) ELSE x3[t]
            /\ x3[t] \in Seq(ExitFrames) /\ Len(x3[t]) \in Nat
        BY <1>1, <3>2 DEF ExitFramed
      <4>2. Len(x3'[t]) \in {Len(x3[t]), Len(x3[t]) + 1}
        BY <4>1
      <4>3. QED BY <2>1, <4>1, <4>2
    <3>3. ASSUME NEW u \in Exiting, NEW frame \in ExitFrames, x3[u] # << >>, E!SetTop(u, frame)
          PROVE  FALSE
      <4>1. /\ x3'[t] = IF t = u THEN Append(E!Front(x3[t]), frame) ELSE x3[t]
            /\ x3[t] \in Seq(ExitFrames) /\ Len(x3[t]) \in Nat
        BY <1>1, <3>3 DEF ExitFramed, E!SetTop
      <4>2. Len(x3'[t]) = Len(x3[t])
        BY <3>3, <4>1, FrontIs
      <4>3. QED BY <2>1, <4>1, <4>2
    <3>4. ASSUME NEW u \in Exiting PROVE E!Frame(Null, TRUE) \in ExitFrames
      BY <1>1 DEF E!Frame, ExitFrames
    <3>5. ASSUME NEW d \in E!Libraries PROVE E!Frame(d, FALSE) \in ExitFrames
      BY <1>1 DEF E!Frame, ExitFrames
    <3>6. ASSUME NEW u \in Exiting, x3[u] # << >>
          PROVE  /\ [E!Top(u) EXCEPT !.running = FALSE] \in ExitFrames
                 /\ [E!Top(u) EXCEPT !.entries = E!Detached(E!Top(u).dso)] \in ExitFrames
                 /\ E!Top(u).entries # << >> =>
                       [E!Top(u) EXCEPT !.entries = Tail(@), !.running = TRUE] \in ExitFrames
      <4>1. E!Top(u) \in ExitFrames /\ E!Top(u).entries \in Seq(Handlers)
        BY <1>1, <3>6, ExitTopFrame DEF ExitFrames
      <4>2. E!Detached(E!Top(u).dso) \in Seq(Handlers)
        BY <1>1, PickedList DEF E!Detached, E!OfDso
      <4>3. E!Top(u).entries # << >> => Tail(E!Top(u).entries) \in Seq(Handlers)
        BY <4>1
      <4>4. QED BY <4>1, <4>2, <4>3 DEF ExitFrames
    <3>7. ASSUME NEW u \in Exiting
          PROVE ~E!RegisterExitFunction(u) /\ ~E!CxaFinalize(u) /\ ~E!CallExit(u)
                                         /\ ~E!InvokeExitFunction(u) /\ ~E!HandlerReturns(u)
      <4>1. ~E!RegisterExitFunction(u)
        BY <3>1 DEF E!RegisterExitFunction
      <4>2. ~E!CxaFinalize(u)
        BY <3>2, <3>5 DEF E!CxaFinalize
      <4>3. ~E!CallExit(u)
        BY <3>1, <3>2, <3>4 DEF E!CallExit
      <4>4. ~E!InvokeExitFunction(u)
        BY <3>3, <3>6 DEF E!InvokeExitFunction
      <4>5. ~E!HandlerReturns(u)
        BY <3>3, <3>6 DEF E!HandlerReturns
      <4>6. QED BY <4>1, <4>2, <4>3, <4>4, <4>5
    <3>8. PICK u \in Exiting : E!DetachExitFunctions(u)
      BY <3>1, <3>7 DEF E!Next, E!Ended, E!vars
    <3>9. ~E!More(u)
      BY <3>3, <3>6, <3>8 DEF E!DetachExitFunctions
    <3>10. u = t
      <4>1. x3' = [x3 EXCEPT ![u] = E!Front(@)]
        BY <3>8, <3>9 DEF E!DetachExitFunctions
      <4>2. t # u => x3'[t] = x3[t]
        BY <1>1, <4>1 DEF ExitFramed
      <4>3. Len(x3[t]) \in Nat
        BY <1>1 DEF ExitFramed
      <4>4. QED BY <2>1, <4>2, <4>3
    <3>11. QED BY <3>8, <3>9, <3>10
  <2>3. h \in E!Range(x5) /\ h \in Handlers
    <3>1. x3[t] # << >>
      BY <2>2 DEF E!DetachExitFunctions
    <3>2. h \in E!Range(x5)
      BY <1>1, <2>1, <3>1, ExitTopFrame
    <3>3. QED BY <1>1, <3>2 DEF E!Range
  <2>4. h \in E!OfLibrary(E!Top(t).dso)
    BY <2>1, <2>3 DEF E!OfLibrary
  <2>5. h \notin E!Range(x1)
    BY <1>3, <2>2, <2>4
  <2>6. QED BY <1>2, <2>3, <2>5 DEF E!HandlersConserved
<1>6. QED BY <1>4, <1>5

-----------------------------------------------------------------------------
\* The components proved here, in Runtime.

\* What holds of the component that runs.
Whole ==
    /\ component = "linux threads" => ThreadsInv
    /\ component = "hazard pointers" => HazardInv
    /\ component = "exit" => ExitInv

LEMMA WholeInit == AllInit => Whole
<1> SUFFICES ASSUME AllInit PROVE Whole
  OBVIOUS
<1>1. component = "linux threads" => ThreadsInv
  BY ThreadsInit DEF AllInit, InitOfXs
<1>2. component = "hazard pointers" => HazardInv
  BY HazardInit, HazardPointerAssumption DEF AllInit, InitOfXs
<1>3. component = "exit" => ExitInv
  BY ExitInit DEF AllInit, InitOfXs
<1>4. QED BY <1>1, <1>2, <1>3 DEF Whole

\* A step is a step of the component that runs, which goes on running.
LEMMA StepOfOne ==
    ASSUME [AllNext]_all
    PROVE  /\ component' = component
           /\ component = "linux threads" => [Next]_vars
           /\ component = "hazard pointers" => [H!Next]_(H!vars)
           /\ component = "loader" => [D!Next]_(D!vars)
           /\ component = "exceptions" => [X!Next]_(X!vars)
           /\ component = "linker" => [L!Next]_(L!vars)
           /\ component = "condition" => [C!Next]_(C!vars)
           /\ component = "exit" => [E!Next]_(E!vars)
<1>1. CASE AllNext
  <2>1. component = "linux threads" => [Next]_vars
    BY <1>1 DEF AllNext, StepOfXs, both, threads, vars, shared, ghosts
  <2>2. component = "hazard pointers" => [H!Next]_(H!vars)
    BY <1>1 DEF AllNext, StepOfXs, both, hazards, H!vars
  <2>3. component = "loader" => [D!Next]_(D!vars)
    BY <1>1 DEF AllNext, StepOfXs, images, D!vars
  <2>4. component = "condition" => [C!Next]_(C!vars)
    BY <1>1 DEF AllNext, StepOfXs, xs, C!vars
  <2>5. component = "exceptions" => [X!Next]_(X!vars)
    BY <1>1 DEF AllNext, StepOfXs, xs, X!vars
  <2>6. component = "linker" => [L!Next]_(L!vars)
    BY <1>1 DEF AllNext, StepOfXs, xs, L!vars
  <2>7. component = "exit" => [E!Next]_(E!vars)
    BY <1>1 DEF AllNext, StepOfXs, xs, E!vars
  <2>8. QED BY <1>1, <2>1, <2>2, <2>3, <2>4, <2>5, <2>6, <2>7 DEF AllNext
<1>2. CASE UNCHANGED all
  <2>1. UNCHANGED <<component, both, threads, hazards, images, xs>>
    BY <1>2 DEF all
  <2>2. UNCHANGED vars /\ UNCHANGED H!vars /\ UNCHANGED D!vars
    BY <2>1 DEF both, threads, hazards, images, vars, shared, ghosts,
       H!vars, D!vars
  <2>3. UNCHANGED C!vars /\ UNCHANGED X!vars /\ UNCHANGED L!vars
        /\ UNCHANGED E!vars
    BY <2>1 DEF xs, C!vars, X!vars, L!vars, E!vars
  <2>4. QED BY <2>1, <2>2, <2>3
<1>3. QED BY <1>1, <1>2

LEMMA WholeNext == Whole /\ [AllNext]_all => Whole'
<1> SUFFICES ASSUME Whole, [AllNext]_all PROVE Whole'
  OBVIOUS
<1> USE StepOfOne DEF Whole
<1>1. component' = "linux threads" => ThreadsInv'
  BY ThreadsNext
<1>2. component' = "hazard pointers" => HazardInv'
  BY HazardNext, HazardPointerAssumption
<1>3. component' = "exit" => ExitInv'
  BY ExitNext
<1>4. QED BY <1>1, <1>2, <1>3

LEMMA AlwaysWhole == AllSpec => []Whole
BY WholeInit, WholeNext, PTL DEF AllSpec

\* Nobody stands on an unmapped stack or uses a record that was given back,
\* however many threads end, join and detach each other (ReapDetachedThreads,
\* FreeRecord).
THEOREM StacksOutliveThreads == AllSpec => []ThreadsSafe
<1>1. Whole => ThreadsSafe
  BY ThreadsInvSafe DEF Whole, ThreadsSafe
<1>2. QED BY <1>1, AlwaysWhole, PTL

\* Whatever is retired and reclaimed while readers protect, validate and move
\* on, nobody reads an object that was reclaimed, and each is reclaimed once
\* (__hazard_pointer_reclaim).
THEOREM ReadersAreSafe == AllSpec => []HazardPointersSafe
<1>1. Whole => HazardPointersSafe
  BY HazardInvSafe DEF Whole, HazardPointersSafe
<1>2. QED BY <1>1, AlwaysWhole, PTL

\* While the counter does not come round, no notification is lost between
\* unlocking the mutex and blocking, and with a relocking that fails at most
\* one (ConditionWaitFor, ConditionAdvance).
THEOREM NotificationsArrive ==
    ASSUME Cardinality(Producers) * MaxPut < Generations
    PROVE  AllSpec => []NoLostNotify
<1> DEFINE Inv == component = "condition" => NotifyInv /\ ConditionBounds
<1>1. ConditionAssumed
  BY ConditionAssumption, CSets DEF ConditionAssumed, NeverComesRound
<1>2. AllInit => Inv
  BY <1>1, NotifyInit, BoundsInit DEF AllInit, InitOfXs
<1>3. Inv /\ [AllNext]_all => Inv'
  BY <1>1, StepOfOne, NotifyNext, BoundsNext
<1>4. Inv => NoLostNotify
  BY <1>1, NotifyTypeOK, NotifyKept DEF NoLostNotify
<1> HIDE DEF Inv
<1>5. QED BY <1>2, <1>3, <1>4, PTL DEF AllSpec

\* Whoever registers, finalizes and exits meanwhile, no handler is lost, called
\* twice or out of order, at exit or when a library goes (DetachExitFunctions,
\* __cxa_finalize).
THEOREM HandlersAreSafe == AllSpec => HandlersSafe
<1>1. Whole => (component = "exit" => E!HandlersConserved /\ E!ReverseOrder)
  BY ExitInvSafe DEF Whole
<1>2. Whole /\ [AllNext]_all =>
          [component = "exit" => E!CallsThemAll /\ E!CallsBeforeUnload]_all
  BY StepOfOne, ExitStepSafe DEF Whole
<1>3. QED BY <1>1, <1>2, AlwaysWhole, PTL DEF AllSpec, HandlersSafe

-----------------------------------------------------------------------------
\* The exception runtime, the loader and the linker: what their
\* proofs say of the copies of the modules they are about holds of those that
\* Runtime runs, for a copy has the same definitions.

SP == INSTANCE SequentialProofs WITH
    MaxDepth <- MaxScopes, NestedInCleanup <- FALSE, RethrowBelow <- FALSE,
    headers <- x1, caught <- x2, uncaught <- x3, active <- x4, landing <- x5,
    resume <- x6, raised <- x7, scopes <- x8, pointers <- x9, aborted <- x10,
    link <- x1, step <- x2, linked <- x3, table <- x4, position <- x5, before <- x6,
    errors <- x7, live <- x8, worklist <- x9

\* All of them count with the operators of FiniteSets.
LEMMA CopiesSets ==
    /\ \A S : X!IsFiniteSet(S) <=> IsFiniteSet(S)
    /\ \A S : X!Cardinality(S) = Cardinality(S)
    /\ \A S : SP!IsFiniteSet(S) <=> IsFiniteSet(S)
    /\ \A S : SP!Cardinality(S) = Cardinality(S)
    /\ \A S : D!IsFiniteSet(S) <=> IsFiniteSet(S)
    /\ \A S : D!Cardinality(S) = Cardinality(S)
    /\ \A S : SP!D!IsFiniteSet(S) <=> IsFiniteSet(S)
    /\ \A S : SP!D!Cardinality(S) = Cardinality(S)
    /\ \A S : L!IsFiniteSet(S) <=> IsFiniteSet(S)
    /\ \A S : L!Cardinality(S) = Cardinality(S)
    /\ \A S : SP!L!IsFiniteSet(S) <=> IsFiniteSet(S)
    /\ \A S : SP!L!Cardinality(S) = Cardinality(S)
BY DEF IsFiniteSet, X!IsFiniteSet, SP!IsFiniteSet,
       D!IsFiniteSet, SP!D!IsFiniteSet, L!IsFiniteSet, SP!L!IsFiniteSet,
   Cardinality, X!Cardinality, SP!Cardinality, D!Cardinality,
       SP!D!Cardinality, L!Cardinality, SP!L!Cardinality

LEMMA ExceptionsAssumed == SP!Assumed
BY ExceptionsAssumption, CopiesSets
   DEF X!ExceptionsConstants, SP!ExceptionsConstants, SP!Assumed

LEMMA ExceptionsInitCopied == X!Init => SP!Init
BY DEF X!Init, SP!Init

LEMMA ExceptionsNextCopied == X!Next => SP!Next
BY DEF X!Abs, SP!Abs, X!LinkedWithin, SP!LinkedWithin, X!Listed, SP!Listed,
   X!DestroyHeaderIfNeeded, SP!DestroyHeaderIfNeeded, X!ReleaseExceptionReference,
   SP!ReleaseExceptionReference, X!BeginCatch, SP!BeginCatch, X!PopCaughtException,
   SP!PopCaughtException, X!EndCatch, SP!EndCatch, X!Scope, SP!Scope, X!Outer, SP!Outer,
   X!Innermost, SP!Innermost, X!Runs, SP!Runs, X!CleanupAt, SP!CleanupAt, X!MayThrow,
   SP!MayThrow, X!Enter, SP!Enter, X!Leave, SP!Leave, X!LeaveHandler, SP!LeaveHandler,
   X!Raise, SP!Raise, X!Throw, SP!Throw, X!Marked, SP!Marked, X!Rethrow, SP!Rethrow,
   X!CaughtBelow, SP!CaughtBelow, X!RethrowException, SP!RethrowException, X!Resume,
   SP!Resume, X!Context, SP!Context, X!LandInCleanup, SP!LandInCleanup, X!LandInHandler,
   SP!LandInHandler, X!LandInArgument, SP!LandInArgument, X!LandInTry, SP!LandInTry,
   X!CleanupReturns, SP!CleanupReturns, X!CurrentException, SP!CurrentException,
   X!ReleasePointer, SP!ReleasePointer, X!CopyPointer, SP!CopyPointer, X!Next, SP!Next,
   X!Front, SP!Front, X!Last, SP!Last

LEMMA ExceptionsStutterCopied == UNCHANGED X!vars => UNCHANGED SP!vars
BY DEF X!vars, SP!vars

LEMMA ExceptionsSafeCopied == SP!ExceptionsSafe => X!ExceptionsSafe
BY CopiesSets
  DEF X!Optional, SP!Optional, X!Kinds, SP!Kinds, X!TypeOK, SP!TypeOK, X!ScopesOf,
   SP!ScopesOf, X!InFlight, SP!InFlight, X!Handled, SP!Handled, X!Referenced, SP!Referenced,
   X!ObjectsLiveWhileUsed, SP!ObjectsLiveWhileUsed, X!CurrentIsInnermost,
   SP!CurrentIsInnermost, X!UnwindingGoesOn, SP!UnwindingGoesOn, X!ExceptionsSafe,
   SP!ExceptionsSafe

LEMMA ExceptionsInit == X!Init => SP!Inv
BY ExceptionsInitCopied, ExceptionsAssumed, SP!InitInv

LEMMA ExceptionsNext == SP!Inv /\ [X!Next]_(X!vars) => SP!Inv'
BY ExceptionsNextCopied, ExceptionsStutterCopied, ExceptionsAssumed, SP!NextInv, SP!StutterInv

LEMMA ExceptionsInvSafe == SP!Inv => X!ExceptionsSafe
BY ExceptionsAssumed, SP!InvSafe, ExceptionsSafeCopied

LEMMA LoaderAssumed == SP!D!LifecycleConstants
BY LoaderAssumption, CopiesSets
  DEF D!InputRec, SP!D!InputRec, D!LifecycleConstants, SP!D!LifecycleConstants, D!Range,
   SP!D!Range, D!Last, SP!D!Last, D!Front, SP!D!Front, D!Reverse, SP!D!Reverse

LEMMA LoaderInitCopied == D!Init => SP!D!Init
BY DEF D!Init, SP!D!Init, D!Range, SP!D!Range, D!Last, SP!D!Last, D!Front, SP!D!Front,
   D!Reverse, SP!D!Reverse

LEMMA LoaderNextCopied == D!Next => SP!D!Next
BY CopiesSets
  DEF D!vars, SP!D!vars, D!Dependencies, SP!D!Dependencies, D!PassedOver, SP!D!PassedOver,
   D!Visiting, SP!D!Visiting, D!Advance, SP!D!Advance, D!Enter, SP!D!Enter, D!Leave,
   SP!D!Leave, D!EndSort, SP!D!EndSort, D!Sort, SP!D!Sort, D!List, SP!D!List, D!Skipped,
   SP!D!Skipped, D!HasArray, SP!D!HasArray, D!MarkPhaseDone, SP!D!MarkPhaseDone, D!Successful,
   SP!D!Successful, D!Following, SP!D!Following, D!RunPhase, SP!D!RunPhase, D!GuestFini,
   SP!D!GuestFini, D!MarkExecutableFiniComplete, SP!D!MarkExecutableFiniComplete, D!GuestExit,
   SP!D!GuestExit, D!MainReturns, SP!D!MainReturns, D!Shutdown, SP!D!Shutdown, D!Done,
   SP!D!Done, D!Next, SP!D!Next, D!Range, SP!D!Range, D!Last, SP!D!Last, D!Front, SP!D!Front,
   D!Reverse, SP!D!Reverse

LEMMA LoaderStutterCopied == UNCHANGED D!vars => UNCHANGED SP!D!vars
BY DEF D!vars, SP!D!vars

LEMMA LoaderSafeCopied == SP!D!LifecycleSafe => D!LifecycleSafe
BY CopiesSets
  DEF D!HasArray, SP!D!HasArray, D!Needs, SP!D!Needs, D!Called, SP!D!Called, D!CalledBefore,
   SP!D!CalledBefore, D!NeededInitFirst, SP!D!NeededInitFirst, D!NeededFiniLast,
   SP!D!NeededFiniLast, D!OnceAndOnlyAfterInit, SP!D!OnceAndOnlyAfterInit, D!Acyclic,
   SP!D!Acyclic, D!BadGraphRunsNothing, SP!D!BadGraphRunsNothing, D!EverythingFinalized,
   SP!D!EverythingFinalized, D!LifecycleSafe, SP!D!LifecycleSafe, D!Range, SP!D!Range, D!Last,
   SP!D!Last, D!Front, SP!D!Front, D!Reverse, SP!D!Reverse

LEMMA LoaderInit == D!Init => SP!LoaderInv
BY LoaderInitCopied, LoaderAssumed, SP!LoaderInit

LEMMA LoaderNext == SP!LoaderInv /\ [D!Next]_(D!vars) => SP!LoaderInv'
BY LoaderNextCopied, LoaderStutterCopied, LoaderAssumed, SP!LoaderNext

LEMMA LoaderInvCopied == SP!LoaderInv => D!LifecycleSafe
BY LoaderAssumed, SP!LoaderInvSafe, LoaderSafeCopied

LEMMA LinkerAssumed == SP!L!LinkerConstants
BY LinkerAssumption, CopiesSets
  DEF L!Referred, SP!L!Referred, L!Place, SP!L!Place, L!IsFile, SP!L!IsFile, L!Files,
   SP!L!Files, L!IsLink, SP!L!IsLink, L!LinkerConstants, SP!L!LinkerConstants, L!Range,
   SP!L!Range, L!Min, SP!L!Min, L!Max, SP!L!Max

LEMMA LinkerInitCopied == L!Init => SP!L!Init
BY DEF L!Absent, SP!L!Absent, L!Init, SP!L!Init, L!Range, SP!L!Range, L!Min, SP!L!Min, L!Max,
   SP!L!Max

\* The operators of the linker that its steps are built from are the same too.
LEMMA LinkerReadsCopied ==
    /\ \A file : L!ReadFile(file) => SP!L!ReadFile(file)
    /\ \A n : /\ L!Defining(n) = SP!L!Defining(n)
              /\ L!FindInStaticLibraries(n) = SP!L!FindInStaticLibraries(n)
              /\ L!Wanted(n) <=> SP!L!Wanted(n)
<1>1. \A file : L!Referred(file) = SP!L!Referred(file)
  BY DEF L!Referred, SP!L!Referred
<1>2. \A file, n : L!Place(file, n) = SP!L!Place(file, n)
  BY <1>1 DEF L!Place, SP!L!Place
<1>3. \A file, n : L!Weak(file, n) = SP!L!Weak(file, n)
  BY DEF L!Weak, SP!L!Weak
<1>4. \A file, n : L!Symbol(file, n) = SP!L!Symbol(file, n)
  BY <1>2, <1>3 DEF L!Symbol, SP!L!Symbol
<1>5. L!Absent = SP!L!Absent /\ \A S : L!Min(S) = SP!L!Min(S) /\ L!Max(S) = SP!L!Max(S)
  BY DEF L!Absent, SP!L!Absent, L!Min, SP!L!Min, L!Max, SP!L!Max
<1>6. \A old, new : L!RedefineSymbol(old, new) = SP!L!RedefineSymbol(old, new)
  BY <1>5 DEF L!RedefineSymbol, SP!L!RedefineSymbol, L!BothCommon, SP!L!BothCommon
<1>7. \A old, new : L!ReadSymbol(old, new) = SP!L!ReadSymbol(old, new)
  BY <1>5, <1>6 DEF L!ReadSymbol, SP!L!ReadSymbol
<1>8. \A old, new : L!Duplicate(old, new) <=> SP!L!Duplicate(old, new)
  BY DEF L!Duplicate, SP!L!Duplicate, L!BothCommon, SP!L!BothCommon
<1>9. ASSUME NEW file, L!ReadFile(file) PROVE SP!L!ReadFile(file)
  BY <1>2, <1>4, <1>5, <1>7, <1>8, <1>9 DEF L!ReadFile, SP!L!ReadFile
<1>10. \A n : L!Defining(n) = SP!L!Defining(n)
  BY <1>2 DEF L!Defining, SP!L!Defining
<1>11. \A n : L!FindInStaticLibraries(n) = SP!L!FindInStaticLibraries(n)
  BY <1>5, <1>10 DEF L!FindInStaticLibraries, SP!L!FindInStaticLibraries
<1>12. \A n : L!Wanted(n) <=> SP!L!Wanted(n)
  BY <1>5 DEF L!Wanted, SP!L!Wanted
<1>13. QED BY <1>9, <1>10, <1>11, <1>12

LEMMA LinkerNextCopied == L!Next => SP!L!Next
<1>1. L!ReadObject => SP!L!ReadObject
  BY LinkerReadsCopied DEF L!ReadObject, SP!L!ReadObject
<1>2. L!ResolveEntrySymbol => SP!L!ResolveEntrySymbol
  BY LinkerReadsCopied DEF L!ResolveEntrySymbol, SP!L!ResolveEntrySymbol
<1>3. L!BeginPass => SP!L!BeginPass
  BY CopiesSets
    DEF L!Absent, SP!L!Absent, L!SymbolCount, SP!L!SymbolCount, L!BeginPass, SP!L!BeginPass,
     L!Range, SP!L!Range, L!Min, SP!L!Min, L!Max, SP!L!Max
<1>4. L!ResolveUndefined => SP!L!ResolveUndefined
  BY LinkerReadsCopied DEF L!ResolveUndefined, SP!L!ResolveUndefined
<1>5. L!EndPass => SP!L!EndPass
  BY CopiesSets
    DEF L!Absent, SP!L!Absent, L!SymbolCount, SP!L!SymbolCount, L!PassesAreOver,
     SP!L!PassesAreOver, L!EndPass, SP!L!EndPass, L!Range, SP!L!Range, L!Min, SP!L!Min, L!Max,
     SP!L!Max
<1>6. L!MarkRoots => SP!L!MarkRoots
  BY CopiesSets
    DEF L!Absent, SP!L!Absent, L!Referred, SP!L!Referred, L!Place, SP!L!Place, L!SectionsOf,
     SP!L!SectionsOf, L!AllSections, SP!L!AllSections, L!SectionOf, SP!L!SectionOf, L!Roots,
     SP!L!Roots, L!MarkLive, SP!L!MarkLive, L!MarkRoots, SP!L!MarkRoots, L!Range, SP!L!Range,
     L!Min, SP!L!Min, L!Max, SP!L!Max
<1>7. L!MarkReferences => SP!L!MarkReferences
  BY CopiesSets
    DEF L!Absent, SP!L!Absent, L!SectionOf, SP!L!SectionOf, L!FileNamed, SP!L!FileNamed,
     L!References, SP!L!References, L!MarkReferences, SP!L!MarkReferences, L!Range, SP!L!Range,
     L!Min, SP!L!Min, L!Max, SP!L!Max
<1>8. L!EndCollection => SP!L!EndCollection
  BY CopiesSets
    DEF L!EndCollection, SP!L!EndCollection, L!Range, SP!L!Range, L!Min, SP!L!Min, L!Max,
     SP!L!Max
<1>9. L!CheckUndefined => SP!L!CheckUndefined
  BY CopiesSets
    DEF L!Absent, SP!L!Absent, L!Wanted, SP!L!Wanted, L!CheckUndefined, SP!L!CheckUndefined,
     L!Range, SP!L!Range, L!Min, SP!L!Min, L!Max, SP!L!Max
<1>10. L!Done => SP!L!Done
  BY CopiesSets
    DEF L!vars, SP!L!vars, L!Done, SP!L!Done, L!Range, SP!L!Range, L!Min, SP!L!Min, L!Max,
     SP!L!Max
<1>11. QED BY <1>1, <1>2, <1>3, <1>4, <1>5, <1>6, <1>7, <1>8, <1>9, <1>10
   DEF L!Next, SP!L!Next

LEMMA LinkerStutterCopied == UNCHANGED L!vars => UNCHANGED SP!L!vars
BY DEF L!vars, SP!L!vars

LEMMA LinkerSafeCopied ==
    /\ SP!L!BoundAsLinked => L!BoundAsLinked
    /\ SP!L!DuplicatesReported => L!DuplicatesReported
    /\ SP!L!MembersLinkedOnceWhenNeeded => L!MembersLinkedOnceWhenNeeded
    /\ SP!L!NothingStrongLeftToLoad => L!NothingStrongLeftToLoad
    /\ SP!L!KeptIsReachable => L!KeptIsReachable
    /\ SP!L!BeginsWithMore => L!BeginsWithMore
<1>1. SP!L!BoundAsLinked => L!BoundAsLinked
  BY DEF L!Absent, SP!L!Absent, L!Referred, SP!L!Referred, L!Place, SP!L!Place, L!Weak,
     SP!L!Weak, L!Positions, SP!L!Positions, L!DefiningFiles, SP!L!DefiningFiles, L!StrongFiles,
     SP!L!StrongFiles, L!ReferringFiles, SP!L!ReferringFiles, L!Winner, SP!L!Winner, L!Commons,
     SP!L!Commons, L!SizeOf, SP!L!SizeOf, L!BoundAsLinked, SP!L!BoundAsLinked, L!Range,
     SP!L!Range, L!Min, SP!L!Min, L!Max, SP!L!Max
<1>2. SP!L!DuplicatesReported => L!DuplicatesReported
  BY DEF L!Referred, SP!L!Referred, L!Place, SP!L!Place, L!Weak, SP!L!Weak, L!Positions,
     SP!L!Positions, L!DefiningFiles, SP!L!DefiningFiles, L!StrongFiles, SP!L!StrongFiles,
     L!Commons, SP!L!Commons, L!DuplicatesReported, SP!L!DuplicatesReported, L!Range,
     SP!L!Range, L!Min, SP!L!Min, L!Max, SP!L!Max
<1>3. SP!L!MembersLinkedOnceWhenNeeded => L!MembersLinkedOnceWhenNeeded
  BY DEF L!Referred, SP!L!Referred, L!Place, SP!L!Place, L!Weak, SP!L!Weak, L!Defining,
     SP!L!Defining, L!FindInStaticLibraries, SP!L!FindInStaticLibraries, L!Positions,
     SP!L!Positions, L!ReferringFiles, SP!L!ReferringFiles, L!MembersLinkedOnceWhenNeeded,
     SP!L!MembersLinkedOnceWhenNeeded, L!Range, SP!L!Range, L!Min, SP!L!Min, L!Max, SP!L!Max
<1>4. SP!L!NothingStrongLeftToLoad => L!NothingStrongLeftToLoad
  BY DEF L!Absent, SP!L!Absent, L!Referred, SP!L!Referred, L!Place, SP!L!Place, L!Weak,
     SP!L!Weak, L!Defining, SP!L!Defining, L!Wanted, SP!L!Wanted, L!Positions, SP!L!Positions,
     L!ReferringFiles, SP!L!ReferringFiles, L!Resolved, SP!L!Resolved, L!LeftBehind,
     SP!L!LeftBehind, L!NothingStrongLeftToLoad, SP!L!NothingStrongLeftToLoad, L!Range,
     SP!L!Range, L!Min, SP!L!Min, L!Max, SP!L!Max
<1>5. SP!L!KeptIsReachable => L!KeptIsReachable
  BY DEF L!Absent, SP!L!Absent, L!Referred, SP!L!Referred, L!Place, SP!L!Place, L!SectionsOf,
     SP!L!SectionsOf, L!AllSections, SP!L!AllSections, L!SectionOf, SP!L!SectionOf, L!Roots,
     SP!L!Roots, L!FileNamed, SP!L!FileNamed, L!References, SP!L!References, L!Closed,
     SP!L!Closed, L!KeptIsReachable, SP!L!KeptIsReachable, L!Range, SP!L!Range, L!Min, SP!L!Min,
     L!Max, SP!L!Max
<1>6. SP!L!BeginsWithMore => L!BeginsWithMore
  BY DEF L!BeginsWithMore, SP!L!BeginsWithMore
<1>7. QED BY <1>1, <1>2, <1>3, <1>4, <1>5, <1>6

LEMMA LinkerInit == L!Init => SP!Collected /\ SP!Linked
BY LinkerInitCopied, LinkerAssumed, SP!CollectedInit, SP!LinkedInit

LEMMA LinkerNext ==
    SP!Collected /\ SP!Linked /\ [L!Next]_(L!vars) => SP!Collected' /\ SP!Linked'
BY LinkerNextCopied, LinkerStutterCopied, LinkerAssumed, SP!CollectedNext, SP!LinkedNext

LEMMA LinkerInvCopied ==
    ASSUME SP!Collected, SP!Linked
    PROVE  /\ L!BoundAsLinked /\ L!DuplicatesReported
           /\ L!MembersLinkedOnceWhenNeeded /\ L!NothingStrongLeftToLoad
           /\ L!KeptIsReachable
BY LinkerAssumed, SP!LinkedSafe, SP!CollectedSafe, LinkerSafeCopied

LEMMA PassesCopied == SP!Linked /\ [L!Next]_(L!vars) => L!BeginsWithMore
BY LinkerNextCopied, LinkerStutterCopied, LinkerAssumed, SP!LinkedPasses, LinkerSafeCopied

\* All of them in Runtime.

Copies ==
    /\ component = "exceptions" => SP!Inv
    /\ component = "loader" => SP!LoaderInv
    /\ component = "linker" => SP!Collected /\ SP!Linked

LEMMA CopiesInit == AllInit => Copies
BY ExceptionsInit, LoaderInit, LinkerInit DEF AllInit, InitOfXs, Copies

LEMMA CopiesNext == Copies /\ [AllNext]_all => Copies'
BY StepOfOne, ExceptionsNext, LoaderNext, LinkerNext DEF Copies

LEMMA AlwaysCopies == AllSpec => []Copies
BY CopiesInit, CopiesNext, PTL DEF AllSpec

\* Where unwinding throws nothing and nothing is rethrown below a handler of
\* another exception, an object lives as long as it is used, the current exception
\* is the innermost handler's, and unwinding goes on (__cxa_begin_catch,
\* __cxa_end_catch, _Unwind_Resume).
THEOREM ExceptionsAreSafe == AllSpec => []ExceptionsSafe
<1>1. Copies => ExceptionsSafe
  BY ExceptionsInvSafe DEF Copies, ExceptionsSafe
<1>2. QED BY <1>1, AlwaysCopies, PTL

\* Whatever the images need of each other, with cycles or holes or without,
\* what an image needs is initialized before it and finalized after it, once,
\* and a graph that cannot be ordered runs nothing (LoaderBuildLifecycle,
\* LoaderNextInitializer, LoaderNextFinalizer).
THEOREM LifecycleIsSafe == AllSpec => []LifecycleSafe
<1>1. Copies => LifecycleSafe
  BY LoaderInvCopied DEF Copies, LifecycleSafe
<1>2. QED BY <1>1, AlwaysCopies, PTL

\* Whatever the files refer to and however the worklist is walked, the sections
\* kept are the roots and what can be reached from them
\* (LinkerGarbageCollectSections).
THEOREM ReachableIsKept == AllSpec => []KeptIsReachable
<1>1. Copies => KeptIsReachable
  BY LinkerInvCopied DEF Copies, KeptIsReachable
<1>2. QED BY <1>1, AlwaysCopies, PTL

\* Whatever files are linked and in whatever order the table is walked, a name
\* is bound to the first strong definition or the first weak one, a second strong
\* one is reported, members are linked once and when needed, the passes leave no
\* strong reference behind, and there are no more of them than names (ReadFile,
\* RedefineSymbol, LinkerResolveLibrarySymbols).
THEOREM LinksAreSafe == AllSpec => LinkSafe
<1>1. Copies => (component = "linker" =>
                   /\ L!BoundAsLinked /\ L!DuplicatesReported
                   /\ L!MembersLinkedOnceWhenNeeded /\ L!NothingStrongLeftToLoad)
  BY LinkerInvCopied DEF Copies
<1>2. Copies /\ [AllNext]_all => (component = "linker" => L!BeginsWithMore)
  BY PassesCopied, StepOfOne DEF Copies
<1>3. QED BY <1>1, <1>2, AlwaysCopies, PTL DEF AllSpec, LinkSafe
=============================================================================
