------------------------------ MODULE Condition ------------------------------
(***************************************************************************)
(* The C11 condition variable of libc/threads.c: a generation counter.     *)
(* Waiting remembers the generation, unlocks the mutex and waits for the   *)
(* counter to move; notifying advances the counter and wakes one waiter or *)
(* all of them.  The mutex is the abstract Lock that Mutex implements, the *)
(* wait is the one of AddrWait on the counter.                             *)
(*                                                                         *)
(* The clients are the ones the primitive exists for: consumers wait for   *)
(* an item under the mutex in a loop, producers put one and notify,        *)
(* holding the mutex or after giving it up, or leave the notification to   *)
(* thread exit (notify_all_at_thread_exit: unlock, then broadcast).        *)
(***************************************************************************)
EXTENDS Naturals, FiniteSets

CONSTANTS
    Consumers, Producers, NoThread,
    WaitKinds,      \* how consumers wait: subset of {"forever", "timed"}
    Notify,         \* how producers notify: subset of {"signal", "broadcast"}
    Places,         \* where: subset of {"inside", "outside"} of the locked region
    WaitCanFail,    \* the waits on the counter and in mtx_lock may return thrd_error
    PerProducer,    \* bound: items each producer puts
    Generations     \* size of the counter: 2^32 in the code

AllThreads == Consumers \cup Producers

\* What is assumed of the constants.
ConditionConstants ==
    /\ IsFiniteSet(AllThreads)
    /\ Consumers \cap Producers = {} /\ NoThread \notin AllThreads
    /\ WaitKinds \subseteq {"forever", "timed"}
    /\ Notify \subseteq {"signal", "broadcast"}
    /\ Places \subseteq {"inside", "outside"}
    /\ WaitCanFail \in BOOLEAN
    /\ PerProducer \in Nat \ {0} /\ Generations \in Nat \ {0}

VARIABLES
    holder, depth,  \* the mutex
    generation,     \* condition->generation
    items,          \* what the consumers wait for
    pc,
    seen,           \* generation a waiter remembered
    kind,           \* how a consumer waits, how and where a producer notifies
    put             \* items a producer has put

vars == <<holder, depth, generation, items, pc, seen, kind, put>>

mutex == INSTANCE Lock WITH Threads <- AllThreads

Points == {"lock", "test", "load", "unlock", "compare", "asleep", "woken",
           "relock", "expired", "leave", "out", "failed",
           "put", "advance", "wake", "give"}

Kinds == {<<w>> : w \in WaitKinds} \cup (Notify \X Places)

TypeOK ==
    /\ holder \in AllThreads \cup {NoThread} /\ depth \in {0, 1}
    /\ generation \in 0 .. Generations - 1
    /\ items \in 0 .. Cardinality(Producers) * PerProducer
    /\ pc \in [AllThreads -> Points]
    /\ seen \in [Consumers -> 0 .. Generations - 1]
    /\ kind \in [AllThreads -> Kinds]
    /\ put \in [Producers -> 0 .. PerProducer]

Init ==
    /\ mutex!Init
    /\ generation = 0 /\ items = 0
    /\ pc = [t \in AllThreads |-> "lock"]
    /\ seen = [c \in Consumers |-> 0]
    /\ kind \in [AllThreads -> Kinds]
    /\ \A t \in AllThreads : kind[t] \in Notify \X Places <=> t \in Producers
    /\ put = [p \in Producers |-> 0]

Goto(t, p) == pc' = [pc EXCEPT ![t] = p]
Quiet == UNCHANGED <<holder, depth>>

\* Seeded fault: the mutex is entered without being free.
EnterUnguarded(t) == holder' = t /\ depth' = depth + 1

Enter(t) == mutex!Acquire(t)

\* mtx_lock that succeeds, also the one that ends a wait.
Lock(t) ==
    /\ pc[t] \in {"lock", "relock", "expired"}
    /\ Enter(t)
    /\ Goto(t, CASE pc[t] = "expired" -> "leave"
                 [] t \in Producers -> "put"
                 [] OTHER -> "test")
    /\ UNCHANGED <<generation, items, seen, kind, put>>

-----------------------------------------------------------------------------
\* A consumer: while (items == 0) cnd_wait(...);

Test(c) ==
    /\ pc[c] = "test"
    /\ \/ items > 0 /\ items' = items - 1 /\ Goto(c, "leave")
       \/ items = 0 /\ Goto(c, "load") /\ UNCHANGED items
    /\ Quiet /\ UNCHANGED <<generation, seen, kind, put>>

\* ConditionWaitFor: remember the generation, then unlock, then wait.
LoadGeneration(c) ==
    /\ pc[c] = "load"
    /\ seen' = [seen EXCEPT ![c] = generation]
    /\ Goto(c, "unlock")
    /\ Quiet /\ UNCHANGED <<generation, items, kind, put>>

UnlockToWait(c) ==
    /\ pc[c] = "unlock"
    /\ mutex!Release(c)
    /\ Goto(c, "compare")
    /\ UNCHANGED <<generation, items, seen, kind, put>>

\* The wait's comparison; seeded fault: none.
Uncompared(c) == TRUE

SameGeneration(c) == generation = seen[c]

\* Seeded fault: a wait that finds the counter moved compares again.
AddrWaitRetries(c) ==
    /\ pc[c] = "compare"
    /\ Goto(c, IF SameGeneration(c) THEN "asleep" ELSE "compare")
    /\ Quiet /\ UNCHANGED <<generation, items, seen, kind, put>>

AddrWait(c) ==
    /\ pc[c] = "compare"
    /\ Goto(c, IF SameGeneration(c) THEN "asleep" ELSE "relock")
    /\ Quiet /\ UNCHANGED <<generation, items, seen, kind, put>>

\* The native futex returns to its caller ...
WokenReturns(c) ==
    /\ pc[c] = "woken"
    /\ Goto(c, "relock")
    /\ Quiet /\ UNCHANGED <<generation, items, seen, kind, put>>

\* ... the guest's wait table compares once more and may block again.
WokenBlocksAgain(c) ==
    /\ pc[c] = "woken" /\ SameGeneration(c)
    /\ Goto(c, "asleep")
    /\ Quiet /\ UNCHANGED <<generation, items, seen, kind, put>>

\* thrd_timedout: the client takes the mutex back, looks once more and gives up
\* if there is nothing; this model lets it give up without looking.
WaitTimeout(c) ==
    /\ pc[c] = "asleep" /\ kind[c] = <<"timed">>
    /\ Goto(c, "expired")
    /\ Quiet /\ UNCHANGED <<generation, items, seen, kind, put>>

WaitFails(c) ==
    /\ WaitCanFail /\ pc[c] \in {"compare", "asleep"}
    /\ Goto(c, "expired")
    /\ Quiet /\ UNCHANGED <<generation, items, seen, kind, put>>

\* The mtx_lock that ends a wait found the mutex taken and its own wait failed:
\* thrd_error without the mutex, which the client cannot tell from a wait that
\* failed.  It gives up; "failed" if its wait on the counter had succeeded.
RelockFails(c) ==
    /\ WaitCanFail /\ pc[c] \in {"relock", "expired"}
    /\ Goto(c, IF pc[c] = "relock" THEN "failed" ELSE "out")
    /\ Quiet /\ UNCHANGED <<generation, items, seen, kind, put>>

Leave(c) ==
    /\ pc[c] = "leave"
    /\ mutex!Release(c)
    /\ Goto(c, "out")
    /\ UNCHANGED <<generation, items, seen, kind, put>>

-----------------------------------------------------------------------------
\* A producer.

Inside(p) == kind[p][2] = "inside"

Put(p) ==
    /\ pc[p] = "put"
    /\ items' = items + 1
    /\ put' = [put EXCEPT ![p] = @ + 1]
    /\ Goto(p, IF Inside(p) THEN "advance" ELSE "give")
    /\ Quiet /\ UNCHANGED <<generation, seen, kind>>

\* mtx_unlock
Give(p) ==
    /\ pc[p] = "give"
    /\ mutex!Release(p)
    /\ Goto(p, IF ~Inside(p) THEN "advance"
               ELSE IF put[p] < PerProducer THEN "lock" ELSE "out")
    /\ UNCHANGED <<generation, items, seen, kind, put>>

\* cnd_signal and cnd_broadcast: ConditionAdvance, then the wake.
ConditionAdvance(p) ==
    /\ pc[p] = "advance"
    /\ generation' = (generation + 1) % Generations
    /\ Goto(p, "wake")
    /\ Quiet /\ UNCHANGED <<items, seen, kind, put>>

Asleep == {c \in Consumers : pc[c] = "asleep"}

\* Whom one wake picks.
Picked(all) ==
    IF all THEN {Asleep} ELSE IF Asleep = {} THEN {{}} ELSE {{c} : c \in Asleep}

AddrWake(p) ==
    /\ pc[p] = "wake"
    /\ \E W \in Picked(kind[p][1] = "broadcast") :
          pc' = [t \in AllThreads |->
                   IF t \in W THEN "woken"
                   ELSE IF t # p THEN pc[t]
                   ELSE IF Inside(p) THEN "give"
                   ELSE IF put[p] < PerProducer THEN "lock" ELSE "out"]
    /\ Quiet /\ UNCHANGED <<generation, items, seen, kind, put>>

ConsumerStep(c) ==
    \/ Lock(c) \/ Test(c) \/ LoadGeneration(c) \/ UnlockToWait(c)
    \/ AddrWait(c) \/ WokenReturns(c) \/ Leave(c)

ProducerStep(p) ==
    Lock(p) \/ Put(p) \/ Give(p) \/ ConditionAdvance(p) \/ AddrWake(p)

\* Consumers whose wait ended without the mutex although it had succeeded.
Failed == {c \in Consumers : pc[c] = "failed"}

\* Producers are done and consumers got out or wait for items nobody puts, or
\* for those a failed consumer was told of.
Quiescent ==
    /\ \A p \in Producers : pc[p] = "out"
    /\ \A c \in Consumers :
          pc[c] \in {"out", "failed"} \/ (pc[c] = "asleep" /\ items <= Cardinality(Failed))
    /\ UNCHANGED vars

Next ==
    \/ \E c \in Consumers :
          \/ ConsumerStep(c) \/ WokenBlocksAgain(c)
          \/ WaitTimeout(c) \/ WaitFails(c) \/ RelockFails(c)
    \/ \E p \in Producers : ProducerStep(p)
    \/ Quiescent

\* AllThreads are scheduled; nothing makes a wait time out, fail or block again.
Fairness ==
    /\ \A c \in Consumers : WF_vars(ConsumerStep(c))
    /\ \A p \in Producers : WF_vars(ProducerStep(p))

Spec == Init /\ [][Next]_vars /\ Fairness
-----------------------------------------------------------------------------
\* Somebody who will look for an item or wake somebody who will.
OnTheWay(t) ==
    \/ t \in Producers /\ pc[t] \in {"put", "give", "advance", "wake"}
    \/ t \in Consumers /\ pc[t] \in {"lock", "test", "woken", "relock"}
    \/ t \in Consumers /\ pc[t] \in {"unlock", "compare"} /\ seen[t] # generation

\* No notification is lost between unlocking the mutex and blocking, and one
\* that is spent on a waiter that blocks again was for an item already taken:
\* while an item is there and a consumer sleeps, somebody is on the way.  What is
\* lost is at most one notification with each waiter whose relocking failed.
NoLostNotify ==
    items > Cardinality(Failed) /\ (\E c \in Consumers : pc[c] = "asleep") =>
        \E t \in AllThreads : OnTheWay(t)

\* Each consumer that keeps waiting is served if there are items enough.
Served(c) == pc[c] = "out"
AllServed ==
    Cardinality(Producers) * PerProducer >= Cardinality(Consumers) =>
        \A c \in Consumers : <>Served(c)
=============================================================================
