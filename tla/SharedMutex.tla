----------------------------- MODULE SharedMutex -----------------------------
(***************************************************************************)
(* std::shared_mutex and std::shared_timed_mutex, the class __base of      *)
(* libc/include/shared_mutex: two counters and a flag under a mutex, one   *)
(* condition variable for everybody, and a preference for writers.  What   *)
(* runs under the inner mutex (see Mutex) is one step; a condition wait    *)
(* gives the mutex up and sleeps in the same step (see Condition).         *)
(***************************************************************************)
EXTENDS Naturals, FiniteSets

CONSTANTS
    Threads,
    Calls   \* [Threads -> set of operations]: what each thread may call

Exclusive == {"lock", "try_lock", "try_lock_until"}
Shared == {"lock_shared", "try_lock_shared", "try_lock_shared_until"}
Tries == {"try_lock", "try_lock_shared"}
Timed == {"try_lock_until", "try_lock_shared_until"}

ASSUME SharedMutexConstants ==
    IsFiniteSet(Threads) /\ Calls \in [Threads -> SUBSET (Exclusive \cup Shared)]

VARIABLES
    readers, waiting_writers, writer,   \* the three members
    op,         \* the call each thread is in, or last made
    pc          \* "expired": a timed wait that ran out and holds the mutex next

smVars == <<readers, waiting_writers, writer, op, pc>>

Init ==
    /\ readers = 0 /\ waiting_writers = 0 /\ writer = FALSE
    /\ op = [t \in Threads |-> "lock"]
    /\ pc = [t \in Threads |-> "idle"]

Goto(t, p) == pc' = [pc EXCEPT ![t] = p]
NotifyAll(t, p) == pc' = [u \in Threads |-> IF u = t THEN p
                                            ELSE IF pc[u] = "asleep" THEN "woken" ELSE pc[u]]
Writes(t) == op[t] \in Exclusive

\* Seeded fault: readers pass writers that wait.
MayEnterUnpreferred(t) == ~ writer /\ (Writes(t) => readers = 0)

\* Seeded fault: writers pass readers that are in.
MayEnterAmongReaders(t) == ~ writer /\ (~ Writes(t) => waiting_writers = 0)

\* The predicates of the waits, and the tests of the try functions.
MayEnter(t) == /\ ~ writer
               /\ IF Writes(t) THEN readers = 0
                  ELSE waiting_writers = 0

Grant(t) ==
    /\ Goto(t, "held")
    /\ IF Writes(t) THEN writer' = TRUE /\ UNCHANGED readers
       ELSE readers' = readers + 1 /\ UNCHANGED writer

Call(t, o) ==
    /\ pc[t] = "idle"
    /\ op' = [op EXCEPT ![t] = o] /\ Goto(t, "enter")
    /\ UNCHANGED <<readers, waiting_writers, writer>>

\* The first critical section of each function.  A writer that is let in at
\* once counts itself in and out again.
Enter(t) ==
    /\ pc[t] = "enter"
    /\ IF MayEnter(t) THEN Grant(t) /\ UNCHANGED waiting_writers
       ELSE /\ Goto(t, IF op[t] \in Tries THEN "idle" ELSE "asleep")
            /\ waiting_writers' = waiting_writers
                                  + (IF Writes(t) /\ op[t] \notin Tries THEN 1 ELSE 0)
            /\ UNCHANGED <<readers, writer>>
    /\ UNCHANGED op

Timeout(t) ==
    /\ pc[t] = "asleep" /\ op[t] \in Timed
    /\ Goto(t, "expired")
    /\ UNCHANGED <<readers, waiting_writers, writer, op>>

SpuriousWakeup(t) ==
    /\ pc[t] = "asleep" /\ Goto(t, "woken")
    /\ UNCHANGED <<readers, waiting_writers, writer, op>>

\* Seeded fault: a writer that gives up tells nobody.
ExpireSilently(t) == Goto(t, "idle")

\* A writer that gives up lets the readers it held back look again.
Expire(t) == IF Writes(t) THEN NotifyAll(t, "idle") ELSE Goto(t, "idle")

\* Seeded fault: a writer that gives up still counts as waiting.
LeavesQueueOnGrant(t) == Writes(t) /\ MayEnter(t)

LeavesQueue(t) == Writes(t) /\ (MayEnter(t) \/ pc[t] = "expired")

\* The wait has the mutex again: granted, asleep once more or out of time.
Recheck(t) ==
    /\ pc[t] \in {"woken", "expired"}
    /\ IF MayEnter(t) THEN Grant(t)
       ELSE /\ IF pc[t] = "expired" THEN Expire(t) ELSE Goto(t, "asleep")
            /\ UNCHANGED <<readers, writer>>
    /\ waiting_writers' = waiting_writers - (IF LeavesQueue(t) THEN 1 ELSE 0)
    /\ UNCHANGED op

\* unlock and unlock_shared give the mutex up before they notify; a reader
\* notifies only when it was the last.
Unlock(t) ==
    /\ pc[t] = "held"
    /\ IF Writes(t) THEN writer' = FALSE /\ Goto(t, "notify") /\ UNCHANGED readers
       ELSE /\ readers' = readers - 1
            /\ Goto(t, IF readers = 1 THEN "notify" ELSE "idle")
            /\ UNCHANGED writer
    /\ UNCHANGED <<waiting_writers, op>>

Notify(t) ==
    /\ pc[t] = "notify" /\ NotifyAll(t, "idle")
    /\ UNCHANGED <<readers, waiting_writers, writer, op>>

Inside(t) == Enter(t) \/ Recheck(t) \/ Notify(t)

Next ==
    \E t \in Threads :
        \/ \E o \in Calls[t] : Call(t, o)
        \/ Inside(t) \/ Timeout(t) \/ SpuriousWakeup(t) \/ Unlock(t)

\* Threads inside the library go on; a holder unlocks in the end.
Spec == Init /\ [][Next]_smVars /\ \A t \in Threads : WF_smVars(Inside(t) \/ Unlock(t))

-----------------------------------------------------------------------------
\* Properties.

Holders(kind) == {t \in Threads : pc[t] = "held" /\ op[t] \in kind}
Waiters == {t \in Threads : pc[t] \in {"asleep", "woken", "expired"} /\ Writes(t)}

\* The counters and the flag say who is in and who waits, through timeouts,
\* failures and spurious wake-ups; and a writer is in alone.
CountsExact ==
    /\ readers = Cardinality(Holders(Shared))
    /\ waiting_writers = Cardinality(Waiters)
    /\ Cardinality(Holders(Exclusive)) = (IF writer THEN 1 ELSE 0)
    /\ writer => readers = 0

\* Nobody sleeps on a lock that would let them in, unless the notification is
\* on its way (unlock, unlock_shared, a writer's timeout in try_lock_until).
NoMissedWakeup ==
    (\E t \in Threads : pc[t] = "asleep" /\ MayEnter(t)) => \E u \in Threads : pc[u] = "notify"

\* No stream of readers keeps writers out for ever: when one waits in lock,
\* some writer gets in (which one is not promised: writers may overtake).
WriterWaits == \E t \in Threads : op[t] = "lock" /\ pc[t] \in {"asleep", "woken"}
WriterIsIn == writer
WritersGetIn == WriterWaits ~> WriterIsIn

\* It implements a readers-writer lock: readers together or one writer, held
\* from the step that grants it to unlock or unlock_shared.
RW == INSTANCE RwLock WITH shared <- Holders(Shared), exclusive <- Holders(Exclusive)
GrantsAsRwLock == [RW!Next]_(RW!vars)
ImplementsRwLock == RW!Init /\ [][GrantsAsRwLock]_smVars

\* The counters and the sleepers agree.
SharedMutexSafe == CountsExact /\ NoMissedWakeup
=============================================================================
