--------------------------------- MODULE Rcu ---------------------------------
(***************************************************************************)
(* libc/rcu.cc on top of SharedMutex: readers hold the shared lock of the  *)
(* domain, however deeply they nest; rcu_retire queues a record under a    *)
(* ticket; rcu_synchronize takes the lock exclusively and gives it back;   *)
(* rcu_barrier waits for the readers and runs the reclaim functions of all *)
(* records retired before it was called.  The program publishes one object *)
(* at a time: a writer replaces it and retires the old one.                *)
(***************************************************************************)
EXTENDS SharedMutex, Sequences, SequencesExt

CONSTANTS
    Objects,    \* bound: what the program ever publishes
    First,      \* the one published first
    MaxDepth,   \* bound: nested reads
    MaxOps      \* bound: reads and barriers begun by each thread

ASSUME RcuConstants == First \in Objects /\ MaxDepth \in Nat /\ MaxOps \in [Threads -> Nat]

VARIABLES
    queue,          \* head .. tail: records with their tickets
    next_ticket, completed_ticket,
    reclaim_guard,  \* the mutex of that name: its holder, or {}
    depth,          \* __reader_depth
    at,             \* where each thread is in its barrier
    target, ready,  \* locals of __barrier
    current,        \* the published object
    seen,           \* what each reader may still look at
    freed,          \* reclaimed objects, in order
    due,            \* what was retired before each thread's barrier began
    ops

rcuVars == <<smVars, queue, next_ticket, completed_ticket, reclaim_guard, depth, at,
             target, ready, current, seen, freed, due, ops>>
lockPart == <<queue, next_ticket, completed_ticket, reclaim_guard, at, target, ready,
              current, freed, due>>

RcuInit ==
    /\ Init
    /\ queue = <<>> /\ next_ticket = 0 /\ completed_ticket = 0
    /\ reclaim_guard = {} /\ freed = <<>> /\ current = First
    /\ depth = [t \in Threads |-> 0]
    /\ at = [t \in Threads |-> "out"]
    /\ target = [t \in Threads |-> 0] /\ ready = [t \in Threads |-> <<>>]
    /\ seen = [t \in Threads |-> {}] /\ due = [t \in Threads |-> {}]
    /\ ops = [t \in Threads |-> 0]

Move(t, p) == at' = [at EXCEPT ![t] = p]
Outside(t) == at[t] = "out" /\ pc[t] = "idle"
Retired == {queue[i].obj : i \in DOMAIN queue} \cup ToSet(freed)
           \cup UNION {{ready[t][i].obj : i \in DOMAIN ready[t]} : t \in Threads}

-----------------------------------------------------------------------------
\* Readers.

\* The outermost lock and try_lock go to the shared mutex.
ReadLock(t, o) ==
    /\ Outside(t) /\ depth[t] = 0 /\ ops[t] < MaxOps[t]
    /\ Call(t, o)
    /\ ops' = [ops EXCEPT ![t] = @ + 1]
    /\ UNCHANGED <<lockPart, depth, seen>>

\* Seeded fault: every level takes the shared lock.
ReadLockAgain(t) ==
    /\ at[t] = "out" /\ pc[t] = "held" /\ depth[t] \in 1 .. MaxDepth - 1 /\ ops[t] < MaxOps[t]
    /\ Goto(t, "enter") /\ ops' = [ops EXCEPT ![t] = @ + 1]
    /\ UNCHANGED <<readers, waiting_writers, writer, op, lockPart, depth, seen>>

ReadNested(t) ==
    /\ at[t] = "out" /\ depth[t] \in 1 .. MaxDepth - 1 /\ ops[t] < MaxOps[t]
    /\ depth' = [depth EXCEPT ![t] = @ + 1]
    /\ ops' = [ops EXCEPT ![t] = @ + 1]
    /\ UNCHANGED <<smVars, lockPart, seen>>

\* Seeded fault: the lock is given up at the first unlock.
ReadUnlockFirst(t) ==
    /\ at[t] = "out" /\ depth[t] > 0
    /\ depth' = [depth EXCEPT ![t] = @ - 1]
    /\ IF depth[t] > 1 /\ pc[t] # "held" THEN UNCHANGED <<smVars, seen>>
       ELSE Unlock(t) /\ seen' = [seen EXCEPT ![t] = IF depth[t] = 1 THEN {} ELSE @]
    /\ UNCHANGED <<lockPart, ops>>

ReadUnlock(t) ==
    /\ at[t] = "out" /\ depth[t] > 0
    /\ depth' = [depth EXCEPT ![t] = @ - 1]
    /\ IF depth[t] > 1 THEN UNCHANGED <<smVars, seen>>
       ELSE Unlock(t) /\ seen' = [seen EXCEPT ![t] = {}]
    /\ UNCHANGED <<lockPart, ops>>

Read(t) ==
    /\ depth[t] > 0
    /\ seen' = [seen EXCEPT ![t] = @ \cup {current}]
    /\ UNCHANGED <<smVars, lockPart, depth, ops>>

\* A reader is let in: its depth is 1 from here.  Others go on to Synchronize.
LockStep(t) ==
    /\ Inside(t)
    /\ depth' = [depth EXCEPT ![t] =
                   IF pc'[t] = "held" /\ op[t] \in Shared THEN 1 ELSE @]
    /\ UNCHANGED <<lockPart, seen, ops>>

-----------------------------------------------------------------------------
\* rcu_retire, after the program has published another object.

Retire(t, o) ==
    /\ at[t] = "out" /\ o # current /\ o \notin Retired
    /\ current' = o
    /\ next_ticket' = next_ticket + 1
    /\ queue' = Append(queue, [obj |-> current, ticket |-> next_ticket'])
    /\ UNCHANGED <<smVars, completed_ticket, reclaim_guard, depth, at, target, ready,
                   seen, freed, due, ops>>

-----------------------------------------------------------------------------
\* rcu_barrier and rcu_synchronize, never called by a reader.

barrierPart == <<current, seen, depth>>

\* Seeded fault: an empty queue counts as nothing to wait for.
BarrierQueueEmpty(t) ==
    /\ Outside(t) /\ depth[t] = 0 /\ ops[t] < MaxOps[t]
    /\ ops' = [ops EXCEPT ![t] = @ + 1]
    /\ target' = [target EXCEPT ![t] = next_ticket]
    /\ due' = [due EXCEPT ![t] = Retired]
    /\ Move(t, IF queue = <<>> THEN "done" ELSE "guard")
    /\ UNCHANGED <<smVars, queue, next_ticket, completed_ticket, reclaim_guard, ready,
                   freed, barrierPart>>

\* Under queue_guard: nothing to wait for, or a target.
Barrier(t) ==
    /\ Outside(t) /\ depth[t] = 0 /\ ops[t] < MaxOps[t]
    /\ ops' = [ops EXCEPT ![t] = @ + 1]
    /\ target' = [target EXCEPT ![t] = next_ticket]
    /\ due' = [due EXCEPT ![t] = Retired]
    /\ Move(t, IF completed_ticket >= next_ticket THEN "done" ELSE "guard")
    /\ UNCHANGED <<smVars, queue, next_ticket, completed_ticket, reclaim_guard, ready,
                   freed, barrierPart>>

\* Another barrier may have done the work while this one waited.
TakeReclaimGuard(t) ==
    /\ at[t] = "guard" /\ reclaim_guard = {}
    /\ IF completed_ticket >= target[t]
       THEN Move(t, "done") /\ UNCHANGED reclaim_guard
       ELSE Move(t, "sync") /\ reclaim_guard' = {t}
    /\ UNCHANGED <<smVars, queue, next_ticket, completed_ticket, target, ready, freed,
                   due, ops, barrierPart>>

\* __synchronize: lock, unlock, notify.
Synchronize(t) ==
    /\ at[t] \in {"sync", "synced"}
    /\ \/ at[t] = "sync" /\ pc[t] = "idle" /\ Call(t, "lock") /\ UNCHANGED at
       \/ at[t] = "sync" /\ pc[t] = "held" /\ Unlock(t) /\ Move(t, "synced")
       \/ at[t] = "synced" /\ pc[t] = "idle" /\ Move(t, "take") /\ UNCHANGED smVars
    /\ UNCHANGED <<queue, next_ticket, completed_ticket, reclaim_guard, target, ready,
                   freed, due, ops, barrierPart>>

\* The records that belong to this barrier: the head up to its target.
Ready(t) == Cardinality({i \in DOMAIN queue : queue[i].ticket <= target[t]})

\* Seeded fault: the records stay in the queue.
TakeAndKeep(t) ==
    /\ at[t] = "take" /\ queue # <<>>
    /\ ready' = [ready EXCEPT ![t] = SubSeq(queue, 1, Ready(t))]
    /\ Move(t, "reclaim")
    /\ UNCHANGED <<smVars, queue, next_ticket, completed_ticket, reclaim_guard, target,
                   freed, due, ops, barrierPart>>

TakeReady(t) ==
    /\ at[t] = "take"
    /\ ready' = [ready EXCEPT ![t] = SubSeq(queue, 1, Ready(t))]
    /\ queue' = SubSeq(queue, Ready(t) + 1, Len(queue))
    /\ Move(t, IF Ready(t) = 0 THEN "done" ELSE "reclaim")
    /\ reclaim_guard' = IF Ready(t) = 0 THEN {} ELSE reclaim_guard
    /\ UNCHANGED <<smVars, next_ticket, completed_ticket, target, freed, due, ops,
                   barrierPart>>

\* The reclaim function runs under reclaim_guard alone.
Reclaim(t) ==
    /\ at[t] = "reclaim"
    /\ freed' = Append(freed, Head(ready[t]).obj)
    /\ Move(t, "complete")
    /\ UNCHANGED <<smVars, queue, next_ticket, completed_ticket, reclaim_guard, target,
                   ready, due, ops, barrierPart>>

\* completed_ticket, under queue_guard; after the last record the barrier ends.
Complete(t) ==
    /\ at[t] = "complete"
    /\ completed_ticket' = Head(ready[t]).ticket
    /\ ready' = [ready EXCEPT ![t] = Tail(@)]
    /\ Move(t, IF Len(ready[t]) = 1 THEN "done" ELSE "reclaim")
    /\ reclaim_guard' = IF Len(ready[t]) = 1 THEN {} ELSE reclaim_guard
    /\ UNCHANGED <<smVars, queue, next_ticket, target, freed, due, ops, barrierPart>>

Return(t) ==
    /\ at[t] = "done" /\ Move(t, "out")
    /\ due' = [due EXCEPT ![t] = {}] /\ target' = [target EXCEPT ![t] = 0]
    /\ UNCHANGED <<smVars, queue, next_ticket, completed_ticket, reclaim_guard, ready,
                   freed, ops, barrierPart>>

BarrierStep(t) ==
    TakeReclaimGuard(t) \/ Synchronize(t) \/ TakeReady(t) \/ Reclaim(t) \/ Complete(t) \/ Return(t)

RcuNext ==
    \E t \in Threads :
         \/ \E o \in Calls[t] \cap (Shared \ Timed) : ReadLock(t, o)
         \/ ReadNested(t) \/ ReadUnlock(t) \/ Read(t) \/ LockStep(t)
         \/ "lock" \in Calls[t] /\ Barrier(t)
         \/ BarrierStep(t)
         \/ \E o \in Objects : "lock" \in Calls[t] /\ Retire(t, o)

\* Threads inside the library go on and readers leave.  Which of two barriers
\* gets the reclaim guard is left open: their number is bounded.
RcuSpec ==
    /\ RcuInit /\ [][RcuNext]_rcuVars
    /\ \A t \in Threads : WF_rcuVars(LockStep(t) \/ ReadUnlock(t) \/ BarrierStep(t))

-----------------------------------------------------------------------------
\* Properties.

\* The grace period: nothing a reader may still look at is reclaimed, however
\* reads nest, barriers overlap and objects are replaced meanwhile.
NoReaderSeesFreed == \A t \in Threads : seen[t] \cap ToSet(freed) = {}

\* When a barrier returns, everything retired before it was called has been
\* reclaimed, also when another barrier did the work (__barrier's early returns).
BarrierIsComplete == \A t \in Threads : at[t] = "done" => due[t] \subseteq ToSet(freed)

\* Objects are reclaimed once, in the order of their tickets, and
\* completed_ticket counts them: it lags by one while a reclaim function runs.
ReclaimedInOrder ==
    /\ IsInjective(freed)
    /\ completed_ticket \in {Len(freed), Len(freed) - 1}
    /\ next_ticket = Len(queue) + Len(freed)
                     + Cardinality(UNION {{ready[t][i].obj : i \in DOMAIN ready[t]} : t \in Threads})
                     - (IF \E t \in Threads : at[t] = "complete" THEN 1 ELSE 0)

\* Barriers return although readers come and go and other barriers overtake.
BarrierReturns ==
    \A t \in Threads : "lock" \in Calls[t] => (at[t] = "guard" ~> at[t] = "done")

\* A barrier reclaims all that was due, once and in order.
BarrierReclaims == BarrierIsComplete /\ ReclaimedInOrder
=============================================================================
