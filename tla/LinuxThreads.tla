---------------------------- MODULE LinuxThreads ----------------------------
(***************************************************************************)
(* Native threads of libc/threads.c on Linux: a LinuxThread record, a      *)
(* mapped stack and a TLS block per thread, made by thrd_create and given  *)
(* back by thrd_join or, for detached threads, by whoever next calls       *)
(* ReapDetachedThreads, which every thread does on its way out while it    *)
(* still stands on its own stack.  The kernel clears the tid word and      *)
(* wakes its waiters once the thread has left its stack                    *)
(* (CLONE_CHILD_CLEARTID).                                                 *)
(*                                                                         *)
(* A section under detached_threads_lock is one action.  Clients join or   *)
(* detach each thread at most once, as C11 requires.                       *)
(***************************************************************************)
EXTENDS Naturals, FiniteSets

CONSTANTS
    Main,           \* the thread the program starts with; it has no record
    Workers,        \* records thrd_create may use: the bound on threads made
    MaxOps          \* bound: [AllThreads -> Nat], calls made by each thread

AllThreads == {Main} \cup Workers

ASSUME LinuxThreadsConstants == Main \notin Workers /\ MaxOps \in [AllThreads -> Nat]

VARIABLES
    tid,                \* records whose tid word is not 0
    result,             \* thread->result
    detached,           \* records with thread->detached
    detached_threads,   \* the list
    mapped,             \* records allocated, with stack and TLS mapped
    made,               \* records ever used
    claimed,            \* threads a client has joined or detached
    pc, then,           \* where each thread is; where it goes on after reaping
    joins,              \* the thread it joins
    ready,              \* its local list in ReapDetachedThreads
    freed,              \* records given back, with how often
    got,                \* what its joiner was given
    ops

shared == <<tid, result, detached, detached_threads, mapped>>
ghosts == <<made, claimed, freed, got, ops>>
vars == <<shared, ghosts, pc, then, joins, ready>>

Points == {"none", "run", "create", "join", "reap", "unmap", "fini", "exit", "dead"}

TypeOK ==
    /\ tid \subseteq Workers /\ detached \subseteq Workers
    /\ detached_threads \subseteq Workers /\ mapped \subseteq Workers
    /\ made \subseteq Workers /\ claimed \subseteq Workers
    /\ result \in [Workers -> 0 .. 1] /\ got \in [Workers -> 0 .. 1]
    /\ pc \in [AllThreads -> Points] /\ then \in [AllThreads -> Points]
    /\ joins \in [AllThreads -> AllThreads]
    /\ ready \in [AllThreads -> SUBSET Workers]
    /\ freed \in [Workers -> 0 .. 1]
    /\ \A t \in AllThreads : ops[t] \in 0 .. MaxOps[t]

Init ==
    /\ tid = {} /\ detached = {} /\ detached_threads = {} /\ mapped = {}
    /\ made = {} /\ claimed = {}
    /\ result = [w \in Workers |-> 0] /\ got = [w \in Workers |-> 0]
    /\ pc = [t \in AllThreads |-> IF t = Main THEN "run" ELSE "none"]
    /\ then = [t \in AllThreads |-> "run"]
    /\ joins = [t \in AllThreads |-> t]
    /\ ready = [t \in AllThreads |-> {}]
    /\ freed = [w \in Workers |-> 0]
    /\ ops = [t \in AllThreads |-> 0]

Goto(t, p) == pc' = [pc EXCEPT ![t] = p]

ReapThen(t, p) ==
    /\ Goto(t, "reap")
    /\ then' = [then EXCEPT ![t] = p]

Call(t) ==
    /\ pc[t] = "run" /\ ops[t] < MaxOps[t]
    /\ ops' = [ops EXCEPT ![t] = @ + 1]

\* Seeded fault: the record is freed twice.
GiveBackTwice(W) ==
    /\ mapped' = mapped \ W
    /\ freed' = [w \in Workers |-> IF w \in W THEN freed[w] + 2 ELSE freed[w]]

\* munmap of stack and TLS block, free of the record.
GiveBack(W) ==
    /\ mapped' = mapped \ W
    /\ freed' = [w \in Workers |-> IF w \in W THEN freed[w] + 1 ELSE freed[w]]

-----------------------------------------------------------------------------
\* ReapDetachedThreads: move the finished ones to a local list under the lock,
\* give them back outside it.

\* Seeded fault: threads are reaped while they still run.
ReapRunning(t) ==
    /\ pc[t] = "reap"
    /\ detached_threads' = {}
    /\ ready' = [ready EXCEPT ![t] = detached_threads]
    /\ Goto(t, "unmap")
    /\ UNCHANGED <<tid, result, detached, mapped, ghosts, then, joins>>

Reap(t) ==
    LET done == {w \in detached_threads : w \notin tid}
    IN /\ pc[t] = "reap"
       /\ detached_threads' = detached_threads \ done
       /\ ready' = [ready EXCEPT ![t] = done]
       /\ Goto(t, "unmap")
       /\ UNCHANGED <<tid, result, detached, mapped, ghosts, then, joins>>

Unmap(t) ==
    /\ pc[t] = "unmap"
    /\ GiveBack(ready[t])
    /\ ready' = [ready EXCEPT ![t] = {}]
    /\ Goto(t, then[t])
    /\ then' = [then EXCEPT ![t] = "run"]
    /\ UNCHANGED <<tid, result, detached, detached_threads, made, claimed, got,
                   ops, joins>>

-----------------------------------------------------------------------------
thrd_create(t) ==
    /\ Call(t)
    /\ ReapThen(t, "create")
    /\ UNCHANGED <<shared, made, claimed, freed, got, joins, ready>>

\* Allocation or clone may fail, and all is given back at once; else the new
\* thread runs from here on, with its tid already stored by the kernel.
Clone(t) ==
    /\ pc[t] = "create"
    /\ \/ /\ Goto(t, "run")
          /\ UNCHANGED <<tid, mapped, made>>
       \/ \E w \in Workers \ made :
             /\ made' = made \cup {w} /\ mapped' = mapped \cup {w}
             /\ tid' = tid \cup {w}
             /\ pc' = [pc EXCEPT ![t] = "run", ![w] = "run"]
    /\ UNCHANGED <<result, detached, detached_threads, claimed, freed, got, ops,
                   then, joins, ready>>

\* Seeded fault: the detached thread is not put on the list.
DetachUnlisted(t) ==
    /\ Call(t)
    /\ \E w \in made \ claimed :
          /\ claimed' = claimed \cup {w}
          /\ detached' = detached \cup {w}
    /\ ReapThen(t, "run")
    /\ UNCHANGED <<tid, result, detached_threads, mapped, made, freed, got, joins, ready>>

\* A thread may detach itself.
thrd_detach(t) ==
    /\ Call(t)
    /\ \E w \in made \ claimed :
          /\ claimed' = claimed \cup {w}
          /\ detached' = detached \cup {w}
          /\ detached_threads' = detached_threads \cup {w}
    /\ ReapThen(t, "run")
    /\ UNCHANGED <<tid, result, mapped, made, freed, got, joins, ready>>

thrd_join(t) ==
    /\ Call(t)
    /\ \E w \in made \ (claimed \cup {t}) :
          /\ w \notin detached
          /\ claimed' = claimed \cup {w}
          /\ joins' = [joins EXCEPT ![t] = w]
    /\ Goto(t, "join")
    /\ UNCHANGED <<shared, made, freed, got, then, ready>>

\* The futex wait on tid ends when the word is 0.
JoinFinish(t) ==
    LET w == joins[t]
    IN /\ pc[t] = "join" /\ w \notin tid
       /\ got' = [got EXCEPT ![w] = result[w]]
       /\ GiveBack({w})
       /\ joins' = [joins EXCEPT ![t] = t]
       /\ ReapThen(t, "run")
       /\ UNCHANGED <<tid, result, detached, detached_threads, made, claimed, ops,
                      ready>>

-----------------------------------------------------------------------------
\* Seeded fault: the result is not stored before the thread exits.
FinishUnstored(w) ==
    /\ pc[w] = "run"
    /\ ReapThen(w, "fini")
    /\ UNCHANGED <<shared, ghosts, joins, ready>>

\* __davecc_linux_thread_entry after the function returned, and thrd_exit:
\* store the result, reap, finalize TLS, exit.
Finish(w) ==
    /\ pc[w] = "run"
    /\ result' = [result EXCEPT ![w] = 1]
    /\ ReapThen(w, "fini")
    /\ UNCHANGED <<tid, detached, detached_threads, mapped, made, claimed, freed, got,
                   ops, joins, ready>>

Fini(w) ==
    /\ pc[w] = "fini"
    /\ Goto(w, "exit")
    /\ UNCHANGED <<shared, ghosts, then, joins, ready>>

\* The kernel's side of SYS_exit.
KernelExit(w) ==
    /\ pc[w] = "exit"
    /\ tid' = tid \ {w}
    /\ Goto(w, "dead")
    /\ UNCHANGED <<result, detached, detached_threads, mapped, ghosts, then, joins, ready>>

Step(t) ==
    \/ Reap(t) \/ Unmap(t) \/ Clone(t) \/ JoinFinish(t)
    \/ (t \in Workers /\ (Finish(t) \/ Fini(t) \/ KernelExit(t)))

Idle == pc[Main] = "run" /\ (\A w \in Workers : pc[w] \in {"none", "dead"}) /\ UNCHANGED vars

Next ==
    \/ \E t \in AllThreads : thrd_create(t) \/ thrd_detach(t) \/ thrd_join(t) \/ Step(t)
    \/ Idle

Spec == Init /\ [][Next]_vars
-----------------------------------------------------------------------------
Alive(t) == t \in Workers /\ pc[t] \notin {"none", "dead"}

\* No thread stands on an unmapped stack or uses a freed record, its own on
\* the way out included: detached threads are reaped while others, and they
\* themselves, still run.
StacksMapped ==
    /\ \A t \in AllThreads : Alive(t) => t \in mapped
    /\ \A t \in AllThreads : pc[t] = "join" => joins[t] \in mapped
    /\ detached_threads \subseteq mapped
    /\ \A t \in AllThreads : ready[t] \subseteq mapped

\* Each record a client gave up is given back once, or is on its way there with
\* exactly one owner: the list, one thread that reaps, or one that joins.
GivenBackOnce ==
    \A w \in claimed :
        LET takers == {t \in AllThreads : w \in ready[t] \/ (pc[t] = "join" /\ joins[t] = w)}
        IN freed[w] + (IF w \in detached_threads THEN 1 ELSE 0) + Cardinality(takers) = 1

\* The joiner is given what the thread ended with (1), not what the word held
\* before (0).
JoinGetsResult ==
    \A w \in Workers : w \in claimed \ detached /\ freed[w] = 1 => got[w] = 1

\* Stacks and records from clone to munmap, all of it (linux/threads.c).
StacksSafe == TypeOK /\ StacksMapped /\ GivenBackOnce /\ JoinGetsResult
=============================================================================
