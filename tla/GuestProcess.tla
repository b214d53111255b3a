----------------------------- MODULE GuestProcess -----------------------------
(***************************************************************************)
(* Guest threads as the x86-64 interpreter hosts them                      *)
(* (x86_64_interpreter/x86_64_process.c): a table of thread records, one   *)
(* host thread per worker, the thread system calls, and the destruction of *)
(* the process when the main thread's guest program has ended.             *)
(*                                                                         *)
(* Each section under process->mutex is one action.  What happens between  *)
(* two of them (pthread_join, freeing a record) is an action of its own.   *)
(* Guest code is a client that makes any system calls in any order; it     *)
(* blocks only in the calls, and makes no call but HeapLock, HeapUnlock    *)
(* and ThreadExit while it holds the heap lock.                            *)
(***************************************************************************)
EXTENDS Naturals, FiniteSets, FiniteSetsExt

CONSTANTS
    MaxTid,         \* bound: thread ids that may be used up; the main thread's is 1
    MaxOps,         \* bound: [1 .. MaxTid -> Nat], system calls made by each thread
    Calls,          \* the kinds of calls the guest makes
    JoinOlder       \* whether guests also join threads older than themselves

AllCalls == {"create", "join", "detach", "wait", "wake", "heap", "exit"}

ASSUME GuestProcessConstants ==
    /\ MaxTid \in Nat \ {0} /\ MaxOps \in [1 .. MaxTid -> Nat]
    /\ Calls \subseteq AllCalls /\ JoinOlder \in BOOLEAN

Main == 1
Workers == 2 .. MaxTid
AllThreads == 1 .. MaxTid
None == 0

VARIABLES
    thread,         \* the workers' records: the fields the calls test
    threads,        \* the workers in process->threads
    allocated,      \* records not yet freed
    process,        \* next_tid, active_joins, shutting_down, initialized, and
                    \* whether addr_wait_table is open
    pc, then,       \* where each host thread is; where it goes on after reaping
    tid, target,    \* argument of its call; record it took out of the table or joins
    phase,          \* the guest call a worker is in
    result,         \* C locals: result of RunWorkerGuestCalls, status of ThreadExit;
                    \* cpu.exit_code only passes them on
    heap, depth,    \* holder of heap_mutex and heap_lock_depth
    ops,            \* calls made so far
    left,           \* how the worker's function ended, as the guest sees it
    finis,          \* how often its TLS finalizer was entered
    got             \* what the thread that joined a worker was given

records == <<thread, threads, allocated>>
guest == <<phase, result, left, finis>>
vars == <<records, process, pc, then, tid, target, guest, heap, depth, ops, got>>

\* Exit codes are told apart by where they come from: the function's return
\* value, thrd_exit in the function, thrd_exit in a TLS destructor, and what
\* the finalizer leaves in the return register.
Codes == {"zero", "returned", "exited", "late", "fini"}

NewGuestThread ==
    [host_thread_valid |-> TRUE, joinable |-> TRUE, detached |-> FALSE,
     join_in_progress |-> FALSE, state |-> "Idle", exit_code |-> "zero",
     tls_fini_done |-> FALSE]

Reaping == {"reap", "reap_join"}
Joining == {"join", "join_wait", "join_free"}
Ending == {"shut_table", "workers", "joins", "drain", "drain_join", "clear", "end"}
InGuest == {"run", "addr_wait", "heap_wait", "detach"} \cup Reaping \cup Joining
Points == InGuest \cup Ending \cup {"none", "start", "finished", "ended"}

TypeOK ==
    /\ thread \in [Workers ->
          [host_thread_valid : BOOLEAN, joinable : BOOLEAN, detached : BOOLEAN,
           join_in_progress : BOOLEAN, exit_code : Codes, tls_fini_done : BOOLEAN,
           state : {"Idle", "Running", "Finished", "Joined"}]]
    /\ threads \subseteq Workers /\ allocated \subseteq Workers
    /\ process \in [next_tid : 2 .. MaxTid + 1, active_joins : 0 .. MaxTid,
                    shutting_down : BOOLEAN, initialized : BOOLEAN, waits : BOOLEAN]
    /\ pc \in [AllThreads -> Points] /\ then \in [AllThreads -> Points]
    /\ tid \in [AllThreads -> AllThreads] /\ target \in [AllThreads -> {None} \cup Workers]
    /\ phase \in [Workers -> {"init", "user", "fini", "exit_fini"}]
    /\ result \in [Workers -> Codes]
    /\ heap \in {None} \cup AllThreads
    /\ \A t \in AllThreads : depth[t] \in 0 .. ops[t] /\ ops[t] \in 0 .. MaxOps[t]
    /\ left \in [Workers -> {"zero", "returned", "exited"}]
    /\ finis \in [Workers -> 0 .. 2]
    /\ got \in [Workers -> Codes]

\* X86_64ProcessRuntimeInit and X86_64ProcessCreateMainThread.
Init ==
    /\ thread = [w \in Workers |-> [NewGuestThread EXCEPT !.host_thread_valid = FALSE]]
    /\ threads = {} /\ allocated = {}
    /\ process = [next_tid |-> 2, active_joins |-> 0, shutting_down |-> FALSE,
                  initialized |-> TRUE, waits |-> TRUE]
    /\ pc = [t \in AllThreads |-> IF t = Main THEN "run" ELSE "none"]
    /\ then = [t \in AllThreads |-> "run"]
    /\ tid = [t \in AllThreads |-> Main] /\ target = [t \in AllThreads |-> None]
    /\ phase = [w \in Workers |-> "init"]
    /\ result = [w \in Workers |-> "zero"]
    /\ heap = None /\ depth = [t \in AllThreads |-> 0]
    /\ ops = [t \in AllThreads |-> 0]
    /\ left = [w \in Workers |-> "zero"] /\ finis = [w \in Workers |-> 0]
    /\ got = [w \in Workers |-> "zero"]

-----------------------------------------------------------------------------
\* Control of one host thread.

Goto(t, p) == pc' = [pc EXCEPT ![t] = p]

\* ReapFinishedDetachedThreads, then go on at p.
ReapThen(t, p) ==
    /\ Goto(t, "reap")
    /\ then' = [then EXCEPT ![t] = p]

\* The guest on t makes a system call.  TLS initializers make none.
Syscall(t, c) ==
    /\ c \in Calls /\ ops[t] < MaxOps[t]
    /\ pc[t] = "run" /\ (t \in Workers => phase[t] # "init")
    /\ ops' = [ops EXCEPT ![t] = @ + 1]

Unlocked(t, c) == Syscall(t, c) /\ depth[t] = 0

\* GuestThreadDestruct; seeded fault: the record leaks.
Leak(w) == UNCHANGED allocated

Free(w) == allocated' = allocated \ {w}

\* A finished detached worker that nobody took yet; the first one in the table.
Reapable ==
    {w \in threads : /\ thread[w].detached /\ thread[w].state = "Finished"
                     /\ thread[w].host_thread_valid}

Reap(t) ==
    /\ pc[t] = "reap"
    /\ IF Reapable = {}
       THEN /\ Goto(t, then[t])
            /\ then' = [then EXCEPT ![t] = "run"]
            /\ UNCHANGED <<threads, target>>
       ELSE /\ UNCHANGED then
            /\ threads' = threads \ {Min(Reapable)}
            /\ target' = [target EXCEPT ![t] = Min(Reapable)]
            /\ Goto(t, "reap_join")
    /\ UNCHANGED <<thread, allocated, process, tid, guest, heap, depth, ops, got>>

\* pthread_join returns once the host thread is gone.
ReapFree(t) ==
    /\ pc[t] = "reap_join" /\ pc[target[t]] = "ended"
    /\ Free(target[t])
    /\ target' = [target EXCEPT ![t] = None]
    /\ Goto(t, "reap")
    /\ UNCHANGED <<thread, threads, process, then, tid, guest, heap, depth, ops, got>>

-----------------------------------------------------------------------------
\* X86_64SyscallThreadCreate: refused while shutting down; pthread_create may
\* fail after the id was used up.
ThreadCreate(t) ==
    LET w == process.next_tid
    IN /\ Unlocked(t, "create") /\ w \in Workers
       /\ \/ /\ process.shutting_down
             /\ UNCHANGED <<records, process, pc, then>>
          \/ /\ ~process.shutting_down
             /\ process' = [process EXCEPT !.next_tid = @ + 1]
             /\ UNCHANGED <<records, pc, then>>
          \/ /\ ~process.shutting_down
             /\ process' = [process EXCEPT !.next_tid = @ + 1]
             /\ thread' = [thread EXCEPT ![w] = NewGuestThread]
             /\ threads' = threads \cup {w} /\ allocated' = allocated \cup {w}
             /\ pc' = [pc EXCEPT ![t] = "reap", ![w] = "start"]
             /\ then' = [then EXCEPT ![t] = "run"]
       /\ UNCHANGED <<tid, target, guest, heap, depth, got>>

\* X86_64SyscallThreadJoin: joining oneself is refused before anything else.
ThreadJoin(t) ==
    /\ Unlocked(t, "join")
    /\ \E u \in AllThreads \ {t} :
          /\ u > t \/ JoinOlder
          /\ tid' = [tid EXCEPT ![t] = u]
    /\ ReapThen(t, "join")
    /\ UNCHANGED <<records, process, target, guest, heap, depth, got>>

\* X86_64ProcessFindThread and the tests join and detach share; the main
\* thread was never joinable, and a joined worker is out of the table.
Joinable(u) == u \in threads /\ thread[u].joinable /\ ~thread[u].detached

\* Seeded fault: the thread stays joinable while it is being joined.
MarkUnclaimed(u) == thread' = [thread EXCEPT ![u].join_in_progress = TRUE]

MarkJoining(u) ==
    thread' = [thread EXCEPT ![u].joinable = FALSE, ![u].join_in_progress = TRUE]

JoinClaim(t) ==
    LET u == tid[t]
    IN /\ pc[t] = "join"
       /\ \/ /\ Joinable(u) /\ thread[u].host_thread_valid
             /\ MarkJoining(u)
             /\ process' = [process EXCEPT !.active_joins = @ + 1]
             /\ target' = [target EXCEPT ![t] = u]
             /\ Goto(t, "join_wait")
          \/ /\ ~(Joinable(u) /\ thread[u].host_thread_valid)
             /\ Goto(t, "run")
             /\ UNCHANGED <<thread, process, target>>
       /\ tid' = [tid EXCEPT ![t] = Main]
       /\ UNCHANGED <<threads, allocated, then, guest, heap, depth, ops, got>>

\* active_joins--; seeded fault: forgotten.
KeepActiveJoins == UNCHANGED process

DropActiveJoin == process' = [process EXCEPT !.active_joins = @ - 1]

\* pthread_join, the exit code, and the section that takes the worker out.
JoinFinish(t) ==
    LET u == target[t]
    IN /\ pc[t] = "join_wait" /\ pc[u] = "ended"
       /\ got' = [got EXCEPT ![u] = thread[u].exit_code]
       /\ thread' = [thread EXCEPT ![u].host_thread_valid = FALSE,
                                   ![u].join_in_progress = FALSE, ![u].state = "Joined"]
       /\ DropActiveJoin
       /\ threads' = threads \ {u}
       /\ Goto(t, "join_free")
       /\ UNCHANGED <<allocated, then, tid, target, guest, heap, depth, ops>>

JoinFree(t) ==
    /\ pc[t] = "join_free"
    /\ Free(target[t])
    /\ target' = [target EXCEPT ![t] = None]
    /\ ReapThen(t, "run")
    /\ UNCHANGED <<thread, threads, process, tid, guest, heap, depth, ops, got>>

\* X86_64SyscallThreadDetach, of oneself too.
ThreadDetach(t) ==
    /\ Unlocked(t, "detach")
    /\ \E u \in AllThreads : tid' = [tid EXCEPT ![t] = u]
    /\ ReapThen(t, "detach")
    /\ UNCHANGED <<records, process, target, guest, heap, depth, got>>

DetachMark(t) ==
    LET u == tid[t]
    IN /\ pc[t] = "detach"
       /\ \/ /\ Joinable(u)
             /\ thread' = [thread EXCEPT ![u].joinable = FALSE, ![u].detached = TRUE]
             /\ ReapThen(t, "run")
          \/ /\ ~Joinable(u)
             /\ Goto(t, "run")
             /\ UNCHANGED <<thread, then>>
       /\ tid' = [tid EXCEPT ![t] = Main]
       /\ UNCHANGED <<threads, allocated, process, target, guest, heap, depth, ops, got>>

-----------------------------------------------------------------------------
\* X86_64SyscallAddrWait and X86_64SyscallAddrWake, by the contract of AddrWait:
\* a wait blocks until another thread wakes it or the table is shut down.  Only
\* workers wait: a main thread that nobody wakes is the guest's own deadlock.
AddrWait(t) ==
    /\ t \in Workers /\ Unlocked(t, "wait")
    /\ Goto(t, IF process.waits THEN "addr_wait" ELSE "run")
    /\ UNCHANGED <<records, process, then, tid, target, guest, heap, depth, got>>

AddrWake(t) ==
    /\ Unlocked(t, "wake")
    /\ \E u \in AllThreads : pc[u] = "addr_wait" /\ Goto(u, "run")
    /\ UNCHANGED <<records, process, then, tid, target, guest, heap, depth, got>>

\* X86_64SyscallHeapLock: only the outermost one takes the mutex.
HeapLock(t) ==
    /\ Syscall(t, "heap")
    /\ \/ /\ depth[t] > 0
          /\ depth' = [depth EXCEPT ![t] = @ + 1]
          /\ UNCHANGED pc
       \/ /\ depth[t] = 0
          /\ Goto(t, "heap_wait")
          /\ UNCHANGED depth
    /\ UNCHANGED <<records, process, then, tid, target, guest, heap, got>>

HeapAcquire(t) ==
    /\ pc[t] = "heap_wait" /\ heap = None
    /\ heap' = t
    /\ depth' = [depth EXCEPT ![t] = 1]
    /\ Goto(t, "run")
    /\ UNCHANGED <<records, process, then, tid, target, guest, ops, got>>

\* Seeded fault: the depth is not tested.
AnyDepth(t) == TRUE

HoldsHeap(t) == depth[t] > 0

HeapUnlock(t) ==
    /\ pc[t] = "run" /\ HoldsHeap(t)
    /\ depth' = [depth EXCEPT ![t] = @ - 1]
    /\ heap' = IF depth[t] = 1 THEN None ELSE heap
    /\ UNCHANGED <<records, process, pc, then, tid, target, guest, ops, got>>

\* Seeded fault: the lock stays with the thread that ends.
KeepHeap(t) == UNCHANGED <<heap, depth>>

\* A thread that ends gives the heap lock up.
ReleaseHeap(t) ==
    /\ depth' = [depth EXCEPT ![t] = 0]
    /\ heap' = IF depth[t] > 0 THEN None ELSE heap

-----------------------------------------------------------------------------
\* A worker: GuestThreadHostEntry around RunWorkerGuestCalls, which calls the
\* TLS initializer, the function and the TLS finalizer.

HostEntry(w) ==
    /\ pc[w] = "start"
    /\ thread' = [thread EXCEPT ![w].state = "Running"]
    /\ Goto(w, "run")
    /\ UNCHANGED <<threads, allocated, process, then, tid, target, guest, heap, depth,
                   ops, got>>

\* The end of GuestThreadHostEntry, with what RunWorkerGuestCalls returned.
Finish(w, code) ==
    /\ ReleaseHeap(w)
    /\ thread' = [thread EXCEPT ![w].exit_code = code, ![w].state = "Finished"]
    /\ Goto(w, "finished")

\* Seeded fault: tls_fini_done is not set before the finalizer runs.
EnterFiniUnmarked(w, p) ==
    /\ phase' = [phase EXCEPT ![w] = p]
    /\ finis' = [finis EXCEPT ![w] = @ + 1]
    /\ UNCHANGED thread

\* Enter the finalizer, as the last guest call or nested in ThreadExit.
EnterFini(w, p) ==
    /\ thread' = [thread EXCEPT ![w].tls_fini_done = TRUE]
    /\ phase' = [phase EXCEPT ![w] = p]
    /\ finis' = [finis EXCEPT ![w] = @ + 1]

InitReturns(w) ==
    /\ pc[w] = "run" /\ phase[w] = "init"
    /\ phase' = [phase EXCEPT ![w] = "user"]
    /\ UNCHANGED <<records, process, pc, then, tid, target, result, left, finis, heap,
                   depth, ops, got>>

\* The function returns; its value is saved before the finalizer runs.
FunctionReturns(w) ==
    /\ pc[w] = "run" /\ phase[w] = "user"
    /\ result' = [result EXCEPT ![w] = "returned"]
    /\ left' = [left EXCEPT ![w] = "returned"]
    /\ EnterFini(w, "fini")
    /\ UNCHANGED <<threads, allocated, process, pc, then, tid, target, heap, depth, ops,
                   got>>

FiniReturns(w) ==
    /\ pc[w] = "run" /\ phase[w] = "fini"
    /\ Finish(w, result[w])
    /\ UNCHANGED <<threads, allocated, process, then, tid, target, phase, result, left,
                   finis, ops, got>>

\* X86_64SyscallThreadExit (also X86_64InterpreterFail, in any phase) runs
\* the finalizer as a nested call unless it was entered before.
ThreadExit(w) ==
    /\ pc[w] = "run" /\ "exit" \in Calls
    /\ ~thread[w].tls_fini_done
    /\ result' = [result EXCEPT ![w] = "exited"]
    /\ left' = [left EXCEPT ![w] = IF @ = "zero" THEN "exited" ELSE @]
    /\ EnterFini(w, "exit_fini")
    /\ UNCHANGED <<threads, allocated, process, pc, then, tid, target, heap,
                   depth, ops, got>>

\* The nested finalizer returns, or a destructor in it calls thrd_exit; then
\* ThreadExit goes on: it drops the heap lock, sets the exit code and stops
\* the interrupted call, after which RunWorkerGuestCalls returns cpu.exit_code.
ExitCompletes(w) ==
    /\ pc[w] = "run" /\ phase[w] = "exit_fini"
    /\ Finish(w, result[w])
    /\ UNCHANGED <<threads, allocated, process, then, tid, target, phase, result, left,
                   finis, ops, got>>

\* thrd_exit in a destructor of the last guest call: no second finalizer, and
\* the value saved before it stands.
ExitInFini(w) ==
    /\ pc[w] = "run" /\ "exit" \in Calls
    /\ phase[w] = "fini" /\ thread[w].tls_fini_done
    /\ Finish(w, result[w])
    /\ UNCHANGED <<threads, allocated, process, then, tid, target, phase, result, left,
                   finis, ops, got>>

\* The host thread returns.
HostEnds(w) ==
    /\ pc[w] = "finished"
    /\ Goto(w, "ended")
    /\ UNCHANGED <<records, process, then, tid, target, guest, heap, depth, ops, got>>

-----------------------------------------------------------------------------
\* X86_64ProcessRuntimeDestruct, on the main thread once its program ended.

BeginDestruct ==
    /\ pc[Main] = "run" /\ depth[Main] = 0
    /\ process' = [process EXCEPT !.shutting_down = TRUE]
    /\ Goto(Main, "shut_table")
    /\ UNCHANGED <<records, then, tid, target, guest, heap, depth, ops, got>>

\* The waiters shutting the table down releases; seeded fault: none.
NotReleased == {}

Released == {t \in AllThreads : pc[t] = "addr_wait"}

\* GuestAddrWaitTableShutdown: every waiter returns.  The reaping that follows
\* and the first one of WaitForRunningWorkers are one.
ShutdownTable ==
    /\ pc[Main] = "shut_table"
    /\ process' = [process EXCEPT !.waits = FALSE]
    /\ pc' = [t \in AllThreads |-> IF t = Main THEN "reap"
                                ELSE IF t \in Released THEN "run" ELSE pc[t]]
    /\ then' = [then EXCEPT ![Main] = "workers"]
    /\ UNCHANGED <<records, tid, target, guest, heap, depth, ops, got>>

\* A worker that is waited for; seeded fault: only if it runs already.
PendingOnceRunning(w) == thread[w].host_thread_valid /\ thread[w].state = "Running"

Pending(w) == thread[w].host_thread_valid /\ thread[w].state # "Finished"

\* One round of WaitForRunningWorkers.
CheckWorkers ==
    /\ pc[Main] = "workers"
    /\ \/ /\ \E w \in threads : Pending(w)
          /\ ReapThen(Main, "workers")
       \/ /\ \A w \in threads : ~Pending(w)
          /\ Goto(Main, "joins")
          /\ UNCHANGED then
    /\ UNCHANGED <<records, process, tid, target, guest, heap, depth, ops, got>>

\* WaitForActiveJoins
CheckJoins ==
    /\ pc[Main] = "joins" /\ process.active_joins = 0
    /\ Goto(Main, "drain")
    /\ UNCHANGED <<records, process, then, tid, target, guest, heap, depth, ops, got>>

\* The workers taken out at the end; seeded fault: only detached ones.
DrainableDetached == {w \in threads : thread[w].host_thread_valid /\ thread[w].detached}

Drainable ==
    {w \in threads : thread[w].host_thread_valid /\ ~thread[w].join_in_progress}

\* Take the remaining workers out one by one; what is left in the table after
\* them is dropped.
Drain ==
    /\ pc[Main] = "drain"
    /\ IF Drainable = {}
       THEN /\ threads' = {}
            /\ Goto(Main, "clear")
            /\ UNCHANGED target
       ELSE /\ threads' = threads \ {Min(Drainable)}
            /\ target' = [target EXCEPT ![Main] = Min(Drainable)]
            /\ Goto(Main, "drain_join")
    /\ UNCHANGED <<thread, allocated, process, then, tid, guest, heap, depth, ops, got>>

DrainFree ==
    /\ pc[Main] = "drain_join" /\ pc[target[Main]] = "ended"
    /\ Free(target[Main])
    /\ target' = [target EXCEPT ![Main] = None]
    /\ Goto(Main, "drain")
    /\ UNCHANGED <<thread, threads, process, then, tid, guest, heap, depth, ops, got>>

\* The main record, the wait table and the locks are destroyed.
DestroyProcess ==
    /\ pc[Main] = "clear"
    /\ process' = [process EXCEPT !.initialized = FALSE]
    /\ Goto(Main, "end")
    /\ UNCHANGED <<records, then, tid, target, guest, heap, depth, ops, got>>

-----------------------------------------------------------------------------
\* Steps a host thread takes by itself once it is in a call.
CallStep(t) ==
    \/ Reap(t) \/ ReapFree(t) \/ JoinClaim(t) \/ JoinFinish(t) \/ JoinFree(t)
    \/ DetachMark(t) \/ HeapAcquire(t)

GuestCall(t) ==
    \/ ThreadCreate(t) \/ ThreadJoin(t) \/ ThreadDetach(t)
    \/ AddrWait(t) \/ AddrWake(t) \/ HeapLock(t) \/ HeapUnlock(t)

WorkerStep(w) ==
    \/ HostEntry(w) \/ InitReturns(w) \/ FunctionReturns(w) \/ FiniReturns(w)
    \/ ExitCompletes(w) \/ HostEnds(w)

DestructStep ==
    \/ ShutdownTable \/ CheckWorkers \/ CheckJoins \/ Drain \/ DrainFree
    \/ DestroyProcess

Gone == pc[Main] = "end" /\ UNCHANGED vars

Next ==
    \/ \E t \in AllThreads : CallStep(t) \/ GuestCall(t)
    \/ \E w \in Workers : WorkerStep(w) \/ ThreadExit(w) \/ ExitInFini(w)
    \/ BeginDestruct \/ DestructStep \/ Gone

\* What a thread does by itself.
ThreadStep(t) ==
    \/ CallStep(t) \/ HeapUnlock(t)
    \/ t \in Workers /\ WorkerStep(t)
    \/ t = Main /\ DestructStep

\* The host schedules its threads, a heap mutex that is free again and again
\* is obtained, guest functions end and the allocator unlocks what it locked.
\* Nothing makes the guest call, or the program end.
Fairness ==
    \A t \in AllThreads : WF_vars(ThreadStep(t)) /\ SF_vars(HeapAcquire(t))

Spec == Init /\ [][Next]_vars /\ Fairness
-----------------------------------------------------------------------------
\* A record some thread has taken to pthread_join and free.
Claims(t) == pc[t] \in {"reap_join", "join_wait", "join_free", "drain_join"}

\* join, detach, the reapers on every thread and the final drain compete for
\* the same records with no lock held over pthread_join and free: nobody uses
\* a freed record, and no record is joined or freed by two.
RecordsSafe ==
    /\ threads \subseteq allocated
    /\ \A w \in Workers : pc[w] \notin {"none", "ended"} => w \in allocated
    /\ \A t \in AllThreads : Claims(t) => target[t] \in allocated
    /\ \A t, u \in AllThreads :
          Claims(t) /\ Claims(u) /\ target[t] = target[u] => t = u

\* Every record belongs to somebody who will free it: the table, or the one
\* thread that took it out.
NoRecordLost ==
    \A w \in allocated :
        w \in threads \/ \E t \in AllThreads : Claims(t) /\ target[t] = w

\* active_joins counts the joins between their two sections.
ActiveJoinsExact ==
    process.active_joins = Cardinality({t \in AllThreads : pc[t] = "join_wait"})

\* "preserving exactly-once TLS finalization": by the time a worker counts as
\* finished its finalizer was entered once, through whichever of the four ways
\* out it took, and its exit code is what its function ended with, which is
\* also what a joiner is given.
FinalizedOnce ==
    \A w \in Workers :
        /\ finis[w] <= 1
        /\ pc[w] \in {"finished", "ended"} =>
              finis[w] = 1 /\ thread[w].exit_code = left[w]
        /\ got[w] \in {"zero", left[w]}

\* heap_mutex is held by exactly the thread that counts a depth, and never by
\* one that has finished.
HeapLockOwned ==
    /\ \A t \in AllThreads : depth[t] > 0 <=> heap = t
    /\ \A w \in Workers : pc[w] \in {"finished", "ended"} => heap # w

\* WaitForRunningWorkers looks at the table only once per round, and workers
\* can be out of the table, joining or reaping each other: when it has
\* returned no worker runs guest code or is in a call, no join is active, and
\* the rest of the destruction has the process to itself.
QuietAfterWait ==
    pc[Main] \in {"joins", "drain", "drain_join", "clear", "end"} =>
        /\ \A w \in Workers : pc[w] \in {"none", "finished", "ended"}
        /\ process.active_joins = 0

\* At the end every host thread is gone, every record freed, and nobody holds
\* a lock that is destroyed.
CleanEnd ==
    pc[Main] = "end" =>
        /\ allocated = {} /\ heap = None
        /\ \A w \in Workers : pc[w] \in {"none", "ended"}

\* Destruction ends although workers were blocked in waits, joins or on the
\* heap lock when it began.
ShutdownEnds == process.shutting_down ~> pc[Main] = "end"

\* The records in the hands of joins, detaches, reapers and the destruction,
\* all of it.
GuestRecordsSafe ==
    RecordsSafe /\ NoRecordLost /\ ActiveJoinsExact /\ QuietAfterWait

\* The ends of threads and of the process, all of it.
EndingsSafe == TypeOK /\ FinalizedOnce /\ HeapLockOwned /\ CleanEnd
=============================================================================
