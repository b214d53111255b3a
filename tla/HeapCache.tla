------------------------------ MODULE HeapCache ------------------------------
(***************************************************************************)
(* libc/guest_heap.c: malloc, free and realloc for threads.  Each thread   *)
(* keeps a few small blocks per size class for itself; everything else     *)
(* goes to the allocator of Heap under one lock, which on native Linux is  *)
(* a word and two futex calls.  What threads hold belongs to the program:  *)
(* any of them may free or resize it.                                      *)
(***************************************************************************)
EXTENDS Heap

CONSTANTS
    Threads,
    MaxClass,   \* DAVE_HEAP_CACHE_MAX_SIZE, in units
    Depth,      \* DAVE_HEAP_CACHE_DEPTH
    Sizes,      \* sizes threads ask for
    MaxOwned    \* bound: pointers outside a thread's cache when it asks for one

ASSUME CacheConstants ==
    MaxClass \in Nat \ {0} /\ Depth \in Nat /\ Sizes \subseteq Nat /\ MaxOwned \in Nat

VARIABLES
    held,   \* pointers the program owns
    cache,  \* cache[t][c]: the pointers in t's thread_cache, oldest first
    lock,   \* native_heap_lock
    pc,     \* where each thread is
    call    \* its operation: op, size and pointers on their way

hcVars == <<vars, held, cache, lock, pc, call>>

Classes == 1 .. MaxClass
Idle == [op |-> "none", n |-> 0, p |-> {}]

HCInit ==
    /\ Init
    /\ held = {} /\ lock = 0
    /\ cache = [t \in Threads |-> [c \in Classes |-> <<>>]]
    /\ pc = [t \in Threads |-> "idle"]
    /\ call = [t \in Threads |-> Idle]

Goto(t, at) == pc' = [pc EXCEPT ![t] = at]
CachedBy(t) == UNION {ToSet(cache[t][c]) : c \in Classes}
Cached == UNION {CachedBy(t) : t \in Threads}
InFlight == UNION {call[t].p : t \in Threads}

\* What the allocator has handed out and nobody owns yet.
Fresh == DOMAIN live \ (held \cup Cached \cup InFlight)

-----------------------------------------------------------------------------
\* HeapLock and HeapUnlock.

Enter(t, c) ==
    /\ pc[t] = "idle"
    /\ call' = [call EXCEPT ![t] = c] /\ Goto(t, "lock")
    /\ UNCHANGED <<vars, lock, cache>>

\* Seeded fault: the exchange does not compare.
TakesAnyway(t) ==
    /\ pc[t] = "lock"
    /\ lock' = 1 /\ Goto(t, "in")
    /\ UNCHANGED <<vars, held, cache, call>>

CompareExchange(t) ==
    /\ pc[t] = "lock"
    /\ \/ lock = 0 /\ lock' = 1 /\ Goto(t, "in")
       \/ lock = 1 /\ Goto(t, "futex") /\ UNCHANGED lock
    /\ UNCHANGED <<vars, held, cache, call>>

\* Seeded fault: the kernel is told to expect what it finds.
WaitUnchecked(t) ==
    /\ pc[t] = "futex" /\ Goto(t, "asleep")
    /\ UNCHANGED <<vars, held, cache, lock, call>>

\* FUTEX_WAIT on 1 returns at once when the word has changed.
FutexWait(t) ==
    /\ pc[t] = "futex"
    /\ Goto(t, IF lock = 1 THEN "asleep" ELSE "lock")
    /\ UNCHANGED <<vars, held, cache, lock, call>>

Unlock(t) ==
    /\ pc[t] = "unlock"
    /\ lock' = 0 /\ Goto(t, "wake")
    /\ UNCHANGED <<vars, held, cache, call>>

\* FUTEX_WAKE of one, then the call returns: what it produced is the program's.
Wake(t) ==
    /\ pc[t] = "wake"
    /\ \E woken \in {{u} : u \in {v \in Threads : pc[v] = "asleep"}} \cup {{}} :
         /\ woken = {} => \A v \in Threads : pc[v] # "asleep"
         /\ pc' = [u \in Threads |-> IF u \in woken THEN "lock"
                                     ELSE IF u # t THEN pc[u]
                                     ELSE IF call[t].op = "exit" THEN "gone" ELSE "idle"]
    /\ held' = held \cup call[t].p
    /\ call' = [call EXCEPT ![t] = Idle]
    /\ UNCHANGED <<vars, cache, lock>>

-----------------------------------------------------------------------------
\* The thread cache.

\* Seeded fault: the class of a request is rounded down.
ClassRoundedDown(n) == IF n > MaxClass THEN 0 ELSE Max({1, n - 1})

\* CacheClassForRequest; 0 for none.
ClassOf(n) == IF n > MaxClass THEN 0 ELSE Max({1, n})

\* __davecc_malloc_cache_class: 0 for aligned and large blocks.
Capacity(p) ==
    LET b == live[p].block
        c == heap.block[b].size - 1
    IN  IF p # b + 1 \/ heap.block[b].kind = "direct" \/ c > MaxClass THEN 0 ELSE c

\* FlushThreadCacheLocked: by class, the newest first.
Flush(t) ==
    LET all == FlattenSeq([c \in Classes |-> Reverse(cache[t][c])])
    IN  /\ heap' = FoldLeft(LAMBDA h, p : FreeBlock(h, live[p].block), heap, all)
        /\ live' = Restrict(live, DOMAIN live \ ToSet(all))
        /\ cache' = [cache EXCEPT ![t] = [c \in Classes |-> <<>>]]
        /\ UNCHANGED <<build, req, held, lock>>

-----------------------------------------------------------------------------
\* malloc.

CachePop(t, n) ==
    LET c == ClassOf(n)
        p == Last(cache[t][c])
    IN  /\ pc[t] = "idle" /\ c # 0 /\ cache[t][c] # <<>>
        /\ cache' = [cache EXCEPT ![t][c] = Front(@)]
        /\ held' = held \cup {p}
        /\ live' = [live EXCEPT ![p].n = n]
        /\ UNCHANGED <<build, heap, req, lock, pc, call>>

CallMalloc(t, n, align) ==
    /\ align = 1 /\ ClassOf(n) # 0 => cache[t][ClassOf(n)] = <<>>
    /\ Cardinality(DOMAIN live) < MaxOwned + Cardinality(CachedBy(t))
    /\ Enter(t, [op |-> IF align = 1 THEN "malloc" ELSE "aligned", n |-> n, p |-> {}])
    /\ UNCHANGED held

\* Malloc under the lock, the first time or after the flush.
MallocLocked(t) ==
    /\ pc[t] = "in" /\ call[t].op \in {"malloc", "aligned"}
    /\ Begin(call[t].n, IF call[t].op = "malloc" THEN 1 ELSE Max(Aligns), {})
    /\ Goto(t, "got")
    /\ UNCHANGED <<build, live, held, cache, lock, call>>

\* Seeded fault: the thread gives up with blocks in its cache.
NoRetry(t) ==
    /\ pc[t] = "got" /\ req = NoReq
    /\ call' = [call EXCEPT ![t].p = Fresh] /\ Goto(t, "unlock")
    /\ UNCHANGED <<vars, held, cache, lock>>

\* The result, or one flush of the own cache and a second attempt.
Got(t) ==
    /\ pc[t] = "got" /\ req = NoReq
    /\ \/ /\ Fresh # {} \/ CachedBy(t) = {}
          /\ call' = [call EXCEPT ![t].p = Fresh] /\ Goto(t, "unlock")
          /\ UNCHANGED <<vars, held, cache, lock>>
       \/ /\ Fresh = {} /\ CachedBy(t) # {}
          /\ Flush(t) /\ Goto(t, "in")
          /\ UNCHANGED call

\* The allocator's own steps belong to the thread whose request it is.
Allocate(t) ==
    /\ pc[t] = "got"
    /\ AllocateGeneral
    /\ UNCHANGED <<held, cache, lock, pc, call>>

-----------------------------------------------------------------------------
\* free, realloc, and the end of a thread.

\* Seeded fault: the pointer stays with the program as well.
CachePushKeeps(t, p) ==
    LET c == Capacity(p)
    IN  /\ pc[t] = "idle" /\ p \in held /\ c # 0 /\ Len(cache[t][c]) < Depth
        /\ cache' = [cache EXCEPT ![t][c] = Append(@, p)]
        /\ UNCHANGED <<vars, held, lock, pc, call>>

CachePush(t, p) ==
    LET c == Capacity(p)
    IN  /\ pc[t] = "idle" /\ p \in held /\ c # 0 /\ Len(cache[t][c]) < Depth
        /\ cache' = [cache EXCEPT ![t][c] = Append(@, p)]
        /\ held' = held \ {p}
        /\ UNCHANGED <<vars, lock, pc, call>>

CallFree(t, p) ==
    LET c == Capacity(p)
    IN  /\ p \in held /\ c # 0 => Len(cache[t][c]) >= Depth
        /\ Enter(t, [op |-> "free", n |-> 0, p |-> {p}])
        /\ held' = held \ {p}

FreeLocked(t) ==
    /\ pc[t] = "in" /\ call[t].op = "free"
    /\ \E p \in call[t].p : Free(p)
    /\ call' = [call EXCEPT ![t].p = {}] /\ Goto(t, "unlock")
    /\ UNCHANGED <<held, cache, lock>>

CallRealloc(t, p, n) ==
    /\ p \in held /\ n # 0
    /\ Enter(t, [op |-> "realloc", n |-> n, p |-> {p}])
    /\ held' = held \ {p}

\* In place, or the allocator looks for another block; a size that overflows
\* returns NULL at once.
ReallocLocked(t) ==
    /\ pc[t] = "in" /\ call[t].op = "realloc"
    /\ \E p \in call[t].p :
         IF RequestBlockSize(call[t].n) = 0 THEN UNCHANGED vars ELSE Realloc(p, call[t].n)
    /\ Goto(t, "moved")
    /\ UNCHANGED <<held, cache, lock, call>>

\* The moved block replaces the old one; after a failure the old one is kept.
Moved(t) ==
    /\ pc[t] = "moved" /\ req = NoReq
    /\ call' = [call EXCEPT ![t].p = (@ \cap DOMAIN live) \cup Fresh]
    /\ Goto(t, "unlock")
    /\ UNCHANGED <<vars, held, cache, lock>>

AllocateCopy(t) ==
    /\ pc[t] = "moved"
    /\ AllocateGeneral
    /\ UNCHANGED <<held, cache, lock, pc, call>>

\* Seeded fault: the exiting thread forgets its cache.
ExitKeeps(t) ==
    /\ pc[t] = "idle" /\ Goto(t, "gone")
    /\ UNCHANGED <<vars, held, cache, lock, call>>

\* __davecc_heap_thread_cleanup takes the lock only when there is something.
CallExit(t) ==
    \/ /\ CachedBy(t) # {} /\ Enter(t, [op |-> "exit", n |-> 0, p |-> {}])
       /\ UNCHANGED held
    \/ /\ pc[t] = "idle" /\ CachedBy(t) = {} /\ Goto(t, "gone")
       /\ UNCHANGED <<vars, held, cache, lock, call>>

ExitLocked(t) ==
    /\ pc[t] = "in" /\ call[t].op = "exit"
    /\ Flush(t) /\ Goto(t, "unlock")
    /\ UNCHANGED call

\* Every thread has ended.
Finished == (\A t \in Threads : pc[t] = "gone") /\ UNCHANGED hcVars

HCNext ==
    \/ \E t \in Threads :
         \/ CompareExchange(t) \/ FutexWait(t) \/ Unlock(t) \/ Wake(t)
         \/ MallocLocked(t) \/ Got(t) \/ Allocate(t) \/ FreeLocked(t)
         \/ ReallocLocked(t) \/ Moved(t) \/ AllocateCopy(t) \/ CallExit(t) \/ ExitLocked(t)
         \/ \E n \in Sizes : CachePop(t, n) \/ \E a \in Aligns : CallMalloc(t, n, a)
         \/ \E p \in held :
              \/ CachePush(t, p) \/ CallFree(t, p)
              \/ \E n \in Sizes : CallRealloc(t, p, n)
    \/ Finished

HCSpec == HCInit /\ [][HCNext]_hcVars

-----------------------------------------------------------------------------
\* Properties.

Critical == {t \in Threads : pc[t] \in {"in", "got", "moved", "unlock"}}

\* The allocator is one thread's at a time: HeapLock admits no second one, and
\* no request is left in it when the lock is given back (HeapLock, HeapUnlock).
HeapLockExclusive ==
    /\ Cardinality(Critical) <= 1
    /\ Critical = {} => req = NoReq /\ Fresh = {}

\* A block has one owner: the program, one slot of one cache, or one call.
\* What a cache holds is what its class says, so a request it serves fits
\* (malloc, free; the block may be wider than its first request).
OneOwner ==
    /\ held \cup Cached \subseteq DOMAIN live
    /\ \A t \in Threads : pc[t] = "moved" \/ call[t].p \subseteq DOMAIN live
    /\ held \cap (Cached \cup InFlight) = {} /\ Cached \cap InFlight = {}
    /\ \A t \in Threads, c \in Classes :
         /\ IsInjective(cache[t][c]) /\ Len(cache[t][c]) <= Depth
         /\ \A p \in ToSet(cache[t][c]) : Capacity(p) = c
    /\ \A t, u \in Threads : t # u => /\ CachedBy(t) \cap CachedBy(u) = {}
                                      /\ call[t].p \cap call[u].p = {}

\* Nobody sleeps on a free lock unless someone awake will take or wake it.
SleepersHaveAWaker ==
    (lock = 0 /\ \E t \in Threads : pc[t] = "asleep") =>
        \E t \in Threads : pc[t] \in {"wake", "lock"}

\* A thread is told there is no memory only when its own cache is empty too.
NullAfterFlush ==
    \A t \in Threads : pc[t] = "unlock" /\ call[t].op \in {"malloc", "aligned"} /\ call[t].p = {}
                         => CachedBy(t) = {}

\* A thread that has ended has given everything back: no block is lost with it.
NothingLostAtExit == \A t \in Threads : pc[t] = "gone" => CachedBy(t) = {}

\* The heap lock and the caches of the threads, all of it (guest_heap.c).
CachesSound ==
    HeapLockExclusive /\ OneOwner /\ SleepersHaveAWaker /\ NullAfterFlush /\ NothingLostAtExit
=============================================================================
