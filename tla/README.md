# A verification of the davecc runtime

This directory holds TLA+ modules for the parts of this repository whose state
outlives a call: the address-wait table that parks guest threads on the host, the
C11 threads library built on it and the C++ synchronization headers on top, the heap
with its lock and caches, RCU and hazard pointers, C++ exceptions, the native Linux
threads, the life of a guest process, the exit handlers and the initialization of
libraries, and the linker's symbol resolution. TLC checks the models on small
instances; TLAPS proves the safety of every component but the allocator and its
caches for every number of threads, calls, handlers, images and files.

Contents: [the system](#the-system), [the models](#the-models-and-the-code),
[the runs](#the-runs), [bounds](#bounds), [fairness](#fairness),
[proofs](#proofs), [seeded faults](#seeded-faults),
[findings](#findings), [what is not modelled](#what-is-not-modelled),
[plan](#plan).

## The system

The repository is a C and C++ tool chain (compiler, linker, assemblers), the
runtime library its programs use, and interpreters that run those programs for
x86-64, AArch64, ARM, RISC-V and other targets on a host. A program the
interpreter runs is the *guest*; each guest thread is a host pthread with an
interpreted CPU of its own. Most of the repository is sequential translation.
The concurrency is in the runtime and in the hosting of guest processes.

| component | state | operations | interacts with |
|---|---|---|---|
| guest address wait table, `src/c_compiler/Loader/guest_addr_wait.c` | a table of buckets (mutex, condition, waiter count), one per address; `shutting_down` | `GuestAddrWait`, `GuestAddrWake`, table init, shutdown, destruct | called by the guest's wait and wake system calls; reads guest memory through a callback; shut down by the process's destructor |
| mutex, `src/libc/threads.c` | `state`, `owner`, `recursion` of `mtx_t` | `mtx_lock`, `mtx_trylock`, `mtx_timedlock`, `mtx_unlock` | waits and wakes on the address of `state` |
| condition variable, same file | `generation` | `cnd_wait`, `cnd_timedwait`, `cnd_signal`, `cnd_broadcast` | unlocks and locks a mutex; waits on `generation` |
| one-time initialisation, same file | `once_flag.state` | `call_once`, `__davecc_once_begin`, `_complete`, `_abort` | waits on `state`; also used by C++ `std::call_once` |
| thread-specific storage, same file | registry of keys, per-thread values and generations | `tss_create`, `tss_delete`, `tss_set`, `tss_get`, the destructor passes at thread exit | runs client code (destructors) that uses it again |
| Linux threads, `src/libc/linux/threads.c` | a record, stack and TLS block per thread; list of detached threads | `thrd_create`, `thrd_join`, `thrd_detach`, `thrd_exit`, reaping | the kernel clears the tid word; futex waits |
| heap allocator, `src/libc/malloc.c` | regions of blocks with boundary tags; two levels of bins with bitmaps; statistics | `malloc`, `free`, `realloc`, `aligned_alloc` | maps regions from the host; its guest build runs under the heap lock |
| heap lock and caches, `src/libc/guest_heap.c` | a futex word and depth; per-thread, per-class lists of free blocks | cached `malloc`, `free`, `realloc`; cleanup of an ended thread | the allocator; address wait |
| shared mutex, `src/libc/include/shared_mutex` | `readers`, `waiting_writers`, `writer` | lock, try and timed lock, shared and not, unlock | a mutex and a condition; used by RCU |
| semaphore, latch, barrier, `src/libc/include` | one counter each, a barrier's phase | acquire and release; count_down, wait; arrive, wait, arrive_and_drop | address wait on the counter |
| stop tokens, `src/libc/include/stop_token` | a shared state: references, sources, flag, list of callbacks | request_stop; construction and destruction of sources, tokens, callbacks | calls client code; mutex and condition |
| hazard pointers, `src/libc/hazard_pointer.cc` | slots with protected addresses, retired objects | protect, reset, retire, reclaim | a global mutex |
| RCU, `src/libc/rcu.cc` | the domain's shared mutex, the list of retired objects | lock, unlock, retire, synchronize, barrier | shared mutex |
| C++ exceptions, `src/libc/eh_cxa.c`, `unwind_api.c` | headers with counts of handlers and references, the list of caught ones, what the landing pad was given, what a cleanup resumes | throw, rethrow, begin and end catch, `exception_ptr`, resume | called by landing pads the compiler emits; runs destructors |
| exit handlers, `src/libc/exit.c`, `cxx_tls.c` | a list of functions with the library each belongs to | `atexit`, `__cxa_atexit`, `__cxa_finalize`, `exit` | handlers that register, finalize and exit again |
| library lifecycle, `src/c_compiler/Loader/loader_lifecycle.c` | the images in the order of their needs; which are initialized | sort, run the init arrays, run the fini arrays | the interpreter runs the functions; they may call `exit` |
| linker, `src/Linker/linker.c` | table of symbols, files, archives, live sections | read files, resolve undefined symbols from archives, collect garbage | files |
| guest process, `src/x86_64_interpreter/x86_64_process.c` | thread records, `active_joins`, `shutting_down`, heap lock | create, join, detach, exit, heap lock, reaping, destruction | host pthreads; the wait table; the interpreter |
| guest processes of the other interpreters | counterparts of the above | the same | |
| compiler, assemblers, instruction interpreters, 6502 server | | | sequential |

### What makes it hard

* **A store takes no lock.** The guest changes a word with an ordinary atomic
  store and only then calls wake; the wait table compares the word under a lock
  that the storing thread does not hold. What keeps a waiter from sleeping
  through the change is that it holds the bucket's mutex from the comparison to
  the condition wait, and that the wake comes after the store.
* **One wake for many waiters.** `mtx_unlock` and `cnd_signal` wake one. The one
  that is woken may time out, find the mutex taken, or have its wait fail, and
  the responsibility for the others must pass on.
* **Three words for one lock.** `state`, `owner` and `recursion` are read and
  written one after the other; the decision to grant a recursive lock is made on
  values that need not have existed at the same time.
* **Generations.** Conditions and thread-specific keys tell old from new by
  counters, read before a lock is given up and compared after it.
* **Records that several threads free.** Joiners, detachers, reapers on any
  thread and the process's destructor compete for thread records, and join and
  free outside the lock.
* **Ends.** A worker ends by returning, by `thrd_exit`, by `thrd_exit` inside a
  TLS destructor or by an interpreter failure at any point, perhaps holding the
  heap lock; the process may be torn down while workers are blocked.

* **Readers and writers on one condition.** Both wait on the shared mutex's one
  condition, for different things; a writer that gives up waiting must let the
  readers go that were kept out for it.
* **Words read one after the other.** A stop token's constructor reads whether a stop
  was requested and then whether it can be; a caller of the wait table reads whether
  the table shuts down and then blocks. Something may happen in between.
* **Client code in the middle.** Stop callbacks, exit handlers, destructors of
  thread-specific values, completion functions and init functions run inside the
  operations of the runtime, and call them again.
* **One slot for what is in flight.** The unwinder keeps the exception it is
  delivering in globals; a destructor it calls may throw, catch and rethrow
  exceptions of its own before the first one goes on.
* **Lists that change while they are walked.** Exit handlers register handlers;
  reclaiming runs deleters that retire more; reading one archive member makes others
  needed.
* **A heap whose bookkeeping is in the blocks themselves.** Sizes, neighbours'
  states, list links and bitmaps say the same thing several times over, and a
  sequence of legal calls must not make them disagree.

`PROJECT.json` lists each of these at its line under `hazards`, with the
properties that would show it going wrong.

### What makes each part correct

* wait table: a caller blocked on a changed word has a wake coming; shutdown
  leaves nobody blocked; a result is only given for what was seen; as a whole it
  behaves as if comparing and blocking were one step.
* mutex: it is a lock; no wake-up is lost; blocked callers return.
* condition: no notification falls between unlocking and blocking; waiters are served.
* once: one caller at a time, once to the end, nobody past it early.
* thread-specific storage: no value shows under a key it was not stored for, none
  is destroyed twice, none is left behind unless the pass limit says so.
* Linux threads: nobody stands on an unmapped stack, each record is given back once.
* heap: the blocks tile their regions and do not overlap, the bins, bitmaps and
  statistics agree with them, NULL only when nothing fits, a block is with one owner.
* shared mutex: readers together or one writer, writers are not starved. Semaphore:
  no permit made or lost. Latch and barrier: a phase is whole. Stop token: a
  state outlives its users, a callback its calls.
* hazard pointers, RCU: nothing is reclaimed under a reader; what is retired is
  reclaimed by the promised time.
* exceptions: an object lives while it is used and no longer, the current exception
  is the innermost handler's, unwinding goes on after a cleanup.
* exit and lifecycle: each function called once, in the reverse order, before its
  library goes; a library after those it needs and finalized before them.
* linker: an archive member is loaded if and only if something needs it, one
  definition per symbol, whatever a live section refers to is live.
* guest process: each record is used and freed by one thread, TLS is finalized
  once, exit codes reach the joiner, destruction has the process to itself and ends.

## The models and the code

An action is one stretch of a function between two points where another thread
can be noticed: an atomic access to a shared word, taking a lock, blocking, a
system call. A section under a lock that calls nothing outside is one action.
The names of variables and actions are those of the code where TLA+ allows it;
`PROJECT.json` (`map`) gives the lines of each definition.

**AddrWait** is the contract of wait and wake, with no table in it: `Compare`
tests the word and blocks in one step, `Notify` releases all blocked callers of
the address or any one of them, `Close` releases everybody. **GuestAddrWait** is
`guest_addr_wait.c`: `value` the guest's words, `buckets` and `waiter_count` the
table, `lock` the holders of the table's and the buckets' mutexes, `pc` the place
of each thread in its call. `GetBucketCreate`, `EnterBucket`, `Recheck`,
`CheckShutdown`, `Block` and `Relock` are `GuestAddrWait` in its order;
`FindBucket` and `SignalBucket` are `GuestAddrWake`; `ShutdownBegin`,
`ShutdownBroadcast`, `ShutdownEnd` and `Destruct` tear the table down. The flag of
shutdown is set under no lock, so `ShutdownBegin` may fall between a caller's load of
it (`CheckShutdown`) and its `Block`; each broadcast takes the bucket's mutex
(`MutexTaken`), which that caller still holds.
`pthread_cond_wait` gives its mutex back in the step that blocks, may return by
itself (`SpuriousWakeup`), and takes the mutex again (`Relock`). Every read of a
word may fail (`Unreadable`: memory that is not mapped any more).
`GuestAddrWait` is shown to implement `AddrWait` by the mapping at its end: a
caller counts as blocked as soon as it has compared and goes for the condition,
because it holds the bucket's mutex up to there.

**Lock** is what a mutex promises. **Mutex** is `mtx_t`: `TrylockRecursive`,
`TrylockOther`, `CompareExchange` and `TakeOwnership` are `mtx_trylock`, also
where the two lock loops call it; `AddrWait`, `WaitTimeout`, `DeadlinePassed`,
`WaitFails`, `WokenReturns` and `WokenBlocksAgain` are the loops;
`UnlockRefused`, `UnlockInner`, `UnlockBegin`, `ClearOwner`, `ClearState` and
`AddrWake` are `mtx_unlock`. A waiter that was woken may return (the kernel's
futex) or compare and block again (the guest's wait table): the same library runs
on both and the model allows both. `Mutex` implements `Lock`, with
`HeldBy` and `DepthOf` as the mapping: the compare-exchange is where the lock is
acquired, the store of 0 to `state` where it is released.

**Condition** runs on `Lock` rather than on `Mutex`, which the refinement
justifies, with producers and consumers as clients. `LoadGeneration`,
`UnlockToWait`, `AddrWait` and the relocking are `ConditionWaitFor`, which may end
without the mutex when the relock's own wait fails (`RelockFails`);
`ConditionAdvance` and `AddrWake` are `cnd_signal` and `cnd_broadcast`, inside or
outside the locked region.

**Once** is the state word of `call_once` with its election, the function that
may throw, and the wake-ups. **Tss** is the key registry, with one action per
critical section and the destructor passes of an exiting thread step by step;
stored pointers are numbered so that every value can be told from every other.

**LinuxThreads** is the native thread code: `Reap` and `Unmap` are the two halves
of `ReapDetachedThreads`, `Clone` is what `thrd_create` does after reaping,
`Finish`, `Fini` and `KernelExit` are a thread's way out, the last being the
kernel's clearing of the tid word.

**GuestProcess** is `x86_64_process.c`: `thread`, `threads` and `allocated` are
the records, the process's table, and the records not yet freed. `Reap` and
`ReapFree` are `ReapFinishedDetachedThreads`; `JoinClaim`, `JoinFinish` and
`JoinFree` the three stretches of a join; `HostEntry`, `InitReturns`,
`FunctionReturns`, `FiniReturns`, `ThreadExit`, `ExitCompletes`, `ExitInFini` and
`HostEnds` a worker's life; `BeginDestruct` to `DestroyProcess` the destruction on
the main thread. The wait system call is used by its contract: it blocks until
somebody wakes it or the table is shut down.

**RwLock** is what a reader-writer lock promises; **SharedMutex** the members of
`shared_mutex` and `shared_timed_mutex`, with a condition's wait as going to sleep,
being woken or not, and looking again under the mutex. It implements `RwLock`.
**Semaphore**, **Latch** and **Barrier** are loops of load, compare-exchange and
address wait on one counter; every atomic access is an action. A timed acquire whose
wait fails is refused at once, an untimed one looks again (`WaitFails`,
`ReturnRefused`): that is what a signal does to a futex wait, and what the native
library does to every wait of a semaphore, whose word has eight bytes. In **Barrier** the
last thread to arrive runs the completion, resets the count and only then
advances the phase. **StopToken** has one action per stretch of the mutex in
`__request_stop`, registration and removal, and counts the references of the shared
state; a call of a callback has a frame (`frame`, `execution`), because
a callback may remove itself or another. A constructor loads the flag (`Construct`) and
then the number of sources (`LoadSources`); `unheard`, which no action reads, remembers
the callbacks that found no request and then no source. A remover counts itself out of
the frame's waiters (`Await`) and notifies the frame (`NotifyWaiters`) in two steps, and
the atomic wait on the frame may return early (`EarlyReturn`).

**HazardPointer** is the domain of `hazard_pointer.cc`, with the objects that
pass through an atomic source as its client. **Rcu** is `rcu.cc` on top of
SharedMutex (it EXTENDS the detailed module, so a reader's lock is its several
steps), with a writer that replaces an object and retires the old one.

**Heap** is the allocator as operators on a heap value (`Split`, `Coalesce`,
`InsertFree`, `TakeFit`, `GrowInPlace` ...) and one action per entry point. Addresses
and sizes are in units of the alignment; the two-level bins keep their shape with
`SLBits` bits. **HeapCache** adds the futex lock, the caches with their depth, the
emptying of a cache before NULL is returned and the cleanup of an ended thread.

**Exceptions** is one thread's view of `eh_cxa.c`: `headers` the exception objects
with `handlerCount`, negative after a rethrow, and the references of
`exception_ptr`s; `caught` the list `caughtExceptions`, linked by `next`; `landing`,
`active` and `resume` the unwinder's globals. The client is a stack of scopes (try
blocks, objects with a destructor, handlers, destructors that the unwinder called),
whose entries and exits are the landing pads of `statement_codegen.c`.

**Exit** has a frame for each `exit` or `__cxa_finalize` in progress, because
handlers call both; an entry is unlinked before it is called. `Picked` is the walk
that divides the list into what is detached and what remains. **LoaderLifecycle**
walks the dependency graph with its stack of `{image, next}` and runs the three
arrays; functions may fail or exit. Its input is any of a set of graphs (chains,
diamonds, cycles, a missing library). **Linker** reads the files of an input, adds
and redefines symbols, makes the passes over undefined symbols until one adds
nothing, and marks live sections: the sections still to be looked at are a set, for
no result depends on the order of the code's worklist. **MCLinks** holds the inputs.

Three modules put components side by side, so that one run can check them and one
theorem speak of what that run checks: **Synchronization** (once, semaphore, latch,
barrier, stop token, condition), **Runtime** (exceptions, Linux threads, hazard
pointers, exit handlers, library lifecycle, condition, linker) and
**Storage** (allocator, caches, thread-specific values, guest records). Each EXTENDS
one component and takes the others through INSTANCE. `component` says which one runs:
the initial state chooses it and nothing changes it, so the behaviours are the union
of those of the components, and each property speaks of one of them. Variables of one
name are shared; where names differ too much the components have `x1`, `x2`, ... ,
and the INSTANCE says which is which. What a component does not use stays 0. Their
named ASSUMEs are the components' assumptions about their constants.

The modules named `MC...` only give values. **MCSafety**, **MCOwnership** and
**MCProgress** do so for Runtime, Storage and Synchronization; MCProgress also states
the liveness of the components of its run. MCOwnership has two builds of the
allocator alone and one with threads. **MCRcu** EXTENDS Rcu and chooses between the
RCU domain and its shared mutex alone, with all the calls RCU does not make.

## The runs

| run | question | answer |
|---|---|---|
| `addr_wait_liveness` | Are the counts of waiters exact, is a change followed by a wake, does a caller blocked on a changed word return, and does shutdown reach and release everybody, also those just about to block? | yes, with wake_all |
| `addr_wait_refinement` | Is it the contract of `AddrWait`, liveness included, and is every result justified? | yes, and each is |
| `addr_wake_one` | Does a wake of one release somebody it could release? | no: see [findings](#findings) |
| `mutex` | Is it one lock although it is three words, is any wake-up lost when waits time out, fail or block again, and do blocked calls return? | it is, none is, they do |
| `ownership` | Who owns what. Allocator and caches: can a legal sequence of calls make blocks overlap, bins, bitmaps or statistics wrong, refuse what would fit, or leave a cached block with two owners? Thread-specific storage: can a value be seen under a later key, be destroyed twice or be left behind? Records of guest threads: can one be freed twice, used after it was freed, or lost? | no |
| `rcu` | Can an object be reclaimed under a reader, a barrier return too early or never? Is the shared mutex, with every call it has, a readers-writer lock that loses no wake-up and lets writers in? | no; it is |
| `guest_process` | With every kind of call: is TLS finalized once, the exit code right, the heap lock given up, each record freed once and by one thread, and does destruction end? | yes |
| `safety` | What may never happen in exceptions, Linux threads, hazard pointers, exit handlers, library lifecycle, the condition variable (with waits and relocks that fail) and the linker | their properties hold |
| `progress` | The components whose question is also who returns: once, semaphore, latch, barrier, stop token, condition | their properties hold |
| `stop_token` | Can a callback that destroys sources and tokens take the state away from the request that calls it? | yes: see [findings](#findings) |
| `linker` | Is every undefined symbol that an archive defines loaded? | no: see [findings](#findings) |
| `exceptions` | Does unwinding go on after a destructor that threw and caught an exception of its own? | no: see [findings](#findings) |

A property named `...Safe` is the conjunction of the component's invariants, each a
definition of its own, commented in the component's module:

| property | its parts |
|---|---|
| `ExceptionsSafe` | types; an exception object lives while it is in flight, handled or referred to, and no longer; the current exception is the innermost handler's; after a cleanup unwinding goes on |
| `ThreadsSafe` | `StacksSafe`, for the Linux threads |
| `OnceSafe` | `CallOnceSafe`, for once |
| `OwnersSafe` | `TssSafe` and `GuestRecordsSafe`, for the component that runs |
| `CachesSound` | the heap lock is held by one thread and its sleepers have a wake ahead; a block has one owner; NULL only after the caches were emptied; nothing is lost with a thread |
| `TssSafe` | types; no value shows under a key it was not stored for; a destroyed value is gone; none left behind unless the passes ran out |
| `StacksSafe` | types; nobody on an unmapped stack; a record given back once; a joiner gets the result |
| `HazardPointersSafe` | nothing a validated slot protects is reclaimed; what is retired is reclaimed once; it stays retired only while some slot protects something |
| `HandlersSafe` | every handler on the list, detached by one frame or called once; reverse order; `exit` calls them all; a library's are called before it is unloaded |
| `LifecycleSafe` | an image after those it needs (but for cycles); finalized in reverse and only if initialized |
| `LinkSafe`, `KeptIsReachable` | one definition per symbol and the strong before the weak; a member only for an undefined symbol; passes are few; what is kept is what the entry reaches |
| `NoLostNotify` | while somebody sleeps beside an item a thread is on the way that takes it or wakes; excused are as many items as there are consumers that were refused the mutex after their wait |
| `EndingsSafe` | types; TLS finalized once; the exit code is the right one; the heap lock given up by whoever ends; nothing left at the end |
| `GuestRecordsSafe` | records are used and freed by one thread; none is lost; `active_joins` is exact; destruction has the process to itself |
| `CallOnceSafe` | runs once; nobody past early; sleepers have a wake ahead |
| `NoReaderSeesFreed`, `BarrierReclaims` | nothing is reclaimed that a reader sees; a barrier returns when all that was due is reclaimed, and nothing is reclaimed twice |
| `SharedMutexSafe`, `ImplementsRwLock`, `WritersGetIn` | counters exact and no lost notification; readers together or one writer; no starving of writers |
| `SemaphoreSafe` | permits conserved; no sleeper beside a free permit without a wake on its way; a timed acquire fails only after the deadline or after a wait that failed, and never past a permit it saw |
| `PhasesAreWhole` | the completion between all arrivals and all departures; the latch returns at zero |
| `StopTokenSafe` | the state outlives its users; a callback its calls; after `request_stop` all have been called, but those of `unheard` |
| `AllocatorSound` | `HeapSound` (tiling, tags, bins, bitmaps, statistics) and `CachesSound` |
| `NullOnlyWhenFull` | refusal only when nothing fits |
| `NobodyStaysBehind` | the liveness of all components of `progress` |

Some need a word more:

* `NoLostWakeup` (Mutex) says who is responsible when somebody sleeps on a free mutex: a
  thread about to wake, one already woken, or one about to try the lock. A thread that
  is about to take its result back to the client after a failed wait is *not* on that
  list, and it need not be: with the kernel's futex a wait fails before it was woken,
  never after. In the guest's wait table a woken caller can still fail, when its memory
  was unmapped or the process is shutting down; then every other wait on the word ends
  as well, and that case is left to the models of the table and the process.
* `NoLostNotify` (Condition) includes waiters that hold an outdated generation:
  they will not block, and they will look again. A consumer whose relock fails
  (`Failed`) has perhaps been woken by a notification and cannot look: `cnd_wait`
  returns `thrd_error`, and the item is its client's to see to. Each such consumer
  accounts for one item at most; for more than these the property demands that
  somebody is on the way. `NobodyStaysBehind` is about clients whose relocks succeed.
* `NobodyMissed` (StopToken) excuses the callbacks in `unheard`: a request that begins
  and drops the last source between the constructor's two loads leaves such a callback
  uncalled ([findings](#findings)). A callback that found a request, or found a source
  and registered, has no excuse.
* `FailsLate` (Semaphore): of a caller that was refused because its wait failed the
  property says that it had seen no permit; it has not been picked by a wake either,
  so it takes none with it (`SleeperHasNoPermit`).
* `QuietAfterWait` (GuestProcess) is about one look at the table per round:
  a worker may create another, or be out of the table in the hands of a joiner,
  while the destructor looks. Joiners are workers themselves and detached
  workers are only taken out once they finished; the run confirms that this is enough.
* The runs `ownership` and `guest_process` look at the records of the same process in
  two ways: with joins in any direction and more calls, but without heap lock and
  early exits, and with every kind of call, fewer of them and no joins of older
  threads, which the liveness needs (two threads that join each other end no program).
  The theorem `RecordsStaySafe` covers both.

## Bounds

* Threads: two to four. The hazards need at most three parties: a waiter that is
  passed over, a waiter that uses the wake up, and the one who wakes (the wait
  table, the condition); the holder, the sleeper and the thief (the mutex); the
  joiner, the joined and the destructor (the process). `LinuxThreads` has main and
  three workers so that two can reap while a third is on its way out.
* Calls per thread (`MaxCalls`, `MaxOps`, `PerProducer`, `MaxCreates`, `MaxSets`,
  `MaxAborts`): one to three. A second call is what finds a lock, a bucket, a key slot
  or a record in the state an earlier one left behind; in `addr_wait_liveness` one call
  by each of three threads is enough for a store, a wait and a competing wait, and
  `addr_wait_refinement` gives each of two threads two. In `addr_wait_liveness` waits
  have a deadline or none; polls, which do not block, are in the other two. In
  `guest_process` the main thread and the first worker make two calls, the second one;
  in `rcu` one caller makes one call, one two, and a reader reads twice.
* `MaxDepth` = 2: the inner and the outermost unlock.
* `Generations`: 2^32 in the code; 8 in Condition and 4 in Tss, larger than the
  number of notifications and creations the other bounds allow. `TssConstants`
  states this for the keys; for conditions at most four notifications are made. A
  counter that comes round within one preemption is therefore outside the models.
* One word in the addr_wait runs, where liveness and refinement make a second one too
  much: words have buckets of their own, and only the table's mutex and shutdown are
  common to them. The invariants of `addr_wait_liveness` hold with two words as well
  (2.2 million states without the liveness properties), and the theorems are for any
  number of them.
* Two values and an unreadable one: a waiter distinguishes only "my value" from "another".
* `KeysMax` = 2 and `DtorIterations` = 2: a slot that is reused and one that is
  not, a last pass and one before it.
* `MaxTid` = 3: main and two workers, ids used up by failed creations included.
* Heap: `Memory` = 24 units, at most four live blocks: enough for two regions, for a
  block with free neighbours on both sides and for a bin with two members. `Requests`
  are nothing, one unit, one that leaves a remainder too small to split, and `MaxUnits`,
  which overflows. Under threads the region has 11 units and requests of one and two, so
  that the caches and the region are full within a few calls.
* Rcu: one reader that nests twice, two callers that write or wait; three objects.
  Semaphore: a maximum of 2, releases of one and two. Barrier: two rounds, three
  threads, one of which brings two arrivals. Stop token: two callbacks, three
  constructed in all.
* Exceptions: in `safety` two exceptions, two `exception_ptr`s and five scopes, enough
  for an exception thrown in the handler of another, inside a try block, beside an
  object; destructors that throw and catch, and rethrowing below the innermost
  handler, are excluded there, as both are [findings](#findings). `exceptions` has three.
* Exit: three handlers, two of one library, two threads, frames two deep.
  Lifecycle: four images. Linker: three names, two archives, members with each kind
  of reference and definition.

Symmetry is used in `safety` (the created Linux threads), `ownership` (threads with
caches) and `exceptions`, which check no liveness. Deadlock is checked in the addr_wait
runs, `mutex`, `ownership` and `linker`. In `ownership` the components other than the
allocator and the caches may stop: their calls are used up, or their *clients* deadlock
(two threads that join each other, a main thread that joins a worker nobody will wake).
In the remaining runs a behaviour may end for the same reasons; `progress`, `rcu` and
`guest_process` say by their liveness that nobody is left inside a call then.

## Fairness

* **GuestAddrWait**: strong fairness for each thread's steps inside a call and for
  those of shutdown: a host mutex that is free again and again is obtained; its holders do
  not block but in the condition, which gives it back. No fairness for calls,
  stores, timeouts and spurious wake-ups: nothing makes the guest do them, and no
  result depends on their happening.
* **Mutex**: weak fairness for each thread's steps of a lock or an unlock call, the
  client's unlocking among them: a client that never unlocks starves the others in any
  implementation. Lock calls are bounded, so `LockReturns` is about lost sleepers
  and not about starvation by thieves, which this mutex does not prevent.
* **Condition, Once**: every caller is scheduled (weak fairness), and the function
  given to `call_once` ends. Timeouts, failures and throws are never forced.
* **GuestProcess**: threads are scheduled, guest functions end, the allocator unlocks
  what it locked, and a heap mutex free again and again is obtained (weak fairness for
  each thread's steps, strong fairness for obtaining the heap). Nothing makes the guest
  make a call or its program end; `ShutdownEnds` starts from a destruction that has
  begun.
* **Rcu, SharedMutex, Semaphore, Latch, Barrier, StopToken**: every thread inside a call
  is scheduled (weak fairness of its steps), readers and other holders leave their
  critical sections and callbacks return. Calls are bounded, so no result relies on a
  mutex being fair. Timeouts are never forced.
* **LinuxThreads, Tss, HazardPointer, Exceptions, Exit, LoaderLifecycle, Linker, Heap**:
  safety only, no fairness.

## Proofs

Eight modules hold theorems. Each theorem is for every value of the constants that
the assumptions of its model allow. Hardly any of the properties is inductive, so
each component has an invariant that is. A lemma shows that a step keeps it, with a
step of the proof or a lemma of its own per action, and under it one per conjunct the
action can disturb. Each of these invariants was checked by TLC on the instances of
the runs before it was proved.

| module | components | over |
|---|---|---|
| `GuestAddrWaitProofs` | wait table | GuestAddrWait |
| `MutexProofs` | mutex | Mutex |
| `RcuProofs` | shared mutex, RCU | Rcu, SharedMutex |
| `GuestProcessProofs` | guest process | GuestProcess |
| `SynchronizationProofs` | once, semaphore, latch, barrier, stop token | Synchronization |
| `SequentialProofs` | exceptions, library lifecycle, linker | Exceptions, and INSTANCEs of the others |
| `RuntimeProofs` | Linux threads, hazard pointers, condition, exit handlers; the sequential components in Runtime | Runtime |
| `StorageProofs` | thread-specific storage; the guest's records in Storage | Storage |

### Components side by side

In Synchronization, Runtime and Storage the properties have the form
`component = c => P`. `Whole` is the conjunction of `component = c => Inv` over the
components proved there, `StepOfOne` says that a step of the whole is a step or a
stutter of the component that runs, and `AlwaysWhole` follows from the components'
own lemmas (`...Init`, `...Next`); the theorems are then one step each.

A component proved in a module of its own is an INSTANCE of that module in the
composite: `SP` (SequentialProofs) in `RuntimeProofs`, `GP` (GuestProcessProofs) in
`StorageProofs`. The composite's own instance of the model
has the same definitions with the same parameters, so the lemmas named `...Copied`,
which say that its initial states, steps and properties are those of the copy, need
nothing but the definitions; `Copies` takes the place of `Whole`.

### The mutex

`MutexProofs` proves, for any set of threads, any number of calls, any nesting and
with waits that fail or not:

| theorem | statement |
|---|---|
| `TypeCorrect` | `Spec => []TypeOK` |
| `Exclusion` | `Spec => []MutualExclusion` |
| `OwnerToken` | `Spec => []OwnerTokenIsTruthful` |
| `WakeupsKept` | `Spec => []NoLostWakeup` |
| `MutexIsALock` | `Spec => ImplementsLock`: the mutex implements `Lock` |

The only assumption is `MutexConstants`: the owner token 0 is no thread's token and
the bounds are numbers.

From `MutualExclusion` alone one cannot tell
that a thread about to store its token is the one that won the exchange, and
nothing says what the client may hold while its thread is elsewhere. The inductive
invariant is

    IInv == TypeOK /\ HeldPlaces /\ HolderIsAlone /\ OwnerFollows /\ NoLostWakeup

`HeldPlaces` says where a thread can be while it holds grants (in the client, or
in a recursive attempt) and that only a recursive mutex is granted more than
once; `HolderIsAlone` is mutual exclusion with the state word tied to it;
`OwnerFollows` says what `owner` and `recursion` are at each place of the holder,
and that without a holder the token is 0.

`MutexIsALock` rests on `HolderMapped` (the `CHOOSE` in the mapping picks the one
holder there is), `AbstractState` (what the mapped variables are in each case) and
`StepImplements` (each action is a step of `Lock` or leaves it alone: the
exchange acquires, a recursive grant deepens, an inner unlock undoes one, and the
store of 0 releases).

### The wait table

`GuestAddrWaitProofs` proves, for any finite set of threads, any words, values and
timeouts, and any number of calls:

| theorem | statement |
|---|---|
| `TypeCorrect` | `Spec => []TypeOK` |
| `CountExact` | `Spec => []WaiterCountExact` |
| `ChangeFollowed` | `Spec => []ChangeIsFollowedByWake`, where every wake is a wake_all |
| `ShutdownReaches` | `Spec => []ShutdownReachesEveryWaiter` |
| `ResultsAreJustified` | `Spec => ResultsJustified` |
| `TableImplementsContract` | `Spec => Abstract!Init /\ [][Abstract!Next]_(Abstract!avars)`: the safety part of the refinement |

`AddrWaitConstants` is assumed: finitely many threads, `Main` none of them, an
unreadable word is no value, and the names of the table's mutex and of a free one
are not used for anything else. `ChangeFollowed` assumes `WakeModes = {TRUE}` as
well, as the run `addr_wait_liveness` has it: a wake of one may leave other waiters on
the changed word behind.

    IInv == /\ TypeOK /\ ArgumentsFit /\ ModesFit /\ LocksKept /\ BucketExists
            /\ WaiterCountExact /\ ShutdownAhead /\ WakeAhead

`LocksKept` is what the argument turns on: a caller holds its bucket's mutex from the
comparison to the condition wait, so no signal and no broadcast of shutdown can fall in
between. `WakeAhead` extends `ChangeIsFollowedByWake` to a caller that has compared and
not yet blocked: it may block on a word that has changed since, and the storing thread's
wake must still be ahead then. `ShutdownAhead` does the same for
`ShutdownReachesEveryWaiter`: a caller that has loaded the flag as clear and is about to
block when the flag is set has its bucket among those still to be visited, and cannot be
passed over because the visit needs the mutex it holds. `BucketExists` says that a wake
which finds no bucket has nobody to release. The count is handled by `CountOneMore` and
`CountedOut`, which relate `waiter_count++` and `--` to the cardinality of the set of
callers.

In the refinement, `Moves` and `Stands` say what a program point means abstractly,
and `StepImplements` takes each action to a step of `AddrWait` or to a stutter.
Beyond types, the invariant is needed mostly for the wakes: the abstract wake
releases callers that have compared *or* blocked, the condition only those that
blocked, and the two sets are the same because nobody is between the two while the
bucket's mutex is free; a wake that finds no bucket, or a count of 0, has nobody to
release.

### One-time initialisation

`SynchronizationProofs` proves, for any set of callers and any number of throws and
failing waits:

| theorem | statement |
|---|---|
| `TypeCorrect` | `Spec => []TypeOK` |
| `OneRun` | `Spec => []RunsOnce` |
| `NobodyPastEarly` | `Spec => []OutMeansDone` |
| `SleepersWoken` | `Spec => []SleepersWillBeWoken` |
| `CallOnceIsSafe` | `Spec => []CallOnceSafe`, the conjunction |
| `OnceIsSafe` | `AllSpec => []OnceSafe`, which the run checks |

with the invariant

    IInv == TypeOK /\ RunnerAlone /\ DoneMeansRun /\ PastElection /\ SleepersWillBeWoken

`RunnerAlone` ties the state word 1 to the one caller that runs the function,
`DoneMeansRun` the state 2 to its completion, and `PastElection` says what a caller
may rely on at each place after the election. `OnceConstants` is the only
assumption.

### Semaphore, latch, barrier

| theorem | statement |
|---|---|
| `SemaphoreIsSafe` | `AllSpec => SemaphoreSafe` |
| `PhasesStayWhole` | `AllSpec => []PhasesAreWhole` |

    SemInv == SemTyped /\ EachHasATaker

`EachHasATaker` counts: while somebody sleeps and nobody is about to wake all, there
are no more permits than threads coming for them (`Coming`: those that will look at
the count, try to take from it, or wake somebody who will). A thread whose wait may
have run out of time, or was refused, is not among them, and need not be: it has not
been woken. `SemTyped` says what `FailsOnlyLate` needs: who waits or was refused has
seen no permit.

    LatchInv == LatchTyped /\ CountIsToCome
    BarrierInv == BarrierTyped /\ OneFinishes /\ CountsExact

The count of a latch is the sum of what those bring who have not arrived, that of a
barrier the sum over those still due in this phase. A sum over threads is the
cardinality of a set of pairs (`UnitsOf`), which makes adding and taking away one
thread a lemma about finite sets. `OneFinishes` says that from the last arrival to
the unlocking one thread is at work and nobody is late; that the next phase's
arrivals are counted from the reset on is in `CountsExact`, and that a token is never
of a phase that has not begun in `BarrierTyped`.

### Stop tokens

| theorem | statement |
|---|---|
| `StopTokenIsSafe` | `AllSpec => []StopTokenSafe` |

    StopInv == CallsExact /\ ListExact /\ References /\ WaitersExact

`References` says whose references the counter counts: the source's, one of each
constructor or request under way, one of each callback. `CallsExact` follows a callback
through its owner (`OneOwner`: one thread constructs or destroys it), the frame of its
call (`OneFrame`, which holds as long as the callback lives, for a callback destroyed by
its own body takes the frame's word away), and the thread that waits for its end
(`AwaitedRun`); `AllServed` says that a callback that lives has been called, is listed,
has a thread that will see the request, or is in `unheard`. Synchronization excludes
callbacks that drop the last source inside their constructor (`DropInline = FALSE`),
which is a [finding](#findings).

### The shared mutex

The first half of `RcuProofs` is about the lock alone. It proves, for any finite set of
threads and any set of calls for each of them:

| theorem | statement |
|---|---|
| `CountersAndSleepersAgree` | `Spec => []SharedMutexSafe` |
| `SharedMutexIsARwLock` | `Spec => ImplementsRwLock`: readers together or one writer |

`SharedMutexConstants` is all it uses of the constants. Here the checked property with the
types is inductive: `IInv == TypeOK /\ SharedMutexSafe`. It counts the readers and
the waiting writers that are in the corresponding places, and says of each sleeper why
it may sleep. The counting is in `OneMore`, `OneLess` and `NoneCounted`; each operation
is a lemma about the step of one thread. In the refinement a thread holds the lock
while it is `held`, so only the entries and the unlocks are steps of `RwLock`;
`WriterIsAlone` gives the guards of the entries.

### RCU

The second half proves, for any finite set of threads, any objects, any nesting and any
number of reads and barriers:

| theorem | statement |
|---|---|
| `GracePeriod` | `RcuSpec => []NoReaderSeesFreed` |
| `BarriersReclaimInOrder` | `RcuSpec => []BarrierReclaims` |
| `DomainLockIsARwLock` | `RcuSpec => []SharedMutexSafe /\ ImplementsRwLock`: the lock inside the domain is the lock proved above |

    RcuInv == IInv /\ RcuTypeOK /\ Roles /\ Guard /\ Tickets /\ OnePlace /\ Grace /\ Owed

`Grace` is the grace-period argument: when a barrier holds the lock exclusively nobody
reads, so nothing retired is seen by a reader; what was retired up to the barrier's
target was not published afterwards, so no later reader sees it either, and a barrier
takes no record beyond its target. `Tickets` makes that target mean something: tickets
run without a gap over what was completed, what one barrier has taken and what is
queued, so a prefix of the queue is taken (`ReadyIsAPrefix`). `Guard` admits one barrier
at a time to the reclaiming. `Owed` follows what was retired before a barrier began from
the queue through somebody's hands to the end; another barrier may have taken it.

### The condition variable

`RuntimeProofs` proves, for any finite set of consumers and producers, any number of
items and any mixture of signal and broadcast, inside and outside the locked region:

| theorem | statement |
|---|---|
| `NotificationsArrive` | `AllSpec => []NoLostNotify` |

Its hypothesis is that the counter has more values than notifications are made
(`Cardinality(Producers) * MaxPut < Generations`). It is needed: with `Generations` = 2
TLC finds a consumer that goes to sleep on an item because the counter is back at the
value it remembers. In the code the counter has 2^32 values
([see below](#what-is-not-modelled)).

    NotifyInv == ConditionTyped /\ ConditionHeld /\ GenerationCounts /\ NothingSeen /\ Enough

`NoLostNotify` says that somebody is on the way; what a step preserves is that there are
enough of them. `Enough` says that while somebody sleeps there are no more items than
threads that will look at them, would have if their relock had not failed (`C!Failed`),
or will wake somebody (`Wakers`); with more items than failed relocks one of them is on
the way. A wake that picks a sleeper which then blocks again uses up a waker for
nothing, and `NothingSeen` says why it may: that sleeper has the current generation, so
there was no item when it read it, and every item there is now comes from a producer
that has yet to advance the counter (`Pending`). `GenerationCounts` makes the generation
the number of notifications (the cardinality of `Notified`), so that an older one stays
older.

### Thread-specific storage

| theorem | statement |
|---|---|
| `OwnersAreSafe` | `AllSpec => []OwnersSafe`, in `StorageProofs`: the values of keys, and the records of guest threads |

    TInv == TTyped /\ Generated /\ Current /\ OnePlaceEach /\ Cleared

`Current` is the point of the generations: a value whose generation is the key's was
stored since the key was created, so a value left by an earlier key is never shown.
`OnePlaceEach` says that a stored value is in one slot of one thread and in none once
its destructor has it; `Cleared` that a pass that has called nobody leaves nothing
behind it. `TssConstants` assumes fewer creations than generations
(`MaxCreates + 1 < Generations`; the code has 2^32).

### Hazard pointers

| theorem | statement |
|---|---|
| `ReadersAreSafe` | `AllSpec => []HazardPointersSafe` |

for any readers, writers, addresses and calls, with

    HazardInv == HazardTyped /\ OnePlace /\ SlotsSay /\ Validated /\ H!RetiredIsHeldUp

`HazardPointerConstants` (readers and writers are different threads, the null pointer
is no address) is assumed. An object is at
the source, in the hand of the writer that exchanged it, retired, or in the list of
the one thread that reclaims it (`OnePlace`). `Validated` is the point of the
protocol: an object that was still at the source after the protection was published
was not retired yet then, so every reclaim that could take it comes later and sees
the slot, of which `SlotsSay` says that it still holds the address.

### Native Linux threads

| theorem | statement |
|---|---|
| `StacksOutliveThreads` | `AllSpec => []ThreadsSafe` |

for any set of threads and any number of calls, under `LinuxThreadsConstants` (the
main thread is not one that is created), with

    ThreadsInv == ThreadsTyped /\ Lives /\ Claimed /\ OneTaker /\ NoneLost /\ Reaped

`Lives` ties the tid word to a thread's life: it is set until the kernel clears it,
after the last instruction on the stack. `OneTaker` and `NoneLost` say that a record
somebody is responsible for is given back, on the list of detached threads, or with
exactly one thread that took it off the list or joins it; `Reaped` that what is taken
off the list has left its stack.

### Exit handlers

| theorem | statement |
|---|---|
| `HandlersAreSafe` | `AllSpec => HandlersSafe`, invariants and action properties |

for any threads, handlers, libraries and depth of finalizations, with

    ExitInv == ExitTyped /\ OneHome /\ NewestFirst /\ Batches

`OneHome` says where a handler that was registered is: on the list, in one frame of
one thread, or called. `NewestFirst` orders the list and what a frame has left.
`Batches` is what the order of calls rests on: of two handlers detached at once the
later registered is called first, so a frame that still holds it holds the earlier as
well; and a detachment leaves nothing of its library on the list that was registered
until then. The walk of the list is a recursive function; `WalkEnds` and
`PickedList` show what it returns for every list: exactly the wanted entries, in the
list's order.

### Exceptions

| theorem | statement |
|---|---|
| `SequentialProofs!ExceptionsAreSafe` | `Spec => []ExceptionsSafe`, under `Assumed` |
| `RuntimeProofs!ExceptionsAreSafe` | `AllSpec => []ExceptionsSafe` |

`Assumed` excludes what the code does not survive (`NestedInCleanup`,
`RethrowBelow`: [findings](#findings)). The client is otherwise free: try blocks,
objects, throws in handlers, rethrows, and any use of `exception_ptr`s, to any depth.

    Inv == /\ Typed /\ InTheAir /\ Together /\ Chain /\ Counted /\ Living
           /\ active # Null => NotBelow(active)

The invariant reads the truth off the stack of scopes and says what the runtime's
words must then be: `Counted` gives both counts of a header, `Chain` makes the list of
caught exceptions the handlers from the innermost out, `Living` says that an object
lives exactly while something uses it. `Together` and `NotBelow` are why a list with
one link per exception is enough: the handlers of one exception have none of another
between them, and an exception in flight is not handled below a handler that stays.

### Library lifecycle

| theorem | statement |
|---|---|
| `LifecycleIsSafe` | `AllSpec => []LifecycleSafe` |

for any finite set of images with any needs, arrays and failures.

    LoaderInv == /\ LoaderTyped /\ OrderExact /\ StackExact /\ SortFirst
                 /\ InitExact /\ FiniExact /\ CallsExact

`StackExact` is the depth-first search: the images on the stack are distinct and not
yet ordered, and of what each needs, everything before its cursor is ordered or the
image above it. From it follows `OrderExact`: an image comes after all it needs, or
the sort fails. `InitExact` and `FiniExact` say which part of the order has been run;
`CallsExact` that the calls are those, once each and in that order.
`LifecycleConstants` assumes that every image is in the search list, and that an
executable that is not position independent is needed by no library.

### The linker

| theorem | statement |
|---|---|
| `LinksAreSafe` | `AllSpec => LinkSafe`, invariants and an action property |
| `ReachableIsKept` | `AllSpec => []KeptIsReachable` |

for any finite set of names and any links that `LinkerConstants` admits: objects and
members are told apart by their names, the table's order comes to every name, and the
objects name something.

    Linked == /\ LinkTyped /\ L!DuplicatesReported /\ L!MembersLinkedOnceWhenNeeded
              /\ FromObjects /\ Passes /\ \A n \in Names : Bound(n)

`Bound` says of each name what its entry in the table is, from the sequence of files
linked so far: the first strong definition or else the first definition, the size of
the largest common, weak only if every reference is. `Passes` is why the loop ends with
nothing left: a pass that has added no name so far has settled the names it came to.
Names that some file refers to weakly are excepted there and in the property: one whose
reference becomes strong during a pass is what the [finding](#findings) is about.

`Collected` is the marking: `MarkedLive` says that nothing is live that a closed set
containing the roots could miss, and that only what the worklist still refers to is
missing.

### The guest process

`GuestProcessProofs` proves, for any number of thread ids, any number and mixture of
calls, and joins in any direction:

| theorem | statement |
|---|---|
| `RecordsStaySafe` | `Spec => []GuestRecordsSafe` |
| `ThreadsEndCleanly` | `Spec => []EndingsSafe` |

    Inv == /\ Typed /\ Places /\ Lives /\ Claimed /\ Phases /\ HeapOwned /\ Quiet
           /\ ActiveJoinsExact

A worker that is under way has its record in the process's table (`Lives`): only a
finished thread's record is taken out, by the one joiner that claimed it, by the
reaper that found it detached, or by the final drain, and from then on it belongs to
that thread (`Claimed`, with `TakeOut` and `GivesBack`). `Phases` follows the ways out
of a worker through init, function and fini; `HeapOwned` who holds the heap lock and how
deep. `Quiet` is what the destruction relies on after it has waited: no worker runs and
no join is under way. `ActiveJoinsExact` counts the joins, which makes that waiting mean
what it should.

### Induction

Where a proof has to go over a sequence or a set of any size it takes a least
counterexample: `LeastNat` derives from the library's well-founded orderings that a
set of numbers that is not empty has a least element, and it needs no operator as a
parameter. The walk of the exit handlers, the first definition of a name and the
largest common symbol rest on it.

### Only model-checked

* Liveness, and the liveness half of `ImplementsAddrWait`: the prover has no rules for
  fairness and ENABLED. Of `addr_wait_refinement` the theorem states the safety part.
* `AllocatorSound` and `NullOnlyWhenFull`. The bins are computed with powers of two,
  of which the provers know no laws; the statistics are sums and the flush of a
  cache a fold over whatever the region and the cache hold.
## Seeded faults

Operators introduced by "Seeded fault" are never part of a specification. Each is a
variant of the definition after it with a mistake a maintainer could make (a test
left out, a wake forgotten, a counter not decremented, a lock dropped early).
Putting one in the place of the original must make TLC report the property it is
listed with in `PROJECT.json`; this shows that each property can tell the code
from code that is nearly right.

## Findings

* `addr_wake_one`: `GuestAddrWake` with `wake_all` false signals a condition that all
  waiters of the address share. The waiter that is picked goes round the loop, and if
  the word now holds *its* expected value it blocks again; nobody else is woken. With
  one caller waiting for 0 and another for 1, a store and a single wake can release
  neither, although the word changed under one of them. `src/CXX20_THREADING_PLAN.md`
  line 20 has "Recheck waited values while holding the queue lock to prevent lost
  wakeups"; here the recheck uses the wake up. The mutex, the condition and
  `call_once` are not affected: all of their waiters wait on one value at a time or
  are woken together, and their models allow a woken waiter to block again. The
  contract `AddrWait` is stated so that a wake of one may be spent this way.
* `stop_token`: `__request_stop` sets the flag (`src/libc/include/stop_token:199`)
  before it takes a reference of its own (line 206). A callback constructed in
  between is called by its constructor and may drop the last references; the request
  goes on with a deleted state. The comment at lines 203-205 promises the contrary.
  The run `progress` excludes callbacks that do so (`DropInline = FALSE`).
* `linker`: the loop over undefined symbols ends when a pass has added no symbol
  (`src/Linker/linker.c:1108`). A weak reference that becomes strong in a pass adds
  none, so the archive that defines it is not searched again.
  `src/docs/linker.md:100`: "Undefined symbols are resolved from those archives."

* `exceptions`: landing pads call `_Unwind_Resume` after a cleanup to go on with the
  exception the unwinder was delivering
  (`src/c_compiler/backend/statement_codegen.c:978-980`). `_Unwind_Resume` finds it in a
  global that `__cxa_end_catch` clears (`src/libc/eh_cxa.c:350`): when the destructor
  throws and catches an exception of its own, which C++ allows, the end of that handler
  clears the slot and `_Unwind_Resume` aborts (`unwind_api.c:362`).

A second defect of the stop token has no run of its own: the constructor of a callback
asks whether a stop is possible with two loads, of the flag and of the number of sources
(`src/libc/include/stop_token:142-143`). A request that begins, finds nothing to call, and
drops the last source between the two leaves a callback that is neither registered nor
called, although stop was requested while it was constructed.
`src/CXX20_THREADING_PLAN.md:57` has "Make callback registration, execution, and
destruction race-safe." `NobodyMissed` fails without its excuse for `unheard`.

A second defect of the exceptions has no run of its own either: with `RethrowBelow` TRUE,
`ObjectsLiveWhileUsed` is violated. An exception that an outer handler still handles,
rethrown through an `exception_ptr` inside an inner handler and caught there, is linked
a second time and makes the list of caught exceptions a cycle (`eh_cxa.c:304-312`).

Smaller disagreements between text and code, met while reading:

* `src/docs/linker.md:95-97` has `-lname` look for the shared library first;
  `LinkerAddLibrary` (`linker.c:299-313`) tries the archive first.
* `loader_lifecycle.c:5-6` speaks of reverse finalization after a partial
  initialization; the drivers return without it when an init function fails
  (`x86_64_runtime.c:113`).

## What is not modelled

* In `guest_addr_wait.c`: the hash chains (addresses are told apart exactly), the
  arithmetic of `WaitDeadline` (a deadline passes or not), the word's width.
* In `threads.c`: the thread-exit job list, the pthread and `sem_*` wrappers, the
  clock functions, the Darwin build, `__davecc_atomic64`, `mtx_destroy`,
  `cnd_destroy`, `tss_get` of other threads' data (there is none).
* In `x86_64_process.c`: guest memory ranges, so not the copying of a join's result
  to guest memory; sleeping; lookup of guest functions; library initializers; the
  main thread's `exit()`, which ends the host process.
* In `malloc.c`: `calloc` beyond its `malloc`, the peak statistics, the checker and
  the printer, the small allocator of the 6502 build.
* In the exception runtime: the parsing of frame and handler tables, matching of types
  (a handler catches everything), the copies for ARM and for targets without unwind
  tables, exceptions that nobody catches (the program is terminated).
* In `exit.c` and `cxx_tls.c`: `quick_exit`, failing allocation in `atexit`, the
  destructors of thread-local objects.
* In `linker.c`: shared libraries, `-whole-archive` (`linker.c:1014-1034`: members are
  linked without being needed, and the archive can still be searched; the models' `IsLink`
  excludes it), local symbols, version scripts, sections that are not loaded, failures of
  reading.
* What clients may do wrong: relocking a plain mutex, waiting on a condition with a
  recursive mutex held twice, joining a native thread twice, and, in GuestProcess,
  calls that block while the heap lock is held. C11 leaves the first three
  undefined.
* The sequential tool chain: compilers, assemblers, instruction interpreters.

Dangers seen in the code that no property covers:

* A generation of a condition comes round after 2^32 notifications between a load
  and its comparison (`threads.c:882`).
* `cnd_wait` on a recursive mutex held twice sleeps with the mutex held
  (`threads.c:924`).
* A key's destructor runs after the registry lock was released; another thread may
  delete the key meanwhile (`threads.c:689`).
* Waits on words of eight bytes are refused (`threads.c:439`), natively all those of a
  semaphore: an acquire spins and a timed one fails at once. The model of the semaphore
  has these refusals (`WaitFails`) and its properties allow them; that a timed acquire
  should use the time it is given is a property this code does not have.
* The finalizer of a thread that failed inside the allocator runs before the heap
  lock is given up (`x86_64_process.c:899`); a join's result pointer is validated
  before the wait and written after it (`:762`).
* The globals of the exception runtime are thread-local on RISC-V only
  (`eh_cxa.c:14-20`): elsewhere two threads that throw share them.
* A synchronize or barrier by a thread inside a read section waits for itself
  (`rcu.cc:103`); without a barrier nothing retired is ever reclaimed.
* `exit` called by a guest worker ends the host process with the other threads
  running (`x86_64_syscalls.c:47`); a fini function that fails stops those after it.

## Plan

Done, in this order: `AddrWait` and `GuestAddrWait` (everything else waits through
them), `Lock` and `Mutex`, `Once`, `Condition` on `Lock`, `Tss`, `LinuxThreads`,
`GuestProcess`; the proofs about the mutex, one-time initialisation and the wait
table; `Heap` and `HeapCache`; `RwLock` and `SharedMutex`, `Rcu` on it; `Semaphore`,
`Latch`, `Barrier`, `StopToken`, `HazardPointer`; `Exit`, `LoaderLifecycle`; `Linker`;
`Exceptions`.

The proofs about the shared mutex, RCU, the guest process, the Linux threads, the
hazard pointers and the condition variable followed; then `Synchronization`,
`Runtime` and `Storage`, and the proofs about the remaining components in them.

Open: the proof of the allocator, and with it the part of `CachesSound` that says
that a cached block has the size of its class. In the models: the thread-exit job list
and the pthread wrappers of `threads.c`, shared libraries in the linker, and the
guest processes of the other interpreters, whose code follows that of x86-64.
