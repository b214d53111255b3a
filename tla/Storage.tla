------------------------------- MODULE Storage ------------------------------
(***************************************************************************)
(* Who owns what: the allocator alone; threads with caches over a static   *)
(* region; the values of keys; the records of guest threads.  The initial  *)
(* state chooses the one that runs.  The values of keys have variables of  *)
(* their own, the records x1 to x16.  A variable that a component does not *)
(* use stays as it is.                                                     *)
(***************************************************************************)
EXTENDS HeapCache

CONSTANTS
    Alone, Shared,          \* the builds of the allocator alone, and of that with caches
    Clients, KeysMax, DtorIterations, Generations, MaxCreates, MaxSets, \* of the keys
    MaxTid, MaxCalls        \* of the guest threads: the last id, and calls of each

VARIABLES
    component,  \* the one that runs
    tss_keys, tss_values, tss_generations, place, loop, creates, sets, origin, birth, destroyed,
    x1, x2, x3, x4, x5, x6, x7, x8, x9, x10, x11, x12, x13, x14, x15, x16

T == INSTANCE Tss WITH Threads <- Clients, pc <- place
ASSUME TssAssumption == T!TssConstants

G == INSTANCE GuestProcess WITH
    MaxOps <- MaxCalls, Calls <- {"create", "join", "detach", "wait", "wake"},
    JoinOlder <- TRUE,
    thread <- x1, threads <- x2, allocated <- x3, process <- x4, pc <- x5,
    then <- x6, tid <- x7, target <- x8, phase <- x9, result <- x10,
    heap <- x11, depth <- x12, ops <- x13, left <- x14, finis <- x15,
    got <- x16
ASSUME GuestRecordsAssumption == MaxTid \in Nat \ {0} /\ MaxCalls \in [1 .. MaxTid -> Nat]

keys ==
    <<tss_keys, tss_values, tss_generations, place, loop,
      creates, sets, origin, birth, destroyed>>
xs == <<x1, x2, x3, x4, x5, x6, x7, x8, x9, x10, x11, x12, x13, x14, x15, x16>>
all == <<component, hcVars, keys, xs>>

NoKeys ==
    /\ tss_keys = 0 /\ tss_values = 0 /\ tss_generations = 0 /\ place = 0 /\ loop = 0
    /\ creates = 0 /\ sets = 0 /\ origin = 0 /\ birth = 0 /\ destroyed = 0
NoXs ==
    /\ x1 = 0 /\ x2 = 0 /\ x3 = 0 /\ x4 = 0 /\ x5 = 0 /\ x6 = 0 /\ x7 = 0 /\ x8 = 0
    /\ x9 = 0 /\ x10 = 0 /\ x11 = 0 /\ x12 = 0 /\ x13 = 0 /\ x14 = 0 /\ x15 = 0 /\ x16 = 0

AllInit ==
    /\ HCInit
    /\ \/ component = "heap" /\ build \in Alone /\ NoKeys /\ NoXs
       \/ component = "caches" /\ build \in Shared /\ NoKeys /\ NoXs
       \/ component = "tss" /\ build \in Shared /\ T!Init /\ NoXs
       \/ component = "guest records" /\ build \in Shared /\ G!Init /\ NoKeys

AllNext ==
    /\ \/ component = "heap" /\ Next /\ UNCHANGED <<held, cache, lock, pc, call, keys, xs>>
       \/ component = "caches" /\ HCNext /\ UNCHANGED <<keys, xs>>
       \/ component = "tss" /\ T!Next /\ UNCHANGED <<hcVars, xs>>
       \/ component = "guest records" /\ G!Next /\ UNCHANGED <<hcVars, keys>>
       \/ component \in {"tss", "guest records"} /\ UNCHANGED <<hcVars, keys, xs>>  \* it may stop
    /\ UNCHANGED component

AllSpec == AllInit /\ [][AllNext]_all

-----------------------------------------------------------------------------
\* The allocator: what clients hold, the tags, the bins and their bitmaps and the
\* statistics agree after any mixture of requests (malloc.c).  The heap lock and
\* the caches: one thread at a time in the allocator, one owner for each block, a
\* waker for each sleeper; NULL only after the caller's cache was emptied, and
\* nothing left in the cache of a thread that ended (guest_heap.c).
AllocatorSound ==
    /\ component \in {"heap", "caches"} => HeapSound
    /\ component = "caches" => CachesSound

\* Thread-specific storage: a value is never seen under a key created since,
\* goes to one destructor once, and none is left unless the passes ran out
\* (threads.c).  The guest's thread records: none is used after it was freed, or
\* freed by two, or lost; joins are counted; and when the destruction has waited,
\* no worker is in guest code or in a call (x86_64_process.c).
OwnersSafe ==
    /\ component = "tss" => T!TssSafe
    /\ component = "guest records" => G!GuestRecordsSafe
=============================================================================
