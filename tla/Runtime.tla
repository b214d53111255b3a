------------------------------- MODULE Runtime ------------------------------
(***************************************************************************)
(* Components of a program's run time side by side, without fairness: the  *)
(* initial state chooses the one that runs.  Linux threads, hazard         *)
(* pointers and the loader have variables of their own, of which those     *)
(* with one name are shared; the others have x1 to x10.  A variable that a *)
(* component does not use is 0.                                            *)
(***************************************************************************)
EXTENDS LinuxThreads

CONSTANTS
    Null,
    Readers, Writers, Addresses, MaxUses,           \* of the hazard pointers
    Images, Executable, Missing, Root, Loads,       \* of the loader
    Consumers, Producers, NoThread, MaxPut, Generations,    \* of the condition variable
    Exiting, Handlers, Dso, MaxFrames,              \* of exit
    Names, Entry, Initial, Links,                   \* of the linker
    Exceptions, Pointers, MaxScopes                 \* of the exception runtime

VARIABLES
    component,                                                  \* the one that runs
    source, live, active, protection, retired, pointer,         \* hazard pointers
    input, stack, order, done, successful, phase, cursor, calls,    \* the loader
    x1, x2, x3, x4, x5, x6, x7, x8, x9, x10

H == INSTANCE HazardPointer WITH MaxOps <- MaxUses
ASSUME HazardPointerAssumption == H!HazardPointerConstants

D == INSTANCE LoaderLifecycle WITH Main <- Executable, Inputs <- Loads
ASSUME LoaderAssumption == D!LifecycleConstants

C == INSTANCE Condition WITH
    WaitKinds <- {"forever", "timed"}, Notify <- {"signal", "broadcast"},
    Places <- {"inside", "outside"}, WaitCanFail <- TRUE, PerProducer <- MaxPut,
    holder <- x1, depth <- x2, generation <- x3, items <- x4, pc <- x5, seen <- x6,
    kind <- x7, put <- x8
ASSUME ConditionAssumption == C!ConditionConstants

E == INSTANCE Exit WITH
    Threads <- Exiting, MaxDepth <- MaxFrames, functions <- x1, finiDone <- x2,
    frames <- x3, ended <- x4, registered <- x5, called <- x6, taken <- x7
ASSUME ExitAssumption == E!ExitConstants

L == INSTANCE Linker WITH
    Inputs <- Links, input <- x1, phase <- x2, linked <- x3, table <- x4,
    position <- x5, before <- x6, errors <- x7, live <- x8, worklist <- x9
ASSUME LinkerAssumption == L!LinkerConstants

X == INSTANCE Exceptions WITH
    MaxDepth <- MaxScopes, NestedInCleanup <- FALSE, RethrowBelow <- FALSE,
    headers <- x1, caught <- x2, uncaught <- x3, active <- x4, landing <- x5,
    resume <- x6, raised <- x7, scopes <- x8, pointers <- x9, aborted <- x10
ASSUME ExceptionsAssumption == X!ExceptionsConstants

both == <<pc, ready, ops, freed>>       \* of Linux threads and hazard pointers
threads == <<tid, result, detached, detached_threads, mapped, made, claimed, then, joins, got>>
hazards == <<source, live, active, protection, retired, pointer>>
images == <<input, stack, order, done, successful, phase, cursor, calls>>
xs == <<x1, x2, x3, x4, x5, x6, x7, x8, x9, x10>>
all == <<component, both, threads, hazards, images, xs>>

NoBoth == pc = 0 /\ ready = 0 /\ ops = 0 /\ freed = 0
NoThreads ==
    /\ tid = 0 /\ result = 0 /\ detached = 0 /\ detached_threads = 0 /\ mapped = 0
    /\ made = 0 /\ claimed = 0 /\ then = 0 /\ joins = 0 /\ got = 0
NoHazards ==
    /\ source = 0 /\ live = 0 /\ active = 0
    /\ protection = 0 /\ retired = 0 /\ pointer = 0
NoImages ==
    /\ input = 0 /\ stack = 0 /\ order = 0 /\ done = 0
    /\ successful = 0 /\ phase = 0 /\ cursor = 0 /\ calls = 0
NoXs ==
    /\ x1 = 0 /\ x2 = 0 /\ x3 = 0 /\ x4 = 0 /\ x5 = 0
    /\ x6 = 0 /\ x7 = 0 /\ x8 = 0 /\ x9 = 0 /\ x10 = 0

InitOfXs ==
    \/ component = "exceptions" /\ X!Init
    \/ component = "exit" /\ E!Init /\ x8 = 0 /\ x9 = 0 /\ x10 = 0
    \/ component = "condition" /\ C!Init /\ x9 = 0 /\ x10 = 0
    \/ component = "linker" /\ L!Init /\ x10 = 0

AllInit ==
    \/ /\ component = "linux threads" /\ Init
       /\ NoHazards /\ NoImages /\ NoXs
    \/ /\ component = "hazard pointers" /\ H!Init
       /\ NoThreads /\ NoImages /\ NoXs
    \/ /\ component = "loader" /\ D!Init
       /\ NoBoth /\ NoThreads /\ NoHazards /\ NoXs
    \/ /\ InitOfXs
       /\ NoBoth /\ NoThreads /\ NoHazards /\ NoImages

StepOfXs ==
    \/ component = "exceptions" /\ X!Next
    \/ component = "exit" /\ E!Next /\ UNCHANGED <<x8, x9, x10>>
    \/ component = "condition" /\ C!Next /\ UNCHANGED <<x9, x10>>
    \/ component = "linker" /\ L!Next /\ UNCHANGED x10

AllNext ==
    /\ \/ /\ component = "linux threads" /\ Next
          /\ UNCHANGED <<hazards, images, xs>>
       \/ /\ component = "hazard pointers" /\ H!Next
          /\ UNCHANGED <<threads, images, xs>>
       \/ /\ component = "loader" /\ D!Next
          /\ UNCHANGED <<both, threads, hazards, xs>>
       \/ /\ StepOfXs
          /\ UNCHANGED <<both, threads, hazards, images>>
    /\ UNCHANGED component

AllSpec == AllInit /\ [][AllNext]_all

-----------------------------------------------------------------------------

\* Linux threads: nobody stands on an unmapped stack or uses a record that was
\* given back; what a client gave up is given back once; a joiner gets what its
\* thread ended with (linux/threads.c).
ThreadsSafe == component = "linux threads" => StacksSafe

\* Hazard pointers: what is protected is not reclaimed, what is retired is,
\* once, as soon as nothing is protected (hazard_pointer.cc).
HazardPointersSafe == component = "hazard pointers" => H!HazardPointersSafe

\* Images: what is needed is initialized before and finalized after, once, the
\* executable included, and nothing runs for a graph with a cycle or a hole
\* (loader_lifecycle.c).
LifecycleSafe == component = "loader" => D!LifecycleSafe

\* The condition variable: while an item is there and a consumer sleeps,
\* somebody is on the way (threads.c, cnd_wait).
NoLostNotify == component = "condition" => C!TypeOK /\ C!NoLostNotify

\* Exceptions: an object lives as long as it is used, the current exception is
\* the innermost handler's, and unwinding goes on (eh_cxa.c, unwind_api.c).
ExceptionsSafe == component = "exceptions" => X!ExceptionsSafe

\* Exit handlers: each is on the list, detached in one frame or called; those
\* detached together are called in reverse; exit and __cxa_finalize end only
\* when theirs were called or are in the hands of another (exit.c).
HandlersSafe ==
    /\ [](component = "exit" => E!HandlersConserved /\ E!ReverseOrder)
    /\ [][component = "exit" => E!CallsThemAll /\ E!CallsBeforeUnload]_all

\* The link: the first strong definition wins and a second is reported, members
\* are linked once and for a strong reference, no strong reference is left,
\* and there are no more passes than names (linker.c, linker_symbols.c).
LinkSafe ==
    /\ [](component = "linker" =>
            /\ L!BoundAsLinked /\ L!DuplicatesReported
            /\ L!MembersLinkedOnceWhenNeeded /\ L!NothingStrongLeftToLoad)
    /\ [][component = "linker" => L!BeginsWithMore]_all

\* The sections kept are those reachable from the roots (linker_gc.c).
KeptIsReachable == component = "linker" => L!KeptIsReachable
=============================================================================
