-------------------------------- MODULE Mutex --------------------------------
(***************************************************************************)
(* The C11 mutex of libc/threads.c: a state word, an owner token and a     *)
(* recursion count.  mtx_lock alternates mtx_trylock with an address wait  *)
(* on the state word; mtx_unlock stores 0 and wakes one waiter.            *)
(*                                                                         *)
(* state and owner are separate atomics, so an action is one atomic access *)
(* to a word other threads write; the plain accesses to recursion, which   *)
(* only the owner makes, go with the neighbouring one.  Tests of owner     *)
(* against the caller's own token are merged with the load of state before *)
(* them: only the caller ever stores its token.                            *)
(*                                                                         *)
(* The address wait is the one of AddrWait with the state word as the only *)
(* word.  A woken thread returns (the native futex) or compares and blocks *)
(* again (the guest's wait table); the model allows both.                  *)
(***************************************************************************)
EXTENDS Naturals

CONSTANTS
    Threads,        \* threads that share the mutex
    NoThread,       \* owner token 0
    WaitCanFail,    \* address waits may return thrd_error (EINTR, unmapped)
    MaxCalls,       \* bound: lock calls made by each thread
    MaxDepth        \* bound: nesting of one thread's locks

ASSUME MutexConstants ==
    /\ NoThread \notin Threads
    /\ WaitCanFail \in BOOLEAN
    /\ MaxCalls \in Nat
    /\ MaxDepth \in Nat \ {0}

VARIABLES
    recursive,      \* mutex->type & mtx_recursive
    state,          \* mutex->state
    owner,          \* mutex->owner
    recursion,      \* mutex->recursion
    pc,             \* where each thread is in its call
    mode,           \* which call: "try", "lock", "timed"
    held,           \* client's view: locks the thread was granted and not yet returned
    calls           \* lock calls made so far

vars == <<recursive, state, owner, recursion, pc, mode, held, calls>>

Modes == {"try", "lock", "timed"}

\* "client": outside the mutex functions.  "asleep": blocked in the address
\* wait; "woken": picked by a wake.
Points == {"client", "trylock", "cas", "own", "busy", "asleep", "woken",
           "disown", "release", "wake"}

\* Threads between a successful compare-exchange and the store of 0.
Holding(t) == pc[t] \in {"own", "disown", "release"} \/ held[t] > 0

TypeOK ==
    /\ recursive \in BOOLEAN
    /\ state \in {0, 1}
    /\ owner \in Threads \cup {NoThread}
    /\ recursion \in Nat
    /\ pc \in [Threads -> Points]
    /\ mode \in [Threads -> Modes]
    /\ held \in [Threads -> Nat]
    /\ calls \in [Threads -> Nat]

\* mtx_init
Init ==
    /\ recursive \in BOOLEAN
    /\ state = 0 /\ owner = NoThread /\ recursion = 0
    /\ pc = [t \in Threads |-> "client"]
    /\ mode = [t \in Threads |-> "lock"]
    /\ held = [t \in Threads |-> 0]
    /\ calls = [t \in Threads |-> 0]

Goto(t, p) == pc' = [pc EXCEPT ![t] = p]

word == <<recursive, state, owner, recursion>>

\* A client calls mtx_trylock, mtx_lock or mtx_timedlock.  Locking again a
\* plain mutex one holds is excluded: C11 leaves it undefined.
Call(t) ==
    /\ pc[t] = "client" /\ calls[t] < MaxCalls
    /\ held[t] = 0 \/ (recursive /\ held[t] < MaxDepth)
    /\ calls' = [calls EXCEPT ![t] = @ + 1]
    /\ \E m \in Modes : mode' = [mode EXCEPT ![t] = m]
    /\ Goto(t, "trylock")
    /\ UNCHANGED <<word, held>>

-----------------------------------------------------------------------------
\* mtx_trylock, also as the body of the two lock loops.

Granted(t) == held' = [held EXCEPT ![t] = @ + 1]

\* The owner of a recursive mutex is granted it at once.
TrylockRecursive(t) ==
    /\ pc[t] = "trylock"
    /\ recursive /\ state # 0 /\ owner = t
    /\ recursion' = recursion + 1
    /\ Granted(t)
    /\ Goto(t, "client")
    /\ UNCHANGED <<recursive, state, owner, mode, calls>>

TrylockOther(t) ==
    /\ pc[t] = "trylock"
    /\ ~(recursive /\ state # 0 /\ owner = t)
    /\ Goto(t, "cas")
    /\ UNCHANGED <<word, mode, held, calls>>

\* Seeded fault: the exchange does not compare.
ExchangeOnly(t) ==
    /\ pc[t] = "cas"
    /\ state' = 1 /\ Goto(t, "own")
    /\ UNCHANGED <<recursive, owner, recursion, mode, held, calls>>

\* MutexCompareExchange(&state, 0, 1); thrd_busy sends mtx_trylock back to
\* its client and the loops on to their wait.
CompareExchange(t) ==
    /\ pc[t] = "cas"
    /\ IF state = 0
       THEN state' = 1 /\ Goto(t, "own")
       ELSE /\ Goto(t, IF mode[t] = "try" THEN "client" ELSE "busy")
            /\ UNCHANGED state
    /\ UNCHANGED <<recursive, owner, recursion, mode, held, calls>>

TakeOwnership(t) ==
    /\ pc[t] = "own"
    /\ owner' = t /\ recursion' = 1
    /\ Granted(t)
    /\ Goto(t, "client")
    /\ UNCHANGED <<recursive, state, mode, calls>>

-----------------------------------------------------------------------------
\* The loops of mtx_lock and __davecc_mtx_timedlock_for.

\* The deadline has passed: thrd_timedout, after an attempt that failed.
DeadlinePassed(t) ==
    /\ pc[t] = "busy" /\ mode[t] = "timed"
    /\ Goto(t, "client")
    /\ UNCHANGED <<word, mode, held, calls>>

\* __davecc_addr_wait(&state, 1): block if the word still holds 1.
AddrWait(t) ==
    /\ pc[t] = "busy"
    /\ Goto(t, IF state = 1 THEN "asleep" ELSE "trylock")
    /\ UNCHANGED <<word, mode, held, calls>>

\* A timed wait ends; the loop tries once more before it looks at the clock.
WaitTimeout(t) ==
    /\ pc[t] = "asleep" /\ mode[t] = "timed"
    /\ Goto(t, "trylock")
    /\ UNCHANGED <<word, mode, held, calls>>

\* The wait reports an error, and so does the lock call.
WaitFails(t) ==
    /\ WaitCanFail
    /\ pc[t] \in {"busy", "asleep"}
    /\ Goto(t, "client")
    /\ UNCHANGED <<word, mode, held, calls>>

\* Seeded fault: a timed waiter gives up when it is woken, without trying again.
WokenGivesUp(t) ==
    /\ pc[t] = "woken"
    /\ Goto(t, IF mode[t] = "timed" THEN "client" ELSE "trylock")
    /\ UNCHANGED <<word, mode, held, calls>>

\* A woken waiter returns, or finds the word at 1 again and blocks again.
WokenReturns(t) ==
    /\ pc[t] = "woken"
    /\ Goto(t, "trylock")
    /\ UNCHANGED <<word, mode, held, calls>>

WokenBlocksAgain(t) ==
    /\ pc[t] = "woken" /\ state = 1
    /\ Goto(t, "asleep")
    /\ UNCHANGED <<word, mode, held, calls>>

-----------------------------------------------------------------------------
\* mtx_unlock

\* Not locked or not the caller's: thrd_error and nothing changes.
UnlockRefused(t) ==
    /\ pc[t] = "client"
    /\ state = 0 \/ owner # t
    /\ UNCHANGED vars

\* Seeded fault: an inner unlock lets the mutex go at once.
UnlockInnerReleases(t) ==
    /\ pc[t] = "client" /\ state # 0 /\ owner = t
    /\ recursive /\ recursion > 1
    /\ recursion' = 0 /\ state' = 0 /\ owner' = NoThread
    /\ held' = [held EXCEPT ![t] = 0]
    /\ UNCHANGED <<recursive, pc, mode, calls>>

\* Seeded fault: an inner unlock is refused.
UnlockInnerRefused(t) ==
    /\ pc[t] = "client" /\ state # 0 /\ owner = t
    /\ recursive /\ recursion > 1
    /\ UNCHANGED vars

UnlockInner(t) ==
    /\ pc[t] = "client" /\ state # 0 /\ owner = t
    /\ recursive /\ recursion > 1
    /\ recursion' = recursion - 1
    /\ held' = [held EXCEPT ![t] = @ - 1]
    /\ UNCHANGED <<recursive, state, owner, pc, mode, calls>>

\* Seeded fault: mtx_unlock does not look at the owner.
UnlockUnchecked(t) ==
    /\ pc[t] = "client" /\ state # 0
    /\ ~(recursive /\ recursion > 1)
    /\ held' = [held EXCEPT ![t] = @ - 1]
    /\ Goto(t, "disown")
    /\ UNCHANGED <<word, mode, calls>>

\* The client gives the lock up; from here on it is mtx_unlock that holds it.
UnlockBegin(t) ==
    /\ pc[t] = "client" /\ state # 0 /\ owner = t
    /\ ~(recursive /\ recursion > 1)
    /\ held' = [held EXCEPT ![t] = @ - 1]
    /\ Goto(t, "disown")
    /\ UNCHANGED <<word, mode, calls>>

\* Seeded fault: the owner's token stays behind.
ClearRecursionOnly(t) ==
    /\ pc[t] = "disown"
    /\ recursion' = 0
    /\ Goto(t, "release")
    /\ UNCHANGED <<recursive, state, owner, mode, held, calls>>

ClearOwner(t) ==
    /\ pc[t] = "disown"
    /\ recursion' = 0 /\ owner' = NoThread
    /\ Goto(t, "release")
    /\ UNCHANGED <<recursive, state, mode, held, calls>>

ClearState(t) ==
    /\ pc[t] = "release"
    /\ state' = 0
    /\ Goto(t, "wake")
    /\ UNCHANGED <<recursive, owner, recursion, mode, held, calls>>

\* __davecc_addr_wake(&state, 0): one blocked thread, if there is one.
AddrWake(t) ==
    /\ pc[t] = "wake"
    /\ \/ \E u \in Threads :
             /\ pc[u] = "asleep"
             /\ pc' = [pc EXCEPT ![t] = "client", ![u] = "woken"]
       \/ /\ \A u \in Threads : pc[u] # "asleep"
          /\ Goto(t, "client")
    /\ UNCHANGED <<word, mode, held, calls>>

LockStep(t) ==
    \/ TrylockRecursive(t) \/ TrylockOther(t) \/ CompareExchange(t)
    \/ TakeOwnership(t) \/ AddrWait(t) \/ WokenReturns(t)

UnlockStep(t) ==
    \/ UnlockInner(t) \/ UnlockBegin(t)
    \/ ClearOwner(t) \/ ClearState(t) \/ AddrWake(t)

Next ==
    \E t \in Threads :
        \/ Call(t) \/ LockStep(t) \/ UnlockStep(t) \/ UnlockRefused(t)
        \/ DeadlinePassed(t) \/ WaitTimeout(t) \/ WaitFails(t)
        \/ WokenBlocksAgain(t)

\* Every thread is scheduled, and clients give back what they hold.  Nothing
\* makes a client ask for the mutex, a deadline pass or a wait fail.
Fairness ==
    \A t \in Threads : WF_vars(LockStep(t) \/ UnlockStep(t))

Spec == Init /\ [][Next]_vars /\ Fairness
-----------------------------------------------------------------------------
\* At most one thread is between winning the state word and storing 0 to it,
\* and the word says so.
MutualExclusion ==
    /\ \A t, u \in Threads : Holding(t) /\ Holding(u) => t = u
    /\ state = 1 <=> \E t \in Threads : Holding(t)

\* The recursive shortcut of mtx_trylock and the guard of mtx_unlock rest on
\* two words read one after the other: whoever finds its own token there has
\* really been granted the mutex, and recursion counts its grants.
OwnerTokenIsTruthful ==
    \A t \in Threads :
        /\ held[t] > 0 => owner = t /\ recursion = held[t]
        /\ owner = t => state = 1 /\ (held[t] > 0 \/ pc[t] = "disown")

\* A wake-up is never lost.  One waiter is woken per unlock and a woken one
\* may find the word taken, block again, time out or report an error; still,
\* a thread asleep on a free mutex always has somebody on the way who will
\* take the mutex or wake it.
NoLostWakeup ==
    state = 0 /\ (\E t \in Threads : pc[t] = "asleep") =>
        \E u \in Threads : pc[u] \in {"wake", "woken", "trylock", "cas"}

\* A thread inside a lock call gets out of it, once the others' calls are
\* used up: no thread sleeps on a mutex nobody holds.
LockReturns ==
    \A t \in Threads : pc[t] \in {"busy", "asleep", "woken"} ~> pc[t] = "client"

\* The three words with their separate accesses behave as one lock.
HeldBy ==
    IF \E t \in Threads : Holding(t) THEN CHOOSE t \in Threads : Holding(t)
    ELSE NoThread

DepthOf(h) == IF h = NoThread THEN 0 ELSE IF held[h] = 0 THEN 1 ELSE held[h]

AbstractLock == INSTANCE Lock WITH holder <- HeldBy, depth <- DepthOf(HeldBy)

ImplementsLock == AbstractLock!Spec
=============================================================================
