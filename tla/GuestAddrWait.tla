--------------------------- MODULE GuestAddrWait ---------------------------
(***************************************************************************)
(* The host side of the guest's address-wait system calls                  *)
(* (c_compiler/Loader/guest_addr_wait.c): a table of wait buckets, one per *)
(* guest address that was ever waited on.  Every guest thread is a host    *)
(* thread, so the calls interleave.  A guest store takes none of these     *)
(* locks; the guest always stores first and then calls GuestAddrWake.      *)
(*                                                                         *)
(* Each action is one stretch of a call between two points where another   *)
(* thread can be noticed: taking a lock, reading the guest word, reading   *)
(* shutting_down, blocking on the condition.                               *)
(***************************************************************************)
EXTENDS Naturals, FiniteSets

CONSTANTS
    Threads,        \* host threads that run guest code
    Main,           \* the host thread that tears the process down
    Addrs,          \* guest addresses
    Values,         \* what a guest word can hold
    Unreadable,     \* value of a word the read callback refuses to read
    WaitModes,      \* timeouts the guest passes: subset of {"poll", "timed", "forever"}
    WakeModes,      \* wake_all arguments the guest passes: subset of BOOLEAN
    MaxCalls        \* bound: calls made by each thread

Table == "table->mutex"
Free == "free"

ASSUME AddrWaitConstants ==
    /\ IsFiniteSet(Threads) /\ Main \notin Threads
    /\ Free \notin Threads \cup {Main} /\ Table \notin Addrs
    /\ Unreadable \notin Values
    /\ WaitModes \subseteq {"poll", "timed", "forever"}
    /\ WakeModes \subseteq BOOLEAN
    /\ MaxCalls \in Nat

VARIABLES
    value,          \* the guest words
    table,          \* table->initialized and table->shutting_down
    buckets,        \* addresses that have a bucket in the table
    waiter_count,   \* bucket->waiter_count
    lock,           \* holder of table->mutex (at Table) and of each bucket->mutex
    pc,             \* where each thread is in its call
    call,           \* its arguments
    result,         \* what its last GuestAddrWait returned
    calls,          \* how many calls it has made
    visit           \* buckets the shutdown loop has still to broadcast to

vars == <<value, table, buckets, waiter_count, lock, pc, call, result, calls,
          visit>>

NoCall == [addr |-> "none"]

Wait(a, e, m) == [addr |-> a, expected |-> e, mode |-> m]
Wake(a, all) == [addr |-> a, wake_all |-> all]

kGuestAddrWaitSuccess == "success"
kGuestAddrWaitTimedOut == "timedout"
kGuestAddrWaitError == "error"
Results == {kGuestAddrWaitSuccess, kGuestAddrWaitTimedOut, kGuestAddrWaitError}

\* Program points.  "block" has read shutting_down and goes for the condition;
\* "blocked" is inside pthread_cond_wait, not yet woken; "woken" and "expired"
\* have left it and want bucket->mutex back.
WaitPoints == {"get", "enter", "loop", "check", "block", "blocked", "woken", "expired"}
WakePoints == {"find", "signal"}

\* Threads between waiter_count++ and waiter_count--.
Counted == {"loop", "check", "block", "blocked", "woken", "expired"}

BlockedOn(a) == {t \in Threads : pc[t] = "blocked" /\ call[t].addr = a}

TypeOK ==
    /\ value \in [Addrs -> Values \cup {Unreadable}]
    /\ table \in [initialized : BOOLEAN, shutting_down : BOOLEAN]
    /\ buckets \in SUBSET Addrs
    /\ waiter_count \in [Addrs -> 0 .. Cardinality(Threads)]
    /\ lock \in [Addrs \cup {Table} -> Threads \cup {Main, Free}]
    /\ pc \in [Threads -> {"idle"} \cup WaitPoints \cup WakePoints]
    /\ call \in [Threads -> {NoCall}
                   \cup {Wait(a, e, m) : a \in Addrs, e \in Values, m \in WaitModes}
                   \cup {Wake(a, all) : a \in Addrs, all \in WakeModes}]
    /\ result \in [Threads -> Results \cup {"none"}]
    /\ calls \in [Threads -> 0 .. MaxCalls]
    /\ visit \in SUBSET Addrs

\* GuestAddrWaitTableInit: an empty table.
Init ==
    /\ value \in [Addrs -> Values]
    /\ table = [initialized |-> TRUE, shutting_down |-> FALSE]
    /\ buckets = {}
    /\ waiter_count = [a \in Addrs |-> 0]
    /\ lock = [l \in Addrs \cup {Table} |-> Free]
    /\ pc = [t \in Threads |-> "idle"]
    /\ call = [t \in Threads |-> NoCall]
    /\ result = [t \in Threads |-> "none"]
    /\ calls = [t \in Threads |-> 0]
    /\ visit = {}

-----------------------------------------------------------------------------
\* Control of one thread.

Goto(t, p) == pc' = [pc EXCEPT ![t] = p]

\* Return from GuestAddrWait.
Return(t, r) ==
    /\ pc' = [pc EXCEPT ![t] = "idle"]
    /\ call' = [call EXCEPT ![t] = NoCall]
    /\ result' = [result EXCEPT ![t] = r]

\* Return from GuestAddrWake.  The guest wrapper only tests for >= 0.
Done(t) ==
    /\ pc' = [pc EXCEPT ![t] = "idle"]
    /\ call' = [call EXCEPT ![t] = NoCall]

\* ReadValueMatches: FALSE stands for a read callback that fails.
ReadValueMatches(t) ==
    LET w == value[call[t].addr]
    IN [ok |-> w # Unreadable, matches |-> w = call[t].expected]

\* The guest makes a call; nothing is touched before the table's mutex.
Begin(t, c, p) ==
    /\ pc[t] = "idle" /\ calls[t] < MaxCalls
    /\ calls' = [calls EXCEPT ![t] = @ + 1]
    /\ call' = [call EXCEPT ![t] = c]
    /\ Goto(t, p)
    /\ UNCHANGED <<table, buckets, waiter_count, lock, visit>>

GuestAddrWait(t) ==
    \E a \in Addrs, e \in Values, m \in WaitModes :
        /\ table.initialized
        /\ Begin(t, Wait(a, e, m), "get")
        /\ result' = [result EXCEPT ![t] = "none"]
        /\ UNCHANGED value

\* What the guest does around a wake: it stores, then calls GuestAddrWake.
\* An unmapped word is the store of Unreadable.
StoreAndWake(t) ==
    \E a \in Addrs, v \in Values \cup {Unreadable}, all \in WakeModes :
        /\ table.initialized
        /\ Begin(t, Wake(a, all), "find")
        /\ value' = [value EXCEPT ![a] = v]
        /\ UNCHANGED result
-----------------------------------------------------------------------------
\* GuestAddrWait.

\* GetBucket(table, address, true): find, or create unless shutting down;
\* creation may also fail (calloc, pthread_*_init).
GetBucketCreate(t) ==
    /\ pc[t] = "get" /\ lock[Table] = Free
    /\ \/ /\ call[t].addr \in buckets \/ ~table.shutting_down
          /\ buckets' = buckets \cup {call[t].addr}
          /\ Goto(t, "enter")
          /\ UNCHANGED <<call, result>>
       \/ /\ call[t].addr \notin buckets
          /\ Return(t, kGuestAddrWaitError)
          /\ UNCHANGED buckets
    /\ UNCHANGED <<value, table, waiter_count, lock, calls, visit>>

\* waiter_count++ and waiter_count--; seeded fault: forgotten.
Uncounted(a) == UNCHANGED waiter_count

CountIn(a) == waiter_count' = [waiter_count EXCEPT ![a] = @ + 1]
CountOut(a) == waiter_count' = [waiter_count EXCEPT ![a] = @ - 1]

\* Lock the bucket, compare once, and return at once unless the word still
\* holds the expected value and the caller is willing to block.
EnterBucket(t) ==
    LET a == call[t].addr
        read == ReadValueMatches(t)
        blocks == read.ok /\ read.matches /\ call[t].mode # "poll"
    IN /\ pc[t] = "enter" /\ lock[a] = Free
       /\ \/ /\ ~read.ok
             /\ Return(t, kGuestAddrWaitError)
          \/ /\ read.ok /\ ~read.matches
             /\ Return(t, kGuestAddrWaitSuccess)
          \/ /\ read.ok /\ read.matches /\ call[t].mode = "poll"
             /\ Return(t, kGuestAddrWaitTimedOut)
          \/ /\ blocks
             /\ Goto(t, "loop")
             /\ UNCHANGED <<call, result>>
       /\ IF blocks
          THEN CountIn(a) /\ lock' = [lock EXCEPT ![a] = t]
          ELSE UNCHANGED <<waiter_count, lock>>
       /\ UNCHANGED <<value, table, buckets, calls, visit>>

\* Leave the loop: waiter_count--, unlock, return.
Leave(t, r) ==
    LET a == call[t].addr
    IN /\ CountOut(a)
       /\ lock' = [lock EXCEPT ![a] = Free]
       /\ Return(t, r)

\* The bucket's mutex is kept from comparing to blocking; seeded fault: it is
\* dropped in between.
DropMutex(a) == lock' = [lock EXCEPT ![a] = Free]

KeepMutex(a) == UNCHANGED lock

\* The loop's own comparison, made again after every wake-up.
Recheck(t) ==
    LET read == ReadValueMatches(t)
    IN /\ pc[t] = "loop"
       /\ \/ ~read.ok /\ Leave(t, kGuestAddrWaitError)
          \/ read.ok /\ ~read.matches /\ Leave(t, kGuestAddrWaitSuccess)
          \/ /\ read.ok /\ read.matches
             /\ Goto(t, "check")
             /\ KeepMutex(call[t].addr)
             /\ UNCHANGED <<waiter_count, call, result>>
       /\ UNCHANGED <<value, table, buckets, calls, visit>>

\* The test before blocking; seeded fault: left out.
Unheeded == FALSE

ShuttingDown == table.shutting_down

\* The atomic load of shutting_down, which no lock orders with its store.
CheckShutdown(t) ==
    /\ pc[t] = "check"
    /\ \/ ShuttingDown /\ Leave(t, kGuestAddrWaitError)
       \/ /\ ~ShuttingDown
          /\ Goto(t, "block")
          /\ UNCHANGED <<waiter_count, lock, call, result>>
    /\ UNCHANGED <<value, table, buckets, calls, visit>>

\* pthread_cond_wait or _timedwait: the caller is on the condition in the step
\* that gives the bucket's mutex back, or the wait is refused with the mutex held.
Block(t) ==
    /\ pc[t] = "block"
    /\ \/ /\ lock' = [lock EXCEPT ![call[t].addr] = Free]
          /\ Goto(t, "blocked")
          /\ UNCHANGED <<waiter_count, call, result>>
       \/ Leave(t, kGuestAddrWaitError)
    /\ UNCHANGED <<value, table, buckets, calls, visit>>

\* timeout_us >= 0; seeded fault: -1 is taken for a timeout.
AnyTimeout(t) == TRUE

HasDeadline(t) == call[t].mode = "timed"

\* pthread_cond_timedwait reaches its deadline.
Timeout(t) ==
    /\ pc[t] = "blocked" /\ HasDeadline(t)
    /\ Goto(t, "expired")
    /\ UNCHANGED <<value, table, buckets, waiter_count, lock, call, result,
                   calls, visit>>

\* pthread_cond_wait may return without a signal.
SpuriousWakeup(t) ==
    /\ pc[t] = "blocked"
    /\ Goto(t, "woken")
    /\ UNCHANGED <<value, table, buckets, waiter_count, lock, call, result,
                   calls, visit>>

\* Seeded fault: a woken waiter reports success without comparing.
RelockTrusting(t) ==
    /\ pc[t] \in {"woken", "expired"} /\ lock[call[t].addr] = Free
    /\ Leave(t, IF pc[t] = "woken" THEN kGuestAddrWaitSuccess ELSE kGuestAddrWaitTimedOut)
    /\ UNCHANGED <<value, table, buckets, calls, visit>>

\* Leaving the condition takes the bucket's mutex again.  An expired waiter
\* returns without comparing; a woken one goes round the loop.
Relock(t) ==
    LET a == call[t].addr
    IN /\ pc[t] \in {"woken", "expired"} /\ lock[a] = Free
       /\ \/ /\ pc[t] = "woken"
             /\ lock' = [lock EXCEPT ![a] = t]
             /\ Goto(t, "loop")
             /\ UNCHANGED <<waiter_count, call, result>>
          \/ pc[t] = "expired" /\ Leave(t, kGuestAddrWaitTimedOut)
       /\ UNCHANGED <<value, table, buckets, calls, visit>>
-----------------------------------------------------------------------------
\* GuestAddrWake.

\* GetBucket(table, address, false): an address nobody waited on has none.
FindBucket(t) ==
    /\ pc[t] = "find" /\ lock[Table] = Free
    /\ \/ /\ call[t].addr \in buckets
          /\ Goto(t, "signal")
          /\ UNCHANGED call
       \/ call[t].addr \notin buckets /\ Done(t)
    /\ UNCHANGED <<value, table, buckets, waiter_count, lock, result, calls,
                   visit>>

\* Seeded fault: wake_all is ignored.
PickedOne(a, all) ==
    IF waiter_count[a] # 0 /\ BlockedOn(a) # {} THEN {{u} : u \in BlockedOn(a)}
    ELSE {{}}

\* The waiters one pthread_cond_signal or _broadcast can pick: any one, or all.
Picked(a, all) ==
    LET blocked == BlockedOn(a)
    IN IF all THEN {blocked}
       ELSE IF waiter_count[a] # 0 /\ blocked # {} THEN {{u} : u \in blocked}
       ELSE {{}}

\* Lock the bucket, signal, unlock.
SignalBucket(t) ==
    LET a == call[t].addr
    IN /\ pc[t] = "signal" /\ lock[a] = Free
       /\ \E W \in Picked(a, call[t].wake_all) :
             pc' = [u \in Threads |-> IF u \in W THEN "woken"
                                      ELSE IF u = t THEN "idle" ELSE pc[u]]
       /\ call' = [call EXCEPT ![t] = NoCall]
       /\ UNCHANGED <<value, table, buckets, waiter_count, lock, result, calls,
                      visit>>
-----------------------------------------------------------------------------
\* GuestAddrWaitTableShutdown and GuestAddrWaitTableDestruct.

ShutdownBegin ==
    /\ table.initialized /\ lock[Table] = Free /\ ~table.shutting_down
    /\ lock' = [lock EXCEPT ![Table] = Main]
    /\ table' = [table EXCEPT !.shutting_down = TRUE]
    /\ visit' = buckets
    /\ UNCHANGED <<value, buckets, waiter_count, pc, call, result, calls>>

\* Whom the broadcast wakes; seeded fault: nobody.
Nobody(a) == {}

WokenByShutdown(a) == BlockedOn(a)

\* Each broadcast is made with the bucket's mutex; seeded fault: without it.
AnyTime(a) == TRUE

MutexTaken(a) == lock[a] = Free

ShutdownBroadcast ==
    /\ lock[Table] = Main
    /\ \E a \in visit :
          /\ MutexTaken(a)
          /\ visit' = visit \ {a}
          /\ pc' = [u \in Threads |-> IF u \in WokenByShutdown(a) THEN "woken" ELSE pc[u]]
    /\ UNCHANGED <<value, table, buckets, waiter_count, lock, call, result, calls>>

ShutdownEnd ==
    /\ lock[Table] = Main /\ visit = {}
    /\ lock' = [lock EXCEPT ![Table] = Free]
    /\ UNCHANGED <<value, table, buckets, waiter_count, pc, call, result, calls,
                   visit>>

\* The table is torn down by a caller that first waited for every worker
\* (X86ProcessDestruct: WaitForRunningWorkers).  The repeated shutdown it
\* starts with finds nobody to wake.
Destruct ==
    /\ table.initialized /\ table.shutting_down /\ lock[Table] = Free
    /\ \A t \in Threads : pc[t] = "idle"
    /\ table' = [table EXCEPT !.initialized = FALSE]
    /\ buckets' = {}
    /\ UNCHANGED <<value, waiter_count, lock, pc, call, result, calls, visit>>

WaitStep(t) ==
    \/ GetBucketCreate(t) \/ EnterBucket(t) \/ Recheck(t)
    \/ CheckShutdown(t) \/ Block(t) \/ Relock(t)

WakeStep(t) == FindBucket(t) \/ SignalBucket(t)

ShutdownStep == ShutdownBroadcast \/ ShutdownEnd

\* Nothing is left to do: every call budget is spent or the table is gone.
Terminated ==
    /\ ~table.initialized
    /\ UNCHANGED vars

Next ==
    \/ \E t \in Threads :
          \/ GuestAddrWait(t) \/ StoreAndWake(t)
          \/ WaitStep(t) \/ WakeStep(t)
          \/ Timeout(t) \/ SpuriousWakeup(t)
    \/ ShutdownBegin \/ ShutdownStep \/ Destruct \/ Terminated

\* A call that can take a step takes it: the host scheduler runs every
\* thread, and a host mutex that is free again and again is obtained (the
\* holders here never block while holding one, except in the condition,
\* which gives it back).  Nothing makes the guest call, time out, or wake up
\* spuriously; shutdown, once begun, is carried through.
Fairness ==
    /\ \A t \in Threads : SF_vars(WaitStep(t) \/ WakeStep(t))
    /\ SF_vars(ShutdownStep)

Spec == Init /\ [][Next]_vars /\ Fairness
-----------------------------------------------------------------------------
\* bucket->waiter_count is exactly the number of callers between its
\* increment and its decrement, on every path out of the loop: GuestAddrWake
\* skips pthread_cond_signal when it reads 0, so a count that is too low
\* loses wake-ups.
WaiterCountExact ==
    \A a \in Addrs :
        waiter_count[a] =
            Cardinality({t \in Threads : pc[t] \in Counted /\ call[t].addr = a})

\* A caller blocked on a word that no longer holds its expected value:
\* the waiters a wake is meant for.
Eligible(a) ==
    {t \in BlockedOn(a) : value[a] # call[t].expected}

\* The race between comparing and blocking: guest stores take no lock, so a
\* word may change after GuestAddrWait compared it.  Whoever is blocked on a
\* changed word still has the storing thread's wake ahead of it.  It holds
\* where every wake is wake_all; one wake for many waiters leaves the others.
ChangeIsFollowedByWake ==
    \A a \in Addrs :
        Eligible(a) # {} =>
            \E w \in Threads : pc[w] \in WakePoints /\ call[w].addr = a

\* Shutdown against a caller that read shutting_down as clear and is about to
\* block: whenever it blocks after the flag was set, the broadcast loop has yet
\* to reach its bucket, so none is left behind when the loop ends.
ShutdownReachesEveryWaiter ==
    table.shutting_down =>
        \A t \in Threads : pc[t] = "blocked" => call[t].addr \in visit

\* A caller returns success only on a word that was seen not to hold the
\* expected value, also after spurious or stale wake-ups; a caller that
\* passed -1 never reports a timeout.
ResultsJustified ==
    [][\A t \in Threads :
          /\ pc[t] \in WaitPoints /\ pc'[t] = "idle" /\ result'[t] = kGuestAddrWaitSuccess
                => value[call[t].addr] # call[t].expected
          /\ pc[t] \in WaitPoints /\ pc'[t] = "idle" /\ result'[t] = kGuestAddrWaitTimedOut
                => call[t].mode # "forever"]_vars

\* With wake_all, a caller blocked on a changed word returns, unless the word
\* takes its expected value again first.
Passed(t) == \E a \in Addrs : t \in Eligible(a)
Out(t) == pc[t] \in WaitPoints => value[call[t].addr] = call[t].expected
ChangedWordReturns == \A t \in Threads : Passed(t) ~> Out(t)

\* "Recheck waited values while holding the queue lock to prevent lost
\* wakeups": when a word changed under blocked callers and the storing thread
\* wakes one, some caller gets out.
WakeUnblocksOne ==
    \A a \in Addrs :
        Eligible(a) # {} ~>
            (Eligible(a) = {} \/ \E t \in Threads : result[t] \in Results)

\* After shutdown every call in progress returns.
Closing == table.shutting_down
AllOut == \A t \in Threads : pc[t] \notin WaitPoints
ShutdownReleasesAll == Closing ~> AllOut

\* The calls behave as the abstract wait and wake: comparing and blocking are
\* one step although the word is read outside any lock its writers take, and
\* the bucket of an address that has none never had a waiter.
StateOf(p) ==
    CASE p = "idle" -> "idle"
      [] p = "get" -> "calling"
      [] p \in {"enter", "loop", "woken"} -> "comparing"
      [] p \in {"check", "block", "blocked"} -> "blocked"
      [] p = "expired" -> "expired"
      [] p \in WakePoints -> "waking"

States == [t \in Threads |-> StateOf(pc[t])]

Abstract == INSTANCE AddrWait WITH
    st <- States,
    closed <- table.shutting_down

ImplementsAddrWait == Abstract!Spec
=============================================================================
