------------------------------ MODULE Semaphore ------------------------------
(***************************************************************************)
(* std::counting_semaphore of libc/include/semaphore: a count changed by   *)
(* atomic operations, threads that wait on its address while it is 0, and  *)
(* a release that wakes one of them or all.  Waits and wakes are those of  *)
(* AddrWait; a waiter that is woken compares again before it returns.  A   *)
(* wait may also fail: every wait on a word of eight bytes does in the     *)
(* native library, and any wait when a signal interrupts it.               *)
(***************************************************************************)
EXTENDS Integers, FiniteSets

CONSTANTS
    Threads,
    Desired,    \* the constructor's argument
    Updates,    \* arguments of release
    MaxCount    \* bound: permits released in all

\* What is assumed of the constants.
SemaphoreConstants ==
    /\ Desired \in Nat /\ MaxCount \in Nat /\ Updates \subseteq Nat \ {0}
    /\ IsFiniteSet(Threads)

VARIABLES
    count,
    pc,         \* "wake1", "wakeAll": between release's addition and its wake;
                \* "refused": a timed call whose wait returned thrd_error
    timed,      \* in try_acquire_until rather than acquire; it and loaded end with the call
    expired,    \* the deadline of a timed call has passed
    loaded,     \* the count try_acquire has read
    taken,      \* permits acquired in all
    released,   \* permits released in all
    verdict     \* what the last timed call returned: "true", "false" or "none"

vars == <<count, pc, timed, expired, loaded, taken, released, verdict>>

Init ==
    /\ count = Desired /\ released = 0
    /\ pc = [t \in Threads |-> "idle"] /\ timed = [t \in Threads |-> FALSE]
    /\ expired = {} /\ loaded = [t \in Threads |-> 0]
    /\ taken = 0 /\ verdict = [t \in Threads |-> "none"]

Goto(t, p) == pc' = [pc EXCEPT ![t] = p]

Acquire(t, until) ==
    /\ pc[t] = "idle" /\ Goto(t, "load")
    /\ timed' = [timed EXCEPT ![t] = until] /\ verdict' = [verdict EXCEPT ![t] = "none"]
    /\ UNCHANGED <<count, expired, loaded, taken, released>>

\* try_acquire.
Load(t) ==
    /\ pc[t] = "load"
    /\ loaded' = [loaded EXCEPT ![t] = count]
    /\ Goto(t, IF count > 0 THEN "cas" ELSE "wait")
    /\ UNCHANGED <<count, timed, expired, taken, released, verdict>>

\* Seeded fault: the count is decremented without a comparison.
SubtractAnyway(t) ==
    /\ pc[t] = "cas" /\ Goto(t, "idle")
    /\ count' = count - 1 /\ taken' = taken + 1
    /\ expired' = expired \ {t}
    /\ verdict' = [verdict EXCEPT ![t] = IF timed[t] THEN "true" ELSE "none"]
    /\ UNCHANGED <<timed, loaded, released>>

CompareExchange(t) ==
    /\ pc[t] = "cas"
    /\ IF count = loaded[t]
       THEN /\ count' = count - 1 /\ taken' = taken + 1
            /\ expired' = expired \ {t}
            /\ verdict' = [verdict EXCEPT ![t] = IF timed[t] THEN "true" ELSE "none"]
            /\ timed' = [timed EXCEPT ![t] = FALSE] /\ loaded' = [loaded EXCEPT ![t] = 0]
            /\ Goto(t, "idle")
       ELSE /\ loaded' = [loaded EXCEPT ![t] = count]
            /\ Goto(t, IF count > 0 THEN "cas" ELSE "wait")
            /\ UNCHANGED <<count, taken, expired, verdict, timed>>
    /\ UNCHANGED released

\* Out of time, or asleep unless the count has changed from 0.
Wait(t) ==
    /\ pc[t] = "wait"
    /\ IF t \in expired
       THEN /\ Goto(t, "idle") /\ expired' = expired \ {t}
            /\ verdict' = [verdict EXCEPT ![t] = "false"]
            /\ timed' = [timed EXCEPT ![t] = FALSE]
       ELSE /\ Goto(t, IF count = 0 THEN "asleep" ELSE "load")
            /\ UNCHANGED <<timed, expired, verdict>>
    /\ UNCHANGED <<count, loaded, taken, released>>

\* thrd_error, for who has not been picked by a wake: acquire looks once more,
\* a timed call returns false.
WaitFails(t) ==
    /\ pc[t] \in {"wait", "asleep"} /\ t \notin expired
    /\ Goto(t, IF timed[t] THEN "refused" ELSE "load")
    /\ UNCHANGED <<count, timed, expired, loaded, taken, released, verdict>>

ReturnRefused(t) ==
    /\ pc[t] = "refused" /\ Goto(t, "idle")
    /\ verdict' = [verdict EXCEPT ![t] = "false"]
    /\ timed' = [timed EXCEPT ![t] = FALSE]
    /\ UNCHANGED <<count, expired, loaded, taken, released>>

\* Seeded fault: what a wait reports as a timeout is taken at its word.
TimeoutIsFinal(t) ==
    /\ timed[t] /\ t \notin expired /\ pc[t] \in {"load", "cas", "wait", "asleep", "woken"}
    /\ Goto(t, "idle") /\ verdict' = [verdict EXCEPT ![t] = "false"]
    /\ UNCHANGED <<count, timed, expired, loaded, taken, released>>

\* The deadline passes; a sleeping thread returns and looks once more.
Timeout(t) ==
    /\ timed[t] /\ t \notin expired /\ pc[t] \in {"load", "cas", "wait", "asleep", "woken"}
    /\ expired' = expired \cup {t}
    /\ Goto(t, IF pc[t] = "asleep" THEN "load" ELSE pc[t])
    /\ UNCHANGED <<count, timed, loaded, taken, released, verdict>>

Woken(t) ==
    /\ pc[t] = "woken"
    /\ Goto(t, IF count = 0 THEN "asleep" ELSE "load")
    /\ UNCHANGED <<count, timed, expired, loaded, taken, released, verdict>>

\* Seeded fault: one thread is woken however many permits came.
WakePointOne(update) == "wake1"
WakePoint(update) == IF update = 1 THEN "wake1" ELSE "wakeAll"

Release(t, update) ==
    /\ pc[t] = "idle" /\ released + update <= MaxCount
    /\ count' = count + update /\ released' = released + update
    /\ Goto(t, WakePoint(update))
    /\ verdict' = [verdict EXCEPT ![t] = "none"]
    /\ UNCHANGED <<timed, expired, loaded, taken>>

Notify(t) ==
    /\ pc[t] \in {"wake1", "wakeAll"}
    /\ LET sleepers == {u \in Threads : pc[u] = "asleep"}
       IN  \E S \in SUBSET sleepers :
             /\ IF pc[t] = "wakeAll" \/ sleepers = {} THEN S = sleepers ELSE Cardinality(S) = 1
             /\ pc' = [u \in Threads |-> IF u = t THEN "idle"
                                         ELSE IF u \in S THEN "woken" ELSE pc[u]]
    /\ UNCHANGED <<count, timed, expired, loaded, taken, released, verdict>>

Progress(t) ==
    Load(t) \/ CompareExchange(t) \/ Wait(t) \/ ReturnRefused(t) \/ Woken(t) \/ Notify(t)

Next ==
    \E t \in Threads :
        \/ Acquire(t, TRUE) \/ Acquire(t, FALSE)
        \/ Progress(t) \/ Timeout(t) \/ WaitFails(t)
        \/ \E n \in Updates : Release(t, n)

\* A thread in a call goes on; no thread must call anything.
Spec == Init /\ [][Next]_vars /\ \A t \in Threads : WF_vars(Progress(t))

-----------------------------------------------------------------------------
\* Properties.

\* No permit is given twice or lost: the compare-exchange against racing
\* releases and acquires keeps the count equal to what came less what went.
PermitsConserved == count = Desired + released - taken /\ count >= 0

\* Nobody sleeps while there is a permit unless another thread is on its way
\* to take or wake (release's choice of notify_one, threads that time out
\* between being woken and looking, threads that barge in).
SleeperHasNoPermit ==
    (count > 0 /\ \E t \in Threads : pc[t] = "asleep") =>
        \E u \in Threads : pc[u] \notin {"idle", "asleep"}

\* A timed call fails only when its time is up or its wait has failed, and then
\* the last count it read had no permit (try_acquire_until).
FailsLate ==
    \A t \in Threads : verdict[t] = "none" /\ verdict'[t] = "false" =>
        (t \in expired \/ pc[t] = "refused") /\ loaded[t] = 0
FailsOnlyLate == [][FailsLate]_vars

\* With permits enough for all who wait, everyone who waits gets out.
Asleep(t) == pc[t] = "asleep"
EnoughForAll == count >= Cardinality({t \in Threads : pc[t] # "idle"})
AcquireReturns == \A t \in Threads : (Asleep(t) /\ EnoughForAll) ~> ~Asleep(t)

\* What a semaphore promises but for progress.
SemaphoreSafe == [](PermitsConserved /\ SleeperHasNoPermit) /\ FailsOnlyLate
=============================================================================
