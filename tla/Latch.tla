-------------------------------- MODULE Latch --------------------------------
(***************************************************************************)
(* std::latch of libc/include/latch: arrivals subtract from the count, the *)
(* one that reaches 0 wakes everybody, and a waiter sleeps on whatever     *)
(* count it has read until the count differs when it looks.                *)
(***************************************************************************)
EXTENDS Integers, FiniteSets

CONSTANTS
    Threads,
    Updates     \* [Threads -> Nat]: what each thread counts down by; 0: only waits

\* What is assumed of the constants.
LatchConstants == IsFiniteSet(Threads) /\ Updates \in [Threads -> Nat]

VARIABLES
    count,
    pc,         \* "notify": after the subtraction that reached 0
    loaded,     \* the count a waiter compares with
    arrived     \* threads that have counted down

vars == <<count, pc, loaded, arrived>>

\* What the threads of S bring, one arrival after another.
Units(S) == UNION {{t} \X (1 .. Updates[t]) : t \in S}

Expected == Cardinality(Units(Threads))

Init ==
    /\ count = Expected /\ arrived = {}
    /\ pc = [t \in Threads |-> IF Updates[t] = 0 THEN "load" ELSE "arrive"]
    /\ loaded = [t \in Threads |-> 0]

Goto(t, p) == pc' = [pc EXCEPT ![t] = p]

\* Seeded fault: only a count of 1 makes the last arrival.
LastIsOne(t) == count = 1
Last(t) == count = Updates[t]

CountDown(t) ==
    /\ pc[t] = "arrive"
    /\ count' = count - Updates[t] /\ arrived' = arrived \cup {t}
    /\ Goto(t, IF Last(t) THEN "notify" ELSE "load")
    /\ UNCHANGED loaded

NotifyAll(t) ==
    /\ pc[t] = "notify"
    /\ pc' = [u \in Threads |-> IF u = t THEN "load"
                                ELSE IF pc[u] = "asleep" THEN "woken" ELSE pc[u]]
    /\ UNCHANGED <<count, loaded, arrived>>

\* Seeded fault: any change of the count ends the wait.
LoadOnce(t) ==
    /\ pc[t] = "load"
    /\ loaded' = [loaded EXCEPT ![t] = count]
    /\ Goto(t, IF count = 0 \/ loaded[t] # 0 THEN "out" ELSE "wait")
    /\ UNCHANGED <<count, arrived>>

Load(t) ==
    /\ pc[t] = "load"
    /\ loaded' = [loaded EXCEPT ![t] = count]
    /\ Goto(t, IF count = 0 THEN "out" ELSE "wait")
    /\ UNCHANGED <<count, arrived>>

\* atomic::wait: asleep while the count is the one read.
Wait(t) ==
    /\ pc[t] \in {"wait", "woken"}
    /\ Goto(t, IF count = loaded[t] THEN "asleep" ELSE "load")
    /\ UNCHANGED <<count, loaded, arrived>>

Progress(t) == CountDown(t) \/ NotifyAll(t) \/ Load(t) \/ Wait(t)

Finished == (\A t \in Threads : pc[t] = "out") /\ UNCHANGED vars

Next == (\E t \in Threads : Progress(t)) \/ Finished

Spec == Init /\ [][Next]_vars /\ \A t \in Threads : WF_vars(Progress(t))

-----------------------------------------------------------------------------
\* Properties.

\* wait returns only when every arrival has been counted.
NobodyEarly ==
    \A t \in Threads : pc[t] = "out" => arrived = {u \in Threads : Updates[u] # 0}

\* And it returns to everybody, also to those asleep on a count that was
\* neither the last nor notified.
AllOut == \A t \in Threads : pc[t] = "out"
WaitReturns == <>AllOut
=============================================================================
