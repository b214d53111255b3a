-------------------------------- MODULE Once --------------------------------
(***************************************************************************)
(* One-time initialisation in libc/threads.c: __davecc_once_begin elects   *)
(* one caller to run the function, the others wait on the state word until *)
(* __davecc_once_complete stores 2 or, when the function threw (C++        *)
(* std::call_once), __davecc_once_abort stores 0 and the election is open  *)
(* again.  Waits and wakes are those of AddrWait on the one word.          *)
(***************************************************************************)
EXTENDS Naturals, FiniteSets

CONSTANTS
    Callers,        \* callers of call_once
    WaitCanFail,    \* address waits may return thrd_error
    MaxAborts       \* bound: how often the function throws

ASSUME OnceConstants == WaitCanFail \in BOOLEAN /\ MaxAborts \in Nat

VARIABLES
    state,      \* flag->state: 0 open, 1 running, 2 done
    pc,         \* where each caller is
    threw,      \* callers whose run of the function threw
    effect,     \* how often the function ran to its end
    failed      \* callers whose wait reported an error

vars == <<state, pc, threw, effect, failed>>

\* "run": inside the function.  "finish" and "undo": in the wake-up that
\* follows the store of 2 or 0.  "out": returned from call_once.
Points == {"load", "cas", "wait", "asleep", "woken", "run", "finish", "undo", "out"}

TypeOK ==
    /\ state \in 0 .. 2
    /\ pc \in [Callers -> Points]
    /\ threw \in SUBSET Callers
    /\ effect \in Nat
    /\ failed \in SUBSET Callers

Init ==
    /\ state = 0
    /\ pc = [t \in Callers |-> "load"]
    /\ threw = {} /\ effect = 0 /\ failed = {}

Goto(t, p) == pc' = [pc EXCEPT ![t] = p]

-----------------------------------------------------------------------------
\* __davecc_once_begin

\* Seeded faults: a running election counts as done; a done one is not seen.
LoadRunningIsDone(t) ==
    /\ pc[t] = "load"
    /\ Goto(t, IF state = 0 THEN "cas" ELSE "out")
    /\ UNCHANGED <<state, threw, effect, failed>>

LoadMissesDone(t) ==
    /\ pc[t] = "load"
    /\ Goto(t, IF state = 0 THEN "cas" ELSE "wait")
    /\ UNCHANGED <<state, threw, effect, failed>>

Load(t) ==
    /\ pc[t] = "load"
    /\ Goto(t, CASE state = 2 -> "out" [] state = 0 -> "cas" [] state = 1 -> "wait")
    /\ UNCHANGED <<state, threw, effect, failed>>

\* Seeded fault: the exchange does not compare.
ExchangeOnly(t) ==
    /\ pc[t] = "cas"
    /\ state' = 1 /\ Goto(t, "run")
    /\ UNCHANGED <<threw, effect, failed>>

\* Losing the exchange falls through to the wait.
CompareExchange(t) ==
    /\ pc[t] = "cas"
    /\ \/ state = 0 /\ state' = 1 /\ Goto(t, "run")
       \/ state # 0 /\ Goto(t, "wait") /\ UNCHANGED state
    /\ UNCHANGED <<threw, effect, failed>>

AddrWait(t) ==
    /\ pc[t] = "wait"
    /\ Goto(t, IF state = 1 THEN "asleep" ELSE "load")
    /\ UNCHANGED <<state, threw, effect, failed>>

WokenReturns(t) ==
    /\ pc[t] = "woken"
    /\ Goto(t, "load")
    /\ UNCHANGED <<state, threw, effect, failed>>

\* The guest's wait table compares again before it returns.
WokenBlocksAgain(t) ==
    /\ pc[t] = "woken" /\ state = 1
    /\ Goto(t, "asleep")
    /\ UNCHANGED <<state, threw, effect, failed>>

\* thrd_error from the wait: once_begin returns 0, as if the work were done.
WaitFails(t) ==
    /\ WaitCanFail /\ pc[t] \in {"wait", "asleep"}
    /\ Goto(t, "out")
    /\ failed' = failed \cup {t}
    /\ UNCHANGED <<state, threw, effect>>

-----------------------------------------------------------------------------
\* call_once around it.

\* Seeded fault: 2 is added instead of stored.
CompleteAdds(t) ==
    /\ pc[t] = "run"
    /\ effect' = effect + 1
    /\ state' = state + 2
    /\ Goto(t, "finish")
    /\ UNCHANGED <<threw, failed>>

\* The function returns; __davecc_once_complete stores 2.
Complete(t) ==
    /\ pc[t] = "run"
    /\ effect' = effect + 1
    /\ state' = 2
    /\ Goto(t, "finish")
    /\ UNCHANGED <<threw, failed>>

\* Seeded fault: once_abort stores 0 and wakes nobody.
AbortSilently(t) ==
    /\ pc[t] = "run" /\ Cardinality(threw) < MaxAborts
    /\ threw' = threw \cup {t}
    /\ state' = 0
    /\ Goto(t, "out")
    /\ UNCHANGED <<effect, failed>>

\* The function throws; __davecc_once_abort stores 0.
Abort(t) ==
    /\ pc[t] = "run" /\ Cardinality(threw) < MaxAborts
    /\ threw' = threw \cup {t}
    /\ state' = 0
    /\ Goto(t, "undo")
    /\ UNCHANGED <<effect, failed>>

\* __davecc_addr_wake(&state, 1), then return or rethrow to the caller.
WakeAll(t) ==
    /\ pc[t] \in {"finish", "undo"}
    /\ pc' = [u \in Callers |-> IF pc[u] = "asleep" THEN "woken"
                                ELSE IF u = t THEN "out" ELSE pc[u]]
    /\ UNCHANGED <<state, threw, effect, failed>>

Step(t) ==
    \/ Load(t) \/ CompareExchange(t) \/ AddrWait(t) \/ WokenReturns(t)
    \/ Complete(t) \/ WakeAll(t)

Returned == (\A t \in Callers : pc[t] = "out") /\ UNCHANGED vars

Next ==
    \/ \E t \in Callers :
          Step(t) \/ Abort(t) \/ WaitFails(t) \/ WokenBlocksAgain(t)
    \/ Returned

\* Every caller is scheduled and the function ends.
Fairness == \A t \in Callers : WF_vars(Step(t))

Spec == Init /\ [][Next]_vars /\ Fairness
-----------------------------------------------------------------------------
\* The function is never run by two callers at a time and never again after
\* it ran to its end, whatever the order of aborts and late callers.
RunsOnce ==
    /\ \A t, u \in Callers : pc[t] = "run" /\ pc[u] = "run" => t = u
    /\ (\E t \in Callers : pc[t] = "run") => state = 1 /\ effect = 0
    /\ effect <= 1

\* Nobody gets past call_once before the work is done: a caller that left
\* either saw it done, threw itself, or had its wait fail.
OutMeansDone ==
    \A t \in Callers :
        pc[t] = "out" /\ t \notin failed \cup threw => state = 2 /\ effect = 1

\* A caller asleep on a word that is no longer 1 still has the wake_all of
\* whoever changed it ahead, also when an abort re-opened the election and
\* another caller won it in between.
SleepersWillBeWoken ==
    state # 1 /\ (\E t \in Callers : pc[t] = "asleep") =>
        \E u \in Callers : pc[u] \in {"finish", "undo"}

\* Every call_once returns.
EveryoneReturns == <>(\A t \in Callers : pc[t] = "out")

\* What call_once promises, all of it.
CallOnceSafe == TypeOK /\ RunsOnce /\ OutMeansDone /\ SleepersWillBeWoken
=============================================================================
