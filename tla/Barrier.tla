------------------------------- MODULE Barrier -------------------------------
(***************************************************************************)
(* std::barrier of libc/include/barrier: arrivals are counted under a      *)
(* mutex, the last one runs the completion under it, starts the next phase *)
(* and only then unlocks and wakes the sleepers, who look at the phase     *)
(* without the mutex.  Each thread passes Rounds phases at most and then   *)
(* leaves with arrive_and_drop, as a worker does that runs out of work.    *)
(***************************************************************************)
EXTENDS Integers, FiniteSets

CONSTANTS
    Threads,
    Weight,     \* [Threads -> 1..n]: the update a thread arrives with
    Rounds      \* bound: phases a thread takes part in

\* What is assumed of the constants.
BarrierConstants ==
    /\ Rounds \in Nat \ {0} /\ Weight \in [Threads -> Nat \ {0}]
    /\ IsFiniteSet(Threads)

VARIABLES
    expected, remaining, phase,
    pc,         \* "complete", "advance", "unlock", "notify": in __finish_phase
    token,      \* the phase each thread has arrived in
    looked,     \* the phase wait has read
    round,      \* phases each thread has arrived in
    dropped,    \* threads that have left
    completed   \* calls of the completion function

vars == <<expected, remaining, phase, pc, token, looked, round, dropped, completed>>

\* What the threads of S bring, one arrival after another.
Units(S) == UNION {{t} \X (1 .. Weight[t]) : t \in S}

Total == Cardinality(Units(Threads))

Init ==
    /\ expected = Total /\ remaining = Total /\ phase = 0 /\ completed = 0
    /\ pc = [t \in Threads |-> "idle"] /\ token = [t \in Threads |-> -1]
    /\ looked = [t \in Threads |-> 0] /\ round = [t \in Threads |-> 0] /\ dropped = {}

Goto(t, p) == pc' = [pc EXCEPT ![t] = p]

MutexFree == \A t \in Threads : pc[t] \notin {"complete", "advance", "unlock"}

\* arrive; the caller waits with the token it returns.
Arrive(t) ==
    /\ pc[t] = "idle" /\ t \notin dropped /\ MutexFree /\ round[t] < Rounds
    /\ token' = [token EXCEPT ![t] = phase]
    /\ round' = [round EXCEPT ![t] = @ + 1]
    /\ remaining' = remaining - Weight[t]
    /\ Goto(t, IF remaining' = 0 THEN "complete" ELSE "look")
    /\ UNCHANGED <<expected, phase, looked, dropped, completed>>

\* Seeded fault: the phases to come still expect the thread that left.
DropOnce(t) ==
    /\ pc[t] = "idle" /\ t \notin dropped /\ MutexFree /\ Weight[t] = 1
    /\ remaining' = remaining - 1
    /\ dropped' = dropped \cup {t}
    /\ Goto(t, IF remaining' = 0 THEN "complete" ELSE "idle")
    /\ UNCHANGED <<expected, phase, token, looked, round, completed>>

ArriveAndDrop(t) ==
    /\ pc[t] = "idle" /\ t \notin dropped /\ MutexFree /\ Weight[t] = 1
    /\ expected' = expected - 1 /\ remaining' = remaining - 1
    /\ dropped' = dropped \cup {t}
    /\ Goto(t, IF remaining' = 0 THEN "complete" ELSE "idle")
    /\ UNCHANGED <<phase, token, looked, round, completed>>

\* Seeded fault: the phase advances before the completion has run.
CompleteLate(t) ==
    /\ pc[t] = "complete" /\ phase' = phase + 1 /\ Goto(t, "advance")
    /\ UNCHANGED <<expected, remaining, token, looked, round, dropped, completed>>

Complete(t) ==
    /\ pc[t] = "complete" /\ completed' = completed + 1 /\ Goto(t, "advance")
    /\ UNCHANGED <<expected, remaining, phase, token, looked, round, dropped>>

\* Seeded fault: the count starts again from the constructor's argument.
AdvanceForgetsCount(t) ==
    /\ pc[t] = "advance" /\ phase' = phase + 1 /\ Goto(t, "unlock")
    /\ remaining' = Total
    /\ UNCHANGED <<expected, token, looked, round, dropped, completed>>

Advance(t) ==
    /\ pc[t] = "advance"
    /\ remaining' = expected /\ phase' = phase + 1
    /\ Goto(t, "unlock")
    /\ UNCHANGED <<expected, token, looked, round, dropped, completed>>

Unlock(t) ==
    /\ pc[t] = "unlock" /\ Goto(t, "notify")
    /\ UNCHANGED <<expected, remaining, phase, token, looked, round, dropped, completed>>

NotifyAll(t) ==
    /\ pc[t] = "notify"
    /\ pc' = [u \in Threads |-> IF u = t THEN IF t \in dropped THEN "idle" ELSE "look"
                                ELSE IF pc[u] = "asleep" THEN "woken" ELSE pc[u]]
    /\ UNCHANGED <<expected, remaining, phase, token, looked, round, dropped, completed>>

\* wait's loads of the phase.
Look(t) ==
    /\ pc[t] = "look"
    /\ looked' = [looked EXCEPT ![t] = phase]
    /\ Goto(t, IF phase = token[t] THEN "wait" ELSE "idle")
    /\ UNCHANGED <<expected, remaining, phase, token, round, dropped, completed>>

\* atomic::wait: asleep while the phase is the one read.
Wait(t) ==
    /\ pc[t] \in {"wait", "woken"}
    /\ Goto(t, IF phase = looked[t] THEN "asleep" ELSE "look")
    /\ UNCHANGED <<expected, remaining, phase, token, looked, round, dropped, completed>>

\* A thread that has done its rounds drops out; one of weight above 1 stops.
Progress(t) ==
    \/ Arrive(t) \/ Complete(t) \/ Advance(t) \/ Unlock(t) \/ NotifyAll(t)
    \/ Look(t) \/ Wait(t) \/ ArriveAndDrop(t)

Out(t) == pc[t] = "idle" /\ (t \in dropped \/ (Weight[t] > 1 /\ round[t] = Rounds))

Finished == (\A t \in Threads : Out(t)) /\ UNCHANGED vars

Next == (\E t \in Threads : Progress(t)) \/ Finished

\* Workers arrive again and again until they have no more rounds.
Spec == Init /\ [][Next]_vars /\ \A t \in Threads : WF_vars(Progress(t))

-----------------------------------------------------------------------------
\* Properties.

\* The completion of a phase runs once, when everybody who has not left has
\* arrived in the phase, and nobody is past wait before it has run.
PhasesAreWhole ==
    /\ \A t \in Threads : pc[t] = "complete" =>
          \A u \in Threads \ dropped : token[u] = phase
    /\ \A t \in Threads : pc[t] = "idle" /\ token[t] >= 0 => completed > token[t]
    /\ completed - phase \in {0, 1}

\* What is still to come in a phase is what those who have not arrived bring.
Late == {t \in Threads \ dropped : token[t] # phase}
RemainingIsOwed == MutexFree => remaining = Cardinality(Units(Late))

\* Nobody stays behind in a phase that is over.
Asleep(t) == pc[t] = "asleep"
EveryoneLeaves == \A t \in Threads : Asleep(t) ~> ~Asleep(t)

\* Phases, all of it.
BarrierSafe == PhasesAreWhole /\ RemainingIsOwed
=============================================================================
