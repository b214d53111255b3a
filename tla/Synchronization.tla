--------------------------- MODULE Synchronization ---------------------------
(***************************************************************************)
(* What threads wait in, side by side: call_once, the semaphore, the       *)
(* latch, the barrier, stop_token and the condition variable.  The initial *)
(* state chooses the component that runs; a variable that it does not use  *)
(* is 0.                                                                   *)
(***************************************************************************)
EXTENDS Once

CONSTANTS
    Threads,                    \* of the semaphore, the barrier, stop_token; consumers
    Desired, Permits, MaxCount, \* the semaphore's first count and arguments of release
    CountsDown,                 \* [Callers -> Nat]: the latch's updates
    Weight, Rounds,             \* of the barrier
    Callbacks, NoOne, MaxBuilt, \* of stop_token
    PerProducer, Generations    \* of the condition variable

VARIABLES
    component,                                                      \* the one that runs
    count, loaded,                                                  \* semaphore and latch
    timed, expired, taken, released, verdict,                       \* semaphore
    arrived,                                                        \* latch
    expected, remaining, phase, token, looked, round, dropped, completed,     \* barrier
    references, sources, requested, list, alive, registered, execution, frame,
    cb, victim, callees, built, called, unheard,                    \* stop_token
    holder, depth, generation, items, seen, kind, put               \* condition variable

Sem == INSTANCE Semaphore WITH Updates <- Permits
ASSUME SemaphoreAssumption == Sem!SemaphoreConstants

Lat == INSTANCE Latch WITH Threads <- Callers, Updates <- CountsDown
ASSUME LatchAssumption == Lat!LatchConstants

Bar == INSTANCE Barrier
ASSUME BarrierAssumption == Bar!BarrierConstants

Tok == INSTANCE StopToken WITH DropInline <- FALSE
ASSUME StopTokenAssumption == Tok!StopTokenConstants

Cond == INSTANCE Condition WITH
    Consumers <- Threads, Producers <- Callers \ Threads, NoThread <- NoOne,
    WaitKinds <- {"forever"}, Notify <- {"signal"}, Places <- {"inside", "outside"},
    WaitCanFail <- FALSE
ASSUME ConditionAssumption == Cond!ConditionConstants

onces == <<state, threw, effect, failed>>
counts == <<count, loaded>>
permits == <<timed, expired, taken, released, verdict>>
phases == <<expected, remaining, phase, token, looked, round, dropped, completed>>
stops == <<references, sources, requested, list, alive, registered, execution, frame,
           cb, victim, callees, built, called, unheard>>
conditions == <<holder, depth, generation, items, seen, kind, put>>
all == <<component, pc, onces, counts, permits, arrived, phases, stops, conditions>>

NoOnces == state = 0 /\ threw = 0 /\ effect = 0 /\ failed = 0
NoCounts == count = 0 /\ loaded = 0
NoPermits == timed = 0 /\ expired = 0 /\ taken = 0 /\ released = 0 /\ verdict = 0
NoPhases ==
    /\ expected = 0 /\ remaining = 0 /\ phase = 0 /\ token = 0
    /\ looked = 0 /\ round = 0 /\ dropped = 0 /\ completed = 0
NoStops ==
    /\ references = 0 /\ sources = 0 /\ requested = 0 /\ list = 0 /\ alive = 0
    /\ registered = 0 /\ execution = 0 /\ frame = 0 /\ cb = 0 /\ victim = 0
    /\ callees = 0 /\ built = 0 /\ called = 0 /\ unheard = 0
NoConditions ==
    /\ holder = 0 /\ depth = 0 /\ generation = 0 /\ items = 0
    /\ seen = 0 /\ kind = 0 /\ put = 0

AllInit ==
    \/ /\ component = "once" /\ Init
       /\ NoCounts /\ NoPermits /\ arrived = 0 /\ NoPhases /\ NoStops /\ NoConditions
    \/ /\ component = "semaphore" /\ Sem!Init
       /\ NoOnces /\ arrived = 0 /\ NoPhases /\ NoStops /\ NoConditions
    \/ /\ component = "latch" /\ Lat!Init
       /\ NoOnces /\ NoPermits /\ NoPhases /\ NoStops /\ NoConditions
    \/ /\ component = "barrier" /\ Bar!Init
       /\ NoOnces /\ NoCounts /\ NoPermits /\ arrived = 0 /\ NoStops /\ NoConditions
    \/ /\ component = "stop token" /\ Tok!Init
       /\ NoOnces /\ NoCounts /\ NoPermits /\ arrived = 0 /\ NoPhases /\ NoConditions
    \/ /\ component = "condition" /\ Cond!Init
       /\ NoOnces /\ NoCounts /\ NoPermits /\ arrived = 0 /\ NoPhases /\ NoStops

\* What a component leaves alone.
OnceOnly == UNCHANGED <<component, counts, permits, arrived, phases, stops, conditions>>
SemaphoreOnly == UNCHANGED <<component, onces, arrived, phases, stops, conditions>>
LatchOnly == UNCHANGED <<component, onces, permits, phases, stops, conditions>>
BarrierOnly == UNCHANGED <<component, onces, counts, permits, arrived, stops, conditions>>
StopTokenOnly == UNCHANGED <<component, onces, counts, permits, arrived, phases, conditions>>
ConditionOnly == UNCHANGED <<component, onces, counts, permits, arrived, phases, stops>>

AllNext ==
    \/ component = "once" /\ Next /\ OnceOnly
    \/ component = "semaphore" /\ Sem!Next /\ SemaphoreOnly
    \/ component = "latch" /\ Lat!Next /\ LatchOnly
    \/ component = "barrier" /\ Bar!Next /\ BarrierOnly
    \/ component = "stop token" /\ Tok!Next /\ StopTokenOnly
    \/ component = "condition" /\ Cond!Next /\ ConditionOnly

\* Fairness is that of the components: of each thread.
Progress(t) ==
    \/ component = "once" /\ Step(t) /\ OnceOnly
    \/ component = "semaphore" /\ t \in Threads /\ Sem!Progress(t) /\ SemaphoreOnly
    \/ component = "latch" /\ Lat!Progress(t) /\ LatchOnly
    \/ component = "barrier" /\ t \in Threads /\ Bar!Progress(t) /\ BarrierOnly
    \/ component = "stop token" /\ t \in Threads /\ Tok!Progress(t) /\ StopTokenOnly
    \/ /\ component = "condition" /\ ConditionOnly
       /\ IF t \in Threads THEN Cond!ConsumerStep(t) ELSE Cond!ProducerStep(t)

AllSpec == AllInit /\ [][AllNext]_all /\ \A t \in Callers : WF_all(Progress(t))

-----------------------------------------------------------------------------

\* call_once: the function runs to its end once, one caller at a time, nobody gets
\* past before, and a wake is ahead of every sleeper (threads.c).
OnceSafe == component = "once" => CallOnceSafe

\* Semaphore: the count is what came less what went, nobody sleeps while there
\* is a permit and nobody on the way to take or wake, and a timed acquire fails
\* only when its time is up or its wait failed, having seen no permit
\* (include/semaphore).
SemaphoreSafe ==
    /\ [](component = "semaphore" => Sem!PermitsConserved /\ Sem!SleeperHasNoPermit)
    /\ [][component = "semaphore" => Sem!FailsLate]_all

\* Barrier and latch: the completion of a phase runs once, after every arrival
\* and before any departure; what is to come is what those who have not arrived
\* bring; latch::wait returns when every arrival was counted (include/barrier,
\* include/latch).
PhasesAreWhole ==
    /\ component = "barrier" => Bar!BarrierSafe
    /\ component = "latch" => Lat!NobodyEarly

\* stop_token: the stop state outlives its users, a callback its calls and the
\* frame of a call those who wait in it, and after request_stop every callback
\* was called whose constructor found it or a source (include/stop_token).
StopTokenSafe == component = "stop token" => Tok!StopTokenSafe
=============================================================================
