--------------------------------- MODULE Tss ---------------------------------
(***************************************************************************)
(* Thread-specific storage in libc/threads.c.  A registry of keys, shared  *)
(* under a spin lock, gives every key a generation; each thread keeps a    *)
(* value and the generation it was stored under.  A key deleted and        *)
(* created again has a new generation, so values left behind in other      *)
(* threads must never be seen or destroyed under the new key.              *)
(*                                                                         *)
(* Every registry access is one critical section and one action here.  The *)
(* destructors of an exiting thread run outside it, in up to               *)
(* TSS_DTOR_ITERATIONS passes over the keys, and may use the API.          *)
(*                                                                         *)
(* A stored pointer is the number of the tss_set call that stored it, so   *)
(* that the model can tell every value ever stored apart; 0 is NULL.       *)
(***************************************************************************)
EXTENDS Naturals

CONSTANTS
    Threads,
    KeysMax,            \* DAVECC_TSS_KEYS_MAX
    DtorIterations,     \* TSS_DTOR_ITERATIONS
    Generations,        \* generations are unsigned int: 2^32 in the code
    MaxCreates,         \* bound: tss_create calls that succeed
    MaxSets             \* bound: tss_set calls with a non-null value

\* What is assumed of the constants.
TssConstants ==
    /\ KeysMax \in Nat \ {0} /\ DtorIterations \in Nat \ {0}
    /\ Generations \in Nat /\ MaxCreates \in Nat /\ MaxSets \in Nat
    /\ MaxCreates + 1 < Generations   \* no generation comes round again

Keys == 0 .. KeysMax - 1

VARIABLES
    tss_keys,           \* per key: active, generation, whether it has a destructor
    tss_values,         \* per thread and key
    tss_generations,    \* per thread and key
    pc,                 \* "run", "scan", "call", "out" per thread
    loop,               \* RunTssDestructors' pass, key and called_destructor
    creates, sets,      \* calls so far
    origin,             \* per stored value: the creation of the key it was stored under
    birth,              \* per key: its latest creation
    destroyed           \* values a destructor was called with

vars == <<tss_keys, tss_values, tss_generations, pc, loop, creates, sets,
          origin, birth, destroyed>>

NULL == 0
KeyRec == [active : BOOLEAN, generation : 0 .. Generations - 1, dtor : BOOLEAN]
LoopRec == [pass : 0 .. DtorIterations, key : 0 .. KeysMax, called : BOOLEAN]
NoLoop == [pass |-> 0, key |-> 0, called |-> FALSE]

TypeOK ==
    /\ tss_keys \in [Keys -> KeyRec]
    /\ tss_values \in [Threads -> [Keys -> 0 .. MaxSets]]
    /\ tss_generations \in [Threads -> [Keys -> 0 .. Generations - 1]]
    /\ pc \in [Threads -> {"run", "scan", "call", "out"}]
    /\ loop \in [Threads -> LoopRec]
    /\ creates \in 0 .. MaxCreates /\ sets \in 0 .. MaxSets
    /\ origin \in [0 .. MaxSets -> 0 .. MaxCreates]
    /\ birth \in [Keys -> 0 .. MaxCreates]
    /\ destroyed \in SUBSET (1 .. MaxSets)

\* An empty registry; each thread starts with __davecc_tss_thread_init.
Init ==
    /\ tss_keys = [k \in Keys |-> [active |-> FALSE, generation |-> 0, dtor |-> FALSE]]
    /\ tss_values = [t \in Threads |-> [k \in Keys |-> NULL]]
    /\ tss_generations = [t \in Threads |-> [k \in Keys |-> 0]]
    /\ pc = [t \in Threads |-> "run"]
    /\ loop = [t \in Threads |-> NoLoop]
    /\ creates = 0 /\ sets = 0
    /\ origin = [n \in 0 .. MaxSets |-> 0]
    /\ birth = [k \in Keys |-> 0]
    /\ destroyed = {}

\* A thread that runs user code: its own, or a destructor's.
InUserCode(t) == pc[t] \in {"run", "call"}

\* The test tss_get and RunTssDestructors share.
Valid(t, k) ==
    tss_keys[k].active /\ tss_generations[t][k] = tss_keys[k].generation

\* What tss_get returns.
tss_get(t, k) == IF Valid(t, k) THEN tss_values[t][k] ELSE NULL

-----------------------------------------------------------------------------
\* Seeded fault: a key created again keeps its generation.
SameGeneration(g) == IF g = 0 THEN 1 ELSE g

\* ++generation on an unsigned int, with 0 skipped.
NextGeneration(g) == IF (g + 1) % Generations = 0 THEN 1 ELSE (g + 1) % Generations

\* The first inactive key; with none left the call fails and changes nothing.
tss_create(t) ==
    /\ InUserCode(t) /\ creates < MaxCreates
    /\ \E k \in Keys, d \in BOOLEAN :
          /\ ~tss_keys[k].active /\ \A j \in 0 .. k - 1 : tss_keys[j].active
          /\ tss_keys' = [tss_keys EXCEPT ![k] =
                [active |-> TRUE, generation |-> NextGeneration(@.generation), dtor |-> d]]
          /\ birth' = [birth EXCEPT ![k] = creates + 1]
    /\ creates' = creates + 1
    /\ UNCHANGED <<tss_values, tss_generations, pc, loop, sets, origin,
                   destroyed>>

tss_delete(t) ==
    /\ InUserCode(t)
    /\ \E k \in Keys :
          tss_keys' = [tss_keys EXCEPT ![k].active = FALSE, ![k].dtor = FALSE]
    /\ UNCHANGED <<tss_values, tss_generations, pc, loop, creates, sets,
                   origin, birth, destroyed>>

\* Storing NULL is allowed; only other values are counted.
tss_set(t) ==
    /\ InUserCode(t)
    /\ \E k \in Keys, null \in BOOLEAN :
          /\ tss_keys[k].active
          /\ null \/ sets < MaxSets
          /\ sets' = IF null THEN sets ELSE sets + 1
          /\ tss_values' = [tss_values EXCEPT ![t][k] = IF null THEN NULL ELSE sets + 1]
          /\ tss_generations' = [tss_generations EXCEPT ![t][k] = tss_keys[k].generation]
          /\ origin' = IF null THEN origin ELSE [origin EXCEPT ![sets + 1] = birth[k]]
    /\ UNCHANGED <<tss_keys, pc, loop, creates, birth, destroyed>>

-----------------------------------------------------------------------------
\* RunTssDestructors

\* The thread exits.
ExitThread(t) ==
    /\ pc[t] = "run"
    /\ pc' = [pc EXCEPT ![t] = "scan"]
    /\ loop' = [loop EXCEPT ![t] = NoLoop]
    /\ UNCHANGED <<tss_keys, tss_values, tss_generations, creates, sets,
                   origin, birth, destroyed>>

\* The value is cleared before its destructor is called; seeded fault: kept.
KeepValue(t, k) == UNCHANGED tss_values

ClearValue(t, k) == tss_values' = [tss_values EXCEPT ![t][k] = NULL]

\* called_destructor after one more key; seeded fault: only the last key counts.
CalledLast(t, calls) == calls

Called(t, calls) == loop[t].called \/ calls

\* One key: under the lock read value and destructor and clear the value,
\* whether or not it was valid; then call outside the lock.
ScanKey(t) ==
    LET k == loop[t].key
        value == tss_get(t, k)
        calls == value # NULL /\ tss_keys[k].dtor
    IN /\ pc[t] = "scan" /\ k < KeysMax
       /\ ClearValue(t, k)
       /\ pc' = [pc EXCEPT ![t] = IF calls THEN "call" ELSE "scan"]
       /\ destroyed' = IF calls THEN destroyed \cup {value} ELSE destroyed
       /\ loop' = [loop EXCEPT ![t].key = @ + 1, ![t].called = Called(t, calls)]
       /\ UNCHANGED <<tss_keys, tss_generations, creates, sets, origin, birth>>

\* The destructor returns.
DestructorReturns(t) ==
    /\ pc[t] = "call"
    /\ pc' = [pc EXCEPT ![t] = "scan"]
    /\ UNCHANGED <<tss_keys, tss_values, tss_generations, loop, creates, sets,
                   origin, birth, destroyed>>

\* End of a pass: another one only if it called a destructor and passes remain.
\* Seeded fault: passes go on as long as destructors are called.
WhileCalled(t) == loop[t].called

Again(t) == loop[t].called /\ loop[t].pass + 1 < DtorIterations

EndPass(t) ==
    /\ pc[t] = "scan" /\ loop[t].key = KeysMax
    /\ loop' = [loop EXCEPT ![t].pass = @ + 1,
                            ![t].key = IF Again(t) THEN 0 ELSE @,
                            ![t].called = @ /\ ~Again(t)]
    /\ pc' = [pc EXCEPT ![t] = IF Again(t) THEN "scan" ELSE "out"]
    /\ UNCHANGED <<tss_keys, tss_values, tss_generations, creates, sets,
                   origin, birth, destroyed>>

ExitStep(t) == ScanKey(t) \/ DestructorReturns(t) \/ EndPass(t)

AllOut == (\A t \in Threads : pc[t] = "out") /\ UNCHANGED vars

Next ==
    \/ \E t \in Threads :
          \/ tss_create(t) \/ tss_delete(t) \/ tss_set(t)
          \/ ExitThread(t) \/ ExitStep(t)
    \/ AllOut

Spec == Init /\ [][Next]_vars
-----------------------------------------------------------------------------
\* A value outlives its key in the threads that stored it; a key created
\* again in the same slot never shows it: what tss_get returns was stored
\* since the key's latest creation.
NoStaleValue ==
    \A t \in Threads, k \in Keys :
        tss_get(t, k) # NULL => origin[tss_get(t, k)] = birth[k]

\* Each stored value reaches a destructor at most once, although passes
\* repeat and destructors store again: a value handed out is gone from
\* every thread.
DestroyedIsGone ==
    \A t \in Threads, k \in Keys : tss_values[t][k] \notin destroyed

\* A thread that stops before its passes are used up left nothing behind,
\* also when destructors stored new values, deleted and created keys.
DrainedUnlessLimit ==
    \A t \in Threads :
        pc[t] = "out" /\ ~loop[t].called => \A k \in Keys : tss_values[t][k] = NULL

\* Keys and values at the exit of threads, all of it (tss_get,
\* RunTssDestructors).
TssSafe == TypeOK /\ NoStaleValue /\ DestroyedIsGone /\ DrainedUnlessLimit
=============================================================================
