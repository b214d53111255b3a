---------------------------- MODULE StorageProofs ----------------------------
(***************************************************************************)
(* Proofs about the values of keys, for any threads and keys as long as    *)
(* the generations do not come round, and what GuestProcessProofs proves   *)
(* about the records of guest threads, taken to Storage.                   *)
(***************************************************************************)
EXTENDS Storage, FiniteSetTheorems, TLAPS

\* The inductive invariant.

\* Shapes; within a pass, passes remain.
TTyped ==
    /\ T!TypeOK
    /\ \A t \in Clients : place[t] \in {"scan", "call"} => loop[t].pass < DtorIterations

\* No generation is ahead of its key's, nor that of the number of creations.
Generated ==
    \A k \in T!Keys :
        /\ tss_keys[k].generation <= creates
        /\ \A t \in Clients : tss_generations[t][k] <= tss_keys[k].generation

\* A value of the key's present generation was stored since its creation,
\* whether the key is active or not.
Current ==
    \A t \in Clients, k \in T!Keys :
        tss_generations[t][k] = tss_keys[k].generation /\ tss_values[t][k] # T!NULL =>
            origin[tss_values[t][k]] = birth[k]

\* Each value stored is in one place, and in none once it was destroyed.
OnePlaceEach ==
    /\ \A v \in destroyed : v <= sets
    /\ \A t \in Clients, k \in T!Keys :
          /\ tss_values[t][k] <= sets /\ tss_values[t][k] \notin destroyed
          /\ \A u \in Clients, j \in T!Keys :
                tss_values[t][k] = tss_values[u][j] /\ tss_values[t][k] # T!NULL =>
                    t = u /\ k = j

\* As long as a pass has called nobody, what it has gone over is empty.
Cleared ==
    \A t \in Clients :
        /\ place[t] = "call" => loop[t].called
        /\ place[t] = "scan" /\ ~loop[t].called =>
              \A k \in T!Keys : k < loop[t].key => tss_values[t][k] = T!NULL
        /\ place[t] = "out" /\ ~loop[t].called => \A k \in T!Keys : tss_values[t][k] = T!NULL

TInv == TTyped /\ Generated /\ Current /\ OnePlaceEach /\ Cleared

\* As long as the counter does not come round, the next generation is one more.
LEMMA NextGenerationIsMore ==
    ASSUME NEW g \in Nat, Generations \in Nat, g + 1 < Generations
    PROVE  T!NextGeneration(g) = g + 1
<1>1. (g + 1) % Generations = g + 1
  OBVIOUS
<1>2. QED BY <1>1 DEF T!NextGeneration

LEMMA TssInit == ASSUME T!TssConstants, T!Init PROVE TInv
BY DEF T!TssConstants, T!Init, TInv, TTyped, T!TypeOK, T!KeyRec, T!LoopRec, T!NoLoop, Generated,
       Current, OnePlaceEach, Cleared, T!NULL, T!Keys

LEMMA TssCreate ==
    ASSUME T!TssConstants, TInv, NEW t \in Clients, T!tss_create(t)
    PROVE  TInv'
<1>1. PICK k \in T!Keys, d \in BOOLEAN :
        /\ tss_keys' = [tss_keys EXCEPT ![k] =
              [active |-> TRUE, generation |-> T!NextGeneration(@.generation), dtor |-> d]]
        /\ birth' = [birth EXCEPT ![k] = creates + 1]
  BY DEF T!tss_create
<1>2. /\ creates < MaxCreates /\ creates' = creates + 1
      /\ UNCHANGED <<tss_values, tss_generations, place, loop, sets, origin, destroyed>>
  BY DEF T!tss_create
<1>3. tss_keys[k] \in T!KeyRec /\ creates \in Nat /\ tss_keys[k].generation <= creates
  BY DEF TInv, TTyped, T!TypeOK, Generated
<1>4. tss_keys[k].generation \in Nat /\ tss_keys[k].generation + 1 < Generations
  BY <1>2, <1>3 DEF T!KeyRec, T!TssConstants
<1>5. tss_keys' = [tss_keys EXCEPT ![k] =
          [active |-> TRUE, generation |-> tss_keys[k].generation + 1, dtor |-> d]]
  BY <1>1, <1>4, NextGenerationIsMore DEF T!TssConstants
<1>6. TTyped'
  <2>1. [active |-> TRUE, generation |-> tss_keys[k].generation + 1, dtor |-> d] \in T!KeyRec
    BY <1>4 DEF T!KeyRec, T!TssConstants
  <2>2. tss_keys' \in [T!Keys -> T!KeyRec]
    BY <1>5, <2>1 DEF TInv, TTyped, T!TypeOK
  <2>3. creates' \in 0 .. MaxCreates /\ birth' \in [T!Keys -> 0 .. MaxCreates]
    BY <1>1, <1>2 DEF TInv, TTyped, T!TypeOK, T!TssConstants
  <2>4. QED BY <1>2, <2>2, <2>3 DEF TInv, TTyped, T!TypeOK
<1>7. \A j \in T!Keys : tss_keys'[j].generation =
          IF j = k THEN tss_keys[j].generation + 1 ELSE tss_keys[j].generation
  BY <1>5 DEF TInv, TTyped, T!TypeOK
<1>8. \A j \in T!Keys : tss_keys[j].generation \in Nat
  BY DEF TInv, TTyped, T!TypeOK, T!KeyRec
<1>9. \A u \in Clients, j \in T!Keys : tss_generations[u][j] \in Nat
  BY DEF TInv, TTyped, T!TypeOK
<1>10. Generated'
  BY <1>2, <1>3, <1>7, <1>8, <1>9 DEF TInv, Generated
<1>11. Current'
  <2> SUFFICES ASSUME NEW u \in Clients, NEW j \in T!Keys,
                      tss_generations[u][j] = tss_keys'[j].generation, tss_values[u][j] # T!NULL
               PROVE  origin[tss_values[u][j]] = birth'[j]
    BY <1>2 DEF Current
  <2>1. j # k
    BY <1>7, <1>8, <1>9 DEF TInv, Generated
  <2>2. birth'[j] = birth[j] /\ tss_keys'[j].generation = tss_keys[j].generation
    BY <1>1, <1>7, <2>1 DEF TInv, TTyped, T!TypeOK
  <2>3. QED BY <2>2 DEF TInv, Current
<1>12. OnePlaceEach' /\ Cleared'
  BY <1>2 DEF TInv, OnePlaceEach, Cleared
<1>13. QED BY <1>6, <1>10, <1>11, <1>12 DEF TInv

LEMMA TssDelete ==
    ASSUME T!TssConstants, TInv, NEW t \in Clients, T!tss_delete(t)
    PROVE  TInv'
<1>1. PICK k \in T!Keys : tss_keys' = [tss_keys EXCEPT ![k].active = FALSE, ![k].dtor = FALSE]
  BY DEF T!tss_delete
<1>2. UNCHANGED <<tss_values, tss_generations, place, loop, creates, sets, origin, birth,
          destroyed>>
  BY DEF T!tss_delete
<1>3. tss_keys' \in [T!Keys -> T!KeyRec]
  <2> DEFINE new == [tss_keys[k] EXCEPT !.active = FALSE, !.dtor = FALSE]
  <2>1. tss_keys[k] \in T!KeyRec
    BY DEF TInv, TTyped, T!TypeOK
  <2>2. new \in T!KeyRec
    BY <2>1 DEF T!KeyRec
  <2>3. tss_keys' = [tss_keys EXCEPT ![k] = new]
    BY <1>1
  <2>4. QED BY <2>2, <2>3 DEF TInv, TTyped, T!TypeOK
<1>4. \A j \in T!Keys : tss_keys'[j].generation = tss_keys[j].generation
  BY <1>1 DEF TInv, TTyped, T!TypeOK, T!KeyRec
<1>5. TTyped' /\ OnePlaceEach' /\ Cleared'
  BY <1>2, <1>3 DEF TInv, TTyped, T!TypeOK, OnePlaceEach, Cleared
<1>6. Generated' /\ Current'
  BY <1>2, <1>4 DEF TInv, Generated, Current
<1>7. QED BY <1>5, <1>6 DEF TInv

LEMMA TssSet == ASSUME T!TssConstants, TInv, NEW t \in Clients, T!tss_set(t) PROVE TInv'
<1>1. PICK k \in T!Keys, null \in BOOLEAN :
        /\ null \/ sets < MaxSets
        /\ sets' = IF null THEN sets ELSE sets + 1
        /\ tss_values' = [tss_values EXCEPT ![t][k] = IF null THEN T!NULL ELSE sets + 1]
        /\ tss_generations' = [tss_generations EXCEPT ![t][k] = tss_keys[k].generation]
        /\ origin' = IF null THEN origin ELSE [origin EXCEPT ![sets + 1] = birth[k]]
  BY DEF T!tss_set
<1>2. /\ T!InUserCode(t)
      /\ UNCHANGED <<tss_keys, place, loop, creates, birth, destroyed>>
  BY DEF T!tss_set
<1> DEFINE v == IF null THEN 0 ELSE sets + 1
<1>3. /\ sets \in Nat /\ v \in 0 .. MaxSets /\ v <= sets' /\ sets <= sets'
      /\ sets' \in 0 .. MaxSets
      /\ v # 0 => v = sets + 1
  BY <1>1 DEF TInv, TTyped, T!TypeOK, T!TssConstants
<1>4. /\ \A u \in Clients, j \in T!Keys :
            tss_values'[u][j] = IF u = t /\ j = k THEN v ELSE tss_values[u][j]
      /\ \A u \in Clients, j \in T!Keys :
            tss_generations'[u][j] = IF u = t /\ j = k THEN tss_keys[k].generation
                                     ELSE tss_generations[u][j]
  BY <1>1 DEF TInv, TTyped, T!TypeOK, T!NULL
<1>5. TTyped'
  <2>1. tss_values' \in [Clients -> [T!Keys -> 0 .. MaxSets]]
    BY <1>1, <1>3 DEF TInv, TTyped, T!TypeOK, T!NULL
  <2>2. tss_generations' \in [Clients -> [T!Keys -> 0 .. Generations - 1]]
    BY <1>1 DEF TInv, TTyped, T!TypeOK, T!KeyRec
  <2>3. origin' \in [0 .. MaxSets -> 0 .. MaxCreates]
    BY <1>1 DEF TInv, TTyped, T!TypeOK
  <2>4. QED BY <1>2, <1>3, <2>1, <2>2, <2>3 DEF TInv, TTyped, T!TypeOK
<1>6. \A u \in Clients,
          j \in T!Keys : tss_values[u][j] \in 0 .. MaxSets /\ tss_values[u][j] <= sets
  BY DEF TInv, TTyped, T!TypeOK, OnePlaceEach
<1>7. Generated'
  <2>1. \A j \in T!Keys : tss_keys[j].generation \in Nat
    BY DEF TInv, TTyped, T!TypeOK, T!KeyRec
  <2>2. QED BY <1>2, <1>4, <2>1 DEF TInv, Generated
<1>8. Current'
  <2> SUFFICES ASSUME NEW u \in Clients, NEW j \in T!Keys,
                      tss_generations'[u][j] = tss_keys[j].generation,
                          tss_values'[u][j] # T!NULL
               PROVE  origin'[tss_values'[u][j]] = birth[j]
    BY <1>2 DEF Current
  <2>1. CASE u = t /\ j = k
    <3>1. ~null /\ tss_values'[u][j] = sets + 1 /\ sets + 1 \in 0 .. MaxSets
      BY <1>1, <1>3, <1>4, <2>1 DEF T!NULL
    <3>2. QED BY <1>1, <2>1, <3>1 DEF TInv, TTyped, T!TypeOK
  <2>2. CASE ~(u = t /\ j = k)
    <3>1. tss_values'[u][j] = tss_values[u][j] /\ origin[tss_values[u][j]] = birth[j]
      BY <1>4, <2>2 DEF TInv, Current
    <3>2. origin'[tss_values[u][j]] = origin[tss_values[u][j]]
      BY <1>1, <1>3, <1>6 DEF TInv, TTyped, T!TypeOK
    <3>3. QED BY <3>1, <3>2
  <2>3. QED BY <2>1, <2>2
<1>9. OnePlaceEach'
  <2>1. \A w \in destroyed : w \in Nat /\ w <= sets /\ w # 0
    BY DEF TInv, TTyped, T!TypeOK, OnePlaceEach, T!TssConstants
  <2>2. v \notin destroyed
    BY <1>3, <2>1
  <2>3. QED BY <1>2, <1>3, <1>4, <1>6, <2>1, <2>2 DEF TInv, OnePlaceEach, T!NULL
<1>10. Cleared'
  BY <1>2, <1>4 DEF TInv, Cleared, T!InUserCode
<1>11. QED BY <1>5, <1>7, <1>8, <1>9, <1>10 DEF TInv

LEMMA TssExitThread ==
    ASSUME T!TssConstants, TInv, NEW t \in Clients, T!ExitThread(t)
    PROVE  TInv'
<1>1. /\ place' = [place EXCEPT ![t] = "scan"] /\ loop' = [loop EXCEPT ![t] = T!NoLoop]
      /\ UNCHANGED <<tss_keys, tss_values, tss_generations, creates, sets, origin, birth,
             destroyed>>
  BY DEF T!ExitThread
<1>2. TTyped'
  BY <1>1 DEF TInv, TTyped, T!TypeOK, T!NoLoop, T!LoopRec, T!TssConstants
<1>3. Cleared'
  <2> SUFFICES ASSUME NEW u \in Clients
               PROVE  /\ place'[u] = "call" => loop'[u].called
                      /\ place'[u] = "scan" /\ ~loop'[u].called =>
                            \A k \in T!Keys : k < loop'[u].key => tss_values[u][k] = T!NULL
                      /\ place'[u] = "out" /\ ~loop'[u].called =>
                            \A k \in T!Keys : tss_values[u][k] = T!NULL
    BY <1>1 DEF Cleared
  <2>1. CASE u = t
    <3>1. place'[u] = "scan" /\ loop'[u].key = 0
      BY <1>1, <2>1 DEF TInv, TTyped, T!TypeOK, T!NoLoop
    <3>2. QED BY <3>1 DEF T!Keys, T!TssConstants
  <2>2. CASE u # t
    <3>1. place'[u] = place[u] /\ loop'[u] = loop[u]
      BY <1>1, <2>2 DEF TInv, TTyped, T!TypeOK
    <3>2. QED BY <3>1 DEF TInv, Cleared
  <2>3. QED BY <2>1, <2>2
<1>4. QED BY <1>1, <1>2, <1>3 DEF TInv, Generated, Current, OnePlaceEach

LEMMA TssScanKey == ASSUME T!TssConstants, TInv, NEW t \in Clients, T!ScanKey(t) PROVE TInv'
<1> DEFINE k == loop[t].key
           value == T!tss_get(t, k)
           calls == value # T!NULL /\ tss_keys[k].dtor
<1>1. /\ place[t] = "scan" /\ k < KeysMax
      /\ tss_values' = [tss_values EXCEPT ![t][k] = T!NULL]
      /\ place' = [place EXCEPT ![t] = IF calls THEN "call" ELSE "scan"]
      /\ destroyed' = IF calls THEN destroyed \cup {value} ELSE destroyed
      /\ loop' = [loop EXCEPT ![t].key = @ + 1, ![t].called = loop[t].called \/ calls]
      /\ UNCHANGED <<tss_keys, tss_generations, creates, sets, origin, birth>>
  BY DEF T!ScanKey, T!ClearValue, T!Called
<1>2. k \in T!Keys /\ loop[t] \in T!LoopRec
  BY <1>1 DEF TInv, TTyped, T!TypeOK, T!LoopRec, T!Keys, T!TssConstants
<1>3. value # T!NULL => value = tss_values[t][k] /\ value \in 1 .. MaxSets /\ value <= sets
  BY <1>2 DEF T!tss_get, TInv, TTyped, T!TypeOK, OnePlaceEach, T!NULL, T!TssConstants
<1>a. calls \in BOOLEAN /\ (calls => value # T!NULL)
  OBVIOUS
<1>b. k = loop[t].key
  OBVIOUS
<1> HIDE DEF k, value, calls
<1>4. \A u \in Clients, j \in T!Keys :
          tss_values'[u][j] = IF u = t /\ j = k THEN T!NULL ELSE tss_values[u][j]
  BY <1>1, <1>2 DEF TInv, TTyped, T!TypeOK
<1>5. /\ \A u \in Clients : u # t => loop'[u] = loop[u]
      /\ loop'[t] = [loop[t] EXCEPT !.key = @ + 1, !.called = loop[t].called \/ calls]
  BY <1>1 DEF TInv, TTyped, T!TypeOK
<1> DEFINE c == loop[t].called \/ calls
<1>c. c \in BOOLEAN /\ (~c <=> ~loop[t].called /\ ~calls)
  BY <1>a, <1>2 DEF T!LoopRec
<1> HIDE DEF c
<1>6. loop'[t] \in T!LoopRec /\ loop'[t].key = k + 1 /\ loop'[t].pass = loop[t].pass
      /\ loop'[t].called = c
  <2>1. loop'[t] = [loop[t] EXCEPT !.key = @ + 1, !.called = c]
    BY <1>5 DEF c
  <2>2. k + 1 \in 0 .. KeysMax
    BY <1>1, <1>2 DEF T!Keys, T!TssConstants
  <2>3. QED BY <1>2, <1>b, <1>c, <2>1, <2>2 DEF T!LoopRec
<1>7. TTyped'
  <2>1. tss_values' \in [Clients -> [T!Keys -> 0 .. MaxSets]]
    BY <1>1, <1>2 DEF TInv, TTyped, T!TypeOK, T!NULL, T!TssConstants
  <2>2. loop' \in [Clients -> T!LoopRec]
    BY <1>1, <1>5, <1>6 DEF TInv, TTyped, T!TypeOK
  <2>3. place' \in [Clients -> {"run", "scan", "call", "out"}]
    BY <1>1 DEF TInv, TTyped, T!TypeOK
  <2>4. destroyed' \in SUBSET (1 .. MaxSets)
    BY <1>1, <1>3, <1>a DEF TInv, TTyped, T!TypeOK
  <2>5. \A u \in Clients : place'[u] \in {"scan", "call"} => loop'[u].pass < DtorIterations
    BY <1>1, <1>5, <1>6 DEF TInv, TTyped, T!TypeOK
  <2>6. QED BY <1>1, <2>1, <2>2, <2>3, <2>4, <2>5 DEF TInv, TTyped, T!TypeOK
<1>8. Generated'
  BY <1>1 DEF TInv, Generated
<1>9. Current'
  BY <1>1, <1>4 DEF TInv, Current
<1>10. OnePlaceEach'
  <2>1. \A w \in destroyed' : w <= sets
    BY <1>1, <1>3, <1>a DEF TInv, OnePlaceEach
  <2>2. 0 \notin destroyed /\ sets \in Nat
    BY DEF TInv, TTyped, T!TypeOK, T!TssConstants
  <2>3. ASSUME NEW u \in Clients, NEW j \in T!Keys
        PROVE  tss_values'[u][j] <= sets /\ tss_values'[u][j] \notin destroyed'
    <3>1. CASE u = t /\ j = k
      BY <1>1, <1>3, <1>4, <1>a, <2>2, <3>1 DEF T!NULL
    <3>2. CASE ~(u = t /\ j = k)
      <4>1. tss_values'[u][j] = tss_values[u][j] /\ tss_values[u][j] \notin destroyed
            /\ tss_values[u][j] <= sets
        BY <1>4, <3>2 DEF TInv, OnePlaceEach
      <4>2. calls => tss_values[u][j] # value
        BY <1>2, <1>3, <1>a, <3>2 DEF TInv, OnePlaceEach
      <4>3. QED BY <1>1, <4>1, <4>2
    <3>3. QED BY <3>1, <3>2
  <2>4. \A u \in Clients, j \in T!Keys, w \in Clients, i \in T!Keys :
            tss_values'[u][j] = tss_values'[w][i] /\ tss_values'[u][j] # T!NULL =>
                u = w /\ j = i
    BY <1>4 DEF TInv, OnePlaceEach
  <2>5. QED BY <1>1, <2>1, <2>3, <2>4 DEF OnePlaceEach
<1>11. Cleared'
  <2>1. ASSUME NEW u \in Clients, u # t
        PROVE  loop'[u] = loop[u] /\ place'[u] = place[u]
            /\ \A j \in T!Keys : tss_values'[u][j] = tss_values[u][j]
    BY <1>1, <1>4, <1>5, <2>1 DEF TInv, TTyped, T!TypeOK
  <2>2. place'[t] = IF calls THEN "call" ELSE "scan"
    BY <1>1 DEF TInv, TTyped, T!TypeOK
  <2>3. ASSUME ~c, NEW j \in T!Keys, j < k + 1 PROVE tss_values'[t][j] = T!NULL
    <3>1. j = k \/ j < k
      BY <1>2, <2>3 DEF T!Keys, T!TssConstants
    <3>2. j < k => tss_values[t][j] = T!NULL
      BY <1>1, <1>b, <1>c, <2>3 DEF TInv, Cleared
    <3>3. QED BY <1>4, <3>1, <3>2
  <2>4. /\ place'[t] = "call" => c
        /\ place'[t] # "out"
    BY <2>2, <1>c
  <2>5. QED BY <1>6, <2>1, <2>3, <2>4 DEF TInv, Cleared
<1>12. QED BY <1>7, <1>8, <1>9, <1>10, <1>11 DEF TInv

LEMMA TssDestructorReturns ==
    ASSUME T!TssConstants, TInv, NEW t \in Clients, T!DestructorReturns(t) PROVE TInv'
<1>1. /\ place[t] = "call" /\ place' = [place EXCEPT ![t] = "scan"]
      /\ UNCHANGED <<tss_keys, tss_values, tss_generations, loop, creates, sets, origin, birth,
                     destroyed>>
  BY DEF T!DestructorReturns
<1>2. TTyped' /\ Cleared'
  BY <1>1 DEF TInv, TTyped, T!TypeOK, Cleared
<1>3. QED BY <1>1, <1>2 DEF TInv, Generated, Current, OnePlaceEach

LEMMA TssEndPass == ASSUME T!TssConstants, TInv, NEW t \in Clients, T!EndPass(t) PROVE TInv'
<1>1. /\ place[t] = "scan" /\ loop[t].key = KeysMax
      /\ loop' = [loop EXCEPT ![t].pass = @ + 1,
                              ![t].key = IF T!Again(t) THEN 0 ELSE @,
                              ![t].called = @ /\ ~T!Again(t)]
      /\ place' = [place EXCEPT ![t] = IF T!Again(t) THEN "scan" ELSE "out"]
      /\ UNCHANGED <<tss_keys, tss_values, tss_generations, creates, sets, origin, birth,
             destroyed>>
  BY DEF T!EndPass
<1>2. loop[t] \in T!LoopRec /\ loop[t].pass < DtorIterations
  BY <1>1 DEF TInv, TTyped, T!TypeOK
<1>3. \A u \in Clients : u # t => loop'[u] = loop[u] /\ place'[u] = place[u]
  BY <1>1 DEF TInv, TTyped, T!TypeOK
<1>4. /\ loop'[t] \in T!LoopRec /\ loop'[t].pass = loop[t].pass + 1
      /\ loop'[t].key = IF T!Again(t) THEN 0 ELSE loop[t].key
      /\ loop'[t].called = (loop[t].called /\ ~T!Again(t))
  <2> DEFINE a == T!Again(t)
             c == loop[t].called /\ ~a
  <2>1. loop'[t] = [loop[t] EXCEPT !.pass = @ + 1, !.key = IF a THEN 0 ELSE @, !.called = c]
    BY <1>1 DEF TInv, TTyped, T!TypeOK
  <2>2. c \in BOOLEAN /\ loop[t].pass + 1 \in 0 .. DtorIterations
        /\ (IF a THEN 0 ELSE loop[t].key) \in 0 .. KeysMax
    BY <1>2 DEF T!LoopRec, T!TssConstants
  <2> HIDE DEF c, a
  <2>3. /\ loop'[t] \in T!LoopRec /\ loop'[t].pass = loop[t].pass + 1
        /\ loop'[t].key = IF a THEN 0 ELSE loop[t].key
        /\ loop'[t].called = c
    BY <1>2, <2>1, <2>2 DEF T!LoopRec
  <2>4. QED BY <2>3 DEF a, c
<1>5. TTyped'
  <2>1. loop' \in [Clients -> T!LoopRec]
    BY <1>1, <1>3, <1>4 DEF TInv, TTyped, T!TypeOK
  <2>2. place' \in [Clients -> {"run", "scan", "call", "out"}]
    BY <1>1 DEF TInv, TTyped, T!TypeOK
  <2>3. \A u \in Clients : place'[u] \in {"scan", "call"} => loop'[u].pass < DtorIterations
    BY <1>1, <1>3, <1>4 DEF TInv, TTyped, T!TypeOK, T!Again
  <2>4. QED BY <1>1, <2>1, <2>2, <2>3 DEF TInv, TTyped, T!TypeOK
<1>6. Cleared'
  <2>1. place'[t] = IF T!Again(t) THEN "scan" ELSE "out"
    BY <1>1 DEF TInv, TTyped, T!TypeOK
  <2>2. CASE T!Again(t)
    <3>1. place'[t] = "scan" /\ loop'[t].key = 0
      BY <1>4, <2>1, <2>2
    <3>2. \A j \in T!Keys : ~(j < loop'[t].key)
      BY <3>1 DEF T!Keys
    <3>3. QED BY <1>1, <1>3, <3>1, <3>2 DEF TInv, Cleared
  <2>3. CASE ~T!Again(t)
    <3>1. place'[t] = "out" /\ (~loop'[t].called => ~loop[t].called)
      BY <1>4, <2>1, <2>3
    <3>2. ~loop[t].called => \A j \in T!Keys : tss_values[t][j] = T!NULL
      BY <1>1 DEF TInv, Cleared, T!Keys, T!TssConstants
    <3>3. QED BY <1>1, <1>3, <3>1, <3>2 DEF TInv, Cleared
  <2>4. QED BY <2>2, <2>3
<1>7. QED BY <1>1, <1>5, <1>6 DEF TInv, Generated, Current, OnePlaceEach

LEMMA TssNext == ASSUME T!TssConstants, TInv, [T!Next]_(T!vars) PROVE TInv'
<1>1. CASE UNCHANGED T!vars
  BY <1>1 DEF T!vars, TInv, TTyped, T!TypeOK, Generated, Current, OnePlaceEach, Cleared
<1>2. ASSUME NEW t \in Clients,
             \/ T!tss_create(t) \/ T!tss_delete(t) \/ T!tss_set(t) \/ T!ExitThread(t)
             \/ T!ExitStep(t)
      PROVE  TInv'
  BY <1>2, TssCreate, TssDelete, TssSet, TssExitThread, TssScanKey, TssDestructorReturns,
     TssEndPass DEF T!ExitStep
<1>3. QED BY <1>1, <1>2 DEF T!Next, T!AllOut

\* The properties follow.
LEMMA TssInvSafe == ASSUME TInv PROVE T!TssSafe
<1>1. T!NoStaleValue
  BY DEF TInv, Current, T!NoStaleValue, T!tss_get, T!Valid
<1>2. T!DestroyedIsGone
  BY DEF TInv, OnePlaceEach, T!DestroyedIsGone
<1>3. T!DrainedUnlessLimit
  BY DEF TInv, Cleared, T!DrainedUnlessLimit
<1>4. QED BY <1>1, <1>2, <1>3 DEF T!TssSafe, TInv, TTyped

-----------------------------------------------------------------------------
\* The records of guest threads: what their proofs say of a copy of GuestProcess
\* holds of the one that Storage runs, for a copy has the same definitions.

GP == INSTANCE GuestProcessProofs WITH
    MaxOps <- MaxCalls, Calls <- {"create", "join", "detach", "wait", "wake"},
    JoinOlder <- TRUE,
    thread <- x1, threads <- x2, allocated <- x3, process <- x4, pc <- x5,
    then <- x6, tid <- x7, target <- x8, phase <- x9, result <- x10,
    heap <- x11, depth <- x12, ops <- x13, left <- x14, finis <- x15,
    got <- x16

\* Both count with the operators of FiniteSets.
LEMMA CopiesSets ==
    /\ \A S : G!IsFiniteSet(S) <=> IsFiniteSet(S)
    /\ \A S : G!Cardinality(S) = Cardinality(S)
    /\ \A S : GP!IsFiniteSet(S) <=> IsFiniteSet(S)
    /\ \A S : GP!Cardinality(S) = Cardinality(S)
BY DEF IsFiniteSet, G!IsFiniteSet, GP!IsFiniteSet,
   Cardinality, G!Cardinality, GP!Cardinality

\* The assumption of GuestProcess is met.
LEMMA GuestConstants ==
    /\ MaxTid \in Nat \ {0} /\ MaxCalls \in [1 .. MaxTid -> Nat]
    /\ {"create", "join", "detach", "wait", "wake"} \subseteq GP!AllCalls
    /\ TRUE \in BOOLEAN
BY GuestRecordsAssumption DEF GP!AllCalls

LEMMA GuestInitCopied == G!Init => GP!Init
BY DEF G!Main, GP!Main, G!Workers, GP!Workers, G!AllThreads, GP!AllThreads, G!None, GP!None,
   G!NewGuestThread, GP!NewGuestThread, G!Init, GP!Init

LEMMA GuestNextCopied == G!Next => GP!Next
<1>1. \A t : G!CallStep(t) => GP!CallStep(t)
  <2>1. \A t : G!Reap(t) \/ G!ReapFree(t) => GP!Reap(t) \/ GP!ReapFree(t)
    BY DEF G!None, GP!None, G!guest, GP!guest, G!Reap, GP!Reap, G!Goto, GP!Goto, G!Free,
           GP!Free,
       G!Reapable, GP!Reapable, G!ReapFree, GP!ReapFree, G!Min, GP!Min
  <2>2. \A t : G!JoinClaim(t) \/ G!JoinFinish(t) \/ G!JoinFree(t)
              => GP!JoinClaim(t) \/ GP!JoinFinish(t) \/ GP!JoinFree(t)
    BY DEF G!Main, GP!Main, G!None, GP!None, G!guest, GP!guest, G!Goto, GP!Goto, G!ReapThen,
       GP!ReapThen, G!Free, GP!Free, G!Joinable, GP!Joinable, G!MarkJoining, GP!MarkJoining,
       G!JoinClaim, GP!JoinClaim, G!DropActiveJoin, GP!DropActiveJoin, G!JoinFinish,
       GP!JoinFinish, G!JoinFree, GP!JoinFree, G!Min, GP!Min
  <2>3. \A t : G!DetachMark(t) \/ G!HeapAcquire(t) => GP!DetachMark(t) \/ GP!HeapAcquire(t)
    BY DEF G!Main, GP!Main, G!None, GP!None, G!records, GP!records, G!guest, GP!guest, G!Goto,
       GP!Goto, G!ReapThen, GP!ReapThen, G!Joinable, GP!Joinable, G!DetachMark, GP!DetachMark,
       G!HeapAcquire, GP!HeapAcquire, G!Min, GP!Min
  <2>4. QED BY <2>1, <2>2, <2>3 DEF G!CallStep, GP!CallStep
<1>2. \A t : G!GuestCall(t) => GP!GuestCall(t)
  BY DEF G!Workers, GP!Workers, G!AllThreads, GP!AllThreads, G!None, GP!None, G!records,
     GP!records, G!guest, GP!guest, G!NewGuestThread, GP!NewGuestThread, G!Goto, GP!Goto,
     G!ReapThen, GP!ReapThen, G!Syscall, GP!Syscall, G!Unlocked, GP!Unlocked, G!ThreadCreate,
     GP!ThreadCreate, G!ThreadJoin, GP!ThreadJoin, G!ThreadDetach, GP!ThreadDetach, G!AddrWait,
     GP!AddrWait, G!AddrWake, GP!AddrWake, G!HeapLock, GP!HeapLock, G!HoldsHeap, GP!HoldsHeap,
     G!HeapUnlock, GP!HeapUnlock, G!GuestCall, GP!GuestCall
<1>3. \A w : G!WorkerStep(w) \/ G!ThreadExit(w) \/ G!ExitInFini(w)
            => GP!WorkerStep(w) \/ GP!ThreadExit(w) \/ GP!ExitInFini(w)
  BY DEF G!None, GP!None, G!records, GP!records, G!guest, GP!guest, G!Goto, GP!Goto,
     G!ReleaseHeap, GP!ReleaseHeap, G!HostEntry, GP!HostEntry, G!Finish, GP!Finish, G!EnterFini,
     GP!EnterFini, G!InitReturns, GP!InitReturns, G!FunctionReturns, GP!FunctionReturns,
     G!FiniReturns, GP!FiniReturns, G!ThreadExit, GP!ThreadExit, G!ExitCompletes,
     GP!ExitCompletes, G!ExitInFini, GP!ExitInFini, G!HostEnds, GP!HostEnds, G!WorkerStep,
     GP!WorkerStep
<1>4. G!BeginDestruct \/ G!DestructStep => GP!BeginDestruct \/ GP!DestructStep
  BY DEF G!Main, GP!Main, G!AllThreads, GP!AllThreads, G!None, GP!None, G!records, GP!records,
     G!guest, GP!guest, G!Goto, GP!Goto, G!ReapThen, GP!ReapThen, G!Free, GP!Free,
     G!BeginDestruct, GP!BeginDestruct, G!Released, GP!Released, G!ShutdownTable,
     GP!ShutdownTable, G!Pending, GP!Pending, G!CheckWorkers, GP!CheckWorkers, G!CheckJoins,
     GP!CheckJoins, G!Drain, GP!Drain, G!Drainable, GP!Drainable, G!DrainFree, GP!DrainFree,
     G!DestroyProcess, GP!DestroyProcess, G!DestructStep, GP!DestructStep, G!Min, GP!Min
<1>5. G!Gone => GP!Gone
  BY DEF G!Main, GP!Main, G!records, GP!records, G!guest, GP!guest, G!vars, GP!vars, G!Gone,
     GP!Gone
<1>6. G!AllThreads = GP!AllThreads /\ G!Workers = GP!Workers
  BY DEF G!AllThreads, GP!AllThreads, G!Workers, GP!Workers
<1>7. QED BY <1>1, <1>2, <1>3, <1>4, <1>5, <1>6 DEF G!Next, GP!Next

LEMMA GuestStutterCopied == UNCHANGED G!vars => UNCHANGED GP!vars
BY DEF G!vars, GP!vars, G!records, GP!records, G!guest, GP!guest

LEMMA GuestSafeCopied == ASSUME GP!GuestRecordsSafe PROVE G!GuestRecordsSafe
BY CopiesSets
  DEF G!Main, GP!Main, G!Workers, GP!Workers, G!AllThreads, GP!AllThreads, G!Claims,
   GP!Claims, G!RecordsSafe, GP!RecordsSafe, G!NoRecordLost, GP!NoRecordLost,
   G!ActiveJoinsExact, GP!ActiveJoinsExact, G!QuietAfterWait, GP!QuietAfterWait,
   G!GuestRecordsSafe, GP!GuestRecordsSafe

LEMMA GuestInit == G!Init => GP!Inv
BY GuestInitCopied, GuestConstants, GP!InitInv

LEMMA GuestNext == GP!Inv /\ [G!Next]_(G!vars) => GP!Inv'
<1>1. GP!Inv /\ [GP!Next]_(GP!vars) => GP!Inv'
  BY GuestConstants, GP!NextInv
<1>2. [G!Next]_(G!vars) => [GP!Next]_(GP!vars)
  BY GuestNextCopied, GuestStutterCopied
<1>3. QED BY <1>1, <1>2

LEMMA GuestInvSafe == GP!Inv => G!GuestRecordsSafe
BY GuestConstants, GuestSafeCopied, GP!InvRecordsSafe

-----------------------------------------------------------------------------
\* Both in Storage.

\* What holds of the component that runs.
Whole ==
    /\ component = "tss" => TInv
    /\ component = "guest records" => GP!Inv

LEMMA WholeInit == AllInit => Whole
BY TssInit, TssAssumption, GuestInit DEF AllInit, Whole

\* A step is a step of the component that runs, which goes on running.
LEMMA StepOfOne ==
    ASSUME [AllNext]_all
    PROVE  /\ component' = component
           /\ component = "tss" => [T!Next]_(T!vars)
           /\ component = "guest records" => [G!Next]_(G!vars)
<1>1. CASE AllNext
  <2>1. component = "tss" => [T!Next]_(T!vars)
    BY <1>1 DEF AllNext, keys, T!vars
  <2>2. component = "guest records" => [G!Next]_(G!vars)
    BY <1>1 DEF AllNext, xs, G!vars, G!records, G!guest
  <2>3. QED BY <1>1, <2>1, <2>2 DEF AllNext
<1>2. CASE UNCHANGED all
  <2>1. UNCHANGED <<component, keys, xs>>
    BY <1>2 DEF all
  <2>2. UNCHANGED T!vars
    BY <2>1 DEF keys, T!vars
  <2>3. UNCHANGED G!vars
    BY <2>1 DEF xs, G!vars, G!records, G!guest
  <2>4. QED BY <2>1, <2>2, <2>3
<1>3. QED BY <1>1, <1>2

LEMMA WholeNext == Whole /\ [AllNext]_all => Whole'
<1> SUFFICES ASSUME Whole, [AllNext]_all PROVE Whole'
  OBVIOUS
<1> USE StepOfOne DEF Whole
<1>1. component' = "tss" => TInv'
  BY TssNext, TssAssumption
<1>2. component' = "guest records" => GP!Inv'
  BY GuestNext
<1>3. QED BY <1>1, <1>2

\* No value is seen under a key created since it was stored; each goes to one
\* destructor, once; a thread that ends before its passes are used up leaves none
\* behind (tss_get, RunTssDestructors).  Nobody uses a guest thread's record that
\* was freed, none is freed by two or lost, the joins are counted, and when the
\* destruction has waited no worker is in guest code or in a call
\* (x86_64_process.c, WaitForRunningWorkers and its callers).
THEOREM OwnersAreSafe == AllSpec => []OwnersSafe
<1>1. AllInit => Whole
  BY WholeInit
<1>2. Whole /\ [AllNext]_all => Whole'
  BY WholeNext
<1>3. Whole => OwnersSafe
  BY TssInvSafe, GuestInvSafe DEF Whole, OwnersSafe
<1>4. QED BY <1>1, <1>2, <1>3, PTL DEF AllSpec
=============================================================================
