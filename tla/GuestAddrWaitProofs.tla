------------------------- MODULE GuestAddrWaitProofs -------------------------
(***************************************************************************)
(* Proofs about GuestAddrWait, for any set of threads, words and values    *)
(* and any number of calls.                                                *)
(***************************************************************************)
EXTENDS GuestAddrWait, FiniteSetTheorems, TLAPS

\* A thread in a call has that call's arguments.
ArgumentsFit ==
    \A t \in Threads :
        /\ pc[t] \in WaitPoints =>
              /\ call[t].addr \in Addrs /\ call[t].expected \in Values
              /\ call[t].mode \in WaitModes
        /\ pc[t] \in WakePoints =>
              call[t].addr \in Addrs /\ call[t].wake_all \in WakeModes

\* Nobody blocks who only polls, and only a deadline expires.
ModesFit ==
    \A t \in Threads :
        /\ pc[t] \in Counted => call[t].mode # "poll"
        /\ pc[t] = "expired" => call[t].mode = "timed"

\* The bucket's mutex is kept from entering the loop to blocking or leaving,
\* the table's during the broadcasts of shutdown.
LocksKept ==
    /\ lock[Table] \in {Free, Main}
    /\ lock[Table] = Main => table.shutting_down
    /\ \A t \in Threads : pc[t] \in {"loop", "check", "block"} => lock[call[t].addr] = t

\* Whoever got past GetBucket is in a bucket of the table.
BucketExists ==
    \A t \in Threads : pc[t] \in Counted \cup {"enter"} => call[t].addr \in buckets

\* ShutdownReachesEveryWaiter, from the load of shutting_down on: the broadcast
\* takes the mutex that a caller about to block holds.
ShutdownAhead ==
    table.shutting_down =>
        \A t \in Threads : pc[t] \in {"block", "blocked"} => call[t].addr \in visit

\* ChangeIsFollowedByWake, from the comparison on and where every wake is a
\* wake_all.
WakeAhead ==
    WakeModes = {TRUE} =>
        \A t \in Threads :
            pc[t] \in {"check", "block", "blocked"} /\ value[call[t].addr] # call[t].expected =>
                \E w \in Threads : pc[w] \in WakePoints /\ call[w].addr = call[t].addr

IInv ==
    /\ TypeOK /\ ArgumentsFit /\ ModesFit /\ LocksKept /\ BucketExists
    /\ WaiterCountExact /\ ShutdownAhead /\ WakeAhead

-----------------------------------------------------------------------------
\* The callers of one bucket.
Callers(a) == {t \in Threads : pc[t] \in Counted /\ call[t].addr = a}

\* There are finitely many, before and after a step.
LEMMA CallersFinite ==
  \A a : /\ IsFiniteSet(Callers(a)) /\ IsFiniteSet(Callers(a)')
         /\ Cardinality(Callers(a)) \in 0 .. Cardinality(Threads)
         /\ Cardinality(Callers(a)') \in 0 .. Cardinality(Threads)
<1>1. ASSUME NEW S \in SUBSET Threads
      PROVE  IsFiniteSet(S) /\ Cardinality(S) \in 0 .. Cardinality(Threads)
  <2>1. IsFiniteSet(S) /\ Cardinality(S) <= Cardinality(Threads)
    BY AddrWaitConstants, FS_Subset
  <2>2. Cardinality(S) \in Nat /\ Cardinality(Threads) \in Nat
    BY <2>1, AddrWaitConstants, FS_CardinalityType
  <2>3. QED BY <2>1, <2>2
<1>2. \A a : Callers(a) \in SUBSET Threads /\ Callers(a)' \in SUBSET Threads
  BY DEF Callers
<1>3. QED BY <1>1, <1>2

\* waiter_count++ goes with one caller more.
LEMMA CountOneMore ==
  ASSUME TypeOK, WaiterCountExact, NEW t \in Threads, NEW b \in Addrs,
         CountIn(b), t \notin Callers(b), Callers(b)' = Callers(b) \cup {t},
         \A a \in Addrs \ {b} : Callers(a)' = Callers(a)
  PROVE  WaiterCountExact'
<1>1. \A a \in Addrs : waiter_count[a] = Cardinality(Callers(a))
  BY DEF WaiterCountExact, Callers
<1>2. Cardinality(Callers(b)') = Cardinality(Callers(b)) + 1
  BY CallersFinite, FS_AddElement
<1>3. \A a \in Addrs : waiter_count'[a] = Cardinality(Callers(a)')
  BY <1>1, <1>2 DEF CountIn, TypeOK
<1>4. QED BY <1>3 DEF WaiterCountExact, Callers

\* waiter_count-- on the way out goes with one caller less.
LEMMA CountedOut ==
  ASSUME TypeOK, WaiterCountExact, NEW t \in Threads, NEW r, Leave(t, r),
         NEW b \in Addrs, b = call[t].addr, t \in Callers(b)
  PROVE  WaiterCountExact'
<1>1. \A a \in Addrs : waiter_count[a] = Cardinality(Callers(a))
  BY DEF WaiterCountExact, Callers
<1>2. /\ Callers(b)' = Callers(b) \ {t}
      /\ \A a \in Addrs \ {b} : Callers(a)' = Callers(a)
  BY DEF Callers, Counted, Leave, Return, TypeOK
<1>3. Cardinality(Callers(b)') = Cardinality(Callers(b)) - 1
  BY <1>2, CallersFinite, FS_RemoveElement
<1>4. \A a \in Addrs : waiter_count'[a] = Cardinality(Callers(a)')
  <2>1. waiter_count' = [waiter_count EXCEPT ![b] = @ - 1]
    BY DEF Leave, CountOut
  <2>2. waiter_count'[b] = waiter_count[b] - 1
    BY <2>1 DEF TypeOK
  <2>3. \A a \in Addrs \ {b} : waiter_count'[a] = waiter_count[a]
    BY <2>1 DEF TypeOK
  <2>4. QED BY <1>1, <1>2, <1>3, <2>2, <2>3
<1>5. QED BY <1>4 DEF WaiterCountExact, Callers

\* An exact count is in range.
LEMMA CountInRange ==
  WaiterCountExact' => \A a \in Addrs : waiter_count'[a] \in 0 .. Cardinality(Threads)
  BY CallersFinite DEF WaiterCountExact, Callers

-----------------------------------------------------------------------------
\* GuestAddrWaitTableInit establishes the invariant.
LEMMA InitIInv == Init => IInv
<1> SUFFICES ASSUME Init PROVE IInv
  OBVIOUS
<1> USE AddrWaitConstants
<1>1. TypeOK
  BY FS_CardinalityType DEF Init, TypeOK
<1>2. WaiterCountExact
  <2>1. \A a \in Addrs : Callers(a) = {}
    BY DEF Init, Callers, Counted
  <2>2. QED BY <2>1, FS_EmptySet DEF Init, WaiterCountExact, Callers
<1>3. QED
  BY <1>1, <1>2 DEF Init, IInv, ArgumentsFit, ModesFit, LocksKept, BucketExists,
     ShutdownAhead, WakeAhead, WaitPoints, WakePoints, Counted

\* Every step of every thread keeps it.
LEMMA NextIInv == IInv /\ [Next]_vars => IInv'
<1> SUFFICES ASSUME IInv, [Next]_vars PROVE IInv'
  OBVIOUS
<1> USE AddrWaitConstants DEF IInv
<1>1. ASSUME NEW t \in Threads, GuestAddrWait(t) PROVE IInv'
  <2>1. ArgumentsFit'
    BY <1>1 DEF ArgumentsFit, TypeOK, WaitPoints, WakePoints, Wait, Wake,
       NoCall, GuestAddrWait, Begin, Goto
  <2>2. ModesFit'
    BY <1>1 DEF ModesFit, TypeOK, Counted, Wait, Wake, NoCall, GuestAddrWait,
       Begin, Goto
  <2>3. LocksKept'
    BY <1>1 DEF LocksKept, ArgumentsFit, TypeOK, WaitPoints, WakePoints, Wait,
       Wake, NoCall, GuestAddrWait, Begin, Goto
  <2>4. BucketExists'
    BY <1>1 DEF BucketExists, ArgumentsFit, TypeOK, Counted, WaitPoints,
       WakePoints, Wait, Wake, NoCall, GuestAddrWait, Begin, Goto
  <2>5. WaiterCountExact'
    <3>1. \A a \in Addrs : Callers(a)' = Callers(a)
      BY <1>1 DEF Callers, Counted, TypeOK, ArgumentsFit, WaitPoints,
         WakePoints, Wait, Wake, NoCall, GuestAddrWait, Begin, Goto
    <3>2. UNCHANGED waiter_count
      BY <1>1 DEF GuestAddrWait, Begin, Goto
    <3>3. QED BY <3>1, <3>2 DEF WaiterCountExact, Callers
  <2>6. TypeOK'
    <3>1. call' \in [Threads -> {NoCall}
                   \cup {Wait(a, e, m) : a \in Addrs, e \in Values, m \in WaitModes}
                   \cup {Wake(a, all) : a \in Addrs, all \in WakeModes}]
      BY <1>1 DEF TypeOK, GuestAddrWait, Begin
    <3>2. QED BY <1>1, <3>1 DEF TypeOK, GuestAddrWait, Begin, Goto, WaitPoints
  <2>7. ShutdownAhead'
    BY <1>1 DEF ShutdownAhead, BucketExists, ArgumentsFit,
       TypeOK, Counted, WaitPoints, WakePoints, GuestAddrWait, Begin, Goto
  <2>8. WakeAhead'
    BY <1>1 DEF WakeAhead, BucketExists, LocksKept, ArgumentsFit, TypeOK,
       Counted, WaitPoints, WakePoints, Wait, Wake, NoCall, GuestAddrWait,
       Begin, Goto
  <2>9. QED BY <2>1, <2>2, <2>3, <2>4, <2>5, <2>6, <2>7, <2>8
<1>2. ASSUME NEW t \in Threads, StoreAndWake(t) PROVE IInv'
  <2>1. ArgumentsFit'
    BY <1>2 DEF ArgumentsFit, TypeOK, WaitPoints, WakePoints, Wait, Wake,
       NoCall, StoreAndWake, Begin, Goto
  <2>2. ModesFit'
    BY <1>2 DEF ModesFit, TypeOK, Counted, Wait, Wake, NoCall, StoreAndWake,
       Begin, Goto
  <2>3. LocksKept'
    BY <1>2 DEF LocksKept, ArgumentsFit, TypeOK, WaitPoints, WakePoints, Wait,
       Wake, NoCall, StoreAndWake, Begin, Goto
  <2>4. BucketExists'
    BY <1>2 DEF BucketExists, ArgumentsFit, TypeOK, Counted, WaitPoints,
       WakePoints, Wait, Wake, NoCall, StoreAndWake, Begin, Goto
  <2>5. WaiterCountExact'
    <3>1. \A a \in Addrs : Callers(a)' = Callers(a)
      BY <1>2 DEF Callers, Counted, TypeOK, ArgumentsFit, WaitPoints,
         WakePoints, Wait, Wake, NoCall, StoreAndWake, Begin, Goto
    <3>2. UNCHANGED waiter_count
      BY <1>2 DEF StoreAndWake, Begin, Goto
    <3>3. QED BY <3>1, <3>2 DEF WaiterCountExact, Callers
  <2>6. TypeOK'
    BY <1>2 DEF TypeOK, ArgumentsFit, WaitPoints, WakePoints, Wait, Wake,
       NoCall, Results, kGuestAddrWaitSuccess, kGuestAddrWaitTimedOut,
       kGuestAddrWaitError, StoreAndWake, Begin, Goto
  <2>7. ShutdownAhead'
    BY <1>2 DEF ShutdownAhead, BucketExists, ArgumentsFit,
       TypeOK, Counted, WaitPoints, WakePoints, StoreAndWake, Begin, Goto
  <2>8. WakeAhead'
    BY <1>2 DEF WakeAhead, BucketExists, LocksKept, ArgumentsFit, TypeOK,
       Counted, WaitPoints, WakePoints, Wait, Wake, NoCall, StoreAndWake,
       Begin, Goto
  <2>9. QED BY <2>1, <2>2, <2>3, <2>4, <2>5, <2>6, <2>7, <2>8
<1>3. ASSUME NEW t \in Threads, GetBucketCreate(t) PROVE IInv'
  <2>1. ArgumentsFit'
    BY <1>3 DEF ArgumentsFit, TypeOK, WaitPoints, WakePoints, Wait, Wake,
       NoCall, GetBucketCreate, Return, Goto
  <2>2. ModesFit'
    BY <1>3 DEF ModesFit, TypeOK, Counted, Wait, Wake, NoCall,
       GetBucketCreate, Return, Goto
  <2>3. LocksKept'
    BY <1>3 DEF LocksKept, ArgumentsFit, TypeOK, WaitPoints, WakePoints, Wait,
       Wake, NoCall, GetBucketCreate, Return, Goto
  <2>4. BucketExists'
    BY <1>3 DEF BucketExists, ArgumentsFit, TypeOK, Counted, WaitPoints,
       WakePoints, Wait, Wake, NoCall, GetBucketCreate, Return, Goto
  <2>5. WaiterCountExact'
    <3>1. \A a \in Addrs : Callers(a)' = Callers(a)
      BY <1>3 DEF Callers, Counted, TypeOK, ArgumentsFit, WaitPoints,
         WakePoints, Wait, Wake, NoCall, GetBucketCreate, Return, Goto
    <3>2. UNCHANGED waiter_count
      BY <1>3 DEF GetBucketCreate, Return, Goto
    <3>3. QED BY <3>1, <3>2 DEF WaiterCountExact, Callers
  <2>6. TypeOK'
    BY <1>3 DEF TypeOK, ArgumentsFit, WaitPoints, WakePoints, Wait, Wake,
       NoCall, Results, kGuestAddrWaitSuccess, kGuestAddrWaitTimedOut,
       kGuestAddrWaitError, GetBucketCreate, Return, Goto
  <2>7. ShutdownAhead'
    BY <1>3 DEF ShutdownAhead, BucketExists, ArgumentsFit,
       TypeOK, Counted, WaitPoints, WakePoints, GetBucketCreate, Return, Goto
  <2>8. WakeAhead'
    <3>1. \A u \in Threads : u # t => pc'[u] = pc[u] /\ call'[u] = call[u]
      BY <1>3 DEF TypeOK, GetBucketCreate, Return, Goto
    <3>2. pc[t] = "get" /\ pc'[t] \in {"enter", "idle"} /\ UNCHANGED value
      BY <1>3 DEF TypeOK, GetBucketCreate, Return, Goto
    <3>3. QED BY <3>1, <3>2 DEF WakeAhead, WakePoints
  <2>9. QED BY <2>1, <2>2, <2>3, <2>4, <2>5, <2>6, <2>7, <2>8
<1>4. ASSUME NEW t \in Threads, EnterBucket(t) PROVE IInv'
  <2>1. ArgumentsFit'
    BY <1>4 DEF ArgumentsFit, TypeOK, WaitPoints, WakePoints, Wait, Wake,
       NoCall, EnterBucket, Return, Goto, CountIn, ReadValueMatches
  <2>2. ModesFit'
    BY <1>4 DEF ModesFit, TypeOK, Counted, Wait, Wake, NoCall, EnterBucket,
       Return, Goto, CountIn, ReadValueMatches
  <2>3. LocksKept'
    BY <1>4 DEF LocksKept, ArgumentsFit, TypeOK, WaitPoints, WakePoints, Wait,
       Wake, NoCall, EnterBucket, Return, Goto, CountIn, ReadValueMatches
  <2>4. BucketExists'
    BY <1>4 DEF BucketExists, ArgumentsFit, TypeOK, Counted, WaitPoints,
       WakePoints, Wait, Wake, NoCall, EnterBucket, Return, Goto, CountIn,
       ReadValueMatches
  <2>5. WaiterCountExact'
    <3>1. CASE UNCHANGED waiter_count
      <4>1. \A a \in Addrs : Callers(a)' = Callers(a)
        BY <1>4, <3>1 DEF Callers, Counted, TypeOK, ArgumentsFit, WaitPoints,
           WakePoints, Wait, Wake, NoCall, EnterBucket, Return, Goto, CountIn,
           ReadValueMatches
      <4>2. QED BY <3>1, <4>1 DEF WaiterCountExact, Callers
    <3>2. CASE CountIn(call[t].addr) /\ Goto(t, "loop") /\ UNCHANGED call
      <4>1. call[t].addr \in Addrs /\ pc[t] = "enter"
        BY <1>4 DEF ArgumentsFit, WaitPoints, WakePoints, EnterBucket
      <4>2. Callers(call[t].addr)' = Callers(call[t].addr) \cup {t}
             /\ t \notin Callers(call[t].addr)
             /\ \A a \in Addrs \ {call[t].addr} : Callers(a)' = Callers(a)
        BY <3>2, <4>1 DEF Callers, Counted, TypeOK, Goto
      <4>3. QED BY <3>2, <4>1, <4>2, CountOneMore
    <3>3. QED
      BY <1>4, <3>1, <3>2 DEF EnterBucket, ReadValueMatches
  <2>6. TypeOK'
    <3>1. waiter_count' \in [Addrs -> 0 .. Cardinality(Threads)]
      <4>1. waiter_count' = [a \in Addrs |-> waiter_count'[a]]
        BY <1>4 DEF TypeOK, EnterBucket, CountIn, Return
      <4>2. QED BY <2>5, <4>1, CountInRange
    <3>2. call' \in [Threads -> {NoCall}
                   \cup {Wait(a, e, m) : a \in Addrs, e \in Values, m \in WaitModes}
                   \cup {Wake(a, all) : a \in Addrs, all \in WakeModes}]
      BY <1>4 DEF TypeOK, EnterBucket, CountIn, Return
    <3>3. lock' \in [Addrs \cup {Table} -> Threads \cup {Main, Free}]
      BY <1>4 DEF TypeOK, EnterBucket, CountIn, Return
    <3>4. /\ pc' \in [Threads -> {"idle"} \cup WaitPoints \cup WakePoints]
          /\ result' \in [Threads -> Results \cup {"none"}]
      BY <1>4 DEF TypeOK, EnterBucket, CountIn, Return, Goto, WaitPoints, Results,
         kGuestAddrWaitSuccess, kGuestAddrWaitTimedOut, kGuestAddrWaitError
    <3>5. UNCHANGED <<value, table, buckets, calls, visit>>
      BY <1>4 DEF EnterBucket
    <3>6. QED BY <3>1, <3>2, <3>3, <3>4, <3>5 DEF TypeOK
  <2>7. ShutdownAhead'
    BY <1>4 DEF ShutdownAhead, BucketExists, ArgumentsFit,
       TypeOK, Counted, WaitPoints, WakePoints, EnterBucket, Return, Goto,
       CountIn, ReadValueMatches
  <2>8. WakeAhead'
    <3>1. pc[t] = "enter" /\ pc'[t] \notin {"check", "block", "blocked"} /\ UNCHANGED value
      BY <1>4 DEF EnterBucket, Return, Goto, TypeOK
    <3>2. \A u \in Threads \ {t} : pc'[u] = pc[u] /\ call'[u] = call[u]
      BY <1>4 DEF EnterBucket, Return, Goto, TypeOK
    <3>3. QED BY <3>1, <3>2 DEF WakeAhead, WakePoints
  <2>9. QED BY <2>1, <2>2, <2>3, <2>4, <2>5, <2>6, <2>7, <2>8
<1>5. ASSUME NEW t \in Threads, Recheck(t) PROVE IInv'
  <2>1. ArgumentsFit'
    BY <1>5 DEF ArgumentsFit, TypeOK, WaitPoints, WakePoints, Wait, Wake,
       NoCall, Recheck, Leave, Return, CountOut, Goto, KeepMutex,
       ReadValueMatches
  <2>2. ModesFit'
    BY <1>5 DEF ModesFit, TypeOK, Counted, Wait, Wake, NoCall, Recheck, Leave,
       Return, CountOut, Goto, KeepMutex, ReadValueMatches
  <2>3. LocksKept'
    BY <1>5 DEF LocksKept, ArgumentsFit, TypeOK, WaitPoints, WakePoints, Wait,
       Wake, NoCall, Recheck, Leave, Return, CountOut, Goto, KeepMutex,
       ReadValueMatches
  <2>4. BucketExists'
    BY <1>5 DEF BucketExists, ArgumentsFit, TypeOK, Counted, WaitPoints,
       WakePoints, Wait, Wake, NoCall, Recheck, Leave, Return, CountOut, Goto,
       KeepMutex, ReadValueMatches
  <2>5. WaiterCountExact'
    <3>1. CASE UNCHANGED waiter_count
      <4>1. \A a \in Addrs : Callers(a)' = Callers(a)
        BY <1>5, <3>1 DEF Callers, Counted, TypeOK, ArgumentsFit, WaitPoints,
           WakePoints, Wait, Wake, NoCall, Recheck, Leave, Return, CountOut,
           Goto, KeepMutex, ReadValueMatches
      <4>2. QED BY <3>1, <4>1 DEF WaiterCountExact, Callers
    <3>2. CASE \E r : Leave(t, r)
      <4>1. \E b \in Addrs : b = call[t].addr /\ t \in Callers(b)
        BY <1>5 DEF ArgumentsFit, Callers, Counted, WaitPoints, WakePoints,
           Recheck
      <4>2. QED BY <3>2, <4>1, CountedOut
    <3>3. QED
      BY <1>5, <3>1, <3>2 DEF Recheck, KeepMutex
  <2>6. TypeOK'
    <3>1. waiter_count' \in [Addrs -> 0 .. Cardinality(Threads)]
      <4>1. waiter_count' = [a \in Addrs |-> waiter_count'[a]]
        BY <1>5 DEF TypeOK, Recheck, KeepMutex, Leave, CountOut, Return
      <4>2. QED BY <2>5, <4>1, CountInRange
    <3>2. call' \in [Threads -> {NoCall}
                   \cup {Wait(a, e, m) : a \in Addrs, e \in Values, m \in WaitModes}
                   \cup {Wake(a, all) : a \in Addrs, all \in WakeModes}]
      BY <1>5 DEF TypeOK, Recheck, KeepMutex, Leave, CountOut, Return
    <3>3. lock' \in [Addrs \cup {Table} -> Threads \cup {Main, Free}]
      BY <1>5 DEF TypeOK, Recheck, KeepMutex, Leave, CountOut, Return
    <3>4. /\ pc' \in [Threads -> {"idle"} \cup WaitPoints \cup WakePoints]
          /\ result' \in [Threads -> Results \cup {"none"}]
      BY <1>5 DEF TypeOK, Recheck, KeepMutex, Leave, CountOut, Return, Goto, WaitPoints, Results,
         kGuestAddrWaitSuccess, kGuestAddrWaitTimedOut, kGuestAddrWaitError
    <3>5. UNCHANGED <<value, table, buckets, calls, visit>>
      BY <1>5 DEF Recheck
    <3>6. QED BY <3>1, <3>2, <3>3, <3>4, <3>5 DEF TypeOK
  <2>7. ShutdownAhead'
    BY <1>5 DEF ShutdownAhead, BucketExists, ArgumentsFit,
       TypeOK, Counted, WaitPoints, WakePoints, Recheck, Leave, Return,
       CountOut, Goto, KeepMutex, ReadValueMatches
  <2>8. WakeAhead'
    <3>1. pc'[t] = "check" => value[call[t].addr] = call[t].expected
      <4>1. ReadValueMatches(t).matches = (value[call[t].addr] = call[t].expected)
        BY DEF ReadValueMatches
      <4>2. pc'[t] = "check" => ReadValueMatches(t).matches
        BY <1>5 DEF Recheck, Leave, Return, Goto, TypeOK
      <4>3. QED BY <4>1, <4>2
    <3>2. pc[t] = "loop" /\ call'[t] \in {call[t], NoCall} /\ UNCHANGED value
      BY <1>5 DEF Recheck, Leave, Return, TypeOK
    <3>3. pc'[t] \notin {"block", "blocked"} /\ (pc'[t] = "check" => UNCHANGED call)
      BY <1>5 DEF Recheck, Leave, Return, Goto, TypeOK
    <3>4. \A u \in Threads \ {t} : pc'[u] = pc[u] /\ call'[u] = call[u]
      BY <1>5 DEF Recheck, Leave, Return, Goto, TypeOK
    <3>5. QED BY <3>1, <3>2, <3>3, <3>4 DEF WakeAhead, WakePoints
  <2>9. QED BY <2>1, <2>2, <2>3, <2>4, <2>5, <2>6, <2>7, <2>8
<1>6. ASSUME NEW t \in Threads, CheckShutdown(t) PROVE IInv'
  <2>1. ArgumentsFit'
    BY <1>6 DEF ArgumentsFit, TypeOK, WaitPoints, WakePoints, Wait, Wake,
       NoCall, CheckShutdown, Leave, Return, CountOut, Goto,
       ShuttingDown
  <2>2. ModesFit'
    BY <1>6 DEF ModesFit, TypeOK, Counted, Wait, Wake, NoCall,
       CheckShutdown, Leave, Return, CountOut, Goto, ShuttingDown
  <2>3. LocksKept'
    BY <1>6 DEF LocksKept, ArgumentsFit, TypeOK, WaitPoints, WakePoints, Wait,
       Wake, NoCall, CheckShutdown, Leave, Return, CountOut, Goto,
       ShuttingDown
  <2>4. BucketExists'
    BY <1>6 DEF BucketExists, ArgumentsFit, TypeOK, Counted, WaitPoints,
       WakePoints, Wait, Wake, NoCall, CheckShutdown, Leave, Return,
       CountOut, Goto, ShuttingDown
  <2>5. WaiterCountExact'
    <3>1. CASE UNCHANGED waiter_count
      <4>1. \A a \in Addrs : Callers(a)' = Callers(a)
        BY <1>6, <3>1 DEF Callers, Counted, TypeOK, ArgumentsFit, WaitPoints,
           WakePoints, Wait, Wake, NoCall, CheckShutdown, Leave,
           Return, CountOut, Goto, ShuttingDown
      <4>2. QED BY <3>1, <4>1 DEF WaiterCountExact, Callers
    <3>2. CASE \E r : Leave(t, r)
      <4>1. \E b \in Addrs : b = call[t].addr /\ t \in Callers(b)
        BY <1>6 DEF ArgumentsFit, Callers, Counted, WaitPoints, WakePoints,
           CheckShutdown
      <4>2. QED BY <3>2, <4>1, CountedOut
    <3>3. QED
      BY <1>6, <3>1, <3>2 DEF CheckShutdown, KeepMutex
  <2>6. TypeOK'
    <3>1. waiter_count' \in [Addrs -> 0 .. Cardinality(Threads)]
      <4>1. waiter_count' = [a \in Addrs |-> waiter_count'[a]]
        BY <1>6 DEF TypeOK, CheckShutdown, Leave, CountOut, Return
      <4>2. QED BY <2>5, <4>1, CountInRange
    <3>2. call' \in [Threads -> {NoCall}
                   \cup {Wait(a, e, m) : a \in Addrs, e \in Values, m \in WaitModes}
                   \cup {Wake(a, all) : a \in Addrs, all \in WakeModes}]
      BY <1>6 DEF TypeOK, CheckShutdown, Leave, CountOut, Return
    <3>3. lock' \in [Addrs \cup {Table} -> Threads \cup {Main, Free}]
      BY <1>6 DEF TypeOK, CheckShutdown, Leave, CountOut, Return
    <3>4. /\ pc' \in [Threads -> {"idle"} \cup WaitPoints \cup WakePoints]
          /\ result' \in [Threads -> Results \cup {"none"}]
      BY <1>6 DEF TypeOK, CheckShutdown, Leave, CountOut, Return, Goto, WaitPoints, Results,
         kGuestAddrWaitSuccess, kGuestAddrWaitTimedOut, kGuestAddrWaitError
    <3>5. UNCHANGED <<value, table, buckets, calls, visit>>
      BY <1>6 DEF CheckShutdown
    <3>6. QED BY <3>1, <3>2, <3>3, <3>4, <3>5 DEF TypeOK
  <2>7. ShutdownAhead'
    BY <1>6 DEF ShutdownAhead, BucketExists, ArgumentsFit,
       TypeOK, Counted, WaitPoints, WakePoints, CheckShutdown, Leave,
       Return, CountOut, Goto, ShuttingDown
  <2>8. WakeAhead'
    BY <1>6 DEF WakeAhead, BucketExists, LocksKept, ArgumentsFit, TypeOK,
       Counted, WaitPoints, WakePoints, Wait, Wake, NoCall,
       CheckShutdown, Leave, Return, CountOut, Goto, ShuttingDown
  <2>9. QED BY <2>1, <2>2, <2>3, <2>4, <2>5, <2>6, <2>7, <2>8
<1>7. ASSUME NEW t \in Threads, Relock(t) PROVE IInv'
  <2>1. ArgumentsFit'
    BY <1>7 DEF ArgumentsFit, TypeOK, WaitPoints, WakePoints, Wait, Wake,
       NoCall, Relock, Leave, Return, CountOut, Goto
  <2>2. ModesFit'
    BY <1>7 DEF ModesFit, TypeOK, Counted, Wait, Wake, NoCall, Relock, Leave,
       Return, CountOut, Goto
  <2>3. LocksKept'
    BY <1>7 DEF LocksKept, ArgumentsFit, TypeOK, WaitPoints, WakePoints, Wait,
       Wake, NoCall, Relock, Leave, Return, CountOut, Goto
  <2>4. BucketExists'
    BY <1>7 DEF BucketExists, ArgumentsFit, TypeOK, Counted, WaitPoints,
       WakePoints, Wait, Wake, NoCall, Relock, Leave, Return, CountOut, Goto
  <2>5. WaiterCountExact'
    <3>1. CASE UNCHANGED waiter_count
      <4>1. \A a \in Addrs : Callers(a)' = Callers(a)
        BY <1>7, <3>1 DEF Callers, Counted, TypeOK, ArgumentsFit, WaitPoints,
           WakePoints, Wait, Wake, NoCall, Relock, Leave, Return, CountOut,
           Goto
      <4>2. QED BY <3>1, <4>1 DEF WaiterCountExact, Callers
    <3>2. CASE \E r : Leave(t, r)
      <4>1. \E b \in Addrs : b = call[t].addr /\ t \in Callers(b)
        BY <1>7 DEF ArgumentsFit, Callers, Counted, WaitPoints, WakePoints,
           Relock
      <4>2. QED BY <3>2, <4>1, CountedOut
    <3>3. QED
      BY <1>7, <3>1, <3>2 DEF Relock, KeepMutex
  <2>6. TypeOK'
    <3>1. waiter_count' \in [Addrs -> 0 .. Cardinality(Threads)]
      <4>1. waiter_count' = [a \in Addrs |-> waiter_count'[a]]
        BY <1>7 DEF TypeOK, Relock, Leave, CountOut, Return
      <4>2. QED BY <2>5, <4>1, CountInRange
    <3>2. call' \in [Threads -> {NoCall}
                   \cup {Wait(a, e, m) : a \in Addrs, e \in Values, m \in WaitModes}
                   \cup {Wake(a, all) : a \in Addrs, all \in WakeModes}]
      BY <1>7 DEF TypeOK, Relock, Leave, CountOut, Return
    <3>3. lock' \in [Addrs \cup {Table} -> Threads \cup {Main, Free}]
      BY <1>7 DEF TypeOK, Relock, Leave, CountOut, Return
    <3>4. /\ pc' \in [Threads -> {"idle"} \cup WaitPoints \cup WakePoints]
          /\ result' \in [Threads -> Results \cup {"none"}]
      BY <1>7 DEF TypeOK, Relock, Leave, CountOut, Return, Goto, WaitPoints, Results,
         kGuestAddrWaitSuccess, kGuestAddrWaitTimedOut, kGuestAddrWaitError
    <3>5. UNCHANGED <<value, table, buckets, calls, visit>>
      BY <1>7 DEF Relock
    <3>6. QED BY <3>1, <3>2, <3>3, <3>4, <3>5 DEF TypeOK
  <2>7. ShutdownAhead'
    BY <1>7 DEF ShutdownAhead, BucketExists, ArgumentsFit,
       TypeOK, Counted, WaitPoints, WakePoints, Relock, Leave, Return,
       CountOut, Goto
  <2>8. WakeAhead'
    <3>1. /\ pc'[t] \in {"loop", "idle"} /\ pc[t] \in {"woken", "expired"}
          /\ UNCHANGED value
          /\ \A u \in Threads \ {t} : pc'[u] = pc[u] /\ call'[u] = call[u]
      BY <1>7 DEF TypeOK, Relock, Leave, Return, CountOut, Goto
    <3>2. ASSUME WakeModes = {TRUE}, NEW u \in Threads,
                 pc'[u] \in {"check", "block", "blocked"},
                 value'[call'[u].addr] # call'[u].expected
          PROVE  \E w \in Threads : pc'[w] \in WakePoints /\ call'[w].addr = call'[u].addr
      <4>1. PICK w \in Threads : pc[w] \in WakePoints /\ call[w].addr = call[u].addr
        BY <3>1, <3>2 DEF WakeAhead
      <4>2. u # t /\ w # t
        BY <3>1, <3>2, <4>1 DEF WakePoints
      <4>3. QED BY <3>1, <4>1, <4>2
    <3>3. QED BY <3>2 DEF WakeAhead
  <2>9. QED BY <2>1, <2>2, <2>3, <2>4, <2>5, <2>6, <2>7, <2>8
<1>8. ASSUME NEW t \in Threads, Timeout(t) PROVE IInv'
  <2>1. ArgumentsFit'
    BY <1>8 DEF ArgumentsFit, TypeOK, WaitPoints, WakePoints, Wait, Wake,
       NoCall, Timeout, Goto, HasDeadline
  <2>2. ModesFit'
    BY <1>8 DEF ModesFit, TypeOK, Counted, Wait, Wake, NoCall, Timeout, Goto,
       HasDeadline
  <2>3. LocksKept'
    BY <1>8 DEF LocksKept, ArgumentsFit, TypeOK, WaitPoints, WakePoints, Wait,
       Wake, NoCall, Timeout, Goto, HasDeadline
  <2>4. BucketExists'
    BY <1>8 DEF BucketExists, ArgumentsFit, TypeOK, Counted, WaitPoints,
       WakePoints, Wait, Wake, NoCall, Timeout, Goto, HasDeadline
  <2>5. WaiterCountExact'
    <3>1. \A a \in Addrs : Callers(a)' = Callers(a)
      BY <1>8 DEF Callers, Counted, TypeOK, ArgumentsFit, WaitPoints,
         WakePoints, Wait, Wake, NoCall, Timeout, Goto, HasDeadline
    <3>2. UNCHANGED waiter_count
      BY <1>8 DEF Timeout, Goto, HasDeadline
    <3>3. QED BY <3>1, <3>2 DEF WaiterCountExact, Callers
  <2>6. TypeOK'
    BY <1>8 DEF TypeOK, ArgumentsFit, WaitPoints, WakePoints, Wait, Wake,
       NoCall, Results, kGuestAddrWaitSuccess, kGuestAddrWaitTimedOut,
       kGuestAddrWaitError, Timeout, Goto, HasDeadline
  <2>7. ShutdownAhead'
    BY <1>8 DEF ShutdownAhead, BucketExists, ArgumentsFit,
       TypeOK, Counted, WaitPoints, WakePoints, Timeout, Goto, HasDeadline
  <2>8. WakeAhead'
    BY <1>8 DEF WakeAhead, BucketExists, LocksKept, ArgumentsFit, TypeOK,
       Counted, WaitPoints, WakePoints, Wait, Wake, NoCall, Timeout, Goto,
       HasDeadline
  <2>9. QED BY <2>1, <2>2, <2>3, <2>4, <2>5, <2>6, <2>7, <2>8
<1>9. ASSUME NEW t \in Threads, SpuriousWakeup(t) PROVE IInv'
  <2>1. ArgumentsFit'
    BY <1>9 DEF ArgumentsFit, TypeOK, WaitPoints, WakePoints, Wait, Wake,
       NoCall, SpuriousWakeup, Goto
  <2>2. ModesFit'
    BY <1>9 DEF ModesFit, TypeOK, Counted, Wait, Wake, NoCall, SpuriousWakeup,
       Goto
  <2>3. LocksKept'
    BY <1>9 DEF LocksKept, ArgumentsFit, TypeOK, WaitPoints, WakePoints, Wait,
       Wake, NoCall, SpuriousWakeup, Goto
  <2>4. BucketExists'
    BY <1>9 DEF BucketExists, ArgumentsFit, TypeOK, Counted, WaitPoints,
       WakePoints, Wait, Wake, NoCall, SpuriousWakeup, Goto
  <2>5. WaiterCountExact'
    <3>1. \A a \in Addrs : Callers(a)' = Callers(a)
      BY <1>9 DEF Callers, Counted, TypeOK, ArgumentsFit, WaitPoints,
         WakePoints, Wait, Wake, NoCall, SpuriousWakeup, Goto
    <3>2. UNCHANGED waiter_count
      BY <1>9 DEF SpuriousWakeup, Goto
    <3>3. QED BY <3>1, <3>2 DEF WaiterCountExact, Callers
  <2>6. TypeOK'
    BY <1>9 DEF TypeOK, ArgumentsFit, WaitPoints, WakePoints, Wait, Wake,
       NoCall, Results, kGuestAddrWaitSuccess, kGuestAddrWaitTimedOut,
       kGuestAddrWaitError, SpuriousWakeup, Goto
  <2>7. ShutdownAhead'
    BY <1>9 DEF ShutdownAhead, BucketExists, ArgumentsFit,
       TypeOK, Counted, WaitPoints, WakePoints, SpuriousWakeup, Goto
  <2>8. WakeAhead'
    BY <1>9 DEF WakeAhead, BucketExists, LocksKept, ArgumentsFit, TypeOK,
       Counted, WaitPoints, WakePoints, Wait, Wake, NoCall, SpuriousWakeup,
       Goto
  <2>9. QED BY <2>1, <2>2, <2>3, <2>4, <2>5, <2>6, <2>7, <2>8
<1>10. ASSUME NEW t \in Threads, FindBucket(t) PROVE IInv'
  <2>1. ArgumentsFit'
    BY <1>10 DEF ArgumentsFit, TypeOK, WaitPoints, WakePoints, Wait, Wake,
       NoCall, FindBucket, Done, Goto
  <2>2. ModesFit'
    BY <1>10 DEF ModesFit, TypeOK, Counted, Wait, Wake, NoCall, FindBucket,
       Done, Goto
  <2>3. LocksKept'
    BY <1>10 DEF LocksKept, ArgumentsFit, TypeOK, WaitPoints, WakePoints,
       Wait, Wake, NoCall, FindBucket, Done, Goto
  <2>4. BucketExists'
    BY <1>10 DEF BucketExists, ArgumentsFit, TypeOK, Counted, WaitPoints,
       WakePoints, Wait, Wake, NoCall, FindBucket, Done, Goto
  <2>5. WaiterCountExact'
    <3>1. \A a \in Addrs : Callers(a)' = Callers(a)
      BY <1>10 DEF Callers, Counted, TypeOK, ArgumentsFit, WaitPoints,
         WakePoints, Wait, Wake, NoCall, FindBucket, Done, Goto
    <3>2. UNCHANGED waiter_count
      BY <1>10 DEF FindBucket, Done, Goto
    <3>3. QED BY <3>1, <3>2 DEF WaiterCountExact, Callers
  <2>6. TypeOK'
    BY <1>10 DEF TypeOK, ArgumentsFit, WaitPoints, WakePoints, Wait, Wake,
       NoCall, Results, kGuestAddrWaitSuccess, kGuestAddrWaitTimedOut,
       kGuestAddrWaitError, FindBucket, Done, Goto
  <2>7. ShutdownAhead'
    BY <1>10 DEF ShutdownAhead, BucketExists, ArgumentsFit,
       TypeOK, Counted, WaitPoints, WakePoints, FindBucket, Done, Goto
  <2>8. WakeAhead'
    BY <1>10 DEF WakeAhead, BucketExists, LocksKept, ArgumentsFit, TypeOK,
       Counted, WaitPoints, WakePoints, Wait, Wake, NoCall, FindBucket, Done,
       Goto
  <2>9. QED BY <2>1, <2>2, <2>3, <2>4, <2>5, <2>6, <2>7, <2>8
<1>11. ASSUME NEW t \in Threads, SignalBucket(t) PROVE IInv'
  <2>1. ArgumentsFit'
    BY <1>11 DEF ArgumentsFit, TypeOK, WaitPoints, WakePoints, Wait, Wake,
       NoCall, SignalBucket, Picked, BlockedOn
  <2>2. ModesFit'
    BY <1>11 DEF ModesFit, TypeOK, Counted, Wait, Wake, NoCall, SignalBucket,
       Picked, BlockedOn
  <2>3. LocksKept'
    BY <1>11 DEF LocksKept, ArgumentsFit, TypeOK, WaitPoints, WakePoints,
       Wait, Wake, NoCall, SignalBucket, Picked, BlockedOn
  <2>4. BucketExists'
    BY <1>11 DEF BucketExists, ArgumentsFit, TypeOK, Counted, WaitPoints,
       WakePoints, Wait, Wake, NoCall, SignalBucket, Picked, BlockedOn
  <2>5. WaiterCountExact'
    <3>1. \A a \in Addrs : Callers(a)' = Callers(a)
      BY <1>11 DEF Callers, Counted, TypeOK, ArgumentsFit, WaitPoints,
         WakePoints, Wait, Wake, NoCall, SignalBucket, Picked, BlockedOn
    <3>2. UNCHANGED waiter_count
      BY <1>11 DEF SignalBucket, Picked, BlockedOn
    <3>3. QED BY <3>1, <3>2 DEF WaiterCountExact, Callers
  <2>6. TypeOK'
    BY <1>11 DEF TypeOK, ArgumentsFit, WaitPoints, WakePoints, Wait, Wake,
       NoCall, Results, kGuestAddrWaitSuccess, kGuestAddrWaitTimedOut,
       kGuestAddrWaitError, SignalBucket, Picked, BlockedOn
  <2>7. ShutdownAhead'
    BY <1>11 DEF ShutdownAhead, BucketExists, ArgumentsFit,
       TypeOK, Counted, WaitPoints, WakePoints, SignalBucket, Picked,
       BlockedOn
  <2>8. WakeAhead'
    <3> SUFFICES ASSUME WakeModes = {TRUE}, NEW u \in Threads,
                        pc'[u] \in {"check", "block", "blocked"},
                        value'[call'[u].addr] # call'[u].expected
                 PROVE  \E w \in Threads : /\ pc'[w] \in WakePoints
                                             /\ call'[w].addr = call'[u].addr
      BY DEF WakeAhead
    <3>1. call[t].wake_all = TRUE
      BY <1>11 DEF SignalBucket, ArgumentsFit, WakePoints
    <3>2. \A v \in Threads :
             pc'[v] = IF v \in BlockedOn(call[t].addr) THEN "woken"
                      ELSE IF v = t THEN "idle" ELSE pc[v]
      BY <1>11, <3>1 DEF SignalBucket, Picked
    <3>3. /\ pc[t] = "signal" /\ lock[call[t].addr] = Free /\ UNCHANGED value
          /\ \A v \in Threads \ {t} : call'[v] = call[v]
      BY <1>11 DEF SignalBucket, TypeOK
    <3>4. u # t /\ pc[u] = pc'[u] /\ call[u] = call'[u]
      BY <3>2, <3>3
    <3>5. call[u].addr # call[t].addr
      BY <3>2, <3>3, <3>4 DEF BlockedOn, LocksKept
    <3>6. PICK w \in Threads : pc[w] \in WakePoints /\ call[w].addr = call[u].addr
      BY <3>3, <3>4 DEF WakeAhead
    <3>7. w # t /\ pc'[w] = pc[w] /\ call'[w] = call[w]
      BY <3>2, <3>3, <3>4, <3>5, <3>6 DEF BlockedOn, WakePoints
    <3>8. QED BY <3>4, <3>6, <3>7
  <2>9. QED BY <2>1, <2>2, <2>3, <2>4, <2>5, <2>6, <2>7, <2>8
<1>12. ASSUME ShutdownBegin PROVE IInv'
  <2>1. ArgumentsFit'
    BY <1>12 DEF ArgumentsFit, TypeOK, WaitPoints, WakePoints, Wait, Wake,
       NoCall, ShutdownBegin
  <2>2. ModesFit'
    BY <1>12 DEF ModesFit, TypeOK, Counted, Wait, Wake, NoCall, ShutdownBegin
  <2>3. LocksKept'
    BY <1>12 DEF LocksKept, ArgumentsFit, TypeOK, WaitPoints, WakePoints,
       Wait, Wake, NoCall, ShutdownBegin
  <2>4. BucketExists'
    BY <1>12 DEF BucketExists, ArgumentsFit, TypeOK, Counted, WaitPoints,
       WakePoints, Wait, Wake, NoCall, ShutdownBegin
  <2>5. WaiterCountExact'
    <3>1. \A a \in Addrs : Callers(a)' = Callers(a)
      BY <1>12 DEF Callers, Counted, TypeOK, ArgumentsFit, WaitPoints,
         WakePoints, Wait, Wake, NoCall, ShutdownBegin
    <3>2. UNCHANGED waiter_count
      BY <1>12 DEF ShutdownBegin
    <3>3. QED BY <3>1, <3>2 DEF WaiterCountExact, Callers
  <2>6. TypeOK'
    <3>1. table' \in [initialized : BOOLEAN, shutting_down : BOOLEAN]
      <4>1. PICK i \in BOOLEAN, s \in BOOLEAN :
                  table = [initialized |-> i, shutting_down |-> s]
        BY DEF TypeOK
      <4>2. table' = [initialized |-> i, shutting_down |-> TRUE]
        BY <1>12, <4>1 DEF ShutdownBegin
      <4>3. QED BY <4>1, <4>2
    <3>2. lock' \in [Addrs \cup {Table} -> Threads \cup {Main, Free}]
      BY <1>12 DEF TypeOK, ShutdownBegin
    <3>3. QED BY <1>12, <3>1, <3>2 DEF TypeOK, ShutdownBegin
  <2>7. ShutdownAhead'
    BY <1>12 DEF ShutdownAhead, BucketExists, ArgumentsFit,
       TypeOK, Counted, WaitPoints, WakePoints, ShutdownBegin
  <2>8. WakeAhead'
    BY <1>12 DEF WakeAhead, BucketExists, LocksKept, ArgumentsFit, TypeOK,
       Counted, WaitPoints, WakePoints, Wait, Wake, NoCall, ShutdownBegin
  <2>9. QED BY <2>1, <2>2, <2>3, <2>4, <2>5, <2>6, <2>7, <2>8
<1>13. ASSUME ShutdownBroadcast PROVE IInv'
  <2>1. ArgumentsFit'
    BY <1>13 DEF ArgumentsFit, TypeOK, WaitPoints, WakePoints, Wait, Wake,
       NoCall, ShutdownBroadcast, WokenByShutdown, BlockedOn
  <2>2. ModesFit'
    BY <1>13 DEF ModesFit, TypeOK, Counted, Wait, Wake, NoCall,
       ShutdownBroadcast, WokenByShutdown, BlockedOn
  <2>3. LocksKept'
    BY <1>13 DEF LocksKept, ArgumentsFit, TypeOK, WaitPoints, WakePoints,
       Wait, Wake, NoCall, ShutdownBroadcast, WokenByShutdown, BlockedOn
  <2>4. BucketExists'
    BY <1>13 DEF BucketExists, ArgumentsFit, TypeOK, Counted, WaitPoints,
       WakePoints, Wait, Wake, NoCall, ShutdownBroadcast, WokenByShutdown,
       BlockedOn
  <2>5. WaiterCountExact'
    <3>1. \A a \in Addrs : Callers(a)' = Callers(a)
      BY <1>13 DEF Callers, Counted, TypeOK, ArgumentsFit, WaitPoints,
         WakePoints, Wait, Wake, NoCall, ShutdownBroadcast, WokenByShutdown,
         BlockedOn
    <3>2. UNCHANGED waiter_count
      BY <1>13 DEF ShutdownBroadcast, WokenByShutdown, BlockedOn
    <3>3. QED BY <3>1, <3>2 DEF WaiterCountExact, Callers
  <2>6. TypeOK'
    BY <1>13 DEF TypeOK, ArgumentsFit, WaitPoints, WakePoints, Wait, Wake,
       NoCall, Results, kGuestAddrWaitSuccess, kGuestAddrWaitTimedOut,
       kGuestAddrWaitError, ShutdownBroadcast, WokenByShutdown, BlockedOn
  <2>7. ShutdownAhead'
    <3>1. PICK a \in visit :
             /\ lock[a] = Free /\ visit' = visit \ {a}
             /\ pc' = [u \in Threads |-> IF u \in BlockedOn(a) THEN "woken" ELSE pc[u]]
      BY <1>13 DEF ShutdownBroadcast, WokenByShutdown, MutexTaken
    <3>2. ASSUME NEW u \in Threads, pc'[u] \in {"block", "blocked"}
          PROVE  pc[u] = pc'[u] /\ call[u].addr # a
      BY <3>1, <3>2 DEF BlockedOn, LocksKept
    <3>3. UNCHANGED <<table, call>>
      BY <1>13 DEF ShutdownBroadcast
    <3>4. QED BY <3>1, <3>2, <3>3 DEF ShutdownAhead
  <2>8. WakeAhead'
    BY <1>13 DEF WakeAhead, BucketExists, LocksKept, ArgumentsFit, TypeOK,
       Counted, WaitPoints, WakePoints, Wait, Wake, NoCall, ShutdownBroadcast,
       WokenByShutdown, BlockedOn
  <2>9. QED BY <2>1, <2>2, <2>3, <2>4, <2>5, <2>6, <2>7, <2>8
<1>14. ASSUME ShutdownEnd PROVE IInv'
  <2>1. ArgumentsFit'
    BY <1>14 DEF ArgumentsFit, TypeOK, WaitPoints, WakePoints, Wait, Wake,
       NoCall, ShutdownEnd
  <2>2. ModesFit'
    BY <1>14 DEF ModesFit, TypeOK, Counted, Wait, Wake, NoCall, ShutdownEnd
  <2>3. LocksKept'
    BY <1>14 DEF LocksKept, ArgumentsFit, TypeOK, WaitPoints, WakePoints,
       Wait, Wake, NoCall, ShutdownEnd
  <2>4. BucketExists'
    BY <1>14 DEF BucketExists, ArgumentsFit, TypeOK, Counted, WaitPoints,
       WakePoints, Wait, Wake, NoCall, ShutdownEnd
  <2>5. WaiterCountExact'
    <3>1. \A a \in Addrs : Callers(a)' = Callers(a)
      BY <1>14 DEF Callers, Counted, TypeOK, ArgumentsFit, WaitPoints,
         WakePoints, Wait, Wake, NoCall, ShutdownEnd
    <3>2. UNCHANGED waiter_count
      BY <1>14 DEF ShutdownEnd
    <3>3. QED BY <3>1, <3>2 DEF WaiterCountExact, Callers
  <2>6. TypeOK'
    BY <1>14 DEF TypeOK, ArgumentsFit, WaitPoints, WakePoints, Wait, Wake,
       NoCall, Results, kGuestAddrWaitSuccess, kGuestAddrWaitTimedOut,
       kGuestAddrWaitError, ShutdownEnd
  <2>7. ShutdownAhead'
    BY <1>14 DEF ShutdownAhead, BucketExists, ArgumentsFit,
       TypeOK, Counted, WaitPoints, WakePoints, ShutdownEnd
  <2>8. WakeAhead'
    BY <1>14 DEF WakeAhead, BucketExists, LocksKept, ArgumentsFit, TypeOK,
       Counted, WaitPoints, WakePoints, Wait, Wake, NoCall, ShutdownEnd
  <2>9. QED BY <2>1, <2>2, <2>3, <2>4, <2>5, <2>6, <2>7, <2>8
<1>15. ASSUME Destruct PROVE IInv'
  <2>1. ArgumentsFit'
    BY <1>15 DEF ArgumentsFit, TypeOK, WaitPoints, WakePoints, Wait, Wake,
       NoCall, Destruct
  <2>2. ModesFit'
    BY <1>15 DEF ModesFit, TypeOK, Counted, Wait, Wake, NoCall, Destruct
  <2>3. LocksKept'
    BY <1>15 DEF LocksKept, ArgumentsFit, TypeOK, WaitPoints, WakePoints,
       Wait, Wake, NoCall, Destruct
  <2>4. BucketExists'
    BY <1>15 DEF BucketExists, ArgumentsFit, TypeOK, Counted, WaitPoints,
       WakePoints, Wait, Wake, NoCall, Destruct
  <2>5. WaiterCountExact'
    <3>1. \A a \in Addrs : Callers(a)' = Callers(a)
      BY <1>15 DEF Callers, Counted, TypeOK, ArgumentsFit, WaitPoints,
         WakePoints, Wait, Wake, NoCall, Destruct
    <3>2. UNCHANGED waiter_count
      BY <1>15 DEF Destruct
    <3>3. QED BY <3>1, <3>2 DEF WaiterCountExact, Callers
  <2>6. TypeOK'
    <3>1. table' \in [initialized : BOOLEAN, shutting_down : BOOLEAN]
      <4>1. PICK i \in BOOLEAN, s \in BOOLEAN :
                  table = [initialized |-> i, shutting_down |-> s]
        BY DEF TypeOK
      <4>2. table' = [initialized |-> FALSE, shutting_down |-> s]
        BY <1>15, <4>1 DEF Destruct
      <4>3. QED BY <4>1, <4>2
    <3>2. QED BY <1>15, <3>1 DEF TypeOK, Destruct
  <2>7. ShutdownAhead'
    BY <1>15 DEF ShutdownAhead, BucketExists, ArgumentsFit,
       TypeOK, Counted, WaitPoints, WakePoints, Destruct
  <2>8. WakeAhead'
    BY <1>15 DEF WakeAhead, BucketExists, LocksKept, ArgumentsFit, TypeOK,
       Counted, WaitPoints, WakePoints, Wait, Wake, NoCall, Destruct
  <2>9. QED BY <2>1, <2>2, <2>3, <2>4, <2>5, <2>6, <2>7, <2>8
<1>16. CASE UNCHANGED vars
  <2>1. TypeOK' /\ WaiterCountExact'
    BY <1>16 DEF vars, TypeOK, WaiterCountExact
  <2>2. ArgumentsFit' /\ LocksKept' /\ BucketExists' /\ ModesFit'
    BY <1>16 DEF vars, ArgumentsFit, LocksKept, BucketExists, ModesFit
  <2>3. ShutdownAhead' /\ WakeAhead'
    BY <1>16 DEF vars, ShutdownAhead, WakeAhead
  <2>4. QED BY <2>1, <2>2, <2>3
<1>17. ASSUME NEW t \in Threads, Block(t) PROVE IInv'
  <2>1. ArgumentsFit'
    BY <1>17 DEF ArgumentsFit, TypeOK, WaitPoints, WakePoints, Wait, Wake,
       NoCall, Block, Leave, Return, CountOut, Goto
  <2>2. ModesFit'
    BY <1>17 DEF ModesFit, TypeOK, Counted, Wait, Wake, NoCall,
       Block, Leave, Return, CountOut, Goto
  <2>3. LocksKept'
    BY <1>17 DEF LocksKept, ArgumentsFit, TypeOK, WaitPoints, WakePoints, Wait,
       Wake, NoCall, Block, Leave, Return, CountOut, Goto
  <2>4. BucketExists'
    BY <1>17 DEF BucketExists, ArgumentsFit, TypeOK, Counted, WaitPoints,
       WakePoints, Wait, Wake, NoCall, Block, Leave, Return,
       CountOut, Goto
  <2>5. WaiterCountExact'
    <3>1. CASE UNCHANGED waiter_count
      <4>1. \A a \in Addrs : Callers(a)' = Callers(a)
        BY <1>17, <3>1 DEF Callers, Counted, TypeOK, ArgumentsFit, WaitPoints,
           WakePoints, Wait, Wake, NoCall, Block, Leave,
           Return, CountOut, Goto
      <4>2. QED BY <3>1, <4>1 DEF WaiterCountExact, Callers
    <3>2. CASE \E r : Leave(t, r)
      <4>1. \E b \in Addrs : b = call[t].addr /\ t \in Callers(b)
        BY <1>17 DEF ArgumentsFit, Callers, Counted, WaitPoints, WakePoints,
           Block
      <4>2. QED BY <3>2, <4>1, CountedOut
    <3>3. QED
      BY <1>17, <3>1, <3>2 DEF Block, KeepMutex
  <2>6. TypeOK'
    <3>1. waiter_count' \in [Addrs -> 0 .. Cardinality(Threads)]
      <4>1. waiter_count' = [a \in Addrs |-> waiter_count'[a]]
        BY <1>17 DEF TypeOK, Block, Leave, CountOut, Return
      <4>2. QED BY <2>5, <4>1, CountInRange
    <3>2. call' \in [Threads -> {NoCall}
                   \cup {Wait(a, e, m) : a \in Addrs, e \in Values, m \in WaitModes}
                   \cup {Wake(a, all) : a \in Addrs, all \in WakeModes}]
      BY <1>17 DEF TypeOK, Block, Leave, CountOut, Return
    <3>3. lock' \in [Addrs \cup {Table} -> Threads \cup {Main, Free}]
      BY <1>17 DEF TypeOK, Block, Leave, CountOut, Return
    <3>4. /\ pc' \in [Threads -> {"idle"} \cup WaitPoints \cup WakePoints]
          /\ result' \in [Threads -> Results \cup {"none"}]
      BY <1>17 DEF TypeOK, Block, Leave, CountOut, Return, Goto, WaitPoints, Results,
         kGuestAddrWaitSuccess, kGuestAddrWaitTimedOut, kGuestAddrWaitError
    <3>5. UNCHANGED <<value, table, buckets, calls, visit>>
      BY <1>17 DEF Block
    <3>6. QED BY <3>1, <3>2, <3>3, <3>4, <3>5 DEF TypeOK
  <2>7. ShutdownAhead'
    BY <1>17 DEF ShutdownAhead, BucketExists, ArgumentsFit,
       TypeOK, Counted, WaitPoints, WakePoints, Block, Leave,
       Return, CountOut, Goto
  <2>8. WakeAhead'
    BY <1>17 DEF WakeAhead, BucketExists, LocksKept, ArgumentsFit, TypeOK,
       Counted, WaitPoints, WakePoints, Wait, Wake, NoCall,
       Block, Leave, Return, CountOut, Goto
  <2>9. QED BY <2>1, <2>2, <2>3, <2>4, <2>5, <2>6, <2>7, <2>8
<1>18. QED
  BY <1>1, <1>2, <1>3, <1>4, <1>5, <1>6, <1>7, <1>8, <1>9, <1>10, <1>11,
     <1>12, <1>13, <1>14, <1>15, <1>16, <1>17 DEF Next, WaitStep, WakeStep,
     ShutdownStep, Terminated

\* The invariant always holds.
LEMMA AlwaysIInv == Spec => []IInv
  BY InitIInv, NextIInv, PTL DEF Spec

\* The table, the locks and every call in progress keep their types.
THEOREM TypeCorrect == Spec => []TypeOK
<1>1. IInv => TypeOK
  BY DEF IInv
<1>2. QED BY <1>1, AlwaysIInv, PTL

\* waiter_count is exact for any number of callers, so GuestAddrWake never
\* skips a signal somebody needs.
THEOREM CountExact == Spec => []WaiterCountExact
<1>1. IInv => WaiterCountExact
  BY DEF IInv
<1>2. QED BY <1>1, AlwaysIInv, PTL

\* Where every wake is a wake_all, whoever is blocked on a changed word has a
\* wake ahead, although stores take no lock.
THEOREM ChangeFollowed ==
  ASSUME WakeModes = {TRUE} PROVE Spec => []ChangeIsFollowedByWake
<1>1. IInv => ChangeIsFollowedByWake
  BY WakeModes = {TRUE} DEF IInv, WakeAhead, ChangeIsFollowedByWake, Eligible, BlockedOn
<1>2. QED BY <1>1, AlwaysIInv, PTL

\* Shutdown leaves nobody blocked behind the broadcasts it has made, not even
\* a caller that had read shutting_down as clear when they began.
THEOREM ShutdownReaches == Spec => []ShutdownReachesEveryWaiter
<1>1. IInv => ShutdownReachesEveryWaiter
  BY DEF IInv, ShutdownAhead, ShutdownReachesEveryWaiter
<1>2. QED BY <1>1, AlwaysIInv, PTL

-----------------------------------------------------------------------------
\* A success is only given for a word that was seen not to hold the expected
\* value, and a caller that passed -1 never reports a timeout.
Justified(t) ==
    /\ pc[t] \in WaitPoints /\ pc'[t] = "idle" /\ result'[t] = kGuestAddrWaitSuccess
          => value[call[t].addr] # call[t].expected
    /\ pc[t] \in WaitPoints /\ pc'[t] = "idle" /\ result'[t] = kGuestAddrWaitTimedOut
          => call[t].mode # "forever"

\* Every way out of a call gives a justified result.
LEMMA StepJustified == IInv /\ [Next]_vars => \A t \in Threads : Justified(t)
<1> SUFFICES ASSUME IInv, [Next]_vars, NEW t \in Threads,
                    pc[t] \in WaitPoints, pc'[t] = "idle"
             PROVE  /\ result'[t] = kGuestAddrWaitSuccess =>
                          value[call[t].addr] # call[t].expected
                    /\ result'[t] = kGuestAddrWaitTimedOut => call[t].mode # "forever"
  BY DEF Justified
<1> USE DEF kGuestAddrWaitSuccess, kGuestAddrWaitTimedOut, kGuestAddrWaitError
<1>1. TypeOK /\ ModesFit
  BY DEF IInv
<1>2. GetBucketCreate(t) \/ EnterBucket(t) \/ Recheck(t) \/ CheckShutdown(t)
      \/ Block(t) \/ Relock(t)
  <2>1. ASSUME NEW u \in Threads \ {t}, WaitStep(u) PROVE FALSE
    BY <1>1, <2>1 DEF TypeOK, WaitPoints, WaitStep, GetBucketCreate, EnterBucket,
       Recheck, CheckShutdown, Block, Relock, Leave, Return, Goto
  <2>2. ASSUME NEW u \in Threads, WakeStep(u) PROVE FALSE
    BY <1>1, <2>2 DEF TypeOK, WaitPoints, WakeStep, FindBucket, SignalBucket, Done, Goto,
       Picked, BlockedOn
  <2>3. ASSUME NEW u \in Threads,
               \/ GuestAddrWait(u) \/ StoreAndWake(u) \/ Timeout(u) \/ SpuriousWakeup(u)
        PROVE  FALSE
    BY <1>1, <2>3 DEF TypeOK, WaitPoints, GuestAddrWait, StoreAndWake, Timeout,
       SpuriousWakeup, Begin, Goto
  <2>4. ASSUME \/ ShutdownBegin \/ ShutdownStep \/ Destruct \/ UNCHANGED vars
        PROVE  FALSE
    BY <1>1, <2>4 DEF TypeOK, WaitPoints, ShutdownBegin, ShutdownStep,
       ShutdownBroadcast, ShutdownEnd, Destruct, vars
  <2>5. QED BY <2>1, <2>2, <2>3, <2>4 DEF Next, WaitStep, Terminated
<1>3. CASE GetBucketCreate(t)
  BY <1>1, <1>3 DEF GetBucketCreate, Return, Goto, TypeOK
<1>4. CASE EnterBucket(t)
  <2>1. /\ ReadValueMatches(t).matches = (value[call[t].addr] = call[t].expected)
    BY DEF ReadValueMatches
  <2>2. result'[t] = "success" => ~ReadValueMatches(t).matches
    BY <1>1, <1>4 DEF EnterBucket, Return, Goto, TypeOK
  <2>3. result'[t] = "timedout" => call[t].mode # "forever"
    BY <1>1, <1>4 DEF EnterBucket, Return, Goto, TypeOK
  <2>4. QED BY <2>1, <2>2, <2>3
<1>5. CASE Recheck(t)
  <2>1. /\ ReadValueMatches(t).matches = (value[call[t].addr] = call[t].expected)
    BY DEF ReadValueMatches
  <2>2. result'[t] = "success" => ~ReadValueMatches(t).matches
    BY <1>1, <1>5 DEF Recheck, Leave, Return, Goto, TypeOK
  <2>3. result'[t] # "timedout"
    BY <1>1, <1>5 DEF Recheck, Leave, Return, Goto, TypeOK
  <2>4. QED BY <2>1, <2>2, <2>3
<1>6. CASE CheckShutdown(t) \/ Block(t)
  BY <1>1, <1>6 DEF CheckShutdown, Block, Leave, Return, Goto, TypeOK
<1>7. CASE Relock(t)
  BY <1>1, <1>7 DEF Relock, Leave, Return, Goto, TypeOK, ModesFit
<1>8. QED BY <1>2, <1>3, <1>4, <1>5, <1>6, <1>7

\* Every result GuestAddrWait gives was justified when it was given.
THEOREM ResultsAreJustified == Spec => ResultsJustified
<1>1. IInv /\ [Next]_vars => [\A t \in Threads : Justified(t)]_vars
  BY StepJustified
<1>2. QED
  BY <1>1, AlwaysIInv, PTL DEF Spec, ResultsJustified, Justified

-----------------------------------------------------------------------------
\* The refinement: GuestAddrWait implements AddrWait.  An initial state maps to
\* an initial state and every step to a step or a stutter.  A caller counts as
\* blocked from its comparison on, because it holds the bucket's mutex up to the
\* condition wait; the invariant supplies what that rests on.

\* The abstract state of a thread, and what it is at each program point.
LEMMA StateAt == \A t \in Threads : States[t] = StateOf(pc[t])
  BY DEF States

\* Moving one thread moves its abstract state.
LEMMA MoveOne ==
  ASSUME TypeOK, NEW t \in Threads, NEW p, pc' = [pc EXCEPT ![t] = p]
  PROVE  States' = [States EXCEPT ![t] = StateOf(p)]
<1>1. \A u \in Threads : pc'[u] = IF u = t THEN p ELSE pc[u]
  BY DEF TypeOK
<1>2. States' = [u \in Threads |-> StateOf(pc'[u])]
  BY DEF States
<1>3. [States EXCEPT ![t] = StateOf(p)] =
         [u \in Threads |-> IF u = t THEN StateOf(p) ELSE StateOf(pc[u])]
  BY DEF States
<1>4. QED BY <1>1, <1>2, <1>3

\* The mapping, program point by program point.
LEMMA StateValues ==
  /\ StateOf("idle") = "idle" /\ StateOf("get") = "calling"
  /\ StateOf("enter") = "comparing" /\ StateOf("loop") = "comparing"
  /\ StateOf("woken") = "comparing"
  /\ StateOf("check") = "blocked" /\ StateOf("block") = "blocked"
  /\ StateOf("blocked") = "blocked"
  /\ StateOf("expired") = "expired"
  /\ StateOf("find") = "waking" /\ StateOf("signal") = "waking"
  BY DEF StateOf, WakePoints

\* Where a thread stands, and where it gets, seen abstractly.
LEMMA Stands ==
  ASSUME NEW t \in Threads
  PROVE  /\ pc[t] = "get" => States[t] = "calling"
         /\ pc[t] = "enter" => States[t] = "comparing"
         /\ pc[t] = "loop" => States[t] = "comparing"
         /\ pc[t] = "check" => States[t] = "blocked"
         /\ pc[t] = "block" => States[t] = "blocked"
         /\ pc[t] = "blocked" => States[t] = "blocked"
         /\ pc[t] = "woken" => States[t] = "comparing"
         /\ pc[t] = "expired" => States[t] = "expired"
         /\ pc[t] = "find" => States[t] = "waking"
         /\ pc[t] = "signal" => States[t] = "waking"
         /\ pc[t] = "idle" => States[t] = "idle"
  BY StateAt, StateValues

\* A thread that reaches a program point reaches its abstract state.
LEMMA Moves ==
  ASSUME TypeOK, NEW t \in Threads
  PROVE  /\ pc' = [pc EXCEPT ![t] = "get"] => States' = [States EXCEPT ![t] = "calling"]
         /\ pc' = [pc EXCEPT ![t] = "enter"] => States' = [States EXCEPT ![t] = "comparing"]
         /\ pc' = [pc EXCEPT ![t] = "loop"] => States' = [States EXCEPT ![t] = "comparing"]
         /\ pc' = [pc EXCEPT ![t] = "check"] => States' = [States EXCEPT ![t] = "blocked"]
         /\ pc' = [pc EXCEPT ![t] = "block"] => States' = [States EXCEPT ![t] = "blocked"]
         /\ pc' = [pc EXCEPT ![t] = "blocked"] => States' = [States EXCEPT ![t] = "blocked"]
         /\ pc' = [pc EXCEPT ![t] = "woken"] => States' = [States EXCEPT ![t] = "comparing"]
         /\ pc' = [pc EXCEPT ![t] = "expired"] => States' = [States EXCEPT ![t] = "expired"]
         /\ pc' = [pc EXCEPT ![t] = "find"] => States' = [States EXCEPT ![t] = "waking"]
         /\ pc' = [pc EXCEPT ![t] = "signal"] => States' = [States EXCEPT ![t] = "waking"]
         /\ pc' = [pc EXCEPT ![t] = "idle"] => States' = [States EXCEPT ![t] = "idle"]
<1>1. ASSUME pc' = [pc EXCEPT ![t] = "get"]
      PROVE  States' = [States EXCEPT ![t] = "calling"]
  <2>1. States' = [States EXCEPT ![t] = StateOf("get")]
    BY <1>1, MoveOne
  <2>2. StateOf("get") = "calling"
    BY StateValues
  <2>3. QED BY <2>1, <2>2
<1>2. ASSUME pc' = [pc EXCEPT ![t] = "enter"]
      PROVE  States' = [States EXCEPT ![t] = "comparing"]
  <2>1. States' = [States EXCEPT ![t] = StateOf("enter")]
    BY <1>2, MoveOne
  <2>2. StateOf("enter") = "comparing"
    BY StateValues
  <2>3. QED BY <2>1, <2>2
<1>3. ASSUME pc' = [pc EXCEPT ![t] = "loop"]
      PROVE  States' = [States EXCEPT ![t] = "comparing"]
  <2>1. States' = [States EXCEPT ![t] = StateOf("loop")]
    BY <1>3, MoveOne
  <2>2. StateOf("loop") = "comparing"
    BY StateValues
  <2>3. QED BY <2>1, <2>2
<1>4. ASSUME pc' = [pc EXCEPT ![t] = "check"]
      PROVE  States' = [States EXCEPT ![t] = "blocked"]
  <2>1. States' = [States EXCEPT ![t] = StateOf("check")]
    BY <1>4, MoveOne
  <2>2. StateOf("check") = "blocked"
    BY StateValues
  <2>3. QED BY <2>1, <2>2
<1>5. ASSUME pc' = [pc EXCEPT ![t] = "blocked"]
      PROVE  States' = [States EXCEPT ![t] = "blocked"]
  <2>1. States' = [States EXCEPT ![t] = StateOf("blocked")]
    BY <1>5, MoveOne
  <2>2. StateOf("blocked") = "blocked"
    BY StateValues
  <2>3. QED BY <2>1, <2>2
<1>6. ASSUME pc' = [pc EXCEPT ![t] = "woken"]
      PROVE  States' = [States EXCEPT ![t] = "comparing"]
  <2>1. States' = [States EXCEPT ![t] = StateOf("woken")]
    BY <1>6, MoveOne
  <2>2. StateOf("woken") = "comparing"
    BY StateValues
  <2>3. QED BY <2>1, <2>2
<1>7. ASSUME pc' = [pc EXCEPT ![t] = "expired"]
      PROVE  States' = [States EXCEPT ![t] = "expired"]
  <2>1. States' = [States EXCEPT ![t] = StateOf("expired")]
    BY <1>7, MoveOne
  <2>2. StateOf("expired") = "expired"
    BY StateValues
  <2>3. QED BY <2>1, <2>2
<1>8. ASSUME pc' = [pc EXCEPT ![t] = "find"]
      PROVE  States' = [States EXCEPT ![t] = "waking"]
  <2>1. States' = [States EXCEPT ![t] = StateOf("find")]
    BY <1>8, MoveOne
  <2>2. StateOf("find") = "waking"
    BY StateValues
  <2>3. QED BY <2>1, <2>2
<1>9. ASSUME pc' = [pc EXCEPT ![t] = "signal"]
      PROVE  States' = [States EXCEPT ![t] = "waking"]
  <2>1. States' = [States EXCEPT ![t] = StateOf("signal")]
    BY <1>9, MoveOne
  <2>2. StateOf("signal") = "waking"
    BY StateValues
  <2>3. QED BY <2>1, <2>2
<1>10. ASSUME pc' = [pc EXCEPT ![t] = "idle"]
      PROVE  States' = [States EXCEPT ![t] = "idle"]
  <2>1. States' = [States EXCEPT ![t] = StateOf("idle")]
    BY <1>10, MoveOne
  <2>2. StateOf("idle") = "idle"
    BY StateValues
  <2>3. QED BY <2>1, <2>2
<1>11. ASSUME pc' = [pc EXCEPT ![t] = "block"]
      PROVE  States' = [States EXCEPT ![t] = "blocked"]
  <2>1. States' = [States EXCEPT ![t] = StateOf("block")]
    BY <1>11, MoveOne
  <2>2. StateOf("block") = "blocked"
    BY StateValues
  <2>3. QED BY <2>1, <2>2
<1> QED BY <1>1, <1>2, <1>3, <1>4, <1>5, <1>6, <1>7, <1>8, <1>9, <1>10, <1>11

\* A thread that moves within one abstract state.
LEMMA Stays ==
  ASSUME TypeOK, NEW t \in Threads,
         \/ pc[t] \in {"enter", "woken"} /\ Goto(t, "loop")
         \/ pc[t] = "check" /\ Goto(t, "block")
         \/ pc[t] = "block" /\ Goto(t, "blocked")
         \/ pc[t] = "find" /\ Goto(t, "signal")
  PROVE  States' = States
<1>1. States' = [States EXCEPT ![t] = States[t]]
  BY Moves, Stands DEF Goto
<1>2. QED BY <1>1 DEF States

\* Nobody is abstractly blocked but on the way to the condition and in it.
LEMMA BlockedPoints ==
  ASSUME TypeOK, NEW t \in Threads, States[t] = "blocked"
  PROVE  pc[t] \in {"check", "block", "blocked"}
  BY StateValues, StateAt DEF TypeOK, WaitPoints, WakePoints

\* A step or a stutter of the contract.
AbstractStep == Abstract!Next \/ UNCHANGED Abstract!avars

\* Every step of the table is a step of the contract or changes nothing in it.
LEMMA StepImplements == IInv /\ [Next]_vars => AbstractStep
<1> SUFFICES ASSUME IInv, [Next]_vars PROVE AbstractStep
  OBVIOUS
<1> USE DEF kGuestAddrWaitSuccess, kGuestAddrWaitTimedOut, kGuestAddrWaitError
<1>0. TypeOK
  BY DEF IInv
<1>1. ASSUME NEW t \in Threads, GuestAddrWait(t) PROVE AbstractStep
  <2>1. PICK a \in Addrs, e \in Values, m \in WaitModes : Begin(t, Wait(a, e, m), "get")
    BY <1>1 DEF GuestAddrWait
  <2>2. /\ pc[t] = "idle" /\ pc' = [pc EXCEPT ![t] = "get"]
        /\ call' = [call EXCEPT ![t] = Abstract!Wait(a, e, m)]
        /\ result' = [result EXCEPT ![t] = "none"] /\ UNCHANGED <<value, table>>
    BY <1>1, <2>1 DEF GuestAddrWait, Begin, Goto, Wait, Abstract!Wait
  <2>3. States[t] = "idle" /\ States' = [States EXCEPT ![t] = "calling"]
    BY <1>0, <2>2, Moves, Stands
  <2>4. Abstract!CallWait(t)
    BY <2>2, <2>3 DEF Abstract!CallWait, Abstract!To
  <2>5. QED BY <2>4 DEF AbstractStep, Abstract!Next
<1>2. ASSUME NEW t \in Threads, StoreAndWake(t) PROVE AbstractStep
  <2>1. PICK a \in Addrs, v \in Values \cup {Unreadable}, all \in WakeModes :
             /\ Begin(t, Wake(a, all), "find")
             /\ value' = [value EXCEPT ![a] = v] /\ UNCHANGED result
    BY <1>2 DEF StoreAndWake
  <2>2. /\ pc[t] = "idle" /\ pc' = [pc EXCEPT ![t] = "find"]
        /\ call' = [call EXCEPT ![t] = Abstract!Wake(a, all)] /\ UNCHANGED table
    BY <2>1 DEF Begin, Goto, Wake, Abstract!Wake
  <2>3. States[t] = "idle" /\ States' = [States EXCEPT ![t] = "waking"]
    BY <1>0, <2>2, Moves, Stands
  <2>4. Abstract!Store(t)
    BY <2>1, <2>2, <2>3 DEF Abstract!Store, Abstract!To
  <2>5. QED BY <2>4 DEF AbstractStep, Abstract!Next
<1>3. ASSUME NEW t \in Threads, GetBucketCreate(t) PROVE AbstractStep
  <2>1. States[t] = "calling" /\ UNCHANGED <<value, table>>
    BY <1>3, StateAt, StateValues DEF GetBucketCreate
  <2>2. CASE Goto(t, "enter") /\ UNCHANGED <<call, result>>
    <3>1. States' = [States EXCEPT ![t] = "comparing"]
      BY <1>0, <2>2, Moves, Stands DEF Goto
    <3>2. QED
      BY <2>1, <2>2, <3>1 DEF AbstractStep, Abstract!Next, Abstract!Admit, Abstract!To
  <2>3. CASE Return(t, kGuestAddrWaitError)
    <3>1. States' = [States EXCEPT ![t] = "idle"]
      BY <1>0, <2>3, Moves, Stands DEF Return
    <3>2. QED
      BY <2>1, <2>3, <3>1 DEF AbstractStep, Abstract!Next, Abstract!Admit,
         Abstract!Finish, Abstract!To, Abstract!NoCall, Return, NoCall
  <2>4. QED BY <1>3, <2>2, <2>3 DEF GetBucketCreate
\* A comparison that does not go on to block, made on entry or in the loop.
<1>4. ASSUME NEW t \in Threads, pc[t] \in {"enter", "loop"}, UNCHANGED <<value, table>>,
             \/ ~ReadValueMatches(t).ok /\ Return(t, kGuestAddrWaitError)
             \/ /\ ReadValueMatches(t).ok /\ ~ReadValueMatches(t).matches
                /\ Return(t, kGuestAddrWaitSuccess)
             \/ /\ ReadValueMatches(t).ok /\ ReadValueMatches(t).matches
                /\ call[t].mode = "poll" /\ Return(t, kGuestAddrWaitTimedOut)
      PROVE  AbstractStep
  <2>1. /\ ReadValueMatches(t).ok = (value[call[t].addr] # Unreadable)
        /\ ReadValueMatches(t).matches = (value[call[t].addr] = call[t].expected)
    BY DEF ReadValueMatches
  <2>2. States[t] = "comparing"
    BY <1>4, StateAt, StateValues
  <2>3. ASSUME NEW r, Return(t, r)
        PROVE  Abstract!Finish(t, r)
    <3>1. States' = [States EXCEPT ![t] = "idle"]
      BY <1>0, <2>3, Moves, Stands DEF Return
    <3>2. QED BY <2>3, <3>1 DEF Abstract!Finish, Abstract!To, Abstract!NoCall, Return, NoCall
  <2>4. Abstract!Compare(t)
    <3>1. CASE ~ReadValueMatches(t).ok /\ Return(t, kGuestAddrWaitError)
      BY <1>4, <2>1, <2>2, <2>3, <3>1 DEF Abstract!Compare
    <3>2. CASE /\ ReadValueMatches(t).ok /\ ~ReadValueMatches(t).matches
               /\ Return(t, kGuestAddrWaitSuccess)
      BY <1>4, <2>1, <2>2, <2>3, <3>2 DEF Abstract!Compare
    <3>3. CASE /\ ReadValueMatches(t).ok /\ ReadValueMatches(t).matches
               /\ call[t].mode = "poll" /\ Return(t, kGuestAddrWaitTimedOut)
      BY <1>4, <2>1, <2>2, <2>3, <3>3 DEF Abstract!Compare
    <3>4. QED BY <1>4, <3>1, <3>2, <3>3
  <2>5. QED BY <2>4 DEF AbstractStep, Abstract!Next
<1>5. ASSUME UNCHANGED <<States, value, table, call, result>>
      PROVE  AbstractStep
  BY <1>5 DEF AbstractStep, Abstract!avars
<1>6. ASSUME NEW t \in Threads, EnterBucket(t) PROVE AbstractStep
  <2>1. pc[t] = "enter" /\ UNCHANGED <<value, table>>
    BY <1>6 DEF EnterBucket
  <2>2. CASE Goto(t, "loop") /\ UNCHANGED <<call, result>>
    BY <1>0, <1>5, <2>1, <2>2, Stays
  <2>3. CASE ~(Goto(t, "loop") /\ UNCHANGED <<call, result>>)
    BY <1>4, <1>6, <2>1, <2>3 DEF EnterBucket
  <2>4. QED BY <2>2, <2>3
<1>7. ASSUME NEW t \in Threads, Recheck(t) PROVE AbstractStep
  <2>1. pc[t] = "loop" /\ UNCHANGED <<value, table>>
    BY <1>7 DEF Recheck
  <2>2. CASE /\ ReadValueMatches(t).ok /\ ReadValueMatches(t).matches
             /\ Goto(t, "check") /\ UNCHANGED <<call, result>>
    <3>1. value[call[t].addr] = call[t].expected /\ call[t].mode # "poll"
      BY <2>1, <2>2 DEF ReadValueMatches, IInv, ModesFit, Counted
    <3>2. States[t] = "comparing" /\ States' = [States EXCEPT ![t] = "blocked"]
      BY <1>0, <2>1, <2>2, Moves, Stands DEF Goto
    <3>3. QED
      BY <2>1, <2>2, <3>1, <3>2 DEF AbstractStep, Abstract!Next, Abstract!Compare,
         Abstract!To
  <2>3. CASE ~(/\ ReadValueMatches(t).ok /\ ReadValueMatches(t).matches
               /\ Goto(t, "check") /\ UNCHANGED <<call, result>>)
    BY <1>4, <1>7, <2>1, <2>3 DEF Recheck, Leave
  <2>4. QED BY <2>2, <2>3
<1>8. ASSUME NEW t \in Threads, CheckShutdown(t) PROVE AbstractStep
  <2>1. pc[t] = "check" /\ UNCHANGED <<value, table>>
    BY <1>8 DEF CheckShutdown
  <2>2. CASE Goto(t, "block") /\ UNCHANGED <<call, result>>
    BY <1>0, <1>5, <2>1, <2>2, Stays
  <2>3. CASE Return(t, kGuestAddrWaitError)
    <3>1. States[t] = "blocked" /\ States' = [States EXCEPT ![t] = "idle"]
      BY <1>0, <2>1, <2>3, Moves, Stands DEF Return
    <3>2. Abstract!Abort(t)
      BY <2>1, <2>3, <3>1 DEF Abstract!Abort, Abstract!Finish, Abstract!To,
         Abstract!NoCall, Return, NoCall
    <3>3. QED BY <3>2 DEF AbstractStep, Abstract!Next
  <2>4. QED
    BY <1>8, <2>2, <2>3 DEF CheckShutdown, Leave
<1>9. ASSUME NEW t \in Threads, Relock(t) PROVE AbstractStep
  <2>1. UNCHANGED <<value, table>>
    BY <1>9 DEF Relock
  <2>2. CASE pc[t] = "woken" /\ Goto(t, "loop") /\ UNCHANGED <<call, result>>
    BY <1>0, <1>5, <2>1, <2>2, Stays
  <2>3. CASE pc[t] = "expired" /\ Return(t, kGuestAddrWaitTimedOut)
    <3>1. States[t] = "expired" /\ States' = [States EXCEPT ![t] = "idle"]
      BY <1>0, <2>3, Moves, Stands DEF Return
    <3>2. Abstract!ReturnExpired(t)
      BY <2>1, <2>3, <3>1 DEF Abstract!ReturnExpired, Abstract!Finish, Abstract!To,
         Abstract!NoCall, Return, NoCall
    <3>3. QED BY <3>2 DEF AbstractStep, Abstract!Next
  <2>4. QED BY <1>9, <2>2, <2>3 DEF Relock, Leave
<1>10. ASSUME NEW t \in Threads, Timeout(t) PROVE AbstractStep
  <2>1. States[t] = "blocked" /\ States' = [States EXCEPT ![t] = "expired"]
    BY <1>0, <1>10, Moves, Stands DEF Timeout, Goto
  <2>2. Abstract!Expire(t)
    BY <1>10, <2>1 DEF Timeout, HasDeadline, Abstract!Expire, Abstract!To
  <2>3. QED BY <2>2 DEF AbstractStep, Abstract!Next
<1>11. ASSUME NEW t \in Threads, SpuriousWakeup(t) PROVE AbstractStep
  <2>1. States[t] = "blocked" /\ States' = [States EXCEPT ![t] = "comparing"]
    BY <1>0, <1>11, Moves, Stands DEF SpuriousWakeup, Goto
  <2>2. Abstract!Spurious(t)
    BY <1>11, <2>1 DEF SpuriousWakeup, Abstract!Spurious, Abstract!To
  <2>3. QED BY <2>2 DEF AbstractStep, Abstract!Next
<1>12. ASSUME NEW t \in Threads, FindBucket(t) PROVE AbstractStep
  <2>1. CASE Goto(t, "signal") /\ UNCHANGED call
    BY <1>0, <1>5, <1>12, <2>1, Stays DEF FindBucket
  \* No bucket: nobody waits there, and the wake has nobody to release.
  <2>2. CASE call[t].addr \notin buckets /\ Done(t)
    <3>1. \A u \in Threads : States[u] = "blocked" => call[u].addr # call[t].addr
      BY <1>0, <2>2, BlockedPoints DEF IInv, BucketExists, Counted
    <3>2. Abstract!BlockedAt(call[t].addr) = {}
      BY <3>1 DEF Abstract!BlockedAt
    <3>3. States[t] = "waking" /\ States' = [States EXCEPT ![t] = "idle"]
      BY <1>0, <1>12, <2>2, Moves, Stands DEF FindBucket, Done
    <3>4. States' = [u \in Threads |-> IF u \in {} THEN "comparing"
                                   ELSE IF u = t THEN "idle" ELSE States[u]]
      BY <3>3 DEF States
    <3>5. Abstract!Notify(t)
      BY <1>12, <2>2, <3>2, <3>3, <3>4 DEF FindBucket, Done, NoCall, Abstract!Notify,
         Abstract!NoCall
    <3>6. QED BY <3>5 DEF AbstractStep, Abstract!Next
  <2>3. QED BY <1>12, <2>1, <2>2 DEF FindBucket
<1>13. ASSUME NEW t \in Threads, SignalBucket(t) PROVE AbstractStep
  <2> DEFINE a == call[t].addr
  <2>1. /\ pc[t] = "signal" /\ lock[a] = Free /\ UNCHANGED <<value, table, result>>
        /\ call' = [call EXCEPT ![t] = NoCall] /\ States[t] = "waking"
        /\ a \in Addrs
    BY <1>13, StateAt, StateValues DEF SignalBucket, IInv, ArgumentsFit, WakePoints
  <2>2. Abstract!BlockedAt(a) = BlockedOn(a)
    <3>1. \A u \in Threads : pc[u] \in {"check", "block"} => call[u].addr # a
      BY <2>1, AddrWaitConstants DEF IInv, LocksKept
    <3>2. \A u \in Threads : States[u] = "blocked" => pc[u] \in {"check", "block", "blocked"}
      BY <1>0, BlockedPoints
    <3>3. \A u \in Threads : pc[u] = "blocked" => States[u] = "blocked"
      BY Stands
    <3>4. QED BY <3>1, <3>2, <3>3 DEF Abstract!BlockedAt, BlockedOn
  <2>3. BlockedOn(a) # {} => waiter_count[a] # 0
    <3>1. waiter_count[a] = Cardinality(Callers(a)) /\ BlockedOn(a) \subseteq Callers(a)
      BY <2>1 DEF IInv, WaiterCountExact, Callers, BlockedOn, Counted
    <3>2. QED BY <3>1, CallersFinite, FS_EmptySet
  <2>4. PICK W \in Picked(a, call[t].wake_all) :
             pc' = [u \in Threads |-> IF u \in W THEN "woken"
                                      ELSE IF u = t THEN "idle" ELSE pc[u]]
    BY <1>13 DEF SignalBucket
  <2>5. /\ W \in SUBSET BlockedOn(a)
        /\ IF call[t].wake_all THEN W = BlockedOn(a) ELSE W = {} <=> BlockedOn(a) = {}
        /\ call[t].wake_all \/ \A u, w \in W : u = w
    BY <2>3, <2>4 DEF Picked
  <2>6. States' = [u \in Threads |-> IF u \in W THEN "comparing"
                                 ELSE IF u = t THEN "idle" ELSE States[u]]
    BY <2>4, StateAt, StateValues DEF States
  <2>7. Abstract!Notify(t)
    BY <2>1, <2>2, <2>5, <2>6 DEF Abstract!Notify, Abstract!NoCall, NoCall
  <2>8. QED BY <2>7 DEF AbstractStep, Abstract!Next
<1>14. CASE ShutdownBegin
  <2>1. table'.shutting_down = TRUE
    <3>1. PICK i \in BOOLEAN, s \in BOOLEAN :
              table = [initialized |-> i, shutting_down |-> s]
      BY <1>0 DEF TypeOK
    <3>2. QED BY <1>14, <3>1 DEF ShutdownBegin
  <2>2. Abstract!Close
    BY <1>14, <2>1 DEF ShutdownBegin, States, Abstract!Close
  <2>3. QED BY <2>2 DEF AbstractStep, Abstract!Next
<1>15. CASE ShutdownBroadcast
  <2>1. table.shutting_down /\ UNCHANGED <<value, table, call, result>>
    BY <1>15 DEF ShutdownBroadcast, IInv, LocksKept
  <2>2. PICK a \in visit :
          pc' = [u \in Threads |-> IF u \in WokenByShutdown(a) THEN "woken" ELSE pc[u]]
    BY <1>15 DEF ShutdownBroadcast
  <2>3. WokenByShutdown(a) \in SUBSET {u \in Threads : States[u] = "blocked"}
    BY StateAt, StateValues DEF WokenByShutdown, BlockedOn
  <2>4. States' = [u \in Threads |-> IF u \in WokenByShutdown(a) THEN "comparing" ELSE States[u]]
    BY <2>2, StateAt, StateValues DEF States
  <2>5. Abstract!ReleaseClosed
    BY <2>1, <2>3, <2>4 DEF Abstract!ReleaseClosed
  <2>6. QED BY <2>5 DEF AbstractStep, Abstract!Next
<1>16. CASE ShutdownEnd
  BY <1>16 DEF ShutdownEnd, States, AbstractStep, Abstract!avars
<1>17. CASE Destruct
  <2>1. table'.shutting_down = table.shutting_down
    <3>1. PICK i \in BOOLEAN, s \in BOOLEAN :
              table = [initialized |-> i, shutting_down |-> s]
      BY <1>0 DEF TypeOK
    <3>2. QED BY <1>17, <3>1 DEF Destruct
  <2>2. QED BY <1>17, <2>1 DEF Destruct, States, AbstractStep, Abstract!avars
<1>18. CASE UNCHANGED vars
  BY <1>18 DEF vars, States, AbstractStep, Abstract!avars
<1>19. ASSUME NEW t \in Threads, Block(t) PROVE AbstractStep
  <2>1. pc[t] = "block" /\ UNCHANGED <<value, table>>
    BY <1>19 DEF Block
  <2>2. CASE Goto(t, "blocked") /\ UNCHANGED <<call, result>>
    BY <1>0, <1>5, <2>1, <2>2, Stays
  <2>3. CASE Return(t, kGuestAddrWaitError)
    <3>1. States[t] = "blocked" /\ States' = [States EXCEPT ![t] = "idle"]
      BY <1>0, <2>1, <2>3, Moves, Stands DEF Return
    <3>2. Abstract!Abort(t)
      BY <2>1, <2>3, <3>1 DEF Abstract!Abort, Abstract!Finish, Abstract!To,
         Abstract!NoCall, Return, NoCall
    <3>3. QED BY <3>2 DEF AbstractStep, Abstract!Next
  <2>4. QED
    BY <1>19, <2>2, <2>3 DEF Block, Leave
<1>20. QED
  BY <1>1, <1>2, <1>3, <1>6, <1>7, <1>8, <1>9, <1>10, <1>11, <1>12, <1>13, <1>14,
     <1>15, <1>16, <1>17, <1>18, <1>19
     DEF Next, WaitStep, WakeStep, ShutdownStep, Terminated

\* An empty table is an initial state of the contract.
LEMMA InitImplements == Init => Abstract!Init
  BY StateValues DEF Init, States, Abstract!Init, NoCall, Abstract!NoCall

\* For any number of threads, words and values, with wakes of one or of all,
\* the table with its locks behaves as the contract in which comparing and
\* blocking are one step: the safety part of ImplementsAddrWait.
THEOREM TableImplementsContract ==
  Spec => Abstract!Init /\ [][Abstract!Next]_(Abstract!avars)
<1>1. IInv /\ [Next]_vars => [Abstract!Next]_(Abstract!avars)
  BY StepImplements DEF AbstractStep
<1>2. QED
  BY <1>1, InitImplements, AlwaysIInv, PTL DEF Spec
=============================================================================
