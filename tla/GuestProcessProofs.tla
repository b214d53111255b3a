-------------------------- MODULE GuestProcessProofs --------------------------
(***************************************************************************)
(* Proofs about GuestProcess, for any number of thread ids and calls, any  *)
(* mixture of calls, and joins in any direction.  The invariant says where *)
(* a thread can be (Places), what its record says of it then (Lives), who  *)
(* may take a record out of the table (Claimed), how a worker's end goes   *)
(* on (Phases), who holds the heap lock (HeapOwned) and what is left once  *)
(* the destruction has waited (Quiet); with the count of the joins it      *)
(* gives both properties.                                                  *)
(***************************************************************************)
EXTENDS GuestProcess, FiniteSetTheorems, TLAPS

\* TypeOK in parts, with what it leaves to the bounds of depth and ops.
GuestThread ==
    [host_thread_valid : BOOLEAN, joinable : BOOLEAN, detached : BOOLEAN,
     join_in_progress : BOOLEAN, exit_code : Codes, tls_fini_done : BOOLEAN,
     state : {"Idle", "Running", "Finished", "Joined"}]

ThreadTyped == thread \in [Workers -> GuestThread]

TableTyped ==
    /\ threads \subseteq Workers /\ allocated \subseteq Workers
    /\ process \in [next_tid : 2 .. MaxTid + 1, active_joins : 0 .. MaxTid,
                    shutting_down : BOOLEAN, initialized : BOOLEAN, waits : BOOLEAN]

ControlTyped ==
    /\ pc \in [AllThreads -> Points] /\ then \in [AllThreads -> Points]
    /\ tid \in [AllThreads -> AllThreads] /\ target \in [AllThreads -> {None} \cup Workers]

GuestTyped ==
    /\ phase \in [Workers -> {"init", "user", "fini", "exit_fini"}]
    /\ result \in [Workers -> Codes]
    /\ left \in [Workers -> {"zero", "returned", "exited"}]
    /\ finis \in [Workers -> 0 .. 2]
    /\ got \in [Workers -> Codes]

CallsTyped ==
    /\ heap \in {None} \cup AllThreads
    /\ depth \in [AllThreads -> Nat] /\ ops \in [AllThreads -> Nat]
    /\ \A t \in AllThreads : depth[t] <= ops[t] /\ ops[t] <= MaxOps[t]

Typed == ThreadTyped /\ TableTyped /\ ControlTyped /\ GuestTyped /\ CallsTyped

\* Where a thread is, and where it goes on after reaping.
Places ==
    /\ pc[Main] \in (InGuest \cup Ending) \ {"addr_wait"}
    /\ \A w \in Workers : pc[w] \in InGuest \cup {"none", "start", "finished", "ended"}
    /\ \A t \in AllThreads :
          /\ then[t] \in {"run", "join", "detach", "workers"}
          /\ then[t] = "workers" => t = Main
          /\ pc[t] \notin Reaping => then[t] = "run"
          /\ depth[t] > 0 => pc[t] = "run"
          /\ pc[t] = "heap_wait" => ops[t] > 0

\* A worker from its creation to the end of its host thread, as its record
\* says: while it is under way the record is in the table.
Lives ==
    /\ threads \subseteq allocated
    /\ \A w \in Workers :
          /\ w >= process.next_tid => pc[w] = "none"
          /\ pc[w] = "none" => w \notin allocated
          /\ pc[w] = "start" => w \in threads /\ thread[w].state = "Idle"
          /\ pc[w] \in InGuest => w \in threads /\ thread[w].state = "Running"
          /\ pc[w] = "finished" => w \in allocated
    /\ \A w \in threads :
          /\ thread[w].host_thread_valid
          /\ pc[w] \in {"finished", "ended"} => thread[w].state = "Finished"

\* What a record in the table says: it may be joined, or it was detached, or
\* somebody joins it.
Marks ==
    \A w \in threads :
        /\ thread[w].joinable => ~ thread[w].detached
        /\ thread[w].join_in_progress =>
              /\ ~ thread[w].joinable /\ ~ thread[w].detached
              /\ \E t \in AllThreads : pc[t] = "join_wait" /\ target[t] = w

\* Who took a record out of the table took it from a thread past its end.
Takers ==
    \A t \in AllThreads :
        /\ pc[t] = "join_wait" =>
              target[t] \in threads /\ thread[target[t]].join_in_progress
        /\ pc[t] \in {"reap_join", "join_free", "drain_join"} =>
              /\ target[t] \in allocated \ threads
              /\ pc[target[t]] \in {"finished", "ended"}
        /\ pc[t] = "join_free" => pc[target[t]] = "ended"

OneTaker == \A t, u \in AllThreads : Claims(t) /\ Claims(u) /\ target[t] = target[u] => t = u

Claimed == Marks /\ Takers /\ OneTaker /\ NoRecordLost

\* The end of a worker, through whichever way out.
Phases ==
    \A w \in Workers :
        /\ pc[w] \in {"none", "start"} => phase[w] = "init"
        /\ phase[w] \in {"init", "user"} =>
              ~ thread[w].tls_fini_done /\ finis[w] = 0 /\ left[w] = "zero"
        /\ phase[w] \in {"fini", "exit_fini"} =>
              thread[w].tls_fini_done /\ finis[w] = 1 /\ left[w] = result[w] /\ left[w] # "zero"
        /\ pc[w] \in {"finished", "ended"} =>
              phase[w] \in {"fini", "exit_fini"} /\ thread[w].exit_code = left[w]
        /\ got[w] # "zero" => pc[w] = "ended" /\ got[w] = left[w]

HeapOwned == \A t \in AllThreads : depth[t] > 0 <=> heap = t

\* After the wait of the destruction.
Quiet ==
    /\ pc[Main] \in {"joins", "drain", "drain_join", "clear", "end"} =>
          \A w \in Workers : pc[w] \in {"none", "finished", "ended"}
    /\ pc[Main] \in {"clear", "end"} => threads = {}

Inv == /\ Typed /\ Places /\ Lives /\ Claimed /\ Phases /\ HeapOwned /\ Quiet
       /\ ActiveJoinsExact
-----------------------------------------------------------------------------
\* Facts that many steps need.

LEMMA Basics ==
    /\ Main \in AllThreads /\ Main \notin Workers /\ AllThreads = Workers \cup {Main}
    /\ None \notin AllThreads /\ Workers \subseteq Nat /\ IsFiniteSet(AllThreads)
    /\ MaxTid \in Nat \ {0} /\ MaxOps \in [AllThreads -> Nat]
<1>1. IsFiniteSet(AllThreads)
  BY GuestProcessConstants, FS_Interval DEF AllThreads
<1>2. QED BY <1>1, GuestProcessConstants DEF Main, Workers, AllThreads, None

\* The first record in a table that is not empty.
LEMMA FirstOne ==
    ASSUME NEW S \in SUBSET Workers, S # {}
    PROVE  Min(S) \in S
<1> DEFINE R == {ss \in Nat \X Nat : ss[1] < ss[2]}
<1>1. IsWellFoundedOn(R, Nat)
  BY NatLessThanWellFounded DEF OpToRel
<1> HIDE DEF R
<1>2. PICK x \in S : \A y \in S : ~ (<<y, x>> \in R)
  BY <1>1, WFMin, Basics
<1>3. x \in Nat /\ \A y \in S : y \in Nat /\ ~ (y < x)
  BY <1>2, Basics DEF R
<1>4. \A y \in S : x <= y
  BY <1>3
<1>5. QED BY <1>4 DEF Min

\* A step at which nobody begins or ends a join keeps their count exact.
LEMMA JoinsKept ==
    ASSUME ActiveJoinsExact, process'.active_joins = process.active_joins,
           \A t \in AllThreads : pc'[t] = "join_wait" <=> pc[t] = "join_wait"
    PROVE  ActiveJoinsExact'
<1>1. {t \in AllThreads : pc'[t] = "join_wait"} = {t \in AllThreads : pc[t] = "join_wait"}
  OBVIOUS
<1>2. QED BY <1>1 DEF ActiveJoinsExact

ClaimPoints == {"reap_join", "join_wait", "join_free", "drain_join"}

\* A step that gives nobody a record and frees none keeps them apart.
LEMMA ClaimsKept ==
    ASSUME Claimed, UNCHANGED <<threads, allocated, target>>,
           \A w \in threads : /\ thread'[w].joinable = thread[w].joinable
                              /\ thread'[w].detached = thread[w].detached
                              /\ thread'[w].join_in_progress = thread[w].join_in_progress,
           \A t \in AllThreads : Claims(t) \/ Claims(t)' => pc'[t] = pc[t],
           \A w \in allocated : /\ pc[w] = "ended" => pc'[w] = "ended"
                                /\ pc[w] = "finished" => pc'[w] \in {"finished", "ended"}
    PROVE  Claimed'
BY DEF Claimed, Marks, Takers, OneTaker, NoRecordLost, Claims

\* Reapers and the final drain take a record that nobody joins.
LEMMA TakeOut ==
    ASSUME Inv, NEW t \in AllThreads, NEW w \in threads, NEW p \in {"reap_join", "drain_join"},
           pc[t] \in {"reap", "drain"}, ~ thread[w].join_in_progress,
           pc[w] \in {"finished", "ended"},
           threads' = threads \ {w}, target' = [target EXCEPT ![t] = w],
           pc' = [pc EXCEPT ![t] = p], UNCHANGED <<thread, allocated>>
    PROVE  Claimed'
<1>1. \A u \in AllThreads : Claims(u) => target[u] # w
  BY DEF Inv, Claimed, Takers, Claims
<1>2. target'[t] = w /\ \A u \in AllThreads \ {t} : target'[u] = target[u]
  BY DEF Inv, Typed, ControlTyped
<1>3. pc'[t] = p /\ \A u \in AllThreads \ {t} : pc'[u] = pc[u]
  BY DEF Inv, Typed, ControlTyped
<1>4. Claims(t)' /\ \A u \in AllThreads \ {t} : Claims(u)' <=> Claims(u)
  BY <1>3 DEF Claims
<1>5. w \in allocated /\ threads \subseteq allocated /\ Workers \subseteq AllThreads
  BY Basics DEF Inv, Lives
<1>6. Marks'
  BY <1>2, <1>3 DEF Inv, Claimed, Marks, Claims
<1>7. Takers'
  BY <1>2, <1>3, <1>4, <1>5 DEF Inv, Claimed, Takers, Claims
<1>8. OneTaker'
  BY <1>1, <1>2, <1>4 DEF Inv, Claimed, OneTaker
<1>9. NoRecordLost'
  BY <1>1, <1>2, <1>4 DEF Inv, Claimed, NoRecordLost, Claims
<1>10. QED BY <1>6, <1>7, <1>8, <1>9 DEF Claimed

\* Whoever has a record frees it when its host thread is gone.
LEMMA GiveBack ==
    ASSUME Inv, NEW t \in AllThreads, NEW p \in Points \ ClaimPoints,
           pc[t] \in {"reap_join", "join_free", "drain_join"}, pc[target[t]] = "ended",
           allocated' = allocated \ {target[t]}, target' = [target EXCEPT ![t] = None],
           pc' = [pc EXCEPT ![t] = p], UNCHANGED <<thread, threads>>
    PROVE  Claimed'
<1>1. \A u \in AllThreads \ {t} : Claims(u) => target[u] # target[t]
  BY DEF Inv, Claimed, OneTaker, Claims
<1>2. \A u \in AllThreads \ {t} : pc'[u] = pc[u] /\ target'[u] = target[u]
  BY DEF Inv, Typed, ControlTyped
<1>3. pc'[t] = p /\ ~ Claims(t)' /\ \A u \in AllThreads \ {t} : Claims(u)' <=> Claims(u)
  BY <1>2 DEF Inv, Typed, ControlTyped, Claims, ClaimPoints
<1>4. pc[t] # "join_wait" /\ p \notin ClaimPoints /\ target[t] \notin threads
  BY DEF Inv, Claimed, Takers
<1>5. Marks'
  BY <1>2, <1>4 DEF Inv, Claimed, Marks
<1>6. Takers'
  BY <1>1, <1>2, <1>3, <1>4 DEF Inv, Claimed, Takers, Claims, ClaimPoints
<1>7. OneTaker'
  BY <1>2, <1>3 DEF Inv, Claimed, OneTaker
<1>8. NoRecordLost'
  BY <1>2, <1>3 DEF Inv, Claimed, NoRecordLost
<1>9. QED BY <1>5, <1>6, <1>7, <1>8 DEF Claimed

\* What a step leaves alone stays as it is said to be.
LEMMA GuestKept ==
    ASSUME Inv, UNCHANGED <<guest, got>>
    PROVE  GuestTyped'
BY DEF Inv, Typed, GuestTyped, guest

LEMMA HeapKept ==
    ASSUME Inv, UNCHANGED <<heap, depth, ops>>
    PROVE  CallsTyped' /\ HeapOwned'
BY DEF Inv, Typed, CallsTyped, HeapOwned

LEMMA TableKept ==
    ASSUME Inv, UNCHANGED <<records, process>>
    PROVE  ThreadTyped' /\ TableTyped'
BY DEF Inv, Typed, ThreadTyped, TableTyped, records

-----------------------------------------------------------------------------
\* System calls.

\* A thread goes from one point of the guest to another, and no record and no
\* lock changes hands.
LEMMA GuestMoves ==
    ASSUME Inv, NEW t \in AllThreads, NEW p \in InGuest \ ClaimPoints, NEW q \in {"run", "join", "detach"},
           pc[t] \in InGuest \ ClaimPoints, depth[t] = 0,
           p = "addr_wait" => t # Main, p # "reap" => q = "run", p = "heap_wait" => ops'[t] > 0,
           pc' = [pc EXCEPT ![t] = p], then' = [then EXCEPT ![t] = q],
           tid' \in [AllThreads -> AllThreads], ops' \in [AllThreads -> Nat],
           \A u \in AllThreads : ops[u] <= ops'[u] /\ ops'[u] <= MaxOps[u],
           UNCHANGED <<records, process, target, guest, heap, depth, got>>
    PROVE  Inv'
<1>1. /\ pc'[t] = p /\ \A u \in AllThreads \ {t} : pc'[u] = pc[u]
      /\ then'[t] = q /\ \A u \in AllThreads \ {t} : then'[u] = then[u]
      /\ p \in InGuest /\ p \notin ClaimPoints
  BY DEF Inv, Typed, ControlTyped
<1>2. ThreadTyped' /\ TableTyped' /\ GuestTyped'
  BY TableKept, GuestKept
<1>3. ControlTyped'
  BY DEF Inv, Typed, ControlTyped, Points, InGuest, Reaping, Joining
<1>4. CallsTyped'
  BY Basics DEF Inv, Typed, CallsTyped
<1>5. Places'
  BY <1>1, Basics DEF Inv, Typed, CallsTyped, Places, InGuest, Ending, Reaping, Joining
<1>6. Lives'
  BY <1>1, Basics DEF Inv, Lives, Places, records, InGuest, Reaping, Joining
<1>7. Claimed'
  BY <1>1, Basics, ClaimsKept DEF Inv, Claims, ClaimPoints, records, InGuest, Reaping, Joining, Typed, TableTyped
<1>8. Phases'
  <2>1. UNCHANGED <<thread, phase, result, left, finis, got>>
    BY DEF guest, records
  <2>2. \A w \in Workers : pc'[w] \in {"none", "start", "finished", "ended"} => pc'[w] = pc[w]
    BY <1>1, Basics DEF InGuest, Reaping, Joining
  <2>3. \A w \in Workers : pc[w] = "ended" => pc'[w] = "ended"
    BY <1>1, Basics DEF InGuest, Reaping, Joining
  <2>4. QED BY <2>1, <2>2, <2>3 DEF Inv, Phases
<1>9. HeapOwned'
  BY DEF Inv, HeapOwned
<1>10. Quiet'
  BY <1>1, Basics DEF Inv, Quiet, records, InGuest, Ending, Reaping, Joining
<1>11. ActiveJoinsExact'
  BY <1>1, JoinsKept DEF Inv, ClaimPoints
<1>12. QED BY <1>2, <1>3, <1>4, <1>5, <1>6, <1>7, <1>8, <1>9, <1>10, <1>11 DEF Inv, Typed

\* What a system call begins with.
LEMMA SyscallBegins ==
    ASSUME Inv, NEW t \in AllThreads, NEW c, Syscall(t, c)
    PROVE  /\ ops' \in [AllThreads -> Nat] /\ ops'[t] > 0
           /\ \A u \in AllThreads : ops[u] <= ops'[u] /\ ops'[u] <= MaxOps[u]
           /\ pc[t] = "run" /\ then[t] = "run"
BY Basics DEF Inv, Typed, CallsTyped, Places, Syscall, Reaping

LEMMA ThreadJoinStep == ASSUME Inv, NEW t \in AllThreads, ThreadJoin(t) PROVE Inv'
<1>1. tid' \in [AllThreads -> AllThreads]
  BY DEF Inv, Typed, ControlTyped, ThreadJoin
<1>2. QED BY <1>1, SyscallBegins, GuestMoves
             DEF ThreadJoin, Unlocked, ReapThen, Goto, InGuest, Reaping, Joining, ClaimPoints

LEMMA ThreadDetachStep == ASSUME Inv, NEW t \in AllThreads, ThreadDetach(t) PROVE Inv'
<1>1. tid' \in [AllThreads -> AllThreads]
  BY DEF Inv, Typed, ControlTyped, ThreadDetach
<1>2. QED BY <1>1, SyscallBegins, GuestMoves
             DEF ThreadDetach, Unlocked, ReapThen, Goto, InGuest, Reaping, Joining, ClaimPoints

\* then stays "run" at a call that reaps nothing.
LEMMA ThenKept ==
    ASSUME Inv, NEW t \in AllThreads, pc[t] \notin Reaping, UNCHANGED <<then, tid>>
    PROVE  then' = [then EXCEPT ![t] = "run"] /\ tid' \in [AllThreads -> AllThreads]
BY DEF Inv, Typed, ControlTyped, Places

LEMMA AddrWaitStep == ASSUME Inv, NEW t \in AllThreads, AddrWait(t) PROVE Inv'
<1> DEFINE p == IF process.waits THEN "addr_wait" ELSE "run"
<1>1. Syscall(t, "wait") /\ depth[t] = 0 /\ t # Main
  BY Basics DEF AddrWait, Unlocked
<1>2. then' = [then EXCEPT ![t] = "run"] /\ tid' \in [AllThreads -> AllThreads]
  BY <1>1, SyscallBegins, ThenKept DEF AddrWait, Reaping
<1>3. p \in {"addr_wait", "run"} /\ pc' = [pc EXCEPT ![t] = p]
  BY DEF AddrWait, Goto
<1> HIDE DEF p
<1>4. QED BY <1>1, <1>2, <1>3, SyscallBegins, GuestMoves
             DEF AddrWait, InGuest, Reaping, Joining, ClaimPoints

\* Another thread moves: the one that is woken.
LEMMA AddrWakeStep == ASSUME Inv, NEW t \in AllThreads, AddrWake(t) PROVE Inv'
<1>1. PICK u \in AllThreads : pc[u] = "addr_wait" /\ pc' = [pc EXCEPT ![u] = "run"]
  BY DEF AddrWake, Goto
<1>2. Syscall(t, "wake")
  BY DEF AddrWake, Unlocked
<1>3. then' = [then EXCEPT ![u] = "run"] /\ tid' \in [AllThreads -> AllThreads]
  BY <1>1, ThenKept DEF AddrWake, Reaping
<1>4. depth[u] = 0
  BY <1>1 DEF Inv, Places, Typed, CallsTyped
<1>5. QED BY <1>1, <1>2, <1>3, <1>4, SyscallBegins, GuestMoves
             DEF AddrWake, InGuest, Reaping, Joining, ClaimPoints

\* The outermost lock of the heap is a call that waits; the others count.
LEMMA HeapLockStep == ASSUME Inv, NEW t \in AllThreads, HeapLock(t) PROVE Inv'
<1>1. Syscall(t, "heap") /\ UNCHANGED <<records, process, then, tid, target, guest, heap, got>>
  BY DEF HeapLock
<1>2. CASE depth[t] = 0
  <2>1. then' = [then EXCEPT ![t] = "run"] /\ tid' \in [AllThreads -> AllThreads]
    BY <1>1, SyscallBegins, ThenKept DEF Reaping
  <2>2. pc' = [pc EXCEPT ![t] = "heap_wait"] /\ UNCHANGED depth
    BY <1>2 DEF HeapLock, Goto
  <2>3. QED BY <1>1, <1>2, <2>1, <2>2, SyscallBegins, GuestMoves
               DEF InGuest, Reaping, Joining, ClaimPoints
<1>3. CASE depth[t] # 0
  <2>1. depth' = [depth EXCEPT ![t] = @ + 1] /\ UNCHANGED pc
    BY <1>3 DEF HeapLock, Inv, Typed, CallsTyped
  <2>2. ThreadTyped' /\ TableTyped' /\ GuestTyped'
    BY <1>1, TableKept, GuestKept
  <2>3. ControlTyped' /\ Quiet' /\ Lives' /\ Phases'
    BY <1>1, <2>1 DEF Inv, Typed, ControlTyped, Quiet, Lives, Phases, records, guest
  <2>4. CallsTyped'
    BY <1>1, <2>1, Basics DEF Inv, Typed, CallsTyped, Syscall
  <2>5. Places'
    BY <1>1, <2>1, SyscallBegins DEF Inv, Typed, CallsTyped, Places
  <2>6. Claimed'
    BY <1>1, <2>1, ClaimsKept DEF Inv, records, Claims
  <2>7. HeapOwned'
    BY <1>1, <1>3, <2>1 DEF Inv, Typed, CallsTyped, HeapOwned
  <2>8. ActiveJoinsExact'
    BY <1>1, <2>1, JoinsKept DEF Inv
  <2>9. QED BY <2>2, <2>3, <2>4, <2>5, <2>6, <2>7, <2>8 DEF Inv, Typed
<1>4. QED BY <1>2, <1>3

LEMMA HeapAcquireStep == ASSUME Inv, NEW t \in AllThreads, HeapAcquire(t) PROVE Inv'
<1>1. /\ pc[t] = "heap_wait" /\ heap = None /\ heap' = t /\ depth' = [depth EXCEPT ![t] = 1]
      /\ pc' = [pc EXCEPT ![t] = "run"]
      /\ UNCHANGED <<records, process, then, tid, target, guest, ops, got>>
  BY DEF HeapAcquire, Goto
<1>2. pc'[t] = "run" /\ \A u \in AllThreads \ {t} : pc'[u] = pc[u]
  BY <1>1 DEF Inv, Typed, ControlTyped
<1>3. ThreadTyped' /\ TableTyped' /\ GuestTyped'
  BY <1>1, TableKept, GuestKept
<1>4. ControlTyped'
  BY <1>1 DEF Inv, Typed, ControlTyped, Points, InGuest
<1>5. CallsTyped' /\ HeapOwned'
  BY <1>1, Basics DEF Inv, Typed, CallsTyped, HeapOwned, Places
<1>6. Places'
  BY <1>1, <1>2, Basics DEF Inv, Typed, CallsTyped, Places, InGuest, Reaping
<1>7. Lives' /\ Phases' /\ Quiet'
  BY <1>1, <1>2, Basics DEF Inv, Lives, Phases, Quiet, records, guest, InGuest, Ending
<1>8. Claimed'
  BY <1>1, <1>2, Basics, ClaimsKept DEF Inv, Typed, TableTyped, records, Claims
<1>9. ActiveJoinsExact'
  BY <1>1, <1>2, JoinsKept DEF Inv
<1>10. QED BY <1>3, <1>4, <1>5, <1>6, <1>7, <1>8, <1>9 DEF Inv, Typed

LEMMA HeapUnlockStep == ASSUME Inv, NEW t \in AllThreads, HeapUnlock(t) PROVE Inv'
<1>1. /\ pc[t] = "run" /\ depth[t] > 0 /\ depth' = [depth EXCEPT ![t] = @ - 1]
      /\ heap' = IF depth[t] = 1 THEN None ELSE heap
      /\ UNCHANGED <<records, process, pc, then, tid, target, guest, ops, got>>
  BY DEF HeapUnlock, HoldsHeap
<1>2. ThreadTyped' /\ TableTyped' /\ GuestTyped'
  BY <1>1, TableKept, GuestKept
<1>3. ControlTyped' /\ Quiet' /\ Lives' /\ Phases'
  BY <1>1 DEF Inv, Typed, ControlTyped, Quiet, Lives, Phases, records, guest
<1>4. CallsTyped' /\ HeapOwned'
  BY <1>1, Basics DEF Inv, Typed, CallsTyped, HeapOwned
<1>5. Places'
  BY <1>1 DEF Inv, Typed, CallsTyped, Places
<1>6. Claimed'
  BY <1>1, ClaimsKept DEF Inv, records, Claims
<1>7. ActiveJoinsExact'
  BY <1>1, JoinsKept DEF Inv
<1>8. QED BY <1>2, <1>3, <1>4, <1>5, <1>6, <1>7 DEF Inv, Typed

-----------------------------------------------------------------------------
\* A worker's own steps.

\* A step of w inside its host thread: w's record stays in the table, and says
\* more of it; the lock may be given up at the end.
LEMMA WorkerMoves ==
    ASSUME Inv, NEW w \in Workers, NEW p \in {"run", "finished", "ended"}, NEW r \in GuestThread,
           pc[w] \in {"start", "run", "finished"}, pc' = [pc EXCEPT ![w] = p],
           pc[w] = "finished" <=> p = "ended",
           thread' = [thread EXCEPT ![w] = r],
           r.joinable = thread[w].joinable, r.detached = thread[w].detached,
           r.join_in_progress = thread[w].join_in_progress,
           r.host_thread_valid = thread[w].host_thread_valid,
           p = "run" => r.state = "Running", p = "finished" => r.state = "Finished",
           p = "ended" => r.state = thread[w].state,
           UNCHANGED <<threads, allocated, process, then, tid, target, ops>>
    PROVE  ThreadTyped' /\ TableTyped' /\ ControlTyped' /\ Lives' /\ Claimed' /\ Quiet' /\ ActiveJoinsExact'
<1>1. pc'[w] = p /\ \A u \in AllThreads \ {w} : pc'[u] = pc[u]
  BY Basics DEF Inv, Typed, ControlTyped
<1>2. thread'[w] = r /\ \A u \in Workers \ {w} : thread'[u] = thread[u]
  BY DEF Inv, Typed, ThreadTyped
<1>3. ThreadTyped' /\ TableTyped'
  BY DEF Inv, Typed, ThreadTyped, TableTyped
<1>4. ControlTyped'
  BY DEF Inv, Typed, ControlTyped, Points, InGuest
<1>5. Lives'
  <2>1. w \in allocated /\ (p \in {"run", "finished"} => w \in threads)
    BY Basics DEF Inv, Lives, InGuest
  <2>2. \A u \in Workers :
            /\ u >= process.next_tid => pc'[u] = "none"
            /\ pc'[u] = "none" => u \notin allocated
            /\ pc'[u] = "start" => u \in threads /\ thread'[u].state = "Idle"
            /\ pc'[u] \in InGuest => u \in threads /\ thread'[u].state = "Running"
            /\ pc'[u] = "finished" => u \in allocated
    BY <1>1, <1>2, <2>1, Basics DEF Inv, Lives, InGuest, Reaping, Joining
  <2>3. \A u \in threads :
            /\ thread'[u].host_thread_valid
            /\ pc'[u] \in {"finished", "ended"} => thread'[u].state = "Finished"
    BY <1>1, <1>2, <2>1, Basics DEF Inv, Typed, TableTyped, Lives
  <2>4. QED BY <2>2, <2>3 DEF Inv, Lives
<1>6. Claimed'
  <2>1. \A u \in threads : /\ thread'[u].joinable = thread[u].joinable
                           /\ thread'[u].detached = thread[u].detached
                           /\ thread'[u].join_in_progress = thread[u].join_in_progress
    BY <1>2 DEF Inv, Typed, TableTyped
  <2>2. \A u \in AllThreads : Claims(u) \/ Claims(u)' => pc'[u] = pc[u]
    BY <1>1 DEF Claims
  <2>3. QED BY <1>1, <2>1, <2>2, Basics, ClaimsKept DEF Inv, Typed, TableTyped
<1>7. Quiet'
  BY <1>1, Basics DEF Inv, Quiet, InGuest
<1>8. ActiveJoinsExact'
  BY <1>1, JoinsKept DEF Inv
<1>9. QED BY <1>3, <1>4, <1>5, <1>6, <1>7, <1>8

LEMMA HostEntryStep == ASSUME Inv, NEW w \in Workers, HostEntry(w) PROVE Inv'
<1> DEFINE r == [thread[w] EXCEPT !.state = "Running"]
<1>1. /\ pc[w] = "start" /\ thread' = [thread EXCEPT ![w] = r] /\ pc' = [pc EXCEPT ![w] = "run"]
      /\ UNCHANGED <<threads, allocated, process, then, tid, target, guest, heap, depth, ops, got>>
  BY DEF HostEntry, Goto
<1>2. thread[w] \in GuestThread
  BY DEF Inv, Typed, ThreadTyped
<1>3. /\ r \in GuestThread /\ r.state = "Running"
      /\ r.joinable = thread[w].joinable /\ r.detached = thread[w].detached
      /\ r.join_in_progress = thread[w].join_in_progress
      /\ r.host_thread_valid = thread[w].host_thread_valid
      /\ r.tls_fini_done = thread[w].tls_fini_done
  BY <1>2 DEF GuestThread
<1> HIDE DEF r
<1>4. ThreadTyped' /\ TableTyped' /\ ControlTyped' /\ Lives' /\ Claimed' /\ Quiet' /\ ActiveJoinsExact'
  BY <1>1, <1>3, WorkerMoves
<1>5. GuestTyped' /\ CallsTyped' /\ HeapOwned'
  BY <1>1, GuestKept, HeapKept
<1>6. Places'
  BY <1>1, Basics DEF Inv, Typed, ControlTyped, Places, InGuest, Reaping
<1>7. Phases'
  BY <1>1, <1>3 DEF Inv, Typed, ThreadTyped, ControlTyped, Phases, guest
<1>8. QED BY <1>4, <1>5, <1>6, <1>7 DEF Inv, Typed

LEMMA InitReturnsStep == ASSUME Inv, NEW w \in Workers, InitReturns(w) PROVE Inv'
<1>1. /\ pc[w] = "run" /\ phase[w] = "init" /\ phase' = [phase EXCEPT ![w] = "user"]
      /\ UNCHANGED <<records, process, pc, then, tid, target, result, left, finis, heap, depth,
                     ops, got>>
  BY DEF InitReturns
<1>2. thread' = thread /\ UNCHANGED <<threads, allocated>>
  BY <1>1 DEF records
<1>3. ThreadTyped' /\ TableTyped' /\ CallsTyped' /\ HeapOwned'
  BY <1>1, TableKept, HeapKept
<1>4. ControlTyped' /\ Places' /\ Lives' /\ Quiet'
  BY <1>1, <1>2 DEF Inv, Typed, ControlTyped, Places, Lives, Quiet
<1>5. GuestTyped'
  BY <1>1 DEF Inv, Typed, GuestTyped
<1>6. Claimed' /\ ActiveJoinsExact'
  BY <1>1, <1>2, ClaimsKept, JoinsKept DEF Inv, Claims
<1>7. Phases'
  BY <1>1, <1>2 DEF Inv, Typed, GuestTyped, Phases
<1>8. QED BY <1>3, <1>4, <1>5, <1>6, <1>7 DEF Inv, Typed

\* The finalizer is entered, from the end of the function or from thrd_exit.
LEMMA FiniEntered ==
    ASSUME Inv, NEW w \in Workers, NEW p \in {"fini", "exit_fini"}, NEW c \in {"returned", "exited"},
           pc[w] = "run", ~ thread[w].tls_fini_done, EnterFini(w, p),
           result' = [result EXCEPT ![w] = c], left' = [left EXCEPT ![w] = c],
           UNCHANGED <<threads, allocated, process, pc, then, tid, target, heap, depth, ops, got>>
    PROVE  Inv'
<1> DEFINE r == [thread[w] EXCEPT !.tls_fini_done = TRUE]
<1>1. /\ thread' = [thread EXCEPT ![w] = r] /\ phase' = [phase EXCEPT ![w] = p]
      /\ finis' = [finis EXCEPT ![w] = @ + 1]
  BY DEF EnterFini
<1>2. thread[w] \in GuestThread /\ thread[w].state = "Running"
  BY DEF Inv, Typed, ThreadTyped, Lives, InGuest
<1>3. /\ r \in GuestThread /\ r.state = thread[w].state /\ r.exit_code = thread[w].exit_code
      /\ r.joinable = thread[w].joinable /\ r.detached = thread[w].detached
      /\ r.join_in_progress = thread[w].join_in_progress
      /\ r.host_thread_valid = thread[w].host_thread_valid /\ r.tls_fini_done
  BY <1>2 DEF GuestThread
<1> HIDE DEF r
<1>4. pc' = [pc EXCEPT ![w] = "run"]
  BY Basics DEF Inv, Typed, ControlTyped
<1>5. ThreadTyped' /\ TableTyped' /\ ControlTyped' /\ Lives' /\ Claimed' /\ Quiet' /\ ActiveJoinsExact'
  BY <1>1, <1>2, <1>3, <1>4, WorkerMoves
<1>6. finis[w] = 0 /\ got[w] = "zero"
  BY DEF Inv, Typed, GuestTyped, Phases
<1>7. GuestTyped'
  BY <1>1, <1>6 DEF Inv, Typed, GuestTyped, Codes
<1>8. CallsTyped' /\ HeapOwned' /\ Places'
  BY HeapKept DEF Inv, Places
<1>9. Phases'
  BY <1>1, <1>3, <1>6 DEF Inv, Typed, ThreadTyped, GuestTyped, Phases
<1>10. QED BY <1>5, <1>7, <1>8, <1>9 DEF Inv, Typed

LEMMA FunctionReturnsStep == ASSUME Inv, NEW w \in Workers, FunctionReturns(w) PROVE Inv'
<1>1. ~ thread[w].tls_fini_done
  BY DEF Inv, Phases, FunctionReturns
<1>2. QED BY <1>1, FiniEntered DEF FunctionReturns

LEMMA ThreadExitStep == ASSUME Inv, NEW w \in Workers, ThreadExit(w) PROVE Inv'
<1>1. left[w] = "zero"
  BY DEF Inv, Typed, GuestTyped, Phases, ThreadExit
<1>2. left' = [left EXCEPT ![w] = "exited"]
  BY <1>1 DEF ThreadExit
<1>3. QED BY <1>2, FiniEntered DEF ThreadExit

\* The host thread is done with its guest calls, whichever was the last.
LEMMA Finishes ==
    ASSUME Inv, NEW w \in Workers, pc[w] = "run", phase[w] \in {"fini", "exit_fini"},
           Finish(w, result[w]),
           UNCHANGED <<threads, allocated, process, then, tid, target, phase, result, left,
                       finis, ops, got>>
    PROVE  Inv'
<1> DEFINE r == [thread[w] EXCEPT !.exit_code = result[w], !.state = "Finished"]
<1>1. /\ thread' = [thread EXCEPT ![w] = r] /\ pc' = [pc EXCEPT ![w] = "finished"]
      /\ depth' = [depth EXCEPT ![w] = 0] /\ heap' = IF depth[w] > 0 THEN None ELSE heap
  BY DEF Finish, Goto, ReleaseHeap
<1>2. thread[w] \in GuestThread /\ result[w] \in Codes
  BY DEF Inv, Typed, ThreadTyped, GuestTyped
<1>3. /\ r \in GuestThread /\ r.state = "Finished" /\ r.exit_code = result[w]
      /\ r.joinable = thread[w].joinable /\ r.detached = thread[w].detached
      /\ r.join_in_progress = thread[w].join_in_progress
      /\ r.host_thread_valid = thread[w].host_thread_valid
      /\ r.tls_fini_done = thread[w].tls_fini_done
  BY <1>2 DEF GuestThread
<1> HIDE DEF r
<1>4. ThreadTyped' /\ TableTyped' /\ ControlTyped' /\ Lives' /\ Claimed' /\ Quiet' /\ ActiveJoinsExact'
  BY <1>1, <1>3, WorkerMoves
<1>5. GuestTyped'
  BY GuestKept DEF guest
<1>6. CallsTyped' /\ HeapOwned'
  BY <1>1, Basics DEF Inv, Typed, CallsTyped, HeapOwned
<1>7. Places'
  BY <1>1, Basics DEF Inv, Typed, ControlTyped, CallsTyped, Places, InGuest, Reaping
<1>8. Phases'
  BY <1>1, <1>3, Basics DEF Inv, Typed, ThreadTyped, ControlTyped, Phases
<1>9. QED BY <1>4, <1>5, <1>6, <1>7, <1>8 DEF Inv, Typed

LEMMA FinishSteps ==
    ASSUME Inv, NEW w \in Workers, FiniReturns(w) \/ ExitCompletes(w) \/ ExitInFini(w)
    PROVE  Inv'
BY Finishes DEF FiniReturns, ExitCompletes, ExitInFini

LEMMA HostEndsStep == ASSUME Inv, NEW w \in Workers, HostEnds(w) PROVE Inv'
<1>1. /\ pc[w] = "finished" /\ pc' = [pc EXCEPT ![w] = "ended"]
      /\ UNCHANGED <<records, process, then, tid, target, guest, heap, depth, ops, got>>
  BY DEF HostEnds, Goto
<1>2. thread[w] \in GuestThread /\ thread' = [thread EXCEPT ![w] = thread[w]]
  BY <1>1 DEF Inv, Typed, ThreadTyped, records
<1>3. ThreadTyped' /\ TableTyped' /\ ControlTyped' /\ Lives' /\ Claimed' /\ Quiet' /\ ActiveJoinsExact'
  BY <1>1, <1>2, WorkerMoves DEF records
<1>4. GuestTyped' /\ CallsTyped' /\ HeapOwned'
  BY <1>1, GuestKept, HeapKept
<1>5. Places'
  BY <1>1, Basics DEF Inv, Typed, ControlTyped, CallsTyped, Places, InGuest, Reaping
<1>6. Phases'
  BY <1>1, Basics DEF Inv, Typed, ControlTyped, Phases, guest, records
<1>7. QED BY <1>3, <1>4, <1>5, <1>6 DEF Inv, Typed

-----------------------------------------------------------------------------
\* Records taken out of the table and freed.

\* pc and target after a step that sets them for t alone.
LEMMA OneMoves ==
    ASSUME Inv, NEW t \in AllThreads, NEW p, pc' = [pc EXCEPT ![t] = p]
    PROVE  pc'[t] = p /\ \A u \in AllThreads \ {t} : pc'[u] = pc[u]
BY DEF Inv, Typed, ControlTyped

LEMMA TakesOut ==
    ASSUME Inv, NEW t \in AllThreads, NEW w \in threads, NEW p \in {"reap_join", "drain_join"},
           \/ pc[t] = "reap" /\ p = "reap_join"
           \/ pc[t] = "drain" /\ p = "drain_join" /\ t = Main,
           ~ thread[w].join_in_progress, pc[w] \in {"finished", "ended"},
           threads' = threads \ {w}, target' = [target EXCEPT ![t] = w],
           pc' = [pc EXCEPT ![t] = p],
           UNCHANGED <<thread, allocated, process, then, tid, guest, heap, depth, ops, got>>
    PROVE  Inv'
<1>1. pc'[t] = p /\ \A u \in AllThreads \ {t} : pc'[u] = pc[u]
  BY OneMoves
<1>2. GuestTyped' /\ CallsTyped' /\ HeapOwned' /\ ThreadTyped'
  BY GuestKept, HeapKept DEF Inv, Typed, ThreadTyped
<1>3. TableTyped' /\ ControlTyped'
  BY DEF Inv, Typed, TableTyped, ControlTyped, Points, InGuest, Ending, Reaping
<1>4. Places'
  BY <1>1, Basics DEF Inv, Typed, CallsTyped, Places, InGuest, Ending, Reaping
<1>5. Lives'
  BY <1>1, Basics DEF Inv, Typed, TableTyped, Lives, InGuest, Reaping, Joining
<1>6. Claimed'
  BY TakeOut
<1>7. Phases' /\ Quiet'
  BY <1>1, Basics DEF Inv, Phases, Quiet, guest, InGuest, Reaping
<1>8. ActiveJoinsExact'
  BY <1>1, JoinsKept DEF Inv
<1>9. QED BY <1>2, <1>3, <1>4, <1>5, <1>6, <1>7, <1>8 DEF Inv, Typed

LEMMA GivesBack ==
    ASSUME Inv, NEW t \in AllThreads, NEW p \in {"reap", "drain"},
           \/ pc[t] \in {"reap_join", "join_free"} /\ p = "reap"
           \/ pc[t] = "drain_join" /\ p = "drain" /\ t = Main,
           pc[target[t]] = "ended", Free(target[t]),
           target' = [target EXCEPT ![t] = None], pc' = [pc EXCEPT ![t] = p],
           UNCHANGED <<thread, threads, process, then, tid, guest, heap, depth, ops, got>>
    PROVE  Inv'
<1>1. pc'[t] = p /\ \A u \in AllThreads \ {t} : pc'[u] = pc[u]
  BY OneMoves
<1>2. GuestTyped' /\ CallsTyped' /\ HeapOwned' /\ ThreadTyped'
  BY GuestKept, HeapKept DEF Inv, Typed, ThreadTyped
<1>3. TableTyped' /\ ControlTyped'
  BY DEF Inv, Typed, TableTyped, ControlTyped, Points, InGuest, Ending, Reaping, Free
<1>4. Places'
  BY <1>1, Basics DEF Inv, Typed, CallsTyped, Places, InGuest, Ending, Reaping
<1>5. target[t] \notin threads /\ allocated' = allocated \ {target[t]}
  BY DEF Inv, Claimed, Takers, Free
<1>6. Lives'
  BY <1>1, <1>5, Basics DEF Inv, Typed, TableTyped, Lives, InGuest, Reaping, Joining
<1>7. Claimed'
  BY <1>5, GiveBack DEF Points, InGuest, Reaping, Ending, ClaimPoints
<1>8. Phases' /\ Quiet'
  BY <1>1, Basics DEF Inv, Phases, Quiet, guest, InGuest, Reaping, Joining
<1>9. ActiveJoinsExact'
  BY <1>1, JoinsKept DEF Inv
<1>10. QED BY <1>2, <1>3, <1>4, <1>6, <1>7, <1>8, <1>9 DEF Inv, Typed

LEMMA ReapStep == ASSUME Inv, NEW t \in AllThreads, Reap(t) PROVE Inv'
<1>1. pc[t] = "reap" /\ UNCHANGED <<thread, allocated, process, tid, guest, heap, depth, ops, got>>
  BY DEF Reap
<1>2. CASE Reapable # {}
  <2>1. Reapable \subseteq threads /\ threads \subseteq Workers
    BY DEF Reapable, Inv, Typed, TableTyped
  <2>2. Min(Reapable) \in Reapable
    BY <1>2, <2>1, FirstOne
  <2>3. PICK w \in threads : /\ thread[w].detached /\ thread[w].state = "Finished"
                             /\ threads' = threads \ {w} /\ target' = [target EXCEPT ![t] = w]
    BY <1>2, <2>2 DEF Reap, Reapable
  <2>4. ~ thread[w].join_in_progress
    BY <2>3 DEF Inv, Claimed, Marks
  <2>5. pc[w] \in {"finished", "ended"}
    BY <2>1, <2>3 DEF Inv, Lives, Places
  <2>6. pc' = [pc EXCEPT ![t] = "reap_join"] /\ UNCHANGED then
    BY <1>2 DEF Reap, Goto
  <2>7. QED BY <1>1, <2>3, <2>4, <2>5, <2>6, TakesOut
<1>3. CASE Reapable = {}
  <2> DEFINE p == then[t]
  <2>1. /\ pc' = [pc EXCEPT ![t] = p] /\ then' = [then EXCEPT ![t] = "run"]
        /\ UNCHANGED <<threads, target>>
    BY <1>3 DEF Reap, Goto
  <2>2. p \in {"run", "join", "detach", "workers"} /\ (p = "workers" => t = Main)
    BY DEF Inv, Places
  <2> HIDE DEF p
  <2>3. depth[t] = 0
    BY <1>1 DEF Inv, Places, Typed, CallsTyped
  <2>4. CASE p # "workers"
    <3>1. p \in InGuest \ ClaimPoints /\ pc[t] \in InGuest \ ClaimPoints /\ p \notin {"addr_wait", "heap_wait"}
      BY <1>1, <2>2, <2>4 DEF InGuest, Reaping, Joining, ClaimPoints
    <3>2. \A u \in AllThreads : ops[u] <= ops'[u] /\ ops'[u] <= MaxOps[u]
      BY <1>1, Basics DEF Inv, Typed, CallsTyped
    <3>3. UNCHANGED <<records, process, target, guest, heap, depth, got>>
      BY <1>1, <2>1 DEF records
    <3>4. ops' \in [AllThreads -> Nat] /\ tid' \in [AllThreads -> AllThreads]
      BY <1>1 DEF Inv, Typed, CallsTyped, ControlTyped
    <3>5. QED BY <2>1, <2>3, <3>1, <3>2, <3>3, <3>4, GuestMoves
  <2>5. CASE p = "workers"
    <3>1. t = Main /\ pc'[Main] = "workers" /\ \A u \in Workers : pc'[u] = pc[u]
      <4>1. pc'[t] = p /\ \A u \in AllThreads \ {t} : pc'[u] = pc[u]
        BY <2>1, OneMoves
      <4>2. QED BY <2>2, <2>5, <4>1, Basics
    <3>2. GuestTyped' /\ CallsTyped' /\ HeapOwned' /\ ThreadTyped' /\ TableTyped'
      BY <1>1, <2>1, GuestKept, HeapKept, TableKept DEF records
    <3>3. ControlTyped'
      BY <1>1, <2>1, <2>5 DEF Inv, Typed, ControlTyped, Points, InGuest, Ending
    <3>4. Places'
      BY <1>1, <2>1, <2>3, <3>1, Basics DEF Inv, Typed, ControlTyped, CallsTyped, Places, InGuest, Ending, Reaping
    <3>5. Lives' /\ Phases' /\ Quiet'
      BY <1>1, <2>1, <3>1 DEF Inv, Typed, TableTyped, Lives, Phases, Quiet, guest
    <3>6. \A u \in AllThreads : pc'[u] = pc[u] \/ (pc[u] = "reap" /\ pc'[u] = "workers")
      BY <1>1, <3>1, Basics
    <3>7. Claimed'
      BY <1>1, <2>1, <3>6, Basics, ClaimsKept DEF Inv, Typed, TableTyped, Claims
    <3>8. ActiveJoinsExact'
      BY <1>1, <3>6, JoinsKept DEF Inv
    <3>9. QED BY <3>2, <3>3, <3>4, <3>5, <3>7, <3>8 DEF Inv, Typed
  <2>6. QED BY <2>4, <2>5
<1>4. QED BY <1>2, <1>3

LEMMA ReapFreeStep == ASSUME Inv, NEW t \in AllThreads, ReapFree(t) PROVE Inv'
BY GivesBack DEF ReapFree, Goto

LEMMA JoinFreeStep == ASSUME Inv, NEW t \in AllThreads, JoinFree(t) PROVE Inv'
<1>1. pc[t] = "join_free" /\ pc[target[t]] = "ended"
  BY DEF JoinFree, Inv, Claimed, Takers
<1>2. UNCHANGED then
  BY <1>1 DEF JoinFree, ReapThen, Inv, Typed, ControlTyped, Places, Reaping
<1>3. QED BY <1>1, <1>2, GivesBack DEF JoinFree, ReapThen, Goto

-----------------------------------------------------------------------------
\* Creation, join and detach.

\* The id of a new worker was never used: nobody has a record under it.
LEMMA FreshWorker ==
    ASSUME Inv, process.next_tid \in Workers
    PROVE  /\ pc[process.next_tid] = "none" /\ process.next_tid \notin allocated
           /\ \A t \in AllThreads : Claims(t) => target[t] # process.next_tid
<1>1. pc[process.next_tid] = "none" /\ process.next_tid \notin allocated
  BY Basics DEF Inv, Lives, Typed, TableTyped
<1>2. QED BY <1>1 DEF Inv, Lives, Claimed, Takers, Claims

LEMMA ThreadCreateStep == ASSUME Inv, NEW t \in AllThreads, ThreadCreate(t) PROVE Inv'
<1> DEFINE w == process.next_tid
<1>1. /\ Syscall(t, "create") /\ depth[t] = 0 /\ w \in Workers
      /\ UNCHANGED <<tid, target, guest, heap, depth, got>>
  BY DEF ThreadCreate, Unlocked
<1>2. /\ ops' \in [AllThreads -> Nat] /\ pc[t] = "run" /\ then[t] = "run"
      /\ \A u \in AllThreads : ops[u] <= ops'[u] /\ ops'[u] <= MaxOps[u]
  BY <1>1, SyscallBegins
<1>3. GuestTyped' /\ CallsTyped' /\ HeapOwned'
  BY <1>1, <1>2, GuestKept, Basics DEF Inv, Typed, CallsTyped, HeapOwned
<1>4. CASE UNCHANGED <<records, process, pc, then>>
  <2>1. pc' = [pc EXCEPT ![t] = "run"] /\ then' = [then EXCEPT ![t] = "run"]
    BY <1>2, <1>4 DEF Inv, Typed, ControlTyped
  <2>2. tid' \in [AllThreads -> AllThreads]
    BY <1>1 DEF Inv, Typed, ControlTyped
  <2>3. QED BY <1>1, <1>2, <1>4, <2>1, <2>2, GuestMoves DEF InGuest, ClaimPoints
<1>5. ASSUME process' = [process EXCEPT !.next_tid = @ + 1]
      PROVE  /\ process'.next_tid = w + 1 /\ process'.active_joins = process.active_joins
             /\ process' \in [next_tid : 2 .. MaxTid + 1, active_joins : 0 .. MaxTid,
                              shutting_down : BOOLEAN, initialized : BOOLEAN, waits : BOOLEAN]
  <2>1. w + 1 \in 2 .. MaxTid + 1
    BY <1>1, Basics DEF Workers
  <2>2. QED BY <1>5, <2>1 DEF Inv, Typed, TableTyped
<1>6. CASE process' = [process EXCEPT !.next_tid = @ + 1] /\ UNCHANGED <<records, pc, then>>
  <2>1. /\ UNCHANGED <<thread, threads, allocated, pc, then>> /\ process'.next_tid = w + 1
        /\ process'.active_joins = process.active_joins
    BY <1>5, <1>6 DEF records
  <2>2. ThreadTyped' /\ TableTyped' /\ ControlTyped'
    BY <1>1, <1>5, <1>6, <2>1 DEF Inv, Typed, ThreadTyped, TableTyped, ControlTyped
  <2>3. Places'
    BY <1>1, <1>2, <2>1 DEF Inv, Typed, CallsTyped, Places
  <2>4. Lives'
    BY <2>1, Basics DEF Inv, Typed, TableTyped, Lives
  <2>5. Claimed' /\ ActiveJoinsExact'
    BY <1>1, <2>1, ClaimsKept, JoinsKept DEF Inv, Claims
  <2>6. Phases' /\ Quiet'
    BY <1>1, <2>1 DEF Inv, Phases, Quiet, guest
  <2>7. QED BY <1>3, <2>2, <2>3, <2>4, <2>5, <2>6 DEF Inv, Typed
<1>7. CASE /\ process' = [process EXCEPT !.next_tid = @ + 1]
           /\ thread' = [thread EXCEPT ![w] = NewGuestThread]
           /\ threads' = threads \cup {w} /\ allocated' = allocated \cup {w}
           /\ pc' = [pc EXCEPT ![t] = "reap", ![w] = "start"]
           /\ then' = [then EXCEPT ![t] = "run"]
  <2>1. /\ pc[w] = "none" /\ w \notin allocated /\ w # t
        /\ \A u \in AllThreads : Claims(u) => target[u] # w
    BY <1>1, <1>2, FreshWorker
  <2>2. /\ pc'[t] = "reap" /\ pc'[w] = "start"
        /\ \A u \in AllThreads \ {t, w} : pc'[u] = pc[u]
    BY <1>1, <1>7, <2>1, Basics DEF Inv, Typed, ControlTyped
  <2>3. then' = then
    BY <1>2, <1>7 DEF Inv, Typed, ControlTyped
  <2>4. /\ thread'[w].host_thread_valid /\ thread'[w].state = "Idle"
        /\ ~ thread'[w].detached /\ ~ thread'[w].join_in_progress /\ ~ thread'[w].tls_fini_done
        /\ \A u \in Workers \ {w} : thread'[u] = thread[u]
    BY <1>1, <1>7 DEF Inv, Typed, ThreadTyped, NewGuestThread
  <2>5. ThreadTyped'
    <3>1. NewGuestThread \in GuestThread
      BY DEF NewGuestThread, GuestThread, Codes
    <3>2. QED BY <1>1, <1>7, <3>1 DEF Inv, Typed, ThreadTyped
  <2>6. TableTyped' /\ ControlTyped'
    BY <1>1, <1>5, <1>7, <2>3 DEF Inv, Typed, TableTyped, ControlTyped, Points, InGuest, Reaping
  <2>7. Places'
    BY <1>1, <1>2, <2>1, <2>2, <2>3, Basics DEF Inv, Typed, CallsTyped, Places, InGuest, Ending, Reaping
  <2>8. Lives'
    <3>1. process'.next_tid = w + 1 /\ w \in Nat /\ threads \subseteq allocated /\ allocated \subseteq Workers
          /\ threads' = threads \cup {w} /\ allocated' = allocated \cup {w}
      BY <1>1, <1>5, <1>7, Basics DEF Inv, Typed, TableTyped, Lives
    <3>2. t \in Workers => t \in threads /\ thread[t].state = "Running" /\ ~ (t >= w)
      BY <1>2, Basics DEF Inv, Lives, InGuest
    <3>3. ASSUME NEW u \in Workers
          PROVE  /\ u >= process'.next_tid => pc'[u] = "none"
                 /\ pc'[u] = "none" => u \notin allocated'
                 /\ pc'[u] = "start" => u \in threads' /\ thread'[u].state = "Idle"
                 /\ pc'[u] \in InGuest => u \in threads' /\ thread'[u].state = "Running"
                 /\ pc'[u] = "finished" => u \in allocated'
      <4>1. CASE u = w
        BY <2>2, <2>4, <3>1, <4>1 DEF InGuest, Reaping, Joining
      <4>2. CASE u = t
        BY <2>1, <2>2, <2>4, <3>1, <3>2, <4>2, Basics
      <4>3. CASE u \notin {t, w}
        BY <2>2, <2>4, <3>1, <4>3, Basics DEF Inv, Lives
      <4>4. QED BY <4>1, <4>2, <4>3
    <3>4. \A u \in threads' : /\ thread'[u].host_thread_valid
                              /\ pc'[u] \in {"finished", "ended"} => thread'[u].state = "Finished"
      BY <1>2, <2>1, <2>2, <2>4, <3>1, Basics DEF Inv, Lives
    <3>5. threads' \subseteq allocated'
      BY <3>1
    <3>6. QED BY <3>3, <3>4, <3>5 DEF Lives
  <2>9. Claimed'
    <3>1. \A u \in AllThreads : Claims(u)' <=> Claims(u)
      BY <1>2, <2>1, <2>2 DEF Claims
    <3>2. \A u \in AllThreads : Claims(u) => pc'[u] = pc[u]
      BY <1>2, <2>1, <2>2 DEF Claims
    <3>3. Marks'
      <4>1. \A u \in threads : u \in Workers \ {w} /\ thread'[u] = thread[u]
        BY <2>1, <2>4 DEF Inv, Typed, TableTyped, Lives
      <4>2. \A u \in AllThreads : pc[u] = "join_wait" => pc'[u] = "join_wait"
        BY <3>2 DEF Claims
      <4>3. ASSUME NEW u \in threads, thread[u].join_in_progress
            PROVE  \E v \in AllThreads : pc'[v] = "join_wait" /\ target'[v] = u
        BY <1>1, <4>2, <4>3 DEF Inv, Claimed, Marks
      <4>4. \A u \in threads : /\ thread[u].joinable => ~ thread[u].detached
                               /\ thread[u].join_in_progress => ~ thread[u].joinable /\ ~ thread[u].detached
        BY DEF Inv, Claimed, Marks
      <4>5. QED BY <1>7, <2>4, <4>1, <4>3, <4>4 DEF Marks
    <3>4. Takers'
      BY <1>1, <1>2, <1>7, <2>1, <2>2, <2>4, <3>1, <3>2, Basics
         DEF Inv, Typed, TableTyped, ControlTyped, Claimed, Takers, Claims
    <3>5. OneTaker' /\ NoRecordLost'
      BY <1>1, <1>7, <3>1 DEF Inv, Claimed, OneTaker, NoRecordLost
    <3>6. QED BY <3>3, <3>4, <3>5 DEF Claimed
  <2>10. Phases'
    <3>1. phase[w] = "init" /\ finis[w] = 0 /\ left[w] = "zero" /\ got[w] = "zero"
      BY <1>1, <2>1 DEF Inv, Phases
    <3>2. UNCHANGED <<phase, result, left, finis, got>>
      BY <1>1 DEF guest
    <3>3. \A u \in Workers \ {w} : /\ thread'[u] = thread[u]
                                   /\ pc'[u] # pc[u] => pc[u] = "run" /\ pc'[u] = "reap"
      BY <1>2, <2>2, <2>4, Basics
    <3>4. QED BY <1>1, <2>2, <2>4, <3>1, <3>2, <3>3 DEF Inv, Phases
  <2>11. Quiet'
    BY <1>1, <1>2, <2>1, <2>2, Basics DEF Inv, Quiet
  <2>12. ActiveJoinsExact'
    BY <1>2, <1>5, <1>7, <2>1, <2>2, JoinsKept DEF Inv
  <2>13. QED BY <1>3, <2>5, <2>6, <2>7, <2>8, <2>9, <2>10, <2>11, <2>12 DEF Inv, Typed
<1>8. QED BY <1>4, <1>6, <1>7 DEF ThreadCreate

\* Refused: the thread goes on.
LEMMA Refused ==
    ASSUME Inv, NEW t \in AllThreads, pc[t] \in {"join", "detach"}, Goto(t, "run"),
           tid' = [tid EXCEPT ![t] = Main],
           UNCHANGED <<records, process, then, target, guest, heap, depth, ops, got>>
    PROVE  Inv'
<1>1. tid' \in [AllThreads -> AllThreads] /\ then' = [then EXCEPT ![t] = "run"]
  BY Basics DEF Inv, Typed, ControlTyped, Places, Reaping
<1>2. depth[t] = 0 /\ ops' \in [AllThreads -> Nat]
  BY DEF Inv, Typed, CallsTyped, Places
<1>3. \A u \in AllThreads : ops[u] <= ops'[u] /\ ops'[u] <= MaxOps[u]
  BY Basics DEF Inv, Typed, CallsTyped
<1>4. QED BY <1>1, <1>2, <1>3, GuestMoves DEF Goto, InGuest, Joining, ClaimPoints

LEMMA DetachMarkStep == ASSUME Inv, NEW t \in AllThreads, DetachMark(t) PROVE Inv'
<1> DEFINE u == tid[t]
           r == [thread[u] EXCEPT !.joinable = FALSE, !.detached = TRUE]
<1>1. /\ pc[t] = "detach" /\ tid' = [tid EXCEPT ![t] = Main]
      /\ UNCHANGED <<threads, allocated, process, target, guest, heap, depth, ops, got>>
  BY DEF DetachMark
<1>2. CASE ~ Joinable(u)
  BY <1>1, <1>2, Refused DEF DetachMark, records
<1>3. CASE Joinable(u)
  <2>1. /\ thread' = [thread EXCEPT ![u] = r] /\ pc' = [pc EXCEPT ![t] = "reap"]
        /\ then' = [then EXCEPT ![t] = "run"]
    BY <1>3 DEF DetachMark, ReapThen, Goto
  <2>2. u \in threads /\ u \in Workers /\ thread[u].joinable /\ thread[u] \in GuestThread
    BY <1>3 DEF Joinable, Inv, Typed, ThreadTyped, TableTyped
  <2>3. /\ r \in GuestThread /\ ~ r.joinable /\ r.detached /\ r.state = thread[u].state
        /\ r.join_in_progress = thread[u].join_in_progress
        /\ r.host_thread_valid = thread[u].host_thread_valid
        /\ r.tls_fini_done = thread[u].tls_fini_done /\ r.exit_code = thread[u].exit_code
    BY <2>2 DEF GuestThread
  <2> HIDE DEF u, r
  <2>4. thread'[u] = r /\ \A w \in Workers \ {u} : thread'[w] = thread[w]
    BY <2>1, <2>2 DEF Inv, Typed, ThreadTyped
  <2>5. pc'[t] = "reap" /\ (\A v \in AllThreads \ {t} : pc'[v] = pc[v]) /\ then' = then
    BY <1>1, <2>1, OneMoves DEF Inv, Typed, ControlTyped, Places, Reaping
  <2>6. GuestTyped' /\ CallsTyped' /\ HeapOwned'
    BY <1>1, GuestKept, HeapKept
  <2>7. ThreadTyped' /\ TableTyped' /\ ControlTyped'
    <3>1. ThreadTyped'
      BY <2>1, <2>3 DEF Inv, Typed, ThreadTyped
    <3>2. TableTyped'
      BY <1>1 DEF Inv, Typed, TableTyped
    <3>3. ControlTyped'
      BY <1>1, <2>1, <2>5, Basics DEF Inv, Typed, ControlTyped, Points, InGuest, Reaping
    <3>4. QED BY <3>1, <3>2, <3>3
  <2>8. Places'
    BY <1>1, <2>5, Basics DEF Inv, Typed, CallsTyped, Places, InGuest, Ending, Reaping
  <2>9. Lives'
    BY <1>1, <2>2, <2>3, <2>4, <2>5, Basics DEF Inv, Typed, TableTyped, Lives, InGuest, Reaping, Joining
  <2>10. Claimed'
    <3>1. ~ thread[u].join_in_progress
      BY <2>2 DEF Inv, Claimed, Marks
    <3>2. \A v \in AllThreads : /\ Claims(v)' <=> Claims(v)
                                /\ Claims(v) => pc'[v] = pc[v]
      BY <1>1, <2>5 DEF Claims
    <3>3. Marks'
      BY <1>1, <2>2, <2>3, <2>4, <3>1, <3>2 DEF Inv, Typed, TableTyped, Claimed, Marks, Claims
    <3>4. Takers'
      <4>1. \A w \in threads : thread'[w].join_in_progress <=> thread[w].join_in_progress
        BY <2>2, <2>3, <2>4 DEF Inv, Typed, TableTyped
      <4>2. \A v \in AllThreads :
                Claims(v) => /\ pc[target[v]] = "ended" => pc'[target[v]] = "ended"
                             /\ pc[target[v]] = "finished" => pc'[target[v]] = "finished"
        BY <1>1, <2>5, Basics DEF Inv, Typed, TableTyped, Claimed, Takers, Claims
      <4>3. \A v \in AllThreads : pc'[v] \in ClaimPoints => pc'[v] = pc[v]
        BY <1>1, <2>5 DEF ClaimPoints
      <4>4. \A v \in AllThreads : pc[v] = "join_wait" =>
                target[v] \in threads /\ thread'[target[v]].join_in_progress
        BY <4>1 DEF Inv, Claimed, Takers
      <4>5. \A v \in AllThreads : pc[v] \in {"reap_join", "join_free", "drain_join"} =>
                target[v] \in allocated \ threads /\ pc'[target[v]] \in {"finished", "ended"}
        BY <4>2 DEF Inv, Claimed, Takers, Claims
      <4>6. \A v \in AllThreads : pc[v] = "join_free" => pc'[target[v]] = "ended"
        BY <4>2 DEF Inv, Claimed, Takers, Claims
      <4>7. QED BY <1>1, <4>3, <4>4, <4>5, <4>6 DEF Takers, ClaimPoints
    <3>5. OneTaker' /\ NoRecordLost'
      BY <1>1, <3>2 DEF Inv, Claimed, OneTaker, NoRecordLost
    <3>6. QED BY <3>3, <3>4, <3>5 DEF Claimed
  <2>11. Phases' /\ Quiet'
    <3>1. \A w \in Workers : /\ thread'[w].tls_fini_done <=> thread[w].tls_fini_done
                             /\ thread'[w].exit_code = thread[w].exit_code
                             /\ pc'[w] # pc[w] => pc[w] = "detach" /\ pc'[w] = "reap"
      BY <1>1, <2>2, <2>3, <2>4, <2>5, Basics
    <3>2. Phases'
      BY <1>1, <3>1 DEF Inv, Phases, guest
    <3>3. Quiet'
      BY <1>1, <2>5, Basics DEF Inv, Quiet
    <3>4. QED BY <3>2, <3>3
  <2>12. ActiveJoinsExact'
    BY <1>1, <2>5, JoinsKept DEF Inv
  <2>13. QED BY <2>6, <2>7, <2>8, <2>9, <2>10, <2>11, <2>12 DEF Inv, Typed
<1>4. QED BY <1>2, <1>3

\* A join claims its worker: nobody else can have it, for it was joinable.
LEMMA JoinClaimStep == ASSUME Inv, NEW t \in AllThreads, JoinClaim(t) PROVE Inv'
<1> DEFINE u == tid[t]
           r == [thread[u] EXCEPT !.joinable = FALSE, !.join_in_progress = TRUE]
<1>1. /\ pc[t] = "join" /\ tid' = [tid EXCEPT ![t] = Main]
      /\ UNCHANGED <<threads, allocated, then, guest, heap, depth, ops, got>>
  BY DEF JoinClaim
<1>2. CASE ~ (Joinable(u) /\ thread[u].host_thread_valid)
  BY <1>1, <1>2, Refused DEF JoinClaim, records
<1>3. CASE Joinable(u) /\ thread[u].host_thread_valid
  <2>1. /\ thread' = [thread EXCEPT ![u] = r] /\ pc' = [pc EXCEPT ![t] = "join_wait"]
        /\ process' = [process EXCEPT !.active_joins = @ + 1] /\ target' = [target EXCEPT ![t] = u]
    BY <1>3 DEF JoinClaim, MarkJoining, Goto
  <2>2. /\ u \in threads /\ u \in Workers /\ thread[u].joinable /\ ~ thread[u].detached
        /\ thread[u] \in GuestThread
    BY <1>3 DEF Joinable, Inv, Typed, ThreadTyped, TableTyped
  <2>3. /\ r \in GuestThread /\ ~ r.joinable /\ r.join_in_progress /\ r.state = thread[u].state
        /\ r.detached = thread[u].detached /\ r.host_thread_valid = thread[u].host_thread_valid
        /\ r.tls_fini_done = thread[u].tls_fini_done /\ r.exit_code = thread[u].exit_code
    BY <2>2 DEF GuestThread
  <2> HIDE DEF u, r
  <2>4. thread'[u] = r /\ \A w \in Workers \ {u} : thread'[w] = thread[w]
    BY <2>1, <2>2 DEF Inv, Typed, ThreadTyped
  <2>5. /\ pc'[t] = "join_wait" /\ target'[t] = u
        /\ \A v \in AllThreads \ {t} : pc'[v] = pc[v] /\ target'[v] = target[v]
    BY <2>1 DEF Inv, Typed, ControlTyped
  <2>6. ActiveJoinsExact' /\ process.active_joins + 1 <= MaxTid
    <3> DEFINE W == {v \in AllThreads : pc[v] = "join_wait"}
    <3>1. {v \in AllThreads : pc'[v] = "join_wait"} = W \cup {t} /\ t \notin W
      BY <1>1, <2>5
    <3>2. IsFiniteSet(W) /\ Cardinality(AllThreads) = MaxTid
      <4>1. Cardinality(1 .. MaxTid) = MaxTid
        BY Basics, FS_Interval
      <4>2. QED BY <4>1, Basics, FS_Subset DEF AllThreads
    <3>3. Cardinality(W \cup {t}) = Cardinality(W) + 1
      BY <3>1, <3>2, FS_AddElement
    <3>4. Cardinality(W \cup {t}) <= MaxTid
      BY <3>2, Basics, FS_Subset, W \cup {t} \subseteq AllThreads
    <3>5. process.active_joins = Cardinality(W) /\ process'.active_joins = process.active_joins + 1
      BY <2>1 DEF Inv, ActiveJoinsExact, Typed, TableTyped
    <3>6. QED BY <3>1, <3>3, <3>4, <3>5 DEF ActiveJoinsExact
  <2>7. GuestTyped' /\ CallsTyped' /\ HeapOwned'
    BY <1>1, GuestKept, HeapKept
  <2>8. ThreadTyped' /\ ControlTyped'
    BY <1>1, <2>1, <2>2, <2>3, Basics DEF Inv, Typed, ThreadTyped, ControlTyped, Points, InGuest, Joining
  <2>9. TableTyped' /\ process'.next_tid = process.next_tid
    BY <1>1, <2>1, <2>6, Basics DEF Inv, Typed, TableTyped
  <2>10. Places'
    BY <1>1, <2>5, Basics DEF Inv, Typed, CallsTyped, Places, InGuest, Ending, Reaping, Joining
  <2>11. Lives'
    BY <1>1, <2>2, <2>3, <2>4, <2>5, <2>9, Basics
       DEF Inv, Typed, TableTyped, Lives, InGuest, Reaping, Joining
  <2>12. Claimed'
    <3>1. ~ thread[u].join_in_progress
      BY <2>2 DEF Inv, Claimed, Marks
    <3>2. \A v \in AllThreads : Claims(v) => target[v] # u
      BY <2>2, <3>1 DEF Inv, Claimed, Takers, Claims
    <3>3. Claims(t)' /\ ~ Claims(t) /\ \A v \in AllThreads \ {t} : Claims(v)' <=> Claims(v)
      BY <1>1, <2>5 DEF Claims
    <3>4. Marks'
      <4>1. \A w \in threads \ {u} : thread'[w] = thread[w]
        BY <2>4 DEF Inv, Typed, TableTyped
      <4>2. \A v \in AllThreads : pc[v] = "join_wait" => pc'[v] = "join_wait" /\ target'[v] = target[v]
        BY <1>1, <2>5
      <4>3. QED BY <1>1, <2>2, <2>3, <2>4, <2>5, <4>1, <4>2 DEF Inv, Claimed, Marks
    <3>5. Takers'
      <4>1. ASSUME NEW v \in AllThreads \ {t}
            PROVE  /\ pc'[v] = "join_wait" =>
                         target'[v] \in threads /\ thread'[target'[v]].join_in_progress
                   /\ pc'[v] \in {"reap_join", "join_free", "drain_join"} =>
                         /\ target'[v] \in allocated \ threads
                         /\ pc'[target'[v]] \in {"finished", "ended"}
                   /\ pc'[v] = "join_free" => pc'[target'[v]] = "ended"
        <5>1. pc'[v] = pc[v] /\ target'[v] = target[v]
          BY <2>5
        <5>2. pc[v] = "join_wait" => target[v] \in threads /\ thread'[target[v]] = thread[target[v]]
          BY <2>4, <3>2 DEF Inv, Typed, TableTyped, Claimed, Takers, Claims
        <5>3. Claims(v) => /\ pc[target[v]] = "ended" => pc'[target[v]] = "ended"
                           /\ pc[target[v]] = "finished" => pc'[target[v]] = "finished"
          BY <1>1, <2>5, Basics DEF Inv, Typed, TableTyped, Claimed, Takers, Claims
        <5>4. QED BY <1>1, <5>1, <5>2, <5>3 DEF Inv, Claimed, Takers, Claims
      <4>2. QED BY <1>1, <2>2, <2>3, <2>4, <2>5, <4>1 DEF Takers
    <3>6. OneTaker' /\ NoRecordLost'
      BY <1>1, <2>5, <3>2, <3>3 DEF Inv, Claimed, OneTaker, NoRecordLost
    <3>7. QED BY <3>4, <3>5, <3>6 DEF Claimed
  <2>13. Phases' /\ Quiet'
    <3>1. \A w \in Workers : /\ thread'[w].tls_fini_done <=> thread[w].tls_fini_done
                             /\ thread'[w].exit_code = thread[w].exit_code
                             /\ pc'[w] # pc[w] => pc[w] = "join" /\ pc'[w] = "join_wait"
      BY <1>1, <2>2, <2>3, <2>4, <2>5, Basics
    <3>2. Phases'
      BY <1>1, <3>1 DEF Inv, Phases, guest
    <3>3. Quiet'
      BY <1>1, <2>5, Basics DEF Inv, Quiet
    <3>4. QED BY <3>2, <3>3
  <2>14. QED BY <2>6, <2>7, <2>8, <2>9, <2>10, <2>11, <2>12, <2>13 DEF Inv, Typed
<1>4. QED BY <1>2, <1>3

\* A join is over: the record is out of the table, and still the joiner's.
LEMMA JoinFinishStep == ASSUME Inv, NEW t \in AllThreads, JoinFinish(t) PROVE Inv'
<1> DEFINE u == target[t]
           r == [thread[u] EXCEPT !.host_thread_valid = FALSE, !.join_in_progress = FALSE,
                                  !.state = "Joined"]
<1>1. /\ pc[t] = "join_wait" /\ pc[u] = "ended" /\ got' = [got EXCEPT ![u] = thread[u].exit_code]
      /\ thread' = [thread EXCEPT ![u] = r] /\ threads' = threads \ {u}
      /\ process' = [process EXCEPT !.active_joins = @ - 1] /\ pc' = [pc EXCEPT ![t] = "join_free"]
      /\ UNCHANGED <<allocated, then, tid, target, guest, heap, depth, ops>>
  BY DEF JoinFinish, DropActiveJoin, Goto
<1>2. u \in threads /\ u \in Workers /\ u \in allocated /\ u # t /\ thread[u] \in GuestThread
  BY <1>1 DEF Inv, Typed, ThreadTyped, TableTyped, Claimed, Takers, Lives
<1>3. /\ r \in GuestThread /\ r.tls_fini_done = thread[u].tls_fini_done
      /\ r.exit_code = thread[u].exit_code
  BY <1>2 DEF GuestThread
<1> HIDE DEF u, r
<1>4. thread'[u] = r /\ \A w \in Workers \ {u} : thread'[w] = thread[w]
  BY <1>1, <1>2 DEF Inv, Typed, ThreadTyped
<1>5. pc'[t] = "join_free" /\ \A v \in AllThreads \ {t} : pc'[v] = pc[v]
  BY <1>1, OneMoves
<1>6. ActiveJoinsExact' /\ process.active_joins \in 1 .. MaxTid
  <2> DEFINE W == {v \in AllThreads : pc[v] = "join_wait"}
  <2>1. {v \in AllThreads : pc'[v] = "join_wait"} = W \ {t} /\ t \in W
    BY <1>1, <1>5
  <2>2. IsFiniteSet(W)
    BY Basics, FS_Subset
  <2>3. Cardinality(W \ {t}) = Cardinality(W) - 1
    BY <2>1, <2>2, FS_RemoveElement
  <2>4. Cardinality(W) # 0 /\ Cardinality(W) \in Nat
    BY <2>1, <2>2, FS_EmptySet, FS_CardinalityType
  <2>5. /\ process.active_joins = Cardinality(W) /\ process.active_joins \in 0 .. MaxTid
        /\ process'.active_joins = process.active_joins - 1
    BY <1>1 DEF Inv, ActiveJoinsExact, Typed, TableTyped
  <2>6. ActiveJoinsExact'
    BY <2>1, <2>3, <2>5 DEF ActiveJoinsExact
  <2> HIDE DEF W
  <2>7. process.active_joins \in 1 .. MaxTid
    BY <2>4, <2>5, Basics
  <2>8. QED BY <2>6, <2>7
<1>7. ThreadTyped' /\ ControlTyped'
  BY <1>1, <1>3 DEF Inv, Typed, ThreadTyped, ControlTyped, Points, InGuest, Joining
<1>8. TableTyped' /\ process'.next_tid = process.next_tid
  BY <1>1, <1>6, Basics DEF Inv, Typed, TableTyped
<1>9. CallsTyped' /\ HeapOwned'
  BY <1>1, HeapKept
<1>10. GuestTyped'
  BY <1>1, <1>2 DEF Inv, Typed, GuestTyped, GuestThread, guest
<1>11. Places'
  BY <1>1, <1>5, Basics DEF Inv, Typed, CallsTyped, Places, InGuest, Ending, Reaping, Joining
<1>12. Lives'
  BY <1>1, <1>2, <1>4, <1>5, <1>8, Basics DEF Inv, Typed, TableTyped, Lives, InGuest, Reaping, Joining
<1>13. Claimed'
  <2>1. \A v \in AllThreads \ {t} : Claims(v) => target[v] # u
    BY <1>1 DEF Inv, Claimed, OneTaker, Claims, u
  <2>2. \A v \in AllThreads : Claims(v)' <=> Claims(v)
    BY <1>1, <1>5 DEF Claims
  <2>3. Marks'
    <3>1. \A w \in threads' : w # u /\ w \in threads /\ thread'[w] = thread[w]
      BY <1>1, <1>4 DEF Inv, Typed, TableTyped
    <3>2. \A v \in AllThreads \ {t} : pc[v] = "join_wait" => pc'[v] = "join_wait"
      BY <1>5
    <3>3. QED BY <1>1, <3>1, <3>2 DEF Inv, Claimed, Marks, u
  <2>4. Takers'
    <3>1. ASSUME NEW v \in AllThreads \ {t}
          PROVE  /\ pc'[v] = "join_wait" =>
                       target[v] \in threads' /\ thread'[target[v]].join_in_progress
                 /\ pc'[v] \in {"reap_join", "join_free", "drain_join"} =>
                       /\ target[v] \in allocated \ threads'
                       /\ pc'[target[v]] \in {"finished", "ended"}
                 /\ pc'[v] = "join_free" => pc'[target[v]] = "ended"
      BY <1>1, <1>4, <1>5, <2>1, Basics DEF Inv, Typed, TableTyped, Claimed, Takers, Claims
    <3>2. target[t] = u
      BY DEF u
    <3>3. pc'[u] = "ended" /\ u \in allocated /\ u \notin threads'
      BY <1>1, <1>2, <1>5, Basics
    <3>4. QED BY <1>1, <1>5, <3>1, <3>2, <3>3 DEF Takers
  <2>5. OneTaker' /\ NoRecordLost'
    <3>1. target[t] = u /\ Claims(t)
      BY <1>1 DEF u, Claims
    <3>2. QED BY <1>1, <2>2, <3>1 DEF Inv, Claimed, OneTaker, NoRecordLost
  <2>6. QED BY <2>3, <2>4, <2>5 DEF Claimed
<1>14. Phases'
  <2>1. \A w \in Workers : /\ thread'[w].tls_fini_done <=> thread[w].tls_fini_done
                           /\ thread'[w].exit_code = thread[w].exit_code
                           /\ pc'[w] # pc[w] => pc[w] = "join_wait" /\ pc'[w] = "join_free"
    BY <1>1, <1>2, <1>3, <1>4, <1>5, Basics
  <2>2. thread[u].exit_code = left[u] /\ got'[u] = left[u] /\ \A w \in Workers \ {u} : got'[w] = got[w]
    BY <1>1, <1>2 DEF Inv, Typed, GuestTyped, Phases
  <2>3. QED BY <1>1, <2>1, <2>2 DEF Inv, Phases, guest
<1>15. Quiet'
  BY <1>1, <1>5, Basics DEF Inv, Typed, TableTyped, Quiet
<1>16. QED BY <1>6, <1>7, <1>8, <1>9, <1>10, <1>11, <1>12, <1>13, <1>14, <1>15 DEF Inv, Typed

-----------------------------------------------------------------------------
\* The destruction, on the main thread.

\* Main goes from one point of the destruction to the next, with every record
\* as it was.
LEMMA MainMoves ==
    ASSUME Inv, NEW p \in {"shut_table", "reap", "workers", "joins", "drain", "clear", "end"},
           pc[Main] \in {"run", "workers", "joins", "drain", "clear"}, depth[Main] = 0,
           pc' = [pc EXCEPT ![Main] = p],
           then' = then \/ (p = "reap" /\ then' = [then EXCEPT ![Main] = "workers"]),
           p \in {"joins", "drain", "clear", "end"} =>
              \A w \in Workers : pc[w] \in {"none", "finished", "ended"},
           p \in {"clear", "end"} => threads = {},
           process'.next_tid = process.next_tid, process'.active_joins = process.active_joins,
           TableTyped',
           UNCHANGED <<records, tid, target, guest, heap, depth, ops, got>>
    PROVE  Inv'
<1>1. pc'[Main] = p /\ \A u \in Workers : pc'[u] = pc[u]
  <2>1. pc'[Main] = p /\ \A u \in AllThreads \ {Main} : pc'[u] = pc[u]
    BY Basics, OneMoves
  <2>2. QED BY <2>1, Basics
<1>2. UNCHANGED <<thread, threads, allocated>>
  BY DEF records
<1>3. ThreadTyped' /\ GuestTyped' /\ CallsTyped' /\ HeapOwned'
  BY <1>2, GuestKept, HeapKept DEF Inv, Typed, ThreadTyped
<1>4. ControlTyped'
  BY Basics DEF Inv, Typed, ControlTyped, Points, InGuest, Ending, Reaping
<1>5. Places'
  BY <1>1, Basics DEF Inv, Typed, ControlTyped, Places, InGuest, Ending, Reaping
<1>6. Lives' /\ Phases' /\ Quiet'
  BY <1>1, <1>2 DEF Inv, Typed, TableTyped, Lives, Phases, Quiet, guest
<1>7. \A u \in AllThreads : ~ Claims(Main) /\ ~ Claims(Main)' /\ (u # Main => pc'[u] = pc[u])
  BY <1>1, Basics DEF Claims
<1>8. Claimed'
  BY <1>1, <1>2, <1>7, Basics, ClaimsKept DEF Inv, Typed, TableTyped
<1>9. ActiveJoinsExact'
  BY <1>1, Basics, JoinsKept DEF Inv
<1>10. QED BY <1>3, <1>4, <1>5, <1>6, <1>8, <1>9 DEF Inv, Typed

LEMMA MainIdle == ASSUME Inv, pc[Main] # "run" PROVE depth[Main] = 0
BY Basics DEF Inv, Typed, CallsTyped, Places

LEMMA BeginDestructStep == ASSUME Inv, BeginDestruct PROVE Inv'
<1>1. /\ TableTyped' /\ process'.next_tid = process.next_tid
      /\ process'.active_joins = process.active_joins
  BY DEF Inv, Typed, TableTyped, BeginDestruct, records
<1>2. QED BY <1>1, MainMoves DEF BeginDestruct, Goto

\* Shutting the table down sends every waiter back to the guest.
LEMMA ShutdownTableStep == ASSUME Inv, ShutdownTable PROVE Inv'
<1>1. /\ pc[Main] = "shut_table" /\ process' = [process EXCEPT !.waits = FALSE]
      /\ then' = [then EXCEPT ![Main] = "workers"]
      /\ UNCHANGED <<thread, threads, allocated, tid, target, guest, heap, depth, ops, got>>
  BY DEF ShutdownTable, records
<1>2. /\ pc'[Main] = "reap"
      /\ \A w \in Workers : pc'[w] = IF pc[w] = "addr_wait" THEN "run" ELSE pc[w]
  BY Basics DEF ShutdownTable, Released
<1>3. /\ ThreadTyped' /\ TableTyped' /\ process'.next_tid = process.next_tid
      /\ process'.active_joins = process.active_joins
  BY <1>1 DEF Inv, Typed, ThreadTyped, TableTyped
<1>4. GuestTyped' /\ CallsTyped' /\ HeapOwned'
  BY <1>1, GuestKept, HeapKept
<1>5. ControlTyped'
  BY <1>1, Basics DEF ShutdownTable, Inv, Typed, ControlTyped, Points, InGuest, Ending, Reaping
<1>6. Places'
  BY <1>1, <1>2, Basics DEF Inv, Typed, ControlTyped, CallsTyped, Places, InGuest, Ending, Reaping
<1>7. Lives' /\ Quiet'
  BY <1>1, <1>2, <1>3 DEF Inv, Typed, TableTyped, Lives, Quiet, InGuest
<1>8. Phases'
  BY <1>1, <1>2 DEF Inv, Phases, guest
<1>9. \A u \in AllThreads : Claims(u) \/ Claims(u)' => pc'[u] = pc[u]
  BY <1>1, <1>2, Basics DEF Claims
<1>10. Claimed'
  BY <1>1, <1>2, <1>9, Basics, ClaimsKept DEF Inv, Typed, TableTyped
<1>11. ActiveJoinsExact'
  BY <1>1, <1>2, <1>3, Basics, JoinsKept DEF Inv
<1>12. QED BY <1>3, <1>4, <1>5, <1>6, <1>7, <1>8, <1>10, <1>11 DEF Inv, Typed

\* The wait for the workers ends when the table names none that is under way:
\* then none is, for a worker under way is in the table.
LEMMA CheckWorkersStep == ASSUME Inv, CheckWorkers PROVE Inv'
<1>1. /\ pc[Main] = "workers" /\ depth[Main] = 0
      /\ UNCHANGED <<records, process, tid, target, guest, heap, depth, ops, got>>
  BY MainIdle DEF CheckWorkers
<1>2. TableTyped'
  BY <1>1, TableKept
<1>3. CASE ReapThen(Main, "workers")
  BY <1>1, <1>2, <1>3, MainMoves DEF ReapThen, Goto
<1>4. CASE (\A w \in threads : ~ Pending(w)) /\ Goto(Main, "joins") /\ UNCHANGED then
  <2>1. \A w \in Workers : pc[w] \in {"none", "finished", "ended"}
    BY <1>4 DEF Inv, Places, Lives, Pending
  <2>2. QED BY <1>1, <1>2, <1>4, <2>1, MainMoves DEF Goto
<1>5. QED BY <1>3, <1>4 DEF CheckWorkers

LEMMA CheckJoinsStep == ASSUME Inv, CheckJoins PROVE Inv'
<1>1. /\ pc[Main] = "joins" /\ depth[Main] = 0
      /\ UNCHANGED <<records, process, then, tid, target, guest, heap, depth, ops, got>>
      /\ \A w \in Workers : pc[w] \in {"none", "finished", "ended"}
  BY MainIdle DEF CheckJoins, Inv, Quiet
<1>2. TableTyped'
  BY <1>1, TableKept
<1>3. QED BY <1>1, <1>2, MainMoves DEF CheckJoins, Goto

\* What cannot be drained is nothing: only a join in progress keeps a record
\* from it, and nobody joins any more.
LEMMA DrainStep == ASSUME Inv, Drain PROVE Inv'
<1>1. /\ pc[Main] = "drain" /\ depth[Main] = 0
      /\ UNCHANGED <<thread, allocated, process, then, tid, guest, heap, depth, ops, got>>
      /\ \A w \in Workers : pc[w] \in {"none", "finished", "ended"}
  BY MainIdle DEF Drain, Inv, Quiet
<1>2. CASE Drainable # {}
  <2>1. Drainable \subseteq threads /\ threads \subseteq Workers
    BY DEF Drainable, Inv, Typed, TableTyped
  <2>2. Min(Drainable) \in Drainable
    BY <1>2, <2>1, FirstOne
  <2>3. PICK w \in threads : /\ ~ thread[w].join_in_progress
                             /\ threads' = threads \ {w} /\ target' = [target EXCEPT ![Main] = w]
    BY <1>2, <2>2 DEF Drain, Drainable
  <2>4. pc[w] \in {"finished", "ended"}
    BY <1>1, <2>1, <2>3 DEF Inv, Lives
  <2>5. pc' = [pc EXCEPT ![Main] = "drain_join"]
    BY <1>2 DEF Drain, Goto
  <2>6. QED BY <1>1, <2>3, <2>4, <2>5, Basics, TakesOut
<1>3. CASE Drainable = {}
  <2>1. \A t \in AllThreads : pc[t] # "join_wait"
    BY <1>1, Basics
  <2>2. threads = {}
    BY <1>3, <2>1 DEF Drainable, Inv, Lives, Claimed, Marks
  <2>3. threads' = threads /\ pc' = [pc EXCEPT ![Main] = "clear"] /\ UNCHANGED target
    BY <1>3, <2>2 DEF Drain, Goto
  <2>4. UNCHANGED records /\ TableTyped'
    BY <1>1, <2>3 DEF records, Inv, Typed, TableTyped
  <2>5. QED BY <1>1, <2>2, <2>3, <2>4, MainMoves
<1>4. QED BY <1>2, <1>3

LEMMA DrainFreeStep == ASSUME Inv, DrainFree PROVE Inv'
BY Basics, GivesBack DEF DrainFree, Goto

LEMMA DestroyProcessStep == ASSUME Inv, DestroyProcess PROVE Inv'
<1>1. /\ TableTyped' /\ process'.next_tid = process.next_tid
      /\ process'.active_joins = process.active_joins
  BY DEF Inv, Typed, TableTyped, DestroyProcess, records
<1>2. /\ pc[Main] = "clear" /\ depth[Main] = 0 /\ threads = {}
      /\ \A w \in Workers : pc[w] \in {"none", "finished", "ended"}
  BY MainIdle DEF DestroyProcess, Inv, Quiet
<1>3. QED BY <1>1, <1>2, MainMoves DEF DestroyProcess, Goto

-----------------------------------------------------------------------------
\* The invariant.

LEMMA InitInv == Init => Inv
<1> SUFFICES ASSUME Init PROVE Inv
  OBVIOUS
<1>1. /\ \A w \in Workers : /\ pc[w] = "none" /\ phase[w] = "init" /\ ~ thread[w].tls_fini_done
                            /\ finis[w] = 0 /\ left[w] = "zero" /\ got[w] = "zero"
      /\ pc[Main] = "run" /\ threads = {} /\ allocated = {} /\ heap = None
      /\ \A t \in AllThreads : then[t] = "run" /\ depth[t] = 0 /\ ops[t] = 0
  BY Basics DEF Init, NewGuestThread
<1>2. ThreadTyped
  <2>1. NewGuestThread \in GuestThread
    BY DEF NewGuestThread, GuestThread, Codes
  <2>2. [NewGuestThread EXCEPT !.host_thread_valid = FALSE] \in GuestThread
    BY <2>1 DEF GuestThread
  <2>3. QED BY <2>2 DEF Init, ThreadTyped
<1>3. TableTyped /\ ControlTyped /\ GuestTyped
  BY Basics DEF Init, TableTyped, ControlTyped, GuestTyped, Points, InGuest, Codes
<1>4. CallsTyped /\ HeapOwned
  BY <1>1, Basics DEF Init, CallsTyped, HeapOwned
<1>5. Places /\ Lives /\ Phases /\ Quiet
  BY <1>1, Basics DEF Places, Lives, Phases, Quiet, InGuest, Ending, Reaping, Joining
<1>6. \A t \in AllThreads : pc[t] \in {"run", "none"}
  BY <1>1, Basics
<1>7. Claimed
  BY <1>1, <1>6 DEF Claimed, Marks, Takers, OneTaker, NoRecordLost, Claims
<1>8. ActiveJoinsExact
  <2>1. {t \in AllThreads : pc[t] = "join_wait"} = {}
    BY <1>6
  <2>2. QED BY <2>1, FS_EmptySet DEF Init, ActiveJoinsExact
<1>9. QED BY <1>2, <1>3, <1>4, <1>5, <1>7, <1>8 DEF Inv, Typed

LEMMA StutterInv == Inv /\ UNCHANGED vars => Inv'
BY DEF vars, records, guest, Inv, Typed, ThreadTyped, TableTyped, ControlTyped, GuestTyped,
       CallsTyped, Places, Lives, Claimed, Marks, Takers, OneTaker, NoRecordLost, Claims, Phases,
       HeapOwned, Quiet, ActiveJoinsExact

LEMMA NextInv == Inv /\ [Next]_vars => Inv'
<1> SUFFICES ASSUME Inv, [Next]_vars PROVE Inv'
  OBVIOUS
<1>1. ASSUME NEW t \in AllThreads, CallStep(t) PROVE Inv'
  BY <1>1, ReapStep, ReapFreeStep, JoinClaimStep, JoinFinishStep, JoinFreeStep, DetachMarkStep,
     HeapAcquireStep DEF CallStep
<1>2. ASSUME NEW t \in AllThreads, GuestCall(t) PROVE Inv'
  BY <1>2, ThreadCreateStep, ThreadJoinStep, ThreadDetachStep, AddrWaitStep, AddrWakeStep,
     HeapLockStep, HeapUnlockStep DEF GuestCall
<1>3. ASSUME NEW w \in Workers, WorkerStep(w) \/ ThreadExit(w) \/ ExitInFini(w) PROVE Inv'
  BY <1>3, HostEntryStep, InitReturnsStep, FunctionReturnsStep, FinishSteps, HostEndsStep,
     ThreadExitStep DEF WorkerStep
<1>4. ASSUME BeginDestruct \/ DestructStep PROVE Inv'
  BY <1>4, BeginDestructStep, ShutdownTableStep, CheckWorkersStep, CheckJoinsStep, DrainStep,
     DrainFreeStep, DestroyProcessStep DEF DestructStep
<1>5. ASSUME UNCHANGED vars \/ Gone PROVE Inv'
  BY <1>5, StutterInv DEF Gone
<1>6. QED BY <1>1, <1>2, <1>3, <1>4, <1>5 DEF Next

LEMMA Invariance == Spec => []Inv
BY InitInv, NextInv, PTL DEF Spec

-----------------------------------------------------------------------------
\* The properties.

LEMMA InvTypeOK == Inv => TypeOK
BY DEF Inv, Typed, TypeOK, ThreadTyped, TableTyped, ControlTyped, GuestTyped, CallsTyped, GuestThread

\* What the invariant says of the records.
LEMMA InvRecordsSafe == ASSUME Inv PROVE GuestRecordsSafe
<1>1. RecordsSafe
  <2>1. \A w \in Workers : pc[w] \notin {"none", "ended"} => w \in allocated
    BY DEF Inv, Places, Lives
  <2>2. \A t \in AllThreads : Claims(t) => target[t] \in allocated
    BY DEF Inv, Lives, Claimed, Takers, Claims
  <2>3. QED BY <2>1, <2>2 DEF Inv, Lives, Claimed, OneTaker, RecordsSafe
<1>2. QuietAfterWait
  <2> SUFFICES ASSUME pc[Main] \in {"joins", "drain", "drain_join", "clear", "end"}
               PROVE  /\ \A w \in Workers : pc[w] \in {"none", "finished", "ended"}
                      /\ process.active_joins = 0
    BY DEF QuietAfterWait
  <2>1. \A w \in Workers : pc[w] \in {"none", "finished", "ended"}
    BY DEF Inv, Quiet
  <2>2. {t \in AllThreads : pc[t] = "join_wait"} = {}
    BY <2>1, Basics
  <2>3. QED BY <2>1, <2>2, FS_EmptySet DEF Inv, ActiveJoinsExact
<1>3. QED BY <1>1, <1>2 DEF Inv, Claimed, GuestRecordsSafe

\* Nobody uses a record that was freed, none is freed by two or lost, the joins
\* are counted, and when the destruction has waited, no worker is in guest code
\* or in a call (x86_64_process.c, WaitForRunningWorkers and its callers).
THEOREM RecordsStaySafe == Spec => []GuestRecordsSafe
<1>1. Inv => GuestRecordsSafe
  BY InvRecordsSafe
<1>2. QED BY <1>1, Invariance, PTL

\* A worker's finalizer runs once and its exit code is what its function ended
\* with, whichever way out it takes; the heap lock is never with a thread that
\* has finished; and the end of the process leaves no host thread, no record
\* and no lock (GuestThreadHostEntry, X86_64ProcessRuntimeDestruct).
THEOREM ThreadsEndCleanly == Spec => []EndingsSafe
<1>1. Inv => FinalizedOnce
  BY DEF Inv, Typed, GuestTyped, Phases, FinalizedOnce
<1>2. Inv => HeapLockOwned
  BY Basics DEF Inv, Places, HeapOwned, HeapLockOwned
<1>3. Inv => CleanEnd
  <2> SUFFICES ASSUME Inv, pc[Main] = "end"
               PROVE  allocated = {} /\ heap = None /\ \A w \in Workers : pc[w] \in {"none", "ended"}
    BY DEF CleanEnd
  <2>1. \A t \in AllThreads : pc[t] \in {"none", "finished", "ended", "end"}
    BY Basics DEF Inv, Quiet
  <2>2. allocated = {}
    BY <2>1 DEF Inv, Quiet, Claimed, NoRecordLost, Claims
  <2>3. heap = None
    BY <2>1 DEF Inv, Typed, CallsTyped, HeapOwned, Places
  <2>4. \A w \in Workers : pc[w] \in {"none", "ended"}
    BY <2>1, <2>2, Basics DEF Inv, Places, Lives, InGuest, Ending
  <2>5. QED BY <2>2, <2>3, <2>4
<1>4. Inv => EndingsSafe
  BY <1>1, <1>2, <1>3, InvTypeOK DEF EndingsSafe
<1>5. QED BY <1>4, Invariance, PTL
=============================================================================
