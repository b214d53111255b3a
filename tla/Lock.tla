-------------------------------- MODULE Lock --------------------------------
(***************************************************************************)
(* What a mutex promises its clients: at most one holder, a depth that     *)
(* only the holder changes, and a lock that is free exactly when the depth *)
(* is back at zero.  Mutex implements it; Condition is built on it.        *)
(***************************************************************************)
EXTENDS Naturals

CONSTANTS Threads, NoThread

VARIABLES holder, depth

lvars == <<holder, depth>>

Init == holder = NoThread /\ depth = 0

Acquire(t) == holder = NoThread /\ holder' = t /\ depth' = 1

\* A recursive mutex only.
Reacquire(t) == holder = t /\ depth' = depth + 1 /\ UNCHANGED holder

ReleaseInner(t) == holder = t /\ depth > 1 /\ depth' = depth - 1 /\ UNCHANGED holder

Release(t) == holder = t /\ depth = 1 /\ holder' = NoThread /\ depth' = 0

Next ==
    \E t \in Threads : Acquire(t) \/ Reacquire(t) \/ ReleaseInner(t) \/ Release(t)

Spec == Init /\ [][Next]_lvars
=============================================================================
