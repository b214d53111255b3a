------------------------------- MODULE RwLock -------------------------------
(***************************************************************************)
(* What a readers-writer lock promises: any number of readers or a single  *)
(* writer, and nobody who holds it holds it in both ways.                  *)
(***************************************************************************)
CONSTANT Threads
VARIABLES shared, exclusive

vars == <<shared, exclusive>>

Init == shared = {} /\ exclusive = {}

LockShared(t) == exclusive = {} /\ shared' = shared \cup {t} /\ UNCHANGED exclusive
Lock(t) == shared = {} /\ exclusive = {} /\ exclusive' = {t} /\ UNCHANGED shared
Unlock(t) == shared' = shared \ {t} /\ exclusive' = exclusive \ {t}

Next == \E t \in Threads : LockShared(t) \/ Lock(t) \/ Unlock(t)

Spec == Init /\ [][Next]_vars
=============================================================================
