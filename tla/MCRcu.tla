------------------------------- MODULE MCRcu -------------------------------
(***************************************************************************)
(* The RCU domain, and its shared mutex alone with all its calls, in one   *)
(* run: the initial state chooses which.                                   *)
(***************************************************************************)
EXTENDS Rcu

CONSTANTS w1, w2, r1, r2

VARIABLE component

\* Two writers and two readers, one writer reads too; every call is made.
MCCalls == (w1 :> {"lock"}) @@ (w2 :> Exclusive \cup {"lock_shared"})
           @@ (r1 :> Shared) @@ (r2 :> {"lock_shared"})

\* In the RCU domain one reader is enough, for the writers may wait for it twice.
MCMaxOps == (w1 :> 1) @@ (w2 :> 2) @@ (r1 :> 2) @@ (r2 :> 0)

MCInit == RcuInit /\ component \in {"rcu", "shared mutex"}

MCNext ==
    /\ \/ component = "rcu" /\ RcuNext
       \/ component = "shared mutex" /\ Next /\ UNCHANGED <<lockPart, depth, seen, ops>>
    /\ UNCHANGED component

\* Fairness is that of the two specifications.
Progress(t) ==
    /\ \/ component = "rcu" /\ (LockStep(t) \/ ReadUnlock(t) \/ BarrierStep(t))
       \/ /\ component = "shared mutex" /\ (Inside(t) \/ Unlock(t))
          /\ UNCHANGED <<lockPart, depth, seen, ops>>
    /\ UNCHANGED component

all == <<rcuVars, component>>
MCSpec == MCInit /\ [][MCNext]_all /\ \A t \in Threads : WF_all(Progress(t))
=============================================================================
