---------------------------- MODULE HazardPointer ----------------------------
(***************************************************************************)
(* Hazard pointers (libc/hazard_pointer.cc, libc/include/hazard_pointer):  *)
(* a registry of slots and of retired records under one mutex, each call's *)
(* locked section one step, and the reclaimers called after it.  Readers   *)
(* protect what a shared pointer holds; writers replace it and retire the  *)
(* old object, whose address may be used again once it was reclaimed.      *)
(***************************************************************************)
EXTENDS Integers, FiniteSets

CONSTANTS
    Readers, Writers,
    Addresses,          \* where objects can be
    Null,
    MaxOps              \* bound: calls each thread makes

\* What is assumed of the constants.
HazardPointerConstants ==
    Readers \cap Writers = {} /\ Null \notin Addresses /\ MaxOps \in Nat

AllThreads == Readers \cup Writers

VARIABLES
    source,     \* the atomic pointer that is shared
    live,       \* addresses with an object on them
    active,     \* readers that own a slot
    protection, \* what each slot protects
    retired,    \* the registry's retired records
    ready,      \* records each thread has taken off it and must reclaim
    pointer,    \* the local pointer of protect and of a writer
    pc, ops,
    freed       \* reclaims of an address without an object

vars == <<source, live, active, protection, retired, ready, pointer, pc, ops, freed>>

Init ==
    /\ \E a \in Addresses : source = a /\ live = {a}
    /\ active = {} /\ protection = [r \in Readers |-> Null]
    /\ retired = {} /\ ready = [t \in AllThreads |-> {}]
    /\ pointer = [t \in AllThreads |-> Null] /\ pc = [t \in AllThreads |-> "idle"]
    /\ ops = [t \in AllThreads |-> 0] /\ freed = FALSE

Goto(t, p) == pc' = [pc EXCEPT ![t] = p]

Count(t) == ops[t] < MaxOps /\ ops' = [ops EXCEPT ![t] = @ + 1]

IsProtected(a) == \E r \in active : protection[r] = a

\* __collect_ready: the records nobody protects, given who protects what.
Collected(act, prot) == {a \in retired : ~\E r \in act : prot[r] = a}

\* A locked section that sets r's slot and collects if it says so.
SetSlot(r, owns, a, collects) ==
    LET act  == IF owns THEN active \cup {r} ELSE active \ {r}
        prot == [protection EXCEPT ![r] = a]
        got  == IF collects THEN Collected(act, prot) ELSE {}
    IN  /\ active' = act /\ protection' = prot
        /\ retired' = retired \ got /\ ready' = [ready EXCEPT ![r] = @ \cup got]

\* make_hazard_pointer.
AcquireSlot(r) ==
    /\ pc[r] = "idle" /\ r \notin active /\ ready[r] = {} /\ Count(r)
    /\ SetSlot(r, TRUE, Null, FALSE)
    /\ UNCHANGED <<source, live, pointer, pc, freed>>

\* protect's first load; the reader may still be using what it protects.
Load(r) ==
    /\ pc[r] \in {"idle", "using"} /\ r \in active /\ ready[r] = {} /\ Count(r)
    /\ pointer' = [pointer EXCEPT ![r] = source]
    /\ Goto(r, "protect")
    /\ UNCHANGED <<source, live, active, protection, retired, ready, freed>>

\* try_protect's first __set_protection.
Protect(r) ==
    /\ pc[r] = "protect"
    /\ SetSlot(r, TRUE, pointer[r], pointer[r] = Null)
    /\ Goto(r, "validate")
    /\ UNCHANGED <<source, live, pointer, ops, freed>>

\* Seeded fault: the source is not read again.
ValidateNot(r) ==
    /\ pc[r] = "validate" /\ ready[r] = {}
    /\ Goto(r, IF pointer[r] = Null THEN "idle" ELSE "using")
    /\ UNCHANGED <<source, live, active, protection, retired, ready, pointer, ops, freed>>

Validate(r) ==
    /\ pc[r] = "validate" /\ ready[r] = {}
    /\ IF source = pointer[r]
       THEN Goto(r, IF source = Null THEN "idle" ELSE "using") /\ UNCHANGED pointer
       ELSE Goto(r, "unprotect") /\ pointer' = [pointer EXCEPT ![r] = source]
    /\ UNCHANGED <<source, live, active, protection, retired, ready, ops, freed>>

\* The failed attempt's __set_protection(nullptr); protect tries again.
Unprotect(r) ==
    /\ pc[r] = "unprotect"
    /\ SetSlot(r, TRUE, Null, TRUE)
    /\ Goto(r, "again")
    /\ UNCHANGED <<source, live, pointer, ops, freed>>

Again(r) ==
    /\ pc[r] = "again" /\ ready[r] = {} /\ Goto(r, "protect")
    /\ UNCHANGED <<source, live, active, protection, retired, ready, pointer, ops, freed>>

\* reset_protection.
Reset(r) ==
    /\ pc[r] = "using" /\ SetSlot(r, TRUE, Null, TRUE) /\ Goto(r, "idle")
    /\ UNCHANGED <<source, live, pointer, ops, freed>>

\* Seeded fault: a slot is given up without a look at the retired records.
ReleaseSlotOnly(r) ==
    /\ pc[r] \in {"idle", "using"} /\ r \in active /\ ready[r] = {}
    /\ SetSlot(r, FALSE, Null, FALSE) /\ Goto(r, "idle")
    /\ UNCHANGED <<source, live, pointer, ops, freed>>

\* The hazard_pointer is destroyed.
ReleaseSlot(r) ==
    /\ pc[r] \in {"idle", "using"} /\ r \in active /\ ready[r] = {}
    /\ SetSlot(r, FALSE, Null, TRUE) /\ Goto(r, "idle")
    /\ UNCHANGED <<source, live, pointer, ops, freed>>

\* A writer takes the object off the source and puts a new one, or none, there.
Exchange(w) ==
    /\ pc[w] = "idle" /\ ready[w] = {} /\ Count(w)
    /\ pointer' = [pointer EXCEPT ![w] = source]
    /\ \E new \in (Addresses \ live) \cup {Null} :
          source' = new /\ live' = live \cup ({new} \ {Null})
    /\ Goto(w, IF source = Null THEN "idle" ELSE "retire")
    /\ UNCHANGED <<active, protection, retired, ready, freed>>

\* Seeded fault: what was protected is also reclaimed at once.
RetireBoth(w) ==
    /\ pc[w] = "retire"
    /\ retired' = IF IsProtected(pointer[w]) THEN retired \cup {pointer[w]} ELSE retired
    /\ ready' = [ready EXCEPT ![w] = {pointer[w]}]
    /\ Goto(w, "idle")
    /\ UNCHANGED <<source, live, active, protection, pointer, ops, freed>>

Retire(w) ==
    /\ pc[w] = "retire"
    /\ IF IsProtected(pointer[w])
       THEN retired' = retired \cup {pointer[w]} /\ UNCHANGED ready
       ELSE ready' = [ready EXCEPT ![w] = {pointer[w]}] /\ UNCHANGED retired
    /\ Goto(w, "idle")
    /\ UNCHANGED <<source, live, active, protection, pointer, ops, freed>>

\* A reclaimer runs, outside the lock.
Reclaim(t) ==
    \E a \in ready[t] :
        /\ ready' = [ready EXCEPT ![t] = @ \ {a}]
        /\ live' = live \ {a} /\ freed' = (freed \/ a \notin live)
        /\ UNCHANGED <<source, active, protection, retired, pointer, pc, ops>>

Next ==
    \/ \E r \in Readers :
          AcquireSlot(r) \/ Load(r) \/ Protect(r) \/ Validate(r) \/ Unprotect(r)
          \/ Again(r) \/ Reset(r) \/ ReleaseSlot(r)
    \/ \E w \in Writers : Exchange(w) \/ Retire(w)
    \/ \E t \in AllThreads : Reclaim(t)

Spec == Init /\ [][Next]_vars

-----------------------------------------------------------------------------
\* Properties.

\* What a reader has protected and validated is not reclaimed under it, also
\* not when its address was reclaimed before and used for a new object.
ProtectedIsLive == \A r \in Readers : pc[r] = "using" => pointer[r] \in live

\* Every retired object is reclaimed by one thread, once.
ReclaimedOnce ==
    /\ ~freed
    /\ \A t \in AllThreads : ready[t] \cap retired = {}
    /\ \A t, u \in AllThreads : t # u => ready[t] \cap ready[u] = {}

\* A record stays retired only while some slot protects something: the last
\* one to let go has reclaimed all there was (there is no other sweep).
RetiredIsHeldUp == retired # {} => \E r \in active : protection[r] # Null

\* What hazard pointers promise both sides: readers are safe, and what is
\* retired goes, once (hazard_pointer.cc).
HazardPointersSafe == ProtectedIsLive /\ ReclaimedOnce /\ RetiredIsHeldUp
=============================================================================
