------------------------------ MODULE StopToken ------------------------------
(***************************************************************************)
(* libc/include/stop_token: one stop state, its sources, callbacks that    *)
(* threads construct and destroy, and the request that runs them.  The     *)
(* request pops one callback at a time, runs it without the mutex with an  *)
(* execution frame on its own stack, and a thread that destroys a callback *)
(* meanwhile waits in that frame.  A callback may do nothing, destroy      *)
(* itself, destroy another, or destroy every source.  The sources are one  *)
(* object of the program that any callback may destroy.                    *)
(***************************************************************************)
EXTENDS Integers, Sequences, FiniteSets

CONSTANTS
    Threads,
    Callbacks,
    NoOne,
    DropInline,     \* a callback called by its own constructor destroys sources too
    MaxBuilt        \* bound: constructions of callbacks in all

\* What is assumed of the constants.
StopTokenConstants ==
    /\ NoOne \notin Threads \cup Callbacks /\ MaxBuilt \in Nat
    /\ IsFiniteSet(Threads) /\ IsFiniteSet(Callbacks)

VARIABLES
    references,     \* of the state; it is deleted at 0
    sources,        \* the stop_source exists
    requested,
    list,           \* __callbacks
    alive,          \* callbacks whose memory is there
    registered,
    execution,      \* [Callbacks -> Threads \cup {NoOne}]: whose frame is in __execution
    frame,          \* the requester's execution frame
    pc,
    cb,             \* the callback each thread is about (constructs, destroys, runs)
    victim,         \* the callback a running callback destroys
    callees,        \* callbacks called since their construction
    built,
    called,         \* a callback was called that had been destroyed or called before
    unheard         \* callbacks whose constructor found no request and no source

vars == <<references, sources, requested, list, alive, registered, execution,
          frame, pc, cb, victim, callees, built, called, unheard>>

NoFrame == [running |-> FALSE, ownerDestroyed |-> FALSE, waiters |-> 0, exists |-> FALSE]

Init ==
    /\ references = 1 /\ sources = TRUE /\ requested = FALSE /\ list = << >>
    /\ alive = {} /\ registered = {}
    /\ execution = [c \in Callbacks |-> NoOne] /\ frame = NoFrame
    /\ pc = [t \in Threads |-> "idle"] /\ cb = [t \in Threads |-> NoOne]
    /\ victim = NoOne /\ callees = {} /\ built = 0 /\ called = FALSE
    /\ unheard = {}

Goto(t, p) == pc' = [pc EXCEPT ![t] = p]

Deleted == references = 0

Requesting(t) ==
    pc[t] \in {"addref", "lock", "call", "body", "after", "clear", "stop", "drain", "asleep",
              "unref"}

-----------------------------------------------------------------------------
\* Construction: get_token, then the constructor, then the token is destroyed.

Token(t) ==
    /\ pc[t] = "idle" /\ sources /\ built < MaxBuilt
    /\ \E c \in Callbacks \ (alive \cup {cb[u] : u \in Threads}) : cb' = [cb EXCEPT ![t] = c]
    /\ references' = references + 1 /\ built' = built + 1
    /\ Goto(t, "construct")
    /\ UNCHANGED <<sources, requested, list, alive, registered, execution, frame,
                   victim, callees, called, unheard>>

\* stop_callback's reference, and __state_stop_possible: the load of __requested ...
Construct(t) ==
    /\ pc[t] = "construct"
    /\ references' = references + 1 /\ alive' = alive \cup {cb[t]}
    /\ callees' = callees \ {cb[t]} /\ execution' = [execution EXCEPT ![cb[t]] = NoOne]
    /\ unheard' = unheard \ {cb[t]}
    /\ Goto(t, IF requested THEN "register" ELSE "sources")
    /\ UNCHANGED <<sources, requested, list, registered, frame, cb, victim, built, called>>

\* ... and then that of __sources; a request may come and go in between.
LoadSources(t) ==
    /\ pc[t] = "sources"
    /\ IF sources THEN Goto(t, "register") /\ UNCHANGED unheard
       ELSE Goto(t, "untoken") /\ unheard' = unheard \cup {cb[t]}
    /\ UNCHANGED <<references, sources, requested, list, alive, registered, execution,
                   frame, cb, victim, callees, built, called>>

\* Seeded fault: the request is looked for before the mutex is taken.
RegisterUnchecked(t) ==
    /\ pc[t] = "register"
    /\ list' = <<cb[t]>> \o list /\ registered' = registered \cup {cb[t]} /\ Goto(t, "untoken")
    /\ UNCHANGED <<references, sources, requested, alive, execution, frame, cb,
                   victim, callees, built, called, unheard>>

\* __register_callback's locked section.
Register(t) ==
    /\ pc[t] = "register"
    /\ IF requested THEN Goto(t, "inline") /\ UNCHANGED <<list, registered>>
       ELSE /\ list' = <<cb[t]>> \o list /\ registered' = registered \cup {cb[t]}
            /\ Goto(t, "untoken")
    /\ UNCHANGED <<references, sources, requested, alive, execution, frame, cb,
                   victim, callees, built, called, unheard>>

\* Calls of c: a flag remembers one that should not have been.
CallOf(c) ==
    callees' = callees \cup {c} /\ called' = (called \/ c \in callees \/ c \notin alive)

\* The reference of the source goes with it.
DropSources == sources /\ sources' = FALSE /\ references' = references - 1

Inline(t) ==
    /\ pc[t] = "inline" /\ CallOf(cb[t]) /\ Goto(t, "untoken")
    /\ (DropInline /\ DropSources) \/ UNCHANGED <<sources, references>>
    /\ UNCHANGED <<requested, list, alive, registered, execution, frame, cb,
                   victim, built, unheard>>

Untoken(t) ==
    /\ pc[t] = "untoken"
    /\ references' = references - 1 /\ Goto(t, "idle") /\ cb' = [cb EXCEPT ![t] = NoOne]
    /\ UNCHANGED <<sources, requested, list, alive, registered, execution, frame,
                   victim, callees, built, called, unheard>>

-----------------------------------------------------------------------------
\* Destruction.

\* A thread destroys a callback that no other thread constructs or destroys.
Destroy(t) ==
    /\ pc[t] = "idle"
    /\ \E c \in alive :
          /\ \A u \in Threads : cb[u] = c => Requesting(u)
          /\ c # victim
          /\ cb' = [cb EXCEPT ![t] = c]
    /\ Goto(t, "unregister")
    /\ UNCHANGED <<references, sources, requested, list, alive, registered,
                   execution, frame, victim, callees, built, called, unheard>>

\* The list without c's node, which the walk along the links looks for if c is
\* marked as registered.
Unlinked(c) ==
    LET at == {i \in 1 .. Len(list) : list[i] = c}
        i  == CHOOSE j \in at : TRUE
    IN  IF c \in registered /\ at # {}
        THEN [j \in 1 .. Len(list) - 1 |-> IF j < i THEN list[j] ELSE list[j + 1]]
        ELSE list

\* Seeded fault: the destroyer does not look whether the callback is running.
UnregisterOnly(t) ==
    /\ pc[t] = "unregister"
    /\ list' = Unlinked(cb[t]) /\ registered' = registered \ {cb[t]}
    /\ Goto(t, "unreference") /\ UNCHANGED frame
    /\ UNCHANGED <<references, sources, requested, alive, execution, cb, victim,
                   callees, built, called, unheard>>

\* __unregister_callback's locked section, on a thread other than the frame's.
Unregister(t) ==
    /\ pc[t] = "unregister"
    /\ list' = Unlinked(cb[t]) /\ registered' = registered \ {cb[t]}
    /\ IF execution[cb[t]] = NoOne THEN Goto(t, "unreference") /\ UNCHANGED frame
       ELSE /\ frame' = [frame EXCEPT !.waiters = @ + 1]
            /\ Goto(t, "await")
    /\ UNCHANGED <<references, sources, requested, alive, execution, cb, victim,
                   callees, built, called, unheard>>

\* Seeded fault: a waiter does not count itself off.
AwaitKeeps(t) ==
    /\ pc[t] = "await" /\ ~frame.running /\ Goto(t, "unreference")
    /\ UNCHANGED <<references, sources, requested, list, alive, registered, execution,
                   frame, cb, victim, callees, built, called, unheard>>

\* The wait for __running, and the waiter's subtraction from __waiters.
Await(t) ==
    /\ pc[t] = "await" /\ ~frame.running
    /\ frame' = [frame EXCEPT !.waiters = @ - 1]
    /\ Goto(t, IF frame.waiters = 1 THEN "notify" ELSE "unreference")
    /\ UNCHANGED <<references, sources, requested, list, alive, registered,
                   execution, cb, victim, callees, built, called, unheard>>

\* The last waiter's notify_all.  The requester may have left the frame already,
\* and only the frame's address is used: in a later frame at the same place the
\* requester wakes up and looks again.
NotifyWaiters(t) ==
    /\ pc[t] = "notify"
    /\ pc' = [u \in Threads |-> IF u = t THEN "unreference"
                                ELSE IF pc[u] = "asleep" THEN "drain" ELSE pc[u]]
    /\ UNCHANGED <<references, sources, requested, list, alive, registered, execution,
                   frame, cb, victim, callees, built, called, unheard>>

\* ~stop_callback's last step: the reference, and the memory.
Unreference(t) ==
    /\ pc[t] = "unreference"
    /\ references' = references - 1 /\ alive' = alive \ {cb[t]}
    /\ Goto(t, "idle") /\ cb' = [cb EXCEPT ![t] = NoOne]
    /\ UNCHANGED <<sources, requested, list, registered, execution, frame, victim,
                   callees, built, called, unheard>>

\* The program destroys its sources while it does nothing else with them.
DestroySources(t) ==
    /\ pc[t] = "idle" /\ (\A u \in Threads : ~Requesting(u)) /\ DropSources
    /\ UNCHANGED <<requested, list, alive, registered, execution, frame, pc, cb,
                   victim, callees, built, called, unheard>>

-----------------------------------------------------------------------------
\* __request_stop.

Request(t) ==
    /\ pc[t] = "idle" /\ sources /\ ~requested
    /\ requested' = TRUE /\ Goto(t, "addref")
    /\ UNCHANGED <<references, sources, list, alive, registered, execution, frame,
                   cb, victim, callees, built, called, unheard>>

\* Seeded fault: the caller's source is trusted to outlive the call.
AddRefNone(t) ==
    /\ pc[t] = "addref" /\ Goto(t, "lock")
    /\ UNCHANGED <<references, sources, requested, list, alive, registered, execution,
                   frame, cb, victim, callees, built, called, unheard>>

AddRef(t) ==
    /\ pc[t] = "addref"
    /\ references' = references + 1 /\ Goto(t, "lock")
    /\ UNCHANGED <<sources, requested, list, alive, registered, execution, frame,
                   cb, victim, callees, built, called, unheard>>

\* The mutex is taken; a callback is popped and gets its frame, or all are done.
Pop(t) ==
    /\ pc[t] = "lock"
    /\ IF list = << >>
       THEN Goto(t, "unref") /\ UNCHANGED <<list, registered, execution, frame, cb>>
       ELSE LET c == Head(list)
            IN  /\ list' = Tail(list) /\ registered' = registered \ {c}
                /\ cb' = [cb EXCEPT ![t] = c]
                /\ frame' = [running |-> TRUE, ownerDestroyed |-> FALSE, waiters |-> 0,
                             exists |-> TRUE]
                /\ execution' = [execution EXCEPT ![c] = t]
                /\ Goto(t, "call")
    /\ UNCHANGED <<references, sources, requested, alive, victim, callees, built, called, unheard>>

\* The body of a callback that runs in the request.
Call(t) ==
    /\ pc[t] = "call" /\ CallOf(cb[t])
    /\ \/ Goto(t, "after") /\ UNCHANGED <<sources, references, victim>>
       \/ DropSources /\ Goto(t, "after") /\ UNCHANGED victim
       \/ /\ ~\E u \in Threads \ {t} : cb[u] = cb[t]
          /\ victim' = cb[t] /\ Goto(t, "body") /\ UNCHANGED <<sources, references>>
       \/ /\ \E c \in alive \ {cb[u] : u \in Threads} : victim' = c
          /\ Goto(t, "body") /\ UNCHANGED <<sources, references>>
    /\ UNCHANGED <<requested, list, alive, registered, execution, frame, cb, built, unheard>>

\* The body destroys a callback: itself, or another, which nobody can be running.
Body(t) ==
    /\ pc[t] = "body"
    /\ list' = Unlinked(victim) /\ registered' = registered \ {victim}
    /\ frame' = [frame EXCEPT !.ownerDestroyed = @ \/ execution[victim] = t]
    /\ references' = references - 1 /\ alive' = alive \ {victim}
    /\ victim' = NoOne /\ Goto(t, "after")
    /\ UNCHANGED <<sources, requested, execution, cb, callees, built, called, unheard>>

After(t) ==
    /\ pc[t] = "after" /\ Goto(t, IF frame.ownerDestroyed THEN "stop" ELSE "clear")
    /\ UNCHANGED <<references, sources, requested, list, alive, registered, execution,
                   frame, cb, victim, callees, built, called, unheard>>

Clear(t) ==
    /\ pc[t] = "clear"
    /\ execution' = [execution EXCEPT ![cb[t]] = NoOne] /\ Goto(t, "stop")
    /\ UNCHANGED <<references, sources, requested, list, alive, registered, frame,
                   cb, victim, callees, built, called, unheard>>

\* __running is cleared and its waiters woken.
StopRunning(t) ==
    /\ pc[t] = "stop" /\ frame' = [frame EXCEPT !.running = FALSE] /\ Goto(t, "drain")
    /\ UNCHANGED <<references, sources, requested, list, alive, registered, execution,
                   cb, victim, callees, built, called, unheard>>

\* Seeded fault: the frame goes while threads wait in it.
DrainNot(t) ==
    /\ pc[t] = "drain" /\ frame' = NoFrame
    /\ cb' = [cb EXCEPT ![t] = NoOne] /\ Goto(t, "lock")
    /\ UNCHANGED <<references, sources, requested, list, alive, registered, execution,
                   victim, callees, built, called, unheard>>

\* The requester leaves the frame when nobody waits in it, and sleeps on the
\* number of its waiters, which only falls, until it has changed.
Drain(t) ==
    /\ pc[t] = "drain"
    /\ IF frame.waiters = 0
       THEN frame' = NoFrame /\ cb' = [cb EXCEPT ![t] = NoOne] /\ Goto(t, "lock")
       ELSE Goto(t, "asleep") /\ UNCHANGED <<frame, cb>>
    /\ UNCHANGED <<references, sources, requested, list, alive, registered, execution,
                   victim, callees, built, called, unheard>>

\* A wait may return early.
EarlyReturn(t) ==
    /\ pc[t] = "asleep" /\ Goto(t, "drain")
    /\ UNCHANGED <<references, sources, requested, list, alive, registered, execution,
                   frame, cb, victim, callees, built, called, unheard>>

Unref(t) ==
    /\ pc[t] = "unref" /\ references' = references - 1 /\ Goto(t, "idle")
    /\ UNCHANGED <<sources, requested, list, alive, registered, execution, frame, cb,
                   victim, callees, built, called, unheard>>
-----------------------------------------------------------------------------
\* The steps of calls that have begun, and of callbacks' bodies.
Progress(t) ==
    \/ Construct(t) \/ LoadSources(t) \/ Register(t) \/ Inline(t) \/ Untoken(t)
    \/ Unregister(t) \/ Await(t) \/ NotifyWaiters(t) \/ Unreference(t)
    \/ AddRef(t) \/ Pop(t) \/ Call(t) \/ Body(t) \/ After(t) \/ Clear(t)
    \/ StopRunning(t) \/ Drain(t) \/ Unref(t)

Next == \E t \in Threads :
            \/ Progress(t) \/ EarlyReturn(t)
            \/ Token(t) \/ Destroy(t) \/ DestroySources(t) \/ Request(t)

Spec == Init /\ [][Next]_vars /\ \A t \in Threads : WF_vars(Progress(t))

-----------------------------------------------------------------------------
\* Properties.

\* Nobody uses the state after its last reference went ("Keep the state alive
\* independently until callback traversal and mutex use have finished").
StateOutlivesUse ==
    \A t \in Threads :
        pc[t] \in {"construct", "sources", "register", "untoken", "unregister", "unreference",
                  "addref", "lock", "body", "clear", "unref"} => references > 0

\* No callback is called, or touched by the request, after it was destroyed,
\* and its destructor does not return while another thread runs it; none is
\* called twice.
CallbackOutlivesCall ==
    /\ ~called
    /\ \A t \in Threads :
          /\ pc[t] \in {"call", "clear"} => cb[t] \in alive
          /\ pc[t] = "after" => cb[t] \in alive \/ frame.ownerDestroyed

\* A destroyer waits in the frame of the run it waits for, never in a later
\* one or in one that is gone.
FrameOutlivesWaiters ==
    \A t \in Threads : pc[t] = "await" =>
        frame.exists /\ \E u \in Threads : Requesting(u) /\ cb[u] = cb[t]

\* When the request has returned, every callback whose constructor has
\* returned was called, registered before it or not, unless its constructor
\* read __requested before the request and __sources after the last source
\* had gone.
NobodyMissed ==
    requested /\ (\A t \in Threads : ~Requesting(t)) =>
        \A c \in alive : c \in callees \cup unheard \/ \E t \in Threads : cb[t] = c

\* request_stop and the destructors that wait for it both return.
Waits(t) == pc[t] \in {"addref", "await"}
Idle(t) == pc[t] = "idle"
CallsReturn == \A t \in Threads : Waits(t) ~> Idle(t)

\* Lifetimes around request_stop, and nobody missed by it.
StopTokenSafe ==
    StateOutlivesUse /\ CallbackOutlivesCall /\ FrameOutlivesWaiters /\ NobodyMissed
=============================================================================
